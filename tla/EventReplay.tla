---------------------------- MODULE EventReplay ----------------------------
(***************************************************************************)
(* Replay of the event log: the strict fold of one fact's stream, the same *)
(* fold under an epistemic policy (whatif), the fold of the events up to   *)
(* an instant (as-of reads), and what they promise about each other.       *)
(***************************************************************************)
EXTENDS EventStore, FactReplay

CONSTANT Policies  \* the epistemic policies asked about

ASSUME PoliciesAssumption ==
  Policies \subseteq [distrusted : SUBSET Sources, authority_floor : Levels,
                      confidence_floor : Nat]

\* EpistemicPolicy::identity.
IdentityPolicy ==
  [distrusted |-> {}, authority_floor |-> 0, confidence_floor |-> 0]

AffectsBelief(kind) == kind = "Asserted" \/ kind \in NamingKinds

\* EpistemicPolicy::admits.
Admits(policy, e) ==
  /\ e.source \notin policy.distrusted
  /\ AffectsBelief(e.kind) =>
       /\ e.level >= policy.authority_floor
       /\ e.confidence >= policy.confidence_floor

\* The events of a stream that a policy admits.
AdmittedBy(policy, stream) ==
  EventsAt(stream, {i \in DOMAIN stream : Admits(policy, stream[i])})

\* Mutant: a stream whose assertion was filtered out is folded all the same.
FoldFactStrict(stream, policy) == FoldEvents(AdmittedBy(policy, stream))

\* fold_fact: events the policy does not admit never happened; a stream whose
\* assertion was filtered out is absent rather than malformed.
FoldFact(stream, policy) ==
  LET kept == AdmittedBy(policy, stream)
      assertion_filtered ==
        \E i \in DOMAIN stream : stream[i].kind = "Asserted"
                                   /\ ~Admits(policy, stream[i])
  IN IF assertion_filtered /\ kept # <<>> /\ kept[1].kind # "Asserted"
     THEN NoState
     ELSE FoldEvents(kept)

ReplayFact(l, f, policy) == FoldFact(StreamOf(l, f), policy)

\* scan_events of a subject and predicate.
ScanEvents(l, shape) == EventsAt(l, {i \in DOMAIN l : l[i].shape = shape})

\* replay_subject_with_policy: every stream of the events folded under the
\* policy; facts the policy filters out are absent, one failing fold fails all.
ReplaySubject(events, policy) ==
  LET facts == {events[i].fact : i \in DOMAIN events}
  IN [ failed |-> \E f \in facts : ReplayFact(events, f, policy) = ReplayError,
       states |-> [f \in {g \in facts : ReplayFact(events, g, policy) # NoState} |->
                     ReplayFact(events, f, policy)] ]

\* The fields of two folds of one stream that diff_states compares.
Compared == {"lifecycle", "value", "superseded_by", "contradicted_by", "evidence_count"}

\* diff_states of fact f between two subject projections.
DiffStates(base, cf, f) ==
  IF f \notin DOMAIN cf THEN [kind |-> "Disappeared", changed |-> {}]
  ELSE IF f \notin DOMAIN base THEN [kind |-> "Appeared", changed |-> {}]
  ELSE LET changed == {k \in Compared : base[f][k] # cf[f][k]}
       IN [kind |-> IF changed = {} THEN "Unchanged" ELSE "Changed", changed |-> changed]

\* op_whatif: the stream of a subject folded as it is and under the policy,
\* and the facts on which the two differ.
Whatif(l, shape, policy) ==
  LET events == ScanEvents(l, shape)
      base == ReplaySubject(events, IdentityPolicy)
      cf == ReplaySubject(events, policy)
  IN IF base.failed \/ cf.failed THEN [failed |-> TRUE]
     ELSE LET facts == DOMAIN base.states \cup DOMAIN cf.states
              diff(f) == DiffStates(base.states, cf.states, f)
          IN [ failed |-> FALSE, base |-> base.states, counterfactual |-> cf.states,
               diffs |-> [f \in {g \in facts : diff(g).kind # "Unchanged"} |-> diff(f)] ]

\* Mutant: an as-of read takes the log up to the last event recorded by then.
AsOfPrefix(l, at) ==
  LET last == {i \in DOMAIN l : l[i].recorded_at <= at}
  IN EventsAt(l, {i \in DOMAIN l : \E j \in last : i <= j})

\* ReadClock::store: the events recorded by the instant, whatever their place in
\* the log, reloaded without arbitration.
AsOf(l, at) == EventsAt(l, {i \in DOMAIN l : l[i].recorded_at <= at})

\* explain_with: the receipt of one fact of a store.
ExplainWith(l, f, now) ==
  LET state == FoldEvents(StreamOf(l, f))
  IN IF state \in {NoState, ReplayError} THEN state
     ELSE [ value |-> state.value, lifecycle |-> state.lifecycle, level |-> state.level,
            fresh |-> IsFreshAt(state, now), not_yet_valid |-> IsNotYetValidAt(state, now),
            evidence_count |-> state.evidence_count,
            earned |-> EarnedEntrenchment(state, state.level),
            superseded_by |-> state.superseded_by, contradicted_by |-> state.contradicted_by,
            replay_position |-> CHOOSE i \in DOMAIN l :
              l[i].fact = f /\ \A j \in DOMAIN l : l[j].fact = f => j <= i ]

-----------------------------------------------------------------------------

\* verify_projection.
VerifyProjection(f) == FoldEvents(StreamOf(log, f)) = proj[f]

\* adapter.rs verify_projection, "projection == fold(log)": the projection
\* maintained event by event through commits and rollbacks equals replaying
\* the committed log from nothing, and replay never errors on it.
ReplayAgrees == \A f \in Facts : VerifyProjection(f)

\* lib.rs replay_subject_with_policy, ops.rs op_whatif: no choice of trust
\* assumptions makes an admitted log fail to replay, and distrust only takes
\* events away: a counterfactual can revive or lose a fact but never invents
\* one, nor closes, contests or strengthens one that stands; trusting everyone
\* shows no difference.
DistrustOnlyWeakens ==
  \A shape \in Shapes, p \in Policies :
    LET w == Whatif(log, shape, p)
    IN /\ ~w.failed
       /\ p = IdentityPolicy => w.diffs = <<>>
       /\ \A f \in DOMAIN w.diffs : w.diffs[f].kind # "Appeared"
       /\ \A f \in DOMAIN w.counterfactual :
            LET cf == w.counterfactual[f]
                base == w.base[f]
            IN /\ cf.value = base.value /\ cf.level = base.level
               /\ cf.lifecycle \in Terminal =>
                    cf.lifecycle = base.lifecycle /\ cf.superseded_by = base.superseded_by
               /\ cf.lifecycle = "Contested" => base.lifecycle # "Active"
               /\ cf.contradicted_by \subseteq base.contradicted_by
               /\ \A l \in Levels : EarnedEntrenchment(cf, l) <= EarnedEntrenchment(base, l)

\* ops.rs ReadClock::store, which trusts the writers' clocks: a receipt of the
\* past holds nothing the present one does not bear out, however the clocks
\* ordered the log. The value and rank are the fact's own, a fact closed then is
\* closed the same way now, and its support and its place in the log have only
\* grown; there is a receipt exactly of the facts whose assertion is dated by
\* then, so a read fails only where a later date precedes an earlier one.
AsOfNeverInvents ==
  \A f \in Facts, at \in {log[i].recorded_at : i \in DOMAIN log} :
    LET past == ExplainWith(AsOf(log, at), f, at)
        present == ExplainWith(log, f, at)
        asserted_by_then ==
          \E i \in DOMAIN log : AssertedAt(log, i, f) /\ log[i].recorded_at <= at
    IN IF past \in {NoState, ReplayError} THEN ~asserted_by_then
       ELSE /\ asserted_by_then
            /\ past.value = present.value /\ past.level = present.level
            /\ past.lifecycle \in Terminal =>
                 past.lifecycle = present.lifecycle /\ past.superseded_by = present.superseded_by
            /\ past.contradicted_by \subseteq present.contradicted_by
            /\ past.evidence_count <= present.evidence_count
            /\ past.earned <= present.earned
            /\ past.replay_position <= present.replay_position
=============================================================================
