------------------------------ MODULE OpEvents ------------------------------
(***************************************************************************)
(* What a belief operation decides. Given a snapshot p of the store, the   *)
(* first event number n reserved for it and the time t it read, an         *)
(* operation builds a batch: one event per fact it touches, a new fact     *)
(* asserted first. The batch is persisted whole if every event of it is    *)
(* admitted to a working copy of p, else not at all. These are pure        *)
(* functions of the snapshot: WriteOps applies them to the store itself,   *)
(* ConcurrentWriters to a snapshot the store may have moved past.          *)
(*                                                                         *)
(* A fact is named by the number of the event that asserts it, as in       *)
(* fact:{kind}:{key}:{predicate}:{seq}. FactIds are ordered as text, which *)
(* is the order of the numbers up to 9.                                    *)
(***************************************************************************)
EXTENDS PredicateRegistry

CONSTANTS
  EntrenchmentGate,  \* DENT8_ENTRENCHMENT_GATE
  RecordChallenges   \* DENT8_RECORD_CHALLENGES

ASSUME FactsAreEventNumbers == Facts \subseteq Nat /\ Ids = Facts
ASSUME FlagsAssumption == EntrenchmentGate \in BOOLEAN /\ RecordChallenges \in BOOLEAN

\* What a caller asks: `ttl` and the window are the Validity of the fact it
\* asserts; `from` names the subject+predicate a derivation rests on.
Request ==
  [ source : Sources, level : Levels, shape : Shapes, value : Values,
    ttl : Ttl, valid_from : OptTime, valid_to : OptTime, from : Shapes ]

\* The event an operation puts on each incumbent.
IncumbentKind ==
  [ supersede |-> "Superseded", contradict |-> "Contradicted",
    retract |-> "Retracted", reinforce |-> "Reinforced", expire |-> "Expired",
    used_in_decision |-> "UsedInDecision" ]

\* The operations that assert a fact of their own.
Asserting == {"assert", "derive", "supersede", "contradict"}
Operations == Asserting \cup DOMAIN IncumbentKind

-----------------------------------------------------------------------------
(* Loading.                                                                *)

\* A supersession whose replacement is missing, or that lies on a cycle.
DanglingSupersession(p) ==
  \E f \in Facts : /\ p[f] # NoState /\ p[f].superseded_by # NoFact
                   /\ p[p[f].superseded_by] = NoState

SupersessionCycle(p) ==
  \E S \in (SUBSET {f \in Facts : p[f].lifecycle = "Superseded"}) \ {{}} :
    \A f \in S : p[f].superseded_by \in S

\* validate_unique_log accepts the store at this instant.
Loads(p, t) ==
  /\ ~DanglingSupersession(p) /\ ~SupersessionCycle(p)
  /\ \A shape \in Shapes : UniqueProjection(p, shape, t)

-----------------------------------------------------------------------------
(* Building the batch.                                                     *)

BuildEvent(id, f, kind, r, by, t) ==
  [ id |-> id, fact |-> f, kind |-> kind, shape |-> r.shape, value |-> NoValue,
    level |-> r.level, confidence |-> 1, source |-> r.source, by |-> by,
    evidence |-> 1, deps |-> {}, blank |-> FALSE, ttl |-> NeverTtl,
    recorded_at |-> t, observed_at |-> NoTime, valid_from |-> NoTime,
    valid_to |-> NoTime ]

\* The assertion of a fresh fact: Validity::stamp, then the policy defaults.
BuildAssertion(r, deps, n, t) ==
  WithPolicyDefaults(
    [BuildEvent(n, n, "Asserted", r, NoFact, t) EXCEPT
       !.value = r.value, !.ttl = r.ttl, !.valid_from = r.valid_from,
       !.valid_to = r.valid_to, !.deps = deps,
       !.evidence = 1 + Cardinality(deps)])

FirstOf(S) == CHOOSE f \in S : \A g \in S : f <= g

\* explain_subject: a contested unexpired belief, else an unexpired one, else any.
ExplainSubject(p, shape, t) ==
  LET live == UnexpiredOf(p, shape, t)
      contested == {f \in live : p[f].lifecycle = "Contested"}
  IN FirstOf(IF contested # {} THEN contested
             ELSE IF live # {} THEN live ELSE BelievedOf(p, shape))

\* The believed facts an operation acts on: all of them, or for a
\* contradiction the one the caller is shown.
Incumbents(op, p, r, t) ==
  IF op \in {"assert", "derive"} \/ BelievedOf(p, r.shape) = {} THEN {}
  ELSE IF op = "contradict" THEN {ExplainSubject(p, r.shape, t)}
  ELSE BelievedOf(p, r.shape)

\* op_derive: the believed facts the new one rests on.
Basis(op, p, r) == IF op = "derive" THEN BelievedOf(p, r.from) ELSE {}

\* One event per fact, numbered in fact-id order from `first`; a reinforcement
\* names the fact itself.
PerIncumbent(incumbents, first, kind, r, by, t) ==
  [ f \in incumbents |->
      BuildEvent(first + Cardinality({g \in incumbents : g < f}), f, kind, r,
                 IF kind = "Reinforced" THEN f ELSE by, t) ]

Batch(op, p, r, n, t) ==
  LET incumbents == Incumbents(op, p, r, t)
      asserts == op \in Asserting
      assertion == BuildAssertion(r, Basis(op, p, r), n, t)
      others == PerIncumbent(incumbents, IF asserts THEN n + 1 ELSE n, IncumbentKind[op],
                             r, IF asserts THEN n ELSE NoFact, t)
  IN IF op \in {"assert", "derive"} THEN [f \in {n} |-> assertion]
     ELSE IF asserts
          THEN [f \in {n} \cup incumbents |-> IF f = n THEN assertion ELSE others[f]]
          ELSE others

-----------------------------------------------------------------------------
(* Admitting the batch to a working copy of the snapshot.                  *)

\* The snapshot with every event of the batch folded in.
Applied(p, batch) ==
  [f \in Facts |-> IF f \in DOMAIN batch THEN ApplyEvent(p[f], batch[f]) ELSE p[f]]

\* The working copy once the batch's own assertion, its first event, is in.
Working(p, batch) ==
  [f \in Facts |-> IF f \in DOMAIN batch /\ batch[f].kind = "Asserted"
                   THEN ApplyEvent(p[f], batch[f]) ELSE p[f]]

\* The facts whose event the firewall refuses.
Refused(p, batch) ==
  { f \in DOMAIN batch :
      ~ArbitrateEvents(IF batch[f].kind = "Asserted" THEN p ELSE Working(p, batch),
                       batch[f]) }

\* What an operation checks before it reserves event numbers: something to
\* act on, and the floor of a replacement.
HasTarget(op, p, r, t) ==
  /\ op = "derive" => Basis(op, p, r) # {}
  /\ op \notin {"assert", "derive"} => Incumbents(op, p, r, t) # {}
  /\ op = "supersede" => ClearsFloor(r.shape, r.level)

\* And before it arbitrates: the registry policy of an assertion.
Permitted(op, p, r, n, t) ==
  /\ HasTarget(op, p, r, t)
  /\ op \in {"assert", "derive"} =>
       EnforcePolicy(p, BuildAssertion(r, Basis(op, p, r), n, t), t)

\* Mutant: the gate is not consulted.
OutEntrenchingNone(op, p, r) == {}

\* The opt-in gate: incumbents of equal rank that out-entrench a newcomer.
OutEntrenching(op, p, r) ==
  { f \in BelievedOf(p, r.shape) :
      /\ EntrenchmentGate /\ op = "supersede" /\ p[f].level = r.level
      /\ EarnedEntrenchment(p[f], r.level) > 1 }

\* The operation goes through on this snapshot.
Accepts(op, p, r, n, t) ==
  /\ Permitted(op, p, r, n, t)
  /\ OutEntrenching(op, p, r) = {}
  /\ Refused(p, Batch(op, p, r, n, t)) = {}

-----------------------------------------------------------------------------
(* A contest lost on strength is recorded on the incumbent that won it.    *)

\* The strength a challenge really had: a laundered supersession's is that of
\* the fact behind it.
EffectiveLevel(p, e) ==
  IF e.kind = "Superseded" /\ TransitionOK(p[e.fact], e) THEN p[e.by].level ELSE e.level

\* classify_challenge: only a contest lost on strength counts.
LostOnStrength(p, e) ==
  /\ e.kind # "Asserted" /\ Validates(e) /\ WellPlaced(p[e.fact], e)
  /\ InsufficientAuthority(p[e.fact], e) \/ CanonicalContradiction(p[e.fact], e)
       \/ (e.kind = "Superseded" /\ p[e.by] # NoState /\ ~Backed(p, e))

\* The first event of the batch that is refused: the assertion, if it is.
FirstRefused(p, batch) ==
  LET refused == Refused(p, batch)
      assertions == {f \in refused : batch[f].kind = "Asserted"}
  IN batch[FirstOf(IF assertions # {} THEN assertions ELSE refused)]

\* The challenge, if any, that a refused operation leaves to be recorded.
Challenge(op, p, r, n, t) ==
  LET batch == Batch(op, p, r, n, t)
      gated == OutEntrenching(op, p, r)
      lost == FirstRefused(p, batch)
  IN IF ~RecordChallenges \/ ~Permitted(op, p, r, n, t) THEN {}
     ELSE IF gated # {} THEN {[fact |-> FirstOf(gated), level |-> r.level]}
     ELSE IF Refused(p, batch) # {} /\ LostOnStrength(Working(p, batch), lost)
     THEN {[fact |-> lost.fact, level |-> EffectiveLevel(Working(p, batch), lost)]}
     ELSE {}

\* persist_challenge_record: one bookkeeping event on the incumbent's stream,
\* under the challenger's name.
RecordBatch(c, r, n, t) ==
  [ f \in {c.fact} |->
      BuildEvent(n, f, "ChallengeRejected", [r EXCEPT !.level = c.level], NoFact, t) ]

\* op_record_retrievals: one audit event on each fact an earlier read returned.
RetrievalBatch(retrieved, p, r, n, t) ==
  [ f \in retrieved |->
      [PerIncumbent(retrieved, n, "Retrieved", r, NoFact, t)[f] EXCEPT !.shape = p[f].shape] ]
=============================================================================
