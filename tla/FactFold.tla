------------------------------ MODULE FactFold ------------------------------
(***************************************************************************)
(* The pure core of dent8: fact events, the projected state of a fact, the *)
(* transition function apply_event that folds one event into that state,  *)
(* read-time freshness, earned entrenchment and the epistemic policies of  *)
(* counterfactual replay (crates dent8-core and dent8-store).              *)
(*                                                                         *)
(* Data is abstracted to what the checks tell apart: a subject+predicate   *)
(* pair is one Shape, an authority level is its rank, the text of a        *)
(* purpose or decision id is whether it is blank, an evidence list is its  *)
(* length and the facts it derives from.                                   *)
(***************************************************************************)
EXTENDS Integers, FiniteSets, Sequences

CONSTANTS
  Facts,        \* FactId
  Sources,      \* SourceId
  Values,       \* FactValue
  Shapes,       \* (Subject, Predicate)
  Ids,          \* FactEventId
  UniqueShapes, \* the shapes whose PredicatePolicy says unique
  MaxMillis,    \* the largest timestamp an i64 of milliseconds holds
  NoFact, NoValue

ASSUME SentinelsApart == NoFact \notin Facts /\ NoValue \notin Values
ASSUME UniqueAreShapes == UniqueShapes \subseteq Shapes
ASSUME MaxMillisAssumption == MaxMillis \in Nat

\* AuthorityLevel: Unknown < Low < Medium < High < Canonical.
Levels == 0..4
Canonical == 4

\* An absent Option<TimestampMillis>, an absent entry of a source->level map.
NoTime == -1
NoLevel == -1
OptTime == Nat \cup {NoTime}

ClosingKinds == {"Superseded", "Expired", "Retracted"}
AuditKinds == {"Retrieved", "UsedInDecision"}
NamingKinds == {"Reinforced", "Contradicted", "Superseded"}
Kinds == {"Asserted", "ChallengeRejected"}
           \cup NamingKinds \cup ClosingKinds \cup AuditKinds

\* Ttl::Never, Ttl::ExpiresAt(at) and Ttl::DurationMillis(ms).
Ttl == [kind : {"Never", "ExpiresAt", "Duration"}, millis : Nat]
NeverTtl == [kind |-> "Never", millis |-> 0]

Event ==
  { e \in [ id : Ids, fact : Facts, kind : Kinds, shape : Shapes,
            value : Values \cup {NoValue}, level : Levels, confidence : Nat,
            source : Sources, by : Facts \cup {NoFact}, evidence : Nat,
            deps : SUBSET Facts, blank : BOOLEAN, ttl : Ttl,
            recorded_at : Nat, observed_at : OptTime, valid_from : OptTime,
            valid_to : OptTime ] :
      e.kind \in NamingKinds => e.by \in Facts }

\* FactLifecycle; the lifecycle a closing event leaves is named like its kind.
Believed == {"Active", "Contested"}
Terminal == ClosingKinds

FactState ==
  [ shape : Shapes, value : Values, level : Levels, ttl : Ttl,
    freshness_anchor : Nat, valid_from : OptTime, valid_to : OptTime,
    lifecycle : Believed \cup Terminal, created_at : Nat, updated_at : Nat,
    last_event_id : Ids, superseded_by : Facts \cup {NoFact},
    contradicted_by : SUBSET Facts, evidence_count : Nat,
    corroborating : [Sources -> Levels \cup {NoLevel}],
    survived : [Sources -> Levels \cup {NoLevel}] ]

\* No projected state: the fact has no events.
NoState == [lifecycle |-> "Absent"]

-----------------------------------------------------------------------------
(* Validation and the transition function.                                 *)

\* FactEvent::validate.
Validates(e) ==
  /\ e.valid_from # NoTime /\ e.valid_to # NoTime => e.valid_from < e.valid_to
  /\ e.kind = "Asserted" => e.value # NoValue /\ e.evidence > 0
  /\ e.kind \in AuditKinds => ~e.blank

Greater(a, b) == IF a < b THEN b ELSE a

FirstTime(a, b) == IF a # NoTime THEN a ELSE b

\* The valid-time anchor of a ttl: valid_from, else observed_at, else recorded_at.
FreshnessAnchor(e) ==
  FirstTime(e.valid_from, FirstTime(e.observed_at, e.recorded_at))

InitialState(e) ==
  [ shape |-> e.shape, value |-> e.value, level |-> e.level, ttl |-> e.ttl,
    freshness_anchor |-> FreshnessAnchor(e),
    valid_from |-> e.valid_from, valid_to |-> e.valid_to,
    lifecycle |-> "Active",
    created_at |-> e.recorded_at, updated_at |-> e.recorded_at,
    last_event_id |-> e.id, superseded_by |-> NoFact, contradicted_by |-> {},
    evidence_count |-> e.evidence,
    corroborating |-> [s \in Sources |-> IF s = e.source THEN e.level ELSE NoLevel],
    survived |-> [s \in Sources |-> NoLevel] ]

\* The state errors of apply_next_event that are not contests of strength:
\* FactShapeMismatch, TerminalStateMutation, DuplicateAssertion and
\* ReinforcementValueMismatch. (Streams are keyed by fact: no FactIdMismatch.)
WellPlaced(s, e) ==
  /\ e.shape = s.shape
  /\ s.lifecycle \in Terminal => e.kind \in AuditKinds
  /\ e.kind # "Asserted"
  /\ e.kind = "Reinforced" => e.value \in {NoValue, s.value}

\* Mutant: expiring is not gated like superseding and retracting.
InsufficientAuthorityNotExpired(s, e) ==
  e.kind \in {"Superseded", "Retracted"} /\ e.level < s.level

\* Mutant: contesting a fact is gated like closing it.
InsufficientAuthorityToDissent(s, e) ==
  e.kind \in ClosingKinds \cup {"Contradicted"} /\ e.level < s.level

\* TransitionError::InsufficientAuthority: a close needs the incumbent's rank.
InsufficientAuthority(s, e) == e.kind \in ClosingKinds /\ e.level < s.level

\* TransitionError::CanonicalContradiction: the hard alarm.
CanonicalContradiction(s, e) == e.kind = "Contradicted" /\ s.level = Canonical

\* apply_event returns Ok.
TransitionOK(s, e) ==
  /\ Validates(e)
  /\ IF s = NoState
     THEN e.kind = "Asserted"
     ELSE /\ WellPlaced(s, e)
          /\ ~CanonicalContradiction(s, e)
          /\ ~InsufficientAuthority(s, e)

\* entry(source).and_modify(max).or_insert: the strongest level a source ever
\* backed, or lost a challenge, at.
Backing(backers, e) ==
  [x \in Sources |-> IF x = e.source THEN Greater(backers[x], e.level) ELSE backers[x]]

\* apply_next_event on an event it accepts.
NextState(s, e) ==
  [s EXCEPT
    !.lifecycle = IF e.kind \in ClosingKinds THEN e.kind
                  ELSE IF e.kind = "Contradicted" THEN "Contested" ELSE @,
    !.superseded_by = IF e.kind = "Superseded" THEN e.by ELSE @,
    !.contradicted_by = IF e.kind = "Contradicted" THEN @ \cup {e.by} ELSE @,
    !.evidence_count = IF e.kind = "Reinforced" THEN @ + e.evidence ELSE @,
    !.corroborating = IF e.kind = "Reinforced"
                      THEN Backing(s.corroborating, e) ELSE @,
    !.survived = IF e.kind = "ChallengeRejected"
                 THEN Backing(s.survived, e) ELSE @,
    !.updated_at = e.recorded_at,
    !.last_event_id = e.id]

ApplyEvent(s, e) == IF s = NoState THEN InitialState(e) ELSE NextState(s, e)

-----------------------------------------------------------------------------
(* The firewall. p maps every fact to its state or to NoState.             *)

\* Mutant: the replacing fact only has to exist.
BackedByAnyFact(p, e) == e.kind = "Superseded" => p[e.by] # NoState

\* StoreError::UnbackedSupersession and LaunderedAuthority: a supersession
\* needs a real replacing fact whose own authority matches the incumbent's.
Backed(p, e) ==
  e.kind = "Superseded" =>
    p[e.by] # NoState /\ p[e.by].level >= p[e.fact].level

\* The firewall decision shared by every backend.
ArbitrateEvents(p, e) == TransitionOK(p[e.fact], e) /\ Backed(p, e)

-----------------------------------------------------------------------------
(* Freshness: a read-time axis, never part of the lifecycle.               *)

\* Ttl::expires_at: a duration past the last representable instant is
\* treated as non-expiring.
TtlExpiresAt(ttl, anchor) ==
  IF ttl.kind = "ExpiresAt" THEN ttl.millis
  ELSE IF ttl.kind = "Duration" /\ anchor + ttl.millis <= MaxMillis
       THEN anchor + ttl.millis
       ELSE NoTime

\* FactState::expires_at: the earliest of the ttl bound and valid_to.
ExpiresAt(s) ==
  LET bound == TtlExpiresAt(s.ttl, s.freshness_anchor)
  IN IF bound # NoTime /\ s.valid_to # NoTime
     THEN IF bound < s.valid_to THEN bound ELSE s.valid_to
     ELSE FirstTime(bound, s.valid_to)

IsExpiredAt(s, now) == ExpiresAt(s) # NoTime /\ ExpiresAt(s) <= now
IsNotYetValidAt(s, now) == s.valid_from # NoTime /\ now < s.valid_from
IsFreshAt(s, now) == ~IsNotYetValidAt(s, now) /\ ~IsExpiredAt(s, now)

-----------------------------------------------------------------------------
(* Earned entrenchment, counted only at or above an authority level.       *)

AtOrAbove(backers, min) == Cardinality({s \in Sources : backers[s] >= min})

EarnedEntrenchment(s, min) ==
  AtOrAbove(s.corroborating, min) + AtOrAbove(s.survived, min)

-----------------------------------------------------------------------------
(* Subject projections: p maps every fact to its state or to NoState.      *)

IsBelieved(s) == s.lifecycle \in Believed

BelievedOf(p, shape) ==
  {f \in Facts : IsBelieved(p[f]) /\ p[f].shape = shape}

UnexpiredOf(p, shape, now) ==
  {f \in BelievedOf(p, shape) : ~IsExpiredAt(p[f], now)}

\* Mutant: one contest explains every belief of the group.
AccountedByAnyContest(p, group) ==
  IF \E f \in group : p[f].lifecycle = "Contested" THEN group ELSE {}

\* The facts a surfaced contest explains: contested ones and their contradictors.
Accounted(p, group) ==
  LET contested == {f \in group : p[f].lifecycle = "Contested"}
  IN contested \cup UNION {p[f].contradicted_by : f \in contested}

\* validate_unique_projection for one subject+predicate at `now`: more than
\* one unexpired belief is allowed only if a contest explains all of them.
UniqueProjection(p, shape, now) ==
  LET group == UnexpiredOf(p, shape, now)
  IN shape \in UniqueShapes /\ Cardinality(group) > 1
       => group \subseteq Accounted(p, group)

=============================================================================
