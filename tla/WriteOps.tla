------------------------------ MODULE WriteOps ------------------------------
(***************************************************************************)
(* The op layer: every belief operation of the CLI and the MCP tools, each *)
(* run as one critical section under the backend's write lease: authorise, *)
(* load and validate the store, resolve the incumbents, build the events,  *)
(* arbitrate them all, then persist all or none. A request that is refused *)
(* before arbitration (authority, content check, nothing believed, floor,  *)
(* malformed validity) changes nothing and is a stuttering step; one that  *)
(* loses a contest of strength is recorded on the incumbent it attacked.   *)
(* Event numbers are those of the file store, one past the highest; the    *)
(* databases' allocator only leaves gaps (ConcurrentWriters).              *)
(***************************************************************************)
EXTENDS ReadOps

CONSTANTS
  Grants,            \* Sources -> the level a source may write each shape at
  Workloads          \* what callers ask for, and the bounds on it

\* A workload: the requests, the operations, the bounds on events and time.
Workload ==
  [requests : SUBSET Request, ops : SUBSET Operations, events : Nat, until : Nat]

ASSUME WorkloadsAssumption ==
  /\ \A w \in Workloads : /\ DOMAIN w = {"requests", "ops", "events", "until"}
                           /\ w.requests \subseteq Request /\ w.ops \subseteq Operations
                           /\ w.events \in Nat /\ w.until \in Nat
  /\ Grants \in [Sources -> [Shapes -> Levels \cup {NoLevel}]]

\* A fact is named by the event that asserts it: there are names enough.
ASSUME EventsAreFacts == \A w \in Workloads : 0..(w.events - 1) \subseteq Facts

VARIABLES
  work,     \* the workload of this behaviour
  beliefs,  \* the projection of the durable log
  derived,  \* the DerivedFrom edges of each fact
  seq,      \* next_seq: one past the highest event number in the log
  now,      \* the wall clock
  unaudited \* the facts a read returned whose retrieval is not recorded yet

opsVars == <<work, beliefs, derived, seq, now, unaudited>>

OpsTypeOK ==
  /\ work \in Workloads
  /\ beliefs \in [Facts -> FactState \cup {NoState}]
  /\ derived \in [Facts -> SUBSET Facts]
  /\ seq \in 0..work.events /\ now \in 0..work.until
  /\ unaudited \in [surface : {"none", "resource", "pack"}, facts : SUBSET Facts]

NothingShown == [surface |-> "none", facts |-> {}]

OpsInit ==
  /\ work \in Workloads
  /\ beliefs = [f \in Facts |-> NoState]
  /\ derived = [f \in Facts |-> {}]
  /\ seq = 0 /\ now = 0 /\ unaudited = NothingShown

-----------------------------------------------------------------------------

\* append_events: the whole batch.
AppendEvents(batch) ==
  /\ beliefs' = Applied(beliefs, batch)
  /\ seq' = seq + Cardinality(DOMAIN batch)

\* persist_challenge_record, against the durable state.
PersistChallengeRecord(c, r) ==
  LET record == RecordBatch(c, r, seq, now)
  IN Refused(beliefs, record) = {} /\ AppendEvents(record)

\* enforce_write_authority: the source is granted the shape at this level.
Authorised(r) == Grants[r.source][r.shape] # NoLevel /\ r.level <= Grants[r.source][r.shape]

\* Every write: authorised, on a store that loads, and within the bound.
Begin(r, count) == Authorised(r) /\ Loads(beliefs, now) /\ seq + count <= work.events

\* One operation: its batch persisted whole, or the contest it lost recorded.
Perform(op, r) ==
  LET batch == Batch(op, beliefs, r, seq, now)
  IN /\ op \in work.ops
     /\ Begin(r, Cardinality(DOMAIN batch))
     /\ \/ Accepts(op, beliefs, r, seq, now) /\ AppendEvents(batch)
        \/ /\ ~Accepts(op, beliefs, r, seq, now)
           /\ \E c \in Challenge(op, beliefs, r, seq, now) : PersistChallengeRecord(c, r)
     /\ UNCHANGED <<work, now, unaudited>>

Assert(r) == Perform("assert", r) /\ UNCHANGED derived

\* A refused derivation names no fact, so it records no challenge.
Derive(r) ==
  /\ Perform("derive", r)
  /\ derived' = [derived EXCEPT ![seq] = Basis("derive", beliefs, r)]

Supersede(r) == Perform("supersede", r) /\ UNCHANGED derived
Contradict(r) == Perform("contradict", r) /\ UNCHANGED derived
Retract(r) == Perform("retract", r) /\ UNCHANGED derived
Reinforce(r) == Perform("reinforce", r) /\ UNCHANGED derived
Expire(r) == Perform("expire", r) /\ UNCHANGED derived
UseInDecision(r) == Perform("used_in_decision", r) /\ UNCHANGED derived

\* A resource is read, under no lease: the fact its stream resolves to.
ReadResource(shape) ==
  /\ "used_in_decision" \in work.ops /\ unaudited = NothingShown /\ Loads(beliefs, now)
  /\ OpExplainReceipt(beliefs, shape, now).found
  /\ unaudited' = [surface |-> "resource", facts |-> {LatestFact(beliefs, shape, now)}]
  /\ UNCHANGED <<work, beliefs, derived, seq, now>>

\* context_tool with record_retrieval: the pack is built before it is audited.
ReadContext(include_stale) ==
  /\ "used_in_decision" \in work.ops /\ unaudited = NothingShown /\ Loads(beliefs, now)
  /\ ContextPack(beliefs, now, include_stale) # {}
  /\ unaudited' = [surface |-> "pack", facts |-> ContextPack(beliefs, now, include_stale)]
  /\ UNCHANGED <<work, beliefs, derived, seq, now>>

\* op_record_retrievals: whatever has become of them since, each fact is one the
\* source must be granted, and one audit event is appended to its stream.
RecordRetrievals(r) ==
  LET batch == RetrievalBatch(unaudited.facts, beliefs, r, seq, now)
  IN /\ \A f \in unaudited.facts :
          Begin([r EXCEPT !.shape = beliefs[f].shape], Cardinality(unaudited.facts))
     /\ Refused(beliefs, batch) = {}
     /\ AppendEvents(batch)
     /\ unaudited' = NothingShown
     /\ UNCHANGED <<work, derived, now>>

\* record_mcp_resource_retrieval and record_pack_retrievals: under the source
\* and the level of the connection that read.
AuditResource(r) == unaudited.surface = "resource" /\ RecordRetrievals(r)
AuditPack(r) == unaudited.surface = "pack" /\ RecordRetrievals(r)

Tick == now < work.until /\ now' = now + 1 /\ UNCHANGED <<work, beliefs, derived, seq, unaudited>>

OpsNext ==
  \/ \E r \in work.requests :
       \/ Assert(r) \/ Derive(r) \/ Supersede(r) \/ Retract(r) \/ Reinforce(r)
       \/ Expire(r) \/ UseInDecision(r) \/ Contradict(r)
       \/ AuditResource(r) \/ AuditPack(r)
  \/ \E shape \in Shapes : ReadResource(shape)
  \/ \E include_stale \in BOOLEAN : ReadContext(include_stale)
  \/ Tick

OpsSpec == OpsInit /\ [][OpsNext]_opsVars
-----------------------------------------------------------------------------
(* What the op layer promises.                                             *)

\* main.rs validate_unique_log: whatever operation was accepted, the store it
\* leaves loads at that instant: no two silent beliefs, no broken lineage.
WritesLeaveLoadable == [][seq' # seq => Loads(beliefs', now)]_opsVars

\* lib.rs unearned_supersessions, "the audit and the gate agree": with the
\* gate on, the audit of the log never finds an unearned supersession.
GateAgreesWithAudit == EntrenchmentGate => Advisories(beliefs) = {}

\* registry.rs: "a low-authority agent must always be able to dissent": on a
\* store that loads, whatever happened before, a contradiction of a belief that
\* is not canonical goes through at any authority.
DissentIsPossible ==
  \A r \in work.requests :
    /\ Begin(r, 2) /\ BelievedOf(beliefs, r.shape) # {}
    /\ beliefs[ExplainSubject(beliefs, r.shape, now)].level # Canonical
    /\ Validates(BuildAssertion(r, {}, seq, now))
    => Accepts("contradict", beliefs, r, seq, now)
-----------------------------------------------------------------------------
(* What the read surfaces promise of the stores these operations leave.    *)

\* main.rs validate_unique_log, ops.rs conflicts_outcome, context.rs: a dispute
\* is never read as settled. Whenever a unique predicate has two live beliefs
\* on a store that loads, what explain shows of it is marked contested, the
\* context pack carries that same contested belief (unless it is not valid
\* yet, when only a pack that includes the stale does), conflicts lists both
\* sides, an explain of every subject at once is contested, and a snapshot asks
\* for attention and is not `ok`.
DisputeIsShown ==
  \A shape \in UniqueShapes :
    Loads(beliefs, now) /\ Cardinality(UnexpiredOf(beliefs, shape, now)) > 1 =>
      LET shown == LatestFact(beliefs, shape, now)
          snapshot == Snapshot(beliefs, derived, {}, now)
      IN /\ beliefs[shown].lifecycle = "Contested"
         /\ shown \in ContextPack(beliefs, now, TRUE)
         /\ ~IsNotYetValidAt(beliefs[shown], now) => shown \in ContextPack(beliefs, now, FALSE)
         /\ shape \in ReconcileFailures(beliefs, Shapes, now)
         /\ UnexpiredOf(beliefs, shape, now) \subseteq Conflicts(beliefs)[shape]
         /\ ExplainTool(beliefs, Shapes, now) = "contested"
         /\ "contested" \in snapshot.attention /\ snapshot.status # "ok"

\* context.rs context_outcome, memory.rs latest_fact_id: a stale or a future
\* belief never hides a current one. Whenever a unique predicate has a fresh
\* belief and no dispute, on a store that loads, the pack carries that belief,
\* native reconcile calls its reference ok and facts list calls it fresh.
FreshBeliefIsPacked ==
  \A shape \in UniqueShapes : \A f \in BelievedOf(beliefs, shape) :
    Loads(beliefs, now) /\ IsFreshAt(beliefs[f], now) /\ shape \notin DOMAIN Conflicts(beliefs) =>
      /\ f \in ContextPack(beliefs, now, FALSE)
      /\ shape \notin ReconcileFailures(beliefs, Shapes, now)
      /\ FactsList(beliefs, now)[shape] = "fresh"

\* lib.rs tainted_facts, "poison does not survive in derivatives": whatever is
\* believed and cannot be cut off from a withdrawn fact, every set closed
\* under its dependencies holding one, is among the facts verify reports,
\* and a snapshot of the store says so.
PoisonIsReported ==
  \A f \in Facts :
    /\ IsBelieved(beliefs[f])
    /\ \A S \in SUBSET Facts :
         derived[f] \subseteq S /\ (\A g \in S : derived[g] \subseteq S)
           => \E g \in S : Invalidated(beliefs, g)
    => /\ f \in TaintedFacts(beliefs, derived)
       /\ Loads(beliefs, now) => "tainted" \in Snapshot(beliefs, derived, {}, now).verify
       /\ Snapshot(beliefs, derived, {}, now).status = "integrity_issues"
-----------------------------------------------------------------------------
(* What comments in the source say, and the operations do not keep.        *)

\* main.rs validate_unique_log: two fresh beliefs of a unique predicate only
\* come from a torn write or an external edit.
StoreStaysLoadable == Loads(beliefs, now)
=============================================================================
