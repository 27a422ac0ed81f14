----------------------------- MODULE EventStore -----------------------------
(***************************************************************************)
(* The durable event store behind every backend: an append-only log, the   *)
(* projection materialised from it and the fact->fact edges, all changed   *)
(* by one serialised transaction (append_many) that runs the firewall on   *)
(* every event, sees its own earlier writes and commits all or nothing.    *)
(*                                                                         *)
(* `log`, `proj` and `edges` are what readers and later transactions see;  *)
(* `tlog`, `tproj` and `tedges` are the view of the open transaction. The  *)
(* advisory lock (Postgres), BEGIN IMMEDIATE (SQLite) or &mut self (the    *)
(* in-memory store) admits one writer at a time, so there is one view.     *)
(*                                                                         *)
(* The firewall folds the candidate's stream from the log. A fold is       *)
(* extended one event at a time, so the model carries its result in        *)
(* `tproj`; ReplayAgrees checks it against folding the log from scratch.   *)
(***************************************************************************)
EXTENDS FactFold

CONSTANTS
  Candidates,   \* the events a caller may submit
  MaxLog        \* bound on the length of the log, for model checking

ASSUME CandidatesAssumption == Candidates \subseteq Event
ASSUME MaxLogAssumption == MaxLog \in Nat

VARIABLES log, proj, edges, tlog, tproj, tedges

durable == <<log, proj, edges>>
working == <<tlog, tproj, tedges>>
vars == <<log, proj, edges, tlog, tproj, tedges>>

Edge == [from : Facts, to : Facts, type : NamingKinds, event : Ids]

TypeOK ==
  /\ log \in Seq(Event) /\ tlog \in Seq(Event)
  /\ proj \in [Facts -> FactState \cup {NoState}]
  /\ tproj \in [Facts -> FactState \cup {NoState}]
  /\ edges \subseteq Edge /\ tedges \subseteq Edge

Init ==
  /\ log = <<>> /\ tlog = <<>>
  /\ proj = [f \in Facts |-> NoState] /\ tproj = proj
  /\ edges = {} /\ tedges = {}

-----------------------------------------------------------------------------

IsDuplicate(l, e) == \E i \in DOMAIN l : l[i].id = e.id

\* insert_edge: the relationship an event implies, if any.
ImpliedEdges(e) ==
  IF e.kind \in NamingKinds
  THEN {[from |-> e.fact, to |-> e.by, type |-> e.kind, event |-> e.id]}
  ELSE {}

\* upsert_projection: the fold of the event's stream replaces its row.
UpsertProjection(p, e) == [p EXCEPT ![e.fact] = ApplyEvent(@, e)]

\* One event firewalled, deduplicated, chained to the head, inserted and
\* materialised inside the open transaction.
AppendEventInTx(e) ==
  /\ Len(tlog) < MaxLog
  /\ ArbitrateEvents(tproj, e)
  /\ ~IsDuplicate(tlog, e)
  /\ tlog' = Append(tlog, e)
  /\ tproj' = UpsertProjection(tproj, e)
  /\ tedges' = tedges \cup ImpliedEdges(e)
  /\ UNCHANGED durable

\* The events of the open transaction.
Pending == {tlog[i] : i \in (Len(log) + 1)..Len(tlog)}

\* The instant a touched group is validated at: its latest recorded_at.
ValidatedAt(shape, now) ==
  /\ \E e \in Pending : e.shape = shape /\ e.recorded_at = now
  /\ \A e \in Pending : e.shape = shape => e.recorded_at <= now

\* validate_touched_policies_in_tx.
TouchedPoliciesHold ==
  \A e \in Pending : ValidatedAt(e.shape, e.recorded_at)
                       => UniqueProjection(tproj, e.shape, e.recorded_at)

Commit ==
  /\ tlog # log
  /\ TouchedPoliciesHold
  /\ log' = tlog /\ proj' = tproj /\ edges' = tedges
  /\ UNCHANGED working

\* Mutant: the projection is written outside the transaction.
RollbackKeepsProjection ==
  /\ tlog # log
  /\ tlog' = log /\ tedges' = edges /\ UNCHANGED tproj
  /\ UNCHANGED durable

\* An event or the policy check was refused, or the writer crashed: nothing
\* of the transaction remains.
Rollback ==
  /\ tlog # log
  /\ tlog' = log /\ tproj' = proj /\ tedges' = edges
  /\ UNCHANGED durable

Next ==
  \/ \E e \in Candidates : AppendEventInTx(e)
  \/ Commit
  \/ Rollback

Spec == Init /\ [][Next]_vars
-----------------------------------------------------------------------------
(* What the store promises.                                                *)

\* Position i holds the assertion of fact f.
AssertedAt(l, i, f) == i \in DOMAIN l /\ l[i].fact = f /\ l[i].kind = "Asserted"

\* firewall.rs: no supersession in the log launders authority. Before it the
\* log holds the assertion of the replacing fact, at no less authority than
\* the assertion of the fact it closes, whatever happened in between.
NoLaundering(l) ==
  \A j \in DOMAIN l : l[j].kind = "Superseded" =>
    \E i, k \in 1..(j - 1) : /\ AssertedAt(l, i, l[j].by)
                             /\ AssertedAt(l, k, l[j].fact)
                             /\ l[i].level >= l[k].level

\* state.rs apply_next_event: a believed fact has no closing event in the log;
\* a closed one has exactly one, of the kind its lifecycle names, issued at no
\* less than the fact's own authority, with only audit events after it.
ClosedByRank(l, p) ==
  \A f \in Facts :
    LET closing == {i \in DOMAIN l : l[i].fact = f /\ l[i].kind \in ClosingKinds}
    IN IF p[f].lifecycle \in Terminal
       THEN \E i \in closing :
              /\ closing = {i}
              /\ l[i].kind = p[f].lifecycle
              /\ l[i].level >= p[f].level
              /\ \A j \in DOMAIN l :
                   j > i /\ l[j].fact = f => l[j].kind \in AuditKinds
       ELSE closing = {}

\* adapter.rs insert_edge / upsert_projection: the edge table and the
\* projection tell the same story of who replaced and who contradicted whom.
EdgesMatch(p, ed) ==
  \A f \in Facts : p[f] # NoState =>
    /\ p[f].contradicted_by =
         {g \in Facts : \E x \in ed : x.from = f /\ x.to = g /\ x.type = "Contradicted"}
    /\ \A g \in Facts : p[f].superseded_by = g <=>
         \E x \in ed : x.from = f /\ x.to = g /\ x.type = "Superseded"

\* What readers and later transactions see never holds a laundered supersession.
CommittedNoLaundering == NoLaundering(log)

\* Every belief readers see closed was closed by rank, and stayed closed.
CommittedClosedByRank == ClosedByRank(log, proj)

\* The committed edge table agrees with the committed projection.
CommittedEdgesMatch == EdgesMatch(proj, edges)

\* memory.rs persist / adapter.rs append_event_in_tx: an event id names one
\* position of the log, also for a batch that repeats an id within itself.
EventIdsUnique == \A i, j \in DOMAIN log : log[i].id = log[j].id => i = j

\* state.rs: what a terminal fact is believed to be never changes again; an
\* audit event only moves updated_at and last_event_id.
TerminalIsForever ==
  [][\A f \in Facts : proj[f].lifecycle \in Terminal =>
       proj'[f] = [proj[f] EXCEPT !.updated_at = proj'[f].updated_at,
                                  !.last_event_id = proj'[f].last_event_id]]_vars
=============================================================================
