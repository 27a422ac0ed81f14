------------------------- MODULE ConcurrentWriters -------------------------
(***************************************************************************)
(* Several processes writing to one store. Each runs the cycle of          *)
(* with_write_retry: take the write lease, load a snapshot, reserve event  *)
(* numbers, decide, commit, let the lease go; on a conflict, try again.    *)
(* A process may crash between any two steps, and its lease dies with it.  *)
(* Any call to the store may fail, and one that appends may fail after it  *)
(* has landed: a transaction whose commit is not confirmed, or a file that *)
(* takes the first lines of a batch only. (A line cut in the middle is     *)
(* FileLog's.)                                                             *)
(*                                                                         *)
(* The file store numbers events from the snapshot and appends whatever    *)
(* was decided; a log that repeats a number never loads again. A database  *)
(* numbers from an allocator and re-arbitrates the batch when it commits.  *)
(* Unleased processes call an operation directly, outside the retry loop:  *)
(* the audit of an MCP resource read, the doctor's write check, a program  *)
(* linked against an adapter.                                              *)
(***************************************************************************)
EXTENDS OpEvents

CONSTANTS
  Procs,           \* the processes, each with one operation to run
  Jobs,            \* Procs -> the operations a process may be asked to run
  Unleased,        \* the processes that take no lease and do not retry
  Backend,         \* "file" or "database"
  Contended,       \* whether the database may time out on its own lock
  MaxAttempts,     \* with_write_retry's MAX_ATTEMPTS
  NoProc

\* "retrieve" is the audit record of a read; the other operations are OpEvents'.
Job == [op : Operations \cup {"retrieve"}, r : Request]

ASSUME WritersAssumption ==
  /\ Jobs \in [Procs -> SUBSET Job]
  /\ Unleased \subseteq Procs /\ NoProc \notin Procs
  /\ Backend \in {"file", "database"} /\ Contended \in BOOLEAN
  /\ MaxAttempts \in Nat \ {0}

VARIABLES
  job,             \* the operation of each process
  proj,            \* the projection of the durable log
  log,             \* the durable batches, in order
  head,            \* one past the highest event number in the log
  alloc,           \* the database's event number allocator
  lease,           \* the process that holds the write lease
  pc, attempt,     \* where each process is, and the attempts that failed
  seen,            \* the snapshot a process decides on
  first,           \* the first event number it reserved
  lost,            \* the challenge, if any, it lost and is to record
  shown,           \* the facts an audited read returned
  reply            \* what its caller is told

store == <<proj, log, head>>
vars == <<job, proj, log, head, alloc, lease, pc, attempt, seen, first, lost, shown, reply>>

\* The instant of every operation: a write is short against any ttl.
Instant == 0

NoBeliefs == [f \in Facts |-> NoState]
AllJobs == UNION {Jobs[p] : p \in Procs}

\* An empty store, or one that holds the belief one assertion left.
InitialBeliefs ==
  {NoBeliefs} \cup
  { Applied(NoBeliefs, Batch("assert", NoBeliefs, j.r, 0, Instant)) :
      j \in {i \in AllJobs : Accepts("assert", NoBeliefs, i.r, 0, Instant)} }

Present(p) == {f \in Facts : p[f] # NoState}

\* The first events of a batch, some but not all of them: what a write of its
\* lines to a file leaves when it fails between two.
Parts(batch) ==
  { [f \in D |-> batch[f]] :
      D \in { E \in (SUBSET DOMAIN batch) \ {{}, DOMAIN batch} :
                \A f \in E, g \in DOMAIN batch : batch[g].id < batch[f].id => g \in E } }

\* What may come to stand in the log of a batch.
Landings(batch) == {batch} \cup IF Backend = "file" THEN Parts(batch) ELSE {}

\* What an operation may leave when it runs alone on p: its batch, the record
\* of the contest it lost, or the audit of facts that were read.
Effect(j, p, q) ==
  IF j.op = "retrieve"
  THEN \E facts \in (SUBSET Present(p)) \ {{}}, n \in Facts :
         \E b \in Landings(RetrievalBatch(facts, p, j.r, n, Instant)) : q = Applied(p, b)
  ELSE \/ \E n \in Facts : /\ Accepts(j.op, p, j.r, n, Instant)
                           /\ \E b \in Landings(Batch(j.op, p, j.r, n, Instant)) :
                                q = Applied(p, b)
       \/ \E n \in Facts : \E c \in Challenge(j.op, p, j.r, n, Instant), m \in Facts :
            q = Applied(p, RecordBatch(c, j.r, m, Instant))

Settled == {"done", "crashed"}
Labels == Settled \cup {"explain", "start", "load", "reserve", "commit",
                       "record", "append_record", "return"}
Snapshots == [proj : [Facts -> FactState \cup {NoState}], next : Nat]
Entry == [first : Nat, count : Nat, by : Procs \cup {NoProc}, what : {"op", "part", "record"}]

TypeOK ==
  /\ log \in Seq(Entry) /\ head \in Nat /\ alloc \in Nat /\ lease \in Procs \cup {NoProc}
  /\ pc \in [Procs -> Labels]
  /\ attempt \in [Procs -> 0..MaxAttempts]
  /\ seen \in [Procs -> Snapshots] /\ first \in [Procs -> Nat]
  /\ lost \in [Procs -> SUBSET [fact : Facts, level : Levels]]
  /\ shown \in [Procs -> SUBSET Facts]
  /\ reply \in [Procs -> {"none", "accepted", "refused", "conflict", "exhausted", "invalid",
                        "commit_failed"}]

\* The abstract belief base: an operation is served once it is in the log.
Served == {log[i].by : i \in DOMAIN log} \ {NoProc}
Base == INSTANCE BeliefBase WITH served <- Served

\* The batch an initial belief was written by.
Seeded(p) == IF \E f \in Facts : p[f] # NoState
             THEN <<[first |-> 0, count |-> 1, by |-> NoProc, what |-> "op"]>> ELSE <<>>

Init ==
  /\ job \in {js \in [Procs -> AllJobs] : \A p \in Procs : js[p] \in Jobs[p]}
  /\ proj \in InitialBeliefs
  /\ log = Seeded(proj) /\ head = Len(log) /\ alloc = head
  /\ lease = NoProc
  /\ pc = [p \in Procs |-> IF job[p].op = "retrieve" THEN "explain" ELSE "start"]
  /\ attempt = [p \in Procs |-> 0]
  /\ seen = [p \in Procs |-> [proj |-> [f \in Facts |-> NoState], next |-> 0]]
  /\ first = [p \in Procs |-> 0]
  /\ lost = [p \in Procs |-> {}]
  /\ shown = [p \in Procs |-> {}]
  /\ reply = [p \in Procs |-> "none"]

-----------------------------------------------------------------------------

Numbers(e) == e.first..(e.first + e.count - 1)

\* from_trusted_events finds no event id twice.
NumbersUnique(l) ==
  \A i, j \in DOMAIN l : i # j => Numbers(l[i]) \cap Numbers(l[j]) = {}

\* load_store succeeds.
Loadable == NumbersUnique(log) /\ Loads(proj, Instant)

Goto(p, l) == pc' = [pc EXCEPT ![p] = l]

\* Mutant: the lock file is removed, whoever holds it.
ReleaseAny(p) == lease' = NoProc

\* The guard is dropped, or the process dies: the lease is free.
Release(p) == lease' = IF lease = p THEN NoProc ELSE lease

\* The operation returns to its caller.
Settle(p, answer) ==
  /\ Goto(p, "done") /\ Release(p)
  /\ reply' = [reply EXCEPT ![p] = answer]

\* OpError::Conflict: the retry loop starts over, up to its bound; outside the
\* loop it is the caller's.
Conflict(p) ==
  IF p \in Unleased
  THEN Settle(p, "conflict") /\ UNCHANGED attempt
  ELSE /\ attempt' = [attempt EXCEPT ![p] = @ + 1]
       /\ IF attempt[p] + 1 = MaxAttempts
          THEN Settle(p, "exhausted")
          ELSE Goto(p, "start") /\ Release(p) /\ UNCHANGED reply

\* The events a process decides to write on its snapshot, numbered from n.
Decided(p, n) ==
  IF job[p].op = "retrieve"
  THEN RetrievalBatch(shown[p], seen[p].proj, job[p].r, n, Instant)
  ELSE Batch(job[p].op, seen[p].proj, job[p].r, n, Instant)

Persist(p, batch, what) ==
  LET count == Cardinality(DOMAIN batch)
  IN /\ proj' = Applied(proj, batch)
     /\ log' = Append(log, [first |-> first[p], count |-> count, by |-> p, what |-> what])
     /\ head' = Greater(head, first[p] + count)

\* Mutant: the touched policies are not rechecked.
DurablyAdmittedUnchecked(p, batch) ==
  /\ Refused(proj, batch) = {}
  /\ NumbersUnique(Append(log, [first |-> first[p], count |-> Cardinality(DOMAIN batch)]))

\* append_many: the firewall, the duplicate check and the touched policies, on
\* what is durable now.
DurablyAdmitted(p, batch) ==
  /\ Refused(proj, batch) = {}
  /\ NumbersUnique(Append(log, [first |-> first[p], count |-> Cardinality(DOMAIN batch)]))
  /\ \A f \in DOMAIN batch :
       UniqueProjection(Applied(proj, batch), batch[f].shape, Instant)

-----------------------------------------------------------------------------
(* The steps of one process.                                               *)

\* An audited read resolves the fact, or the pack of facts, it returns.
Explain(p) ==
  LET believed == BelievedOf(proj, job[p].r.shape)
  IN /\ pc[p] = "explain"
     /\ IF ~Loadable THEN Settle(p, "invalid") /\ UNCHANGED shown
        ELSE IF believed # {}
        THEN /\ \E s \in {believed, {ExplainSubject(proj, job[p].r.shape, Instant)}} :
                  shown' = [shown EXCEPT ![p] = s]
             /\ Goto(p, "start") /\ UNCHANGED <<lease, reply>>
        ELSE Settle(p, "refused") /\ UNCHANGED shown
     /\ UNCHANGED <<job, store, alloc, attempt, seen, first, lost>>

\* Mutant: the lock is advisory and nobody waits for it.
AcquireShared(p) ==
  /\ pc[p] = "start"
  /\ IF p \in Unleased THEN UNCHANGED lease ELSE lease' = p
  /\ Goto(p, "load")
  /\ UNCHANGED <<job, store, alloc, attempt, seen, first, lost, shown, reply>>

Acquire(p) ==
  /\ pc[p] = "start"
  /\ IF p \in Unleased THEN UNCHANGED lease ELSE lease = NoProc /\ lease' = p
  /\ Goto(p, "load")
  /\ UNCHANGED <<job, store, alloc, attempt, seen, first, lost, shown, reply>>

\* The lease cannot be asked for, or a database lease was waited for up to
\* WRITE_LEASE_TIMEOUT. Either way the loop goes on.
LeaseFails(p) ==
  /\ pc[p] = "start" /\ p \notin Unleased
  /\ Conflict(p)
  /\ UNCHANGED <<job, store, alloc, seen, first, lost, shown>>

Load(p) ==
  /\ pc[p] = "load"
  /\ IF Loadable
     THEN /\ seen' = [seen EXCEPT ![p] = [proj |-> proj, next |-> head]]
          /\ Goto(p, "reserve") /\ UNCHANGED <<lease, reply>>
     ELSE Settle(p, "invalid") /\ UNCHANGED seen
  /\ UNCHANGED <<job, store, alloc, attempt, first, lost, shown>>

\* load_store's every error becomes OpError::invalid, a busy database's too.
LoadFails(p) ==
  /\ pc[p] = "load"
  /\ Settle(p, "invalid")
  /\ UNCHANGED <<job, store, alloc, attempt, seen, first, lost, shown>>

\* reserve_event_seq: one past the snapshot's highest number, or a range of the
\* database's own.
TakeNumbers(p, next, count) ==
  IF Backend = "file"
  THEN first' = [first EXCEPT ![p] = next] /\ UNCHANGED alloc
  ELSE first' = [first EXCEPT ![p] = alloc] /\ alloc' = alloc + count

\* Numbers are taken for the batch, then it is decided in memory.
Reserve(p) ==
  LET op == job[p].op  r == job[p].r
      n == IF Backend = "file" THEN seen[p].next ELSE alloc
      batch == Decided(p, n)
  IN /\ pc[p] = "reserve"
     /\ IF op = "retrieve" \/ HasTarget(op, seen[p].proj, r, Instant)
        THEN TakeNumbers(p, seen[p].next, Cardinality(DOMAIN batch))
        ELSE UNCHANGED <<first, alloc>>
     /\ lost' = [lost EXCEPT ![p] = IF op = "retrieve" THEN {}
                                     ELSE Challenge(op, seen[p].proj, r, n, Instant)]
     /\ IF IF op = "retrieve" THEN Refused(seen[p].proj, batch) = {}
                              ELSE Accepts(op, seen[p].proj, r, n, Instant)
        THEN Goto(p, "commit") /\ UNCHANGED <<lease, reply>>
        ELSE IF lost'[p] # {}
        THEN Goto(p, "record") /\ UNCHANGED <<lease, reply>>
        ELSE Settle(p, "refused")
     /\ UNCHANGED <<job, store, attempt, seen, shown>>

\* reserve_event_seq fails for good: the allocator may have moved.
ReserveFails(p) ==
  /\ pc[p] = "reserve" /\ Backend = "database"
  /\ \/ UNCHANGED alloc
     \/ alloc' = alloc + Cardinality(DOMAIN Decided(p, alloc))
  /\ Settle(p, "refused")
  /\ UNCHANGED <<job, store, attempt, seen, first, lost, shown>>

\* append_events: a database refuses a batch its current state does not admit.
Commit(p) ==
  LET batch == Decided(p, first[p])
  IN /\ pc[p] = "commit"
     /\ IF Backend = "file" \/ DurablyAdmitted(p, batch)
        THEN /\ Persist(p, batch, "op")
             /\ Goto(p, "return")
             /\ reply' = [reply EXCEPT ![p] = "accepted"]
             /\ UNCHANGED <<lease, attempt>>
        ELSE Conflict(p) /\ UNCHANGED store
     /\ UNCHANGED <<job, alloc, seen, first, lost, shown>>

\* What an append that fails leaves: nothing, the whole transaction when only its
\* commit is not confirmed, or the first lines of the batch. (write_all does not
\* fail once every byte is written. A line cut in two is FileLog's.)
CutShort(p, batch, what) ==
  \/ UNCHANGED store
  \/ /\ Backend = "database" /\ DurablyAdmitted(p, batch)
     /\ Persist(p, batch, what)
  \/ /\ Backend = "file"
     /\ \E part \in Parts(batch) : Persist(p, part, "part")

\* Mutant: a failed append is taken for contention and tried again.
AppendFailsRetried(p) ==
  /\ pc[p] = "commit"
  /\ CutShort(p, Decided(p, first[p]), "op")
  /\ Conflict(p)
  /\ UNCHANGED <<job, alloc, seen, first, lost, shown>>

\* WriteError::Other of append_events: the caller is told that the write could
\* not be committed (ErrorCode::CommitFailed), and the loop does not go on.
AppendFails(p) ==
  /\ pc[p] = "commit"
  /\ CutShort(p, Decided(p, first[p]), "op")
  /\ Settle(p, "commit_failed")
  /\ UNCHANGED <<job, alloc, attempt, seen, first, lost, shown>>

\* The write lock was held past busy_timeout: the reservation or the
\* transaction never began.
Busy(p) ==
  /\ pc[p] \in {"reserve", "commit"} /\ Backend = "database" /\ Contended
  /\ Conflict(p)
  /\ UNCHANGED <<job, store, alloc, seen, first, lost, shown>>

\* The record of the contest the process lost, numbered n.
LostContest(p, n) ==
  RecordBatch(CHOOSE c \in lost[p] : TRUE, job[p].r, n, Instant)

\* persist_challenge_record takes a snapshot and a number of its own; any
\* failure only loses the record.
Record(p) ==
  LET n == IF Backend = "file" THEN head ELSE alloc
  IN /\ pc[p] = "record"
     /\ IF Loadable THEN TakeNumbers(p, head, 1) ELSE UNCHANGED <<first, alloc>>
     /\ IF Loadable /\ Refused(proj, LostContest(p, n)) = {}
        THEN Goto(p, "append_record") /\ UNCHANGED <<lease, reply>>
        ELSE Settle(p, "refused")
     /\ UNCHANGED <<job, store, attempt, seen, lost, shown>>

AppendRecord(p) ==
  LET record == LostContest(p, first[p])
  IN /\ pc[p] = "append_record"
     /\ IF Backend = "file" \/ DurablyAdmitted(p, record)
        THEN Persist(p, record, "record") ELSE UNCHANGED store
     /\ Goto(p, "return")
     /\ reply' = [reply EXCEPT ![p] = "refused"]
     /\ UNCHANGED <<job, alloc, lease, attempt, seen, first, lost, shown>>

\* The record is lost, or lands though its append is not confirmed.
RecordFails(p) ==
  /\ \/ pc[p] = "record" /\ UNCHANGED store
     \/ pc[p] = "append_record" /\ CutShort(p, LostContest(p, first[p]), "record")
  /\ Settle(p, "refused")
  /\ UNCHANGED <<job, alloc, attempt, seen, first, lost, shown>>

Return(p) ==
  /\ pc[p] = "return"
  /\ Goto(p, "done") /\ Release(p)
  /\ UNCHANGED <<job, store, alloc, attempt, seen, first, lost, shown, reply>>

\* Mutant: the lock outlives the process that took it.
CrashKeepsLease(p) ==
  /\ pc[p] \notin Settled
  /\ Goto(p, "crashed") /\ UNCHANGED lease
  /\ UNCHANGED <<job, store, alloc, attempt, seen, first, lost, shown, reply>>

\* The process dies, in the middle of its append or elsewhere: whatever it was
\* about to answer, its caller hears nothing.
Crash(p) ==
  /\ pc[p] \notin Settled
  /\ Goto(p, "crashed") /\ Release(p)
  /\ \/ UNCHANGED store
     \/ pc[p] = "commit" /\ CutShort(p, Decided(p, first[p]), "op")
  /\ reply' = [reply EXCEPT ![p] = "none"]
  /\ UNCHANGED <<job, alloc, attempt, seen, first, lost, shown>>

Step(p) ==
  \/ Explain(p) \/ Acquire(p) \/ Load(p) \/ Reserve(p) \/ Commit(p)
  \/ Record(p) \/ AppendRecord(p) \/ Return(p)

\* What may befall a process.
Fault(p) ==
  \/ LeaseFails(p) \/ LoadFails(p) \/ ReserveFails(p) \/ Busy(p)
  \/ AppendFails(p) \/ RecordFails(p) \/ Crash(p)

Next == \E p \in Procs : Step(p) \/ Fault(p)

\* The scheduler runs every process that can run: one that is not waiting for
\* the lease does not stand still forever. A fault counts as moving, so this
\* assumes less than the fairness of Step.
Moves(p) ==
  /\ pc[p] \notin Settled
  /\ pc[p] = "start" /\ p \notin Unleased => lease = NoProc
  /\ \E l \in Labels \ {pc[p]} : Goto(p, l)

Fairness == \A p \in Procs : WF_pc(Moves(p))

Spec == Init /\ [][Next]_vars /\ Fairness
-----------------------------------------------------------------------------
(* What concurrent writers are promised.                                   *)

\* ops.rs with_write_retry and the leases: as long as every writer takes the
\* lease, the operations are linearizable: each takes effect at most once, on
\* the beliefs of the instant it commits, whatever crashes, retries and
\* failures happen. The effect is the whole operation, but for a file that took
\* only the first lines of it.
Linearizable == Base!Spec

\* main.rs backend_append: between the load and the commit of a leased cycle
\* nobody else moves the store, so a decision is never stale.
SnapshotIsCurrent ==
  \A p \in Procs \ Unleased :
    pc[p] \in {"reserve", "commit"} => seen[p] = [proj |-> proj, next |-> head]

EntriesOf(p) == {i \in DOMAIN log : log[i].by = p}

\* What the log may hold of a process that was given this answer.
HeldAfter(answer) ==
  CASE answer = "accepted" -> {"op"}
    [] answer = "refused" -> {"record"}
    [] answer = "commit_failed" -> IF Backend = "file" THEN {"part"} ELSE {"op"}
    [] OTHER -> {}

\* ops.rs with_write_retry, write_error_to_op: a caller is never misled. An
\* accepted operation is in the log; whatever else is there of an operation is
\* there once, whole but for a file's first lines, and its caller was told that
\* the commit failed, or refused with a challenge recorded. After any other
\* answer, exhausted retries among them, the log was never touched.
ReplyMatchesLog ==
  \A p \in Procs : pc[p] = "done" =>
    /\ Cardinality(EntriesOf(p)) <= 1
    /\ \A i \in EntriesOf(p) : log[i].what \in HeldAfter(reply[p])
    /\ reply[p] = "accepted" => EntriesOf(p) # {}

\* main.rs reserve_event_seq: "concurrent writers do not sign the same event
\* id": what a writer is about to commit overlaps neither the log nor what
\* another is about to commit, racers included.
SignedNumbersDisjoint ==
  \A p, q \in {x \in Procs : pc[x] \in {"commit", "append_record"}} :
    /\ p # q => first[p] # first[q]
    /\ \A i \in DOMAIN log : first[p] \notin Numbers(log[i])

\* adapter.rs append_many: "stale concurrent writers cannot silently create
\* duplicate beliefs", with or without a lease.
NoSilentDuplicates == \A shape \in Shapes : UniqueProjection(proj, shape, Instant)

\* ops.rs acquire_backend_write_lease: every operation ends, answered or with
\* its process: a lease is never left behind, and no writer waits forever.
EveryOperationEnds == \A p \in Procs : <>(pc[p] \in Settled)
=============================================================================
