--------------------------- MODULE OperationProofs ---------------------------
(***************************************************************************)
(* Proofs about the belief operations. First ConcurrentWriters: for any    *)
(* set of processes, any operations, any number of attempts and either     *)
(* backend. Then WriteOps: for any workload, with or without the           *)
(* entrenchment gate. The two share the lemmas about batches, the firewall *)
(* and the uniqueness of projections.                                      *)
(***************************************************************************)
EXTENDS ConcurrentWriters, WriteOps, FiniteSetTheorems, TLAPS

-----------------------------------------------------------------------------
(* Batches are finite, so every count of events is a number.               *)

\* build_revision: a batch touches the new fact and the incumbents, no more.
LEMMA BatchFinite ==
  ASSUME NEW op, NEW p, NEW r, NEW n, NEW t, IsFiniteSet(Present(p))
  PROVE  IsFiniteSet(DOMAIN Batch(op, p, r, n, t))
<1> DEFINE B == BelievedOf(p, r.shape)
           E == ExplainSubject(p, r.shape, t)
<1>1. B \subseteq Present(p)
  BY DEF BelievedOf, IsBelieved, Believed, Present, NoState
<1>2. IsFiniteSet(B)
  BY <1>1, FS_Subset
<1>3. IsFiniteSet((B \cup {E}) \cup {n})
  BY <1>2, FS_AddElement
<1>4. Incumbents(op, p, r, t) \subseteq B \cup {E}
  BY DEF Incumbents
<1>5. DOMAIN Batch(op, p, r, n, t) \subseteq (B \cup {E}) \cup {n}
  BY <1>4 DEF Batch, PerIncumbent
<1> QED
  BY <1>3, <1>5, FS_Subset

\* memory.rs append: a finite batch adds finitely many facts.
LEMMA AppliedFinite ==
  ASSUME NEW p, NEW batch, IsFiniteSet(Present(p)), IsFiniteSet(DOMAIN batch)
  PROVE  IsFiniteSet(Present(Applied(p, batch)))
<1>1. Present(Applied(p, batch)) \subseteq Present(p) \cup DOMAIN batch
  BY DEF Present, Applied
<1>2. IsFiniteSet(Present(p) \cup DOMAIN batch)
  BY FS_Union
<1> QED
  BY <1>1, <1>2, FS_Subset

-----------------------------------------------------------------------------
(* Types.                                                                  *)

Answers ==
  {"none", "accepted", "refused", "conflict", "exhausted", "invalid", "commit_failed"}

\* The part of TypeOK the arguments below need.
Typed ==
  /\ log \in Seq(Entry) /\ head \in Nat /\ alloc \in Nat
  /\ pc \in [Procs -> Labels] /\ reply \in [Procs -> Answers]
  /\ first \in [Procs -> Nat]
  /\ DOMAIN seen = Procs /\ DOMAIN shown = Procs /\ DOMAIN lost = Procs
  /\ \A p \in Procs : seen[p].next \in Nat

Finite ==
  /\ IsFiniteSet(Present(proj))
  /\ \A p \in Procs : IsFiniteSet(Present(seen[p].proj)) /\ IsFiniteSet(shown[p])

\* append_events writes one well-formed entry.
LEMMA PersistTyped ==
  ASSUME Typed, Finite, NEW p \in Procs, NEW batch, IsFiniteSet(DOMAIN batch),
         NEW what \in {"op", "part", "record"}, Persist(p, batch, what)
  PROVE  \E e \in Entry : /\ log' = Append(log, e) /\ e.by = p /\ e.what = what
                          /\ e.first = first[p] /\ e.count = Cardinality(DOMAIN batch)
                          /\ head' \in Nat /\ log' \in Seq(Entry)
                          /\ IsFiniteSet(Present(proj'))
<1> DEFINE e == [first |-> first[p], count |-> Cardinality(DOMAIN batch), by |-> p, what |-> what]
<1>1. Cardinality(DOMAIN batch) \in Nat
  BY FS_CardinalityType
<1>2. e \in Entry
  BY <1>1 DEF Entry, Typed
<1>3. log' = Append(log, e) /\ head' = Greater(head, first[p] + Cardinality(DOMAIN batch))
  BY DEF Persist
<1>4. head' \in Nat
  BY <1>1, <1>3 DEF Greater, Typed
<1>5. IsFiniteSet(Present(proj'))
  BY AppliedFinite DEF Finite, Persist
<1>6. log' \in Seq(Entry)
  BY <1>2, <1>3 DEF Typed
<1>7. e.by = p /\ e.what = what /\ e.first = first[p] /\ e.count = Cardinality(DOMAIN batch)
  OBVIOUS
<1> HIDE DEF e
<1> QED
  BY <1>2, <1>3, <1>4, <1>5, <1>6, <1>7

\* Whatever a process decides on its snapshot is finite.
LEMMA DecidedFinite ==
  ASSUME Finite, NEW p \in Procs, NEW n
  PROVE  IsFiniteSet(DOMAIN Decided(p, n))
<1>1. CASE job[p].op = "retrieve"
  BY <1>1 DEF Decided, RetrievalBatch, Finite
<1>2. CASE job[p].op # "retrieve"
  BY <1>2, BatchFinite DEF Decided, Finite
<1> QED
  BY <1>1, <1>2

\* persist_challenge_record writes one event.
LEMMA LostContestDomain ==
  ASSUME NEW p, NEW n
  PROVE  /\ IsFiniteSet(DOMAIN LostContest(p, n))
         /\ Cardinality(DOMAIN LostContest(p, n)) = 1
BY FS_Singleton DEF LostContest, RecordBatch

\* What an append that fails leaves, when it leaves something.
LEMMA CutShortWrites ==
  ASSUME NEW p \in Procs, NEW batch, IsFiniteSet(DOMAIN batch), NEW what,
         CutShort(p, batch, what)
  PROVE  \/ UNCHANGED store
         \/ /\ Backend = "database" /\ DurablyAdmitted(p, batch)
            /\ Persist(p, batch, what)
         \/ /\ Backend = "file"
            /\ \E part \in Parts(batch) :
                 IsFiniteSet(DOMAIN part) /\ Persist(p, part, "part")
<1>1. ASSUME NEW part \in Parts(batch) PROVE IsFiniteSet(DOMAIN part)
  <2>1. DOMAIN part \subseteq DOMAIN batch
    BY DEF Parts
  <2> QED BY <2>1, FS_Subset
<1> QED BY <1>1 DEF CutShort

\* The same, said of the log alone.
LEMMA CutShortEntry ==
  ASSUME Typed, Finite, NEW p \in Procs, NEW batch, IsFiniteSet(DOMAIN batch),
         NEW what \in {"op", "record"}, CutShort(p, batch, what)
  PROVE  \/ UNCHANGED store
         \/ \E e \in Entry : /\ log' = Append(log, e) /\ e.by = p
                             /\ e.what = IF Backend = "file" THEN "part" ELSE what
                             /\ e.first = first[p]
                             /\ Backend = "database" => e.count = Cardinality(DOMAIN batch)
                             /\ head' \in Nat /\ log' \in Seq(Entry)
                             /\ IsFiniteSet(Present(proj'))
<1>1. CASE Backend = "database" /\ Persist(p, batch, what)
  BY <1>1, PersistTyped
<1>2. CASE Backend = "file" /\ \E part \in Parts(batch) :
             IsFiniteSet(DOMAIN part) /\ Persist(p, part, "part")
  BY <1>2, PersistTyped
<1> QED BY <1>1, <1>2, CutShortWrites

\* with_write_retry: a conflict starts the process over or answers its caller.
LEMMA ConflictOutcome ==
  ASSUME NEW p \in Procs, Conflict(p)
  PROVE  \/ Goto(p, "start") /\ UNCHANGED reply /\ Release(p)
         \/ \E a \in {"conflict", "exhausted"} : Settle(p, a)
BY DEF Conflict

\* A process that moves leaves the others where they are.
LEMMA GotoTyped ==
  ASSUME Typed, NEW p \in Procs, NEW l \in Labels, Goto(p, l)
  PROVE  pc' \in [Procs -> Labels] /\ pc'[p] = l /\ \A q \in Procs \ {p} : pc'[q] = pc[q]
BY DEF Typed, Goto

\* An answer ends one process and reaches one caller.
LEMMA SettleTyped ==
  ASSUME Typed, NEW p \in Procs, NEW a \in Answers, Settle(p, a)
  PROVE  /\ pc' \in [Procs -> Labels] /\ pc'[p] = "done" /\ \A q \in Procs \ {p} : pc'[q] = pc[q]
         /\ reply' \in [Procs -> Answers] /\ reply'[p] = a
         /\ \A q \in Procs \ {p} : reply'[q] = reply[q]
BY GotoTyped DEF Settle, Labels, Settled, Typed

\* Where a process is and what it says keep their types.
ControlTyped == pc \in [Procs -> Labels] /\ reply \in [Procs -> Answers]

\* A conflict leaves every process at a label, with an answer or none.
LEMMA ConflictTyped ==
  ASSUME Typed, NEW p \in Procs, Conflict(p)
  PROVE  ControlTyped'
BY ConflictOutcome, GotoTyped, SettleTyped DEF ControlTyped, Answers, Labels, Settled, Typed

\* Every step of a process keeps where processes are and what they say typed.
LEMMA ControlStep ==
  ASSUME Typed, NEW p \in Procs, Step(p) \/ Fault(p)
  PROVE  ControlTyped'
<1> USE DEF ControlTyped
<1> DEFINE Walks == \E l \in Labels : Goto(p, l)
<1>1. ASSUME Walks, UNCHANGED reply PROVE ControlTyped'
  BY <1>1, GotoTyped DEF Typed
<1>2. ASSUME \E a \in Answers : Settle(p, a) PROVE ControlTyped'
  BY <1>2, SettleTyped
<1>3. ASSUME Walks, NEW a \in Answers, reply' = [reply EXCEPT ![p] = a] PROVE ControlTyped'
  BY <1>3, GotoTyped DEF Typed
<1> HIDE DEF ControlTyped
<1>4. CASE Explain(p)
  BY <1>1, <1>2, <1>4 DEF Explain, Answers, Labels, Settled
<1>5. CASE Acquire(p)
  BY <1>1, <1>5 DEF Acquire, Labels, Settled
<1>6. CASE Load(p)
  BY <1>1, <1>2, <1>6 DEF Load, Answers, Labels, Settled
<1>7. CASE Reserve(p)
  <2>1. \/ Goto(p, "commit") /\ UNCHANGED reply
        \/ Goto(p, "record") /\ UNCHANGED reply
        \/ Settle(p, "refused")
    BY <1>7 DEF Reserve
  <2> QED BY <1>1, <1>2, <2>1 DEF Answers, Labels, Settled
<1>8. CASE Commit(p)
  BY <1>3, <1>8, ConflictTyped DEF Commit, Answers, Labels, Settled
<1>9. CASE Record(p)
  BY <1>1, <1>2, <1>9 DEF Record, Answers, Labels, Settled
<1>10. CASE AppendRecord(p)
  BY <1>3, <1>10 DEF AppendRecord, Answers, Labels, Settled
<1>11. CASE Return(p)
  BY <1>1, <1>11 DEF Return, Labels, Settled
<1>12. CASE LeaseFails(p) \/ Busy(p)
  BY <1>12, ConflictTyped DEF LeaseFails, Busy
<1>13. CASE LoadFails(p) \/ ReserveFails(p) \/ AppendFails(p) \/ RecordFails(p)
  BY <1>2, <1>13 DEF LoadFails, ReserveFails, AppendFails, RecordFails, Answers
<1>14. CASE Crash(p)
  BY <1>3, <1>14 DEF Crash, Answers, Labels, Settled
<1> QED
  BY <1>4, <1>5, <1>6, <1>7, <1>8, <1>9, <1>10, <1>11, <1>12, <1>13, <1>14 DEF Step, Fault

\* reserve_event_seq hands out natural numbers.
LEMMA TakeNumbersTyped ==
  ASSUME Typed, NEW p \in Procs, NEW next \in Nat, NEW count \in Nat,
         TakeNumbers(p, next, count)
  PROVE  first' \in [Procs -> Nat] /\ alloc' \in Nat
<1>1. first \in [Procs -> Nat] /\ alloc \in Nat /\ alloc + count \in Nat
  BY DEF Typed
<1>2. CASE Backend = "file"
  BY <1>1, <1>2 DEF TakeNumbers
<1>3. CASE Backend # "file"
  BY <1>1, <1>3 DEF TakeNumbers
<1> QED
  BY <1>2, <1>3

\* Every step of a process leaves well-typed, finite data.
LEMMA DataStep ==
  ASSUME Typed, Finite, NEW p \in Procs, Step(p) \/ Fault(p)
  PROVE  Typed' /\ Finite'
<1>1. ControlTyped'
  BY ControlStep
<1>2. ASSUME UNCHANGED <<store, alloc, seen, first, lost, shown>> PROVE Typed' /\ Finite'
  BY <1>1, <1>2 DEF Typed, Finite, ControlTyped, store, Present
<1>3. CASE Explain(p)
  <2> DEFINE B == BelievedOf(proj, job[p].r.shape)
  <2>1. UNCHANGED <<store, alloc, seen, first, lost>>
    BY <1>3 DEF Explain
  <2>2. IsFiniteSet(B)
    <3>1. B \subseteq Present(proj)
      BY DEF BelievedOf, IsBelieved, Believed, Present, NoState
    <3> QED BY <3>1, FS_Subset DEF Finite
  <2>3. \/ UNCHANGED shown
        \/ \E s : IsFiniteSet(s) /\ shown' = [shown EXCEPT ![p] = s]
    BY <1>3, <2>2, FS_Singleton DEF Explain
  <2>4. DOMAIN shown' = Procs /\ \A q \in Procs : IsFiniteSet(shown'[q])
    BY <2>3 DEF Finite, Typed
  <2> QED BY <1>1, <2>1, <2>4 DEF Typed, Finite, ControlTyped, store, Present
<1>4. CASE Load(p)
  <2>1. UNCHANGED <<store, alloc, first, lost, shown>>
    BY <1>4 DEF Load
  <2>2. UNCHANGED seen \/ seen' = [seen EXCEPT ![p] = [proj |-> proj, next |-> head]]
    BY <1>4 DEF Load
  <2>3. /\ DOMAIN seen' = Procs
        /\ \A q \in Procs : seen'[q].next \in Nat /\ IsFiniteSet(Present(seen'[q].proj))
    <3> DEFINE snapshot == [proj |-> proj, next |-> head]
    <3>1. snapshot.next = head /\ snapshot.proj = proj /\ head \in Nat
      BY DEF Typed
    <3>2. CASE UNCHANGED seen
      BY <3>2 DEF Typed, Finite
    <3>3. CASE seen' = [seen EXCEPT ![p] = snapshot]
      <4> HIDE DEF snapshot
      <4>1. \A q \in Procs : seen'[q] = IF q = p THEN snapshot ELSE seen[q]
        BY <3>3 DEF Typed
      <4>2. DOMAIN seen' = Procs
        BY <3>3 DEF Typed
      <4> QED BY <3>1, <4>1, <4>2 DEF Typed, Finite
    <3> QED BY <2>2, <3>2, <3>3
  <2> QED BY <1>1, <2>1, <2>3 DEF Typed, Finite, ControlTyped, store, Present
<1>5. CASE Reserve(p)
  <2>1. UNCHANGED <<store, seen, shown>> /\ DOMAIN lost' = Procs
    BY <1>5 DEF Reserve, Typed
  <2>2. PICK n : \/ UNCHANGED <<first, alloc>>
                 \/ TakeNumbers(p, seen[p].next, Cardinality(DOMAIN Decided(p, n)))
    BY <1>5 DEF Reserve
  <2>3. Cardinality(DOMAIN Decided(p, n)) \in Nat
    BY DecidedFinite, FS_CardinalityType
  <2>4. first' \in [Procs -> Nat] /\ alloc' \in Nat
    <3>1. seen[p].next \in Nat /\ first \in [Procs -> Nat] /\ alloc \in Nat
      BY DEF Typed
    <3> QED BY <2>2, <2>3, <3>1, TakeNumbersTyped
  <2> QED BY <1>1, <2>1, <2>4 DEF Typed, Finite, ControlTyped, store, Present
<1>6. CASE Commit(p)
  <2>1. UNCHANGED <<alloc, seen, first, lost, shown>>
    BY <1>6 DEF Commit
  <2>2. UNCHANGED store \/ Persist(p, Decided(p, first[p]), "op")
    BY <1>6 DEF Commit
  <2>3. CASE UNCHANGED store
    BY <1>2, <2>1, <2>3
  <2>4. CASE Persist(p, Decided(p, first[p]), "op")
    <3>1. head' \in Nat /\ log' \in Seq(Entry) /\ IsFiniteSet(Present(proj'))
      BY <2>4, DecidedFinite, PersistTyped
    <3> QED BY <1>1, <2>1, <3>1 DEF Typed, Finite, ControlTyped, Present
  <2> QED BY <2>2, <2>3, <2>4
<1>7. CASE Record(p)
  <2>1. UNCHANGED <<store, seen, shown, lost>>
    BY <1>7 DEF Record
  <2>2. UNCHANGED <<first, alloc>> \/ TakeNumbers(p, head, 1)
    BY <1>7 DEF Record
  <2>3. first' \in [Procs -> Nat] /\ alloc' \in Nat
    BY <2>2, TakeNumbersTyped DEF Typed
  <2> QED BY <1>1, <2>1, <2>3 DEF Typed, Finite, ControlTyped, store, Present
<1>8. CASE AppendRecord(p)
  <2>1. UNCHANGED <<alloc, seen, first, lost, shown>>
    BY <1>8 DEF AppendRecord
  <2>2. UNCHANGED store \/ Persist(p, LostContest(p, first[p]), "record")
    BY <1>8 DEF AppendRecord
  <2>3. CASE UNCHANGED store
    BY <1>2, <2>1, <2>3
  <2>4. CASE Persist(p, LostContest(p, first[p]), "record")
    <3>1. head' \in Nat /\ log' \in Seq(Entry) /\ IsFiniteSet(Present(proj'))
      BY <2>4, LostContestDomain, PersistTyped
    <3> QED BY <1>1, <2>1, <3>1 DEF Typed, Finite, ControlTyped, Present
  <2> QED BY <2>2, <2>3, <2>4
<1>9. CASE Acquire(p) \/ Return(p) \/ LeaseFails(p) \/ LoadFails(p) \/ Busy(p)
  BY <1>2, <1>9 DEF Acquire, Return, LeaseFails, LoadFails, Busy
<1>10. CASE ReserveFails(p)
  <2>1. UNCHANGED <<store, seen, first, lost, shown>>
    BY <1>10 DEF ReserveFails
  <2>2. Cardinality(DOMAIN Decided(p, alloc)) \in Nat
    BY DecidedFinite, FS_CardinalityType
  <2>3. alloc' \in Nat
    BY <1>10, <2>2 DEF ReserveFails, Typed
  <2> QED BY <1>1, <2>1, <2>3 DEF Typed, Finite, ControlTyped, store, Present
<1>11. CASE AppendFails(p) \/ RecordFails(p) \/ Crash(p)
  <2>1. UNCHANGED <<alloc, seen, first, lost, shown>>
    BY <1>11 DEF AppendFails, RecordFails, Crash
  <2>2. \/ UNCHANGED store
        \/ CutShort(p, Decided(p, first[p]), "op")
        \/ CutShort(p, LostContest(p, first[p]), "record")
    BY <1>11 DEF AppendFails, RecordFails, Crash
  <2>3. \/ UNCHANGED store
        \/ head' \in Nat /\ log' \in Seq(Entry) /\ IsFiniteSet(Present(proj'))
    <3>1. /\ IsFiniteSet(DOMAIN Decided(p, first[p]))
          /\ IsFiniteSet(DOMAIN LostContest(p, first[p]))
      BY DecidedFinite, LostContestDomain
    <3>2. CASE CutShort(p, Decided(p, first[p]), "op")
      BY <3>1, <3>2, CutShortEntry
    <3>3. CASE CutShort(p, LostContest(p, first[p]), "record")
      BY <3>1, <3>3, CutShortEntry
    <3> QED BY <2>2, <3>2, <3>3
  <2>4. CASE UNCHANGED store
    BY <1>2, <2>1, <2>4
  <2>5. CASE head' \in Nat /\ log' \in Seq(Entry) /\ IsFiniteSet(Present(proj'))
    BY <1>1, <2>1, <2>5 DEF Typed, Finite, ControlTyped, Present
  <2> QED BY <2>3, <2>4, <2>5
<1> QED
  BY <1>3, <1>4, <1>5, <1>6, <1>7, <1>8, <1>9, <1>10, <1>11 DEF Step, Fault

\* The writers start on an empty store or on one belief.
LEMMA InitTyped ==
  ASSUME Init
  PROVE  Typed /\ Finite
<1>1. \A f \in Facts : NoBeliefs[f] = NoState
  BY DEF NoBeliefs
<1>2. Present(NoBeliefs) = {}
  BY <1>1 DEF Present
<1>3. IsFiniteSet(Present(NoBeliefs))
  BY <1>2, FS_EmptySet
<1>4. IsFiniteSet(Present(proj))
  BY <1>3, BatchFinite, AppliedFinite DEF Init, InitialBeliefs
<1>5. log \in Seq(Entry) /\ Len(log) \in Nat
  <2> DEFINE e == [first |-> 0, count |-> 1, by |-> NoProc, what |-> "op"]
  <2>1. e \in Entry
    BY DEF Entry
  <2>2. log = <<>> \/ log = <<e>>
    BY DEF Init, Seeded
  <2> HIDE DEF e
  <2>3. CASE log = <<>>
    BY <2>3
  <2>4. CASE log = <<e>>
    BY <2>1, <2>4
  <2> QED BY <2>2, <2>3, <2>4
<1>6. \A p \in Procs : Present(seen[p].proj) = {} /\ shown[p] = {}
  BY <1>2 DEF Init, NoBeliefs
<1>7. Finite
  BY <1>4, <1>6, FS_EmptySet DEF Finite
<1>8. pc \in [Procs -> Labels]
  BY DEF Init, Labels, Settled
<1> QED
  BY <1>5, <1>7, <1>8 DEF Init, Typed, Answers

-----------------------------------------------------------------------------
(* Answers. Until a process returns it has written nothing; from then on   *)
(* what it wrote is what it says.                                          *)

\* The labels of a process that has not written.
Before == Labels \ {"return", "done", "crashed"}

\* What p wrote to the log l, and its agreement with the answer a.
Written(l, p) == {i \in DOMAIN l : l[i].by = p}

Agrees(l, p, a) ==
  \/ \E i \in DOMAIN l : Written(l, p) = {i} /\ l[i].what \in HeldAfter(a)
  \/ a # "accepted" /\ Written(l, p) = {}

Accounts ==
  \A p \in Procs :
    /\ pc[p] \in Before => Written(log, p) = {}
    /\ pc[p] \in {"return", "done"} => Agrees(log, p, reply[p])

\* Agreement is what the caller is promised.
LEMMA AccountsSuffice ==
  ASSUME Accounts
  PROVE  ReplyMatchesLog
<1> SUFFICES ASSUME NEW p \in Procs, pc[p] = "done"
             PROVE  /\ Cardinality(EntriesOf(p)) <= 1
                    /\ \A i \in EntriesOf(p) : log[i].what \in HeldAfter(reply[p])
                    /\ reply[p] = "accepted" => EntriesOf(p) # {}
  BY DEF ReplyMatchesLog
<1>1. Agrees(log, p, reply[p])
  BY DEF Accounts
<1>2. EntriesOf(p) = Written(log, p)
  BY DEF EntriesOf, Written
<1>3. CASE EntriesOf(p) = {}
  BY <1>1, <1>2, <1>3, FS_EmptySet DEF Agrees
<1>4. CASE \E i : EntriesOf(p) = {i}
  <2>1. PICK i : EntriesOf(p) = {i}
    BY <1>4
  <2>2. Cardinality(EntriesOf(p)) = 1
    BY <2>1, FS_Singleton
  <2>3. log[i].what \in HeldAfter(reply[p])
    BY <1>1, <1>2, <2>1 DEF Agrees
  <2> QED BY <2>1, <2>2, <2>3
<1> QED
  BY <1>1, <1>2, <1>3, <1>4 DEF Agrees

\* A step that writes nothing keeps the accounts, unless it claims a success.
LEMMA QuietStep ==
  ASSUME Typed, Accounts, NEW p \in Procs, UNCHANGED log,
         \/ /\ \E l \in Before : Goto(p, l)
            /\ UNCHANGED reply /\ pc[p] \in Before
         \/ \E a \in Answers \ {"accepted"} : Settle(p, a) /\ pc[p] \in Before
         \/ Goto(p, "done") /\ UNCHANGED reply /\ pc[p] = "return"
         \/ Goto(p, "crashed") /\ reply' = [reply EXCEPT ![p] = "none"]
  PROVE  Accounts'
<1>1. \A q \in Procs \ {p} : pc'[q] = pc[q] /\ reply'[q] = reply[q]
  BY GotoTyped, SettleTyped DEF Before, Labels, Settled, Typed
<1>2. /\ pc'[p] \in Before => Written(log, p) = {}
      /\ pc'[p] \in {"return", "done"} => Agrees(log, p, reply'[p])
  <2>1. CASE (\E l \in Before : Goto(p, l)) /\ UNCHANGED reply /\ pc[p] \in Before
    BY <2>1, GotoTyped DEF Accounts, Before
  <2>2. CASE \E a \in Answers \ {"accepted"} : Settle(p, a) /\ pc[p] \in Before
    <3>1. pc'[p] = "done" /\ reply'[p] # "accepted" /\ Written(log, p) = {}
      BY <2>2, SettleTyped DEF Accounts
    <3> QED BY <3>1 DEF Agrees, Before
  <2>3. CASE Goto(p, "done") /\ UNCHANGED reply /\ pc[p] = "return"
    <3>1. pc'[p] = "done"
      BY <2>3, GotoTyped DEF Labels, Settled
    <3> QED BY <2>3, <3>1 DEF Accounts, Before
  <2>4. CASE Goto(p, "crashed") /\ reply' = [reply EXCEPT ![p] = "none"]
    <3>1. pc'[p] = "crashed"
      BY <2>4, GotoTyped DEF Labels, Settled
    <3> QED BY <3>1 DEF Before
  <2> QED BY <2>1, <2>2, <2>3, <2>4
<1> QED
  BY <1>1, <1>2 DEF Accounts

\* A step that writes one entry and ends the work of its process says what it
\* wrote, or dies.
LEMMA WritingStep ==
  ASSUME Typed, Accounts, NEW p \in Procs, pc[p] \in Before, NEW e \in Entry, e.by = p,
         log' = Append(log, e), NEW l \in {"return", "done", "crashed"}, Goto(p, l),
         NEW a \in Answers, reply' = [reply EXCEPT ![p] = a],
         l # "crashed" => e.what \in HeldAfter(a)
  PROVE  Accounts'
<1>1. /\ pc'[p] = l /\ \A q \in Procs \ {p} : pc'[q] = pc[q]
      /\ reply'[p] = a /\ \A q \in Procs \ {p} : reply'[q] = reply[q]
  BY GotoTyped DEF Labels, Settled, Typed
<1>2. /\ DOMAIN log = 1..Len(log) /\ Len(log) \in Nat
      /\ DOMAIN log' = 1..(Len(log) + 1)
      /\ \A i \in DOMAIN log : log'[i] = log[i]
      /\ log'[Len(log) + 1] = e
  BY DEF Typed
<1>3. \A q \in Procs \ {p} : Written(log', q) = Written(log, q)
  BY <1>2 DEF Written
<1>4. \A q \in Procs \ {p} : Agrees(log, q, reply[q]) => Agrees(log', q, reply[q])
  BY <1>2, <1>3 DEF Agrees, Written
<1>5. Written(log, p) = {}
  BY DEF Accounts
<1>6. Written(log', p) = {Len(log) + 1}
  BY <1>2, <1>5 DEF Written
<1>7. l # "crashed" => Agrees(log', p, reply'[p])
  BY <1>1, <1>2, <1>6 DEF Agrees
<1> QED
  BY <1>1, <1>3, <1>4, <1>7 DEF Accounts, Before

\* A record is one event: it lands or it does not.
LEMMA RecordIsWhole ==
  ASSUME NEW p \in Procs, NEW what, CutShort(p, LostContest(p, first[p]), what)
  PROVE  UNCHANGED store \/ Persist(p, LostContest(p, first[p]), what)
<1>1. \E f : DOMAIN LostContest(p, first[p]) = {f}
  BY DEF LostContest, RecordBatch
<1>2. Parts(LostContest(p, first[p])) = {}
  BY <1>1 DEF Parts
<1> QED BY <1>2 DEF CutShort

\* Every step of a process keeps the accounts.
LEMMA AccountsStep ==
  ASSUME Typed, Finite, Accounts, NEW p \in Procs, Step(p) \/ Fault(p)
  PROVE  Accounts'
<1> USE DEF Before, Labels, Settled, Answers
<1>1. CASE Explain(p)
  BY <1>1, QuietStep DEF Explain, store
<1>2. CASE Acquire(p)
  BY <1>2, QuietStep DEF Acquire, store
<1>3. CASE Load(p)
  BY <1>3, QuietStep DEF Load, store
<1>4. CASE Reserve(p)
  <2>1. pc[p] = "reserve" /\ UNCHANGED log
    BY <1>4 DEF Reserve, store
  <2>2. \/ Goto(p, "commit") /\ UNCHANGED reply
        \/ Goto(p, "record") /\ UNCHANGED reply
        \/ Settle(p, "refused")
    BY <1>4 DEF Reserve
  <2> QED BY <2>1, <2>2, QuietStep
<1>5. ASSUME Conflict(p), UNCHANGED log, pc[p] \in Before PROVE Accounts'
  BY <1>5, ConflictOutcome, QuietStep
<1>6. CASE Commit(p)
  <2>1. pc[p] = "commit"
    BY <1>6 DEF Commit
  <2>2. \/ Conflict(p) /\ UNCHANGED log
        \/ /\ Persist(p, Decided(p, first[p]), "op") /\ Goto(p, "return")
           /\ reply' = [reply EXCEPT ![p] = "accepted"]
    BY <1>6 DEF Commit, store
  <2>3. CASE Conflict(p) /\ UNCHANGED log
    BY <1>5, <2>1, <2>3
  <2>4. CASE /\ Persist(p, Decided(p, first[p]), "op") /\ Goto(p, "return")
             /\ reply' = [reply EXCEPT ![p] = "accepted"]
    <3>1. PICK e \in Entry : log' = Append(log, e) /\ e.by = p /\ e.what = "op"
      BY <2>4, DecidedFinite, PersistTyped
    <3> QED BY <2>1, <2>4, <3>1, WritingStep DEF HeldAfter
  <2> QED BY <2>2, <2>3, <2>4
<1>7. CASE Record(p)
  BY <1>7, QuietStep DEF Record, store
<1>8. CASE AppendRecord(p)
  <2>1. pc[p] = "append_record" /\ Goto(p, "return") /\ reply' = [reply EXCEPT ![p] = "refused"]
    BY <1>8 DEF AppendRecord
  <2>2. UNCHANGED log \/ Persist(p, LostContest(p, first[p]), "record")
    BY <1>8 DEF AppendRecord, store
  <2>3. CASE UNCHANGED log
    <3>1. /\ pc'[p] = "return" /\ \A q \in Procs \ {p} : pc'[q] = pc[q]
          /\ reply'[p] = "refused" /\ \A q \in Procs \ {p} : reply'[q] = reply[q]
      BY <2>1, GotoTyped DEF Typed
    <3>2. Agrees(log, p, "refused")
      BY <2>1 DEF Accounts, Agrees
    <3> QED BY <2>3, <3>1, <3>2 DEF Accounts
  <2>4. CASE Persist(p, LostContest(p, first[p]), "record")
    <3>1. PICK e \in Entry : log' = Append(log, e) /\ e.by = p /\ e.what = "record"
      BY <2>4, LostContestDomain, PersistTyped
    <3> QED BY <2>1, <3>1, WritingStep DEF HeldAfter
  <2> QED BY <2>2, <2>3, <2>4
<1>9. CASE Return(p)
  BY <1>9, QuietStep DEF Return, store
<1>10. CASE LeaseFails(p) \/ Busy(p)
  BY <1>5, <1>10 DEF LeaseFails, Busy, store
<1>11. CASE LoadFails(p) \/ ReserveFails(p)
  BY <1>11, QuietStep DEF LoadFails, ReserveFails, store
<1>12. CASE AppendFails(p)
  <2>1. pc[p] = "commit" /\ Settle(p, "commit_failed") /\ CutShort(p, Decided(p, first[p]), "op")
    BY <1>12 DEF AppendFails
  <2>2. CASE UNCHANGED store
    BY <2>1, <2>2, QuietStep DEF store
  <2>3. CASE ~UNCHANGED store
    <3>1. PICK e \in Entry : /\ log' = Append(log, e) /\ e.by = p
                             /\ e.what = IF Backend = "file" THEN "part" ELSE "op"
      BY <2>1, <2>3, DecidedFinite, CutShortEntry
    <3>2. e.what \in HeldAfter("commit_failed")
      BY <3>1 DEF HeldAfter
    <3> QED BY <2>1, <3>1, <3>2, WritingStep DEF Settle
  <2> QED BY <2>2, <2>3
<1>13. CASE RecordFails(p)
  <2>1. Settle(p, "refused")
    BY <1>13 DEF RecordFails
  <2>2. \/ UNCHANGED store /\ pc[p] \in Before
        \/ pc[p] = "append_record" /\ CutShort(p, LostContest(p, first[p]), "record")
    BY <1>13 DEF RecordFails
  <2>3. CASE UNCHANGED store
    BY <2>1, <2>2, <2>3, QuietStep DEF store
  <2>4. CASE ~UNCHANGED store
    <3>1. PICK e \in Entry : log' = Append(log, e) /\ e.by = p /\ e.what = "record"
      BY <2>2, <2>4, RecordIsWhole, LostContestDomain, PersistTyped
    <3>2. e.what \in HeldAfter("refused")
      BY <3>1 DEF HeldAfter
    <3> QED BY <2>1, <2>2, <2>4, <3>1, <3>2, WritingStep DEF Settle
  <2> QED BY <2>3, <2>4
<1>14. CASE Crash(p)
  <2>1. Goto(p, "crashed") /\ reply' = [reply EXCEPT ![p] = "none"]
    BY <1>14 DEF Crash
  <2>2. CASE UNCHANGED store
    BY <2>1, <2>2, QuietStep DEF store
  <2>3. CASE ~UNCHANGED store
    <3>1. pc[p] = "commit" /\ CutShort(p, Decided(p, first[p]), "op")
      BY <1>14, <2>3 DEF Crash
    <3>2. PICK e \in Entry : log' = Append(log, e) /\ e.by = p
      BY <2>3, <3>1, DecidedFinite, CutShortEntry
    <3>3. "none" \in Answers /\ pc[p] \in Before
      BY <3>1 DEF Answers, Before
    <3> QED BY <2>1, <3>1, <3>2, <3>3, WritingStep
  <2> QED BY <2>2, <2>3
<1> QED
  BY <1>1, <1>2, <1>3, <1>4, <1>6, <1>7, <1>8, <1>9, <1>10, <1>11, <1>12, <1>13, <1>14
     DEF Step, Fault

\* A step that changes nothing changes no account, type or count.
LEMMA Stutters ==
  ASSUME UNCHANGED vars
  PROVE  /\ Typed /\ Finite => Typed' /\ Finite'
         /\ Accounts => Accounts'
<1>1. UNCHANGED <<proj, log, head, alloc, pc, seen, first, lost, shown, reply>>
  BY DEF vars
<1> QED
  BY <1>1 DEF Typed, Finite, Accounts, Present

\* ops.rs with_write_retry, write_error_to_op: through any crashes, conflicts,
\* retries and failing appends, with or without the lease, no caller is misled
\* about what the log holds of its operation (ReplyMatchesLog): only an answer
\* that says the commit failed leaves it open.
THEOREM AnswersAreTrue == Spec => []ReplyMatchesLog
<1> DEFINE Inv == Typed /\ Finite /\ Accounts
<1>1. Init => Inv
  <2> SUFFICES ASSUME Init PROVE Inv
    OBVIOUS
  <2>1. Written(log, NoProc) = DOMAIN log
    BY DEF Init, Seeded, Written
  <2>2. \A p \in Procs : Written(log, p) = {}
    BY <2>1, WritersAssumption DEF Written
  <2>3. Accounts
    BY <2>2 DEF Accounts, Init
  <2> QED BY <2>3, InitTyped
<1>2. Inv /\ [Next]_vars => Inv'
  BY DataStep, AccountsStep, Stutters DEF Next
<1>3. Inv => ReplyMatchesLog
  BY AccountsSuffice
<1> QED
  BY <1>1, <1>2, <1>3, PTL DEF Spec

-----------------------------------------------------------------------------
(* The lease. A process past the lease holds it; so if every process takes *)
(* it, the process that decides is the only one that can move the store.   *)

\* The labels of a process that has left the queue for the lease.
Inside == {"load", "reserve", "commit", "record", "append_record", "return"}

Leases == \A p \in Procs \ Unleased : pc[p] \in Inside => lease = p

\* The process that moves keeps the lease, takes a free one, or gives up its own.
LEMMA LeaseStep ==
  ASSUME Typed, Leases, NEW p \in Procs, Step(p) \/ Fault(p)
  PROVE  Leases'
<1> USE DEF Labels, Settled, Inside, Answers
<1>1. ASSUME NEW l \in Labels \ Inside, Goto(p, l), Release(p) PROVE Leases'
  BY <1>1, GotoTyped DEF Leases, Release
<1>2. ASSUME NEW a, Settle(p, a) PROVE Leases'
  BY <1>1, <1>2 DEF Settle
<1>3. ASSUME NEW l \in Labels, Goto(p, l), UNCHANGED lease, l \in Inside => pc[p] \in Inside
      PROVE Leases'
  BY <1>3, GotoTyped DEF Leases
<1>4. ASSUME Conflict(p) PROVE Leases'
  BY <1>1, <1>2, <1>4, ConflictOutcome
<1>5. CASE Explain(p)
  BY <1>2, <1>3, <1>5 DEF Explain
<1>6. CASE Acquire(p)
  <2>1. Goto(p, "load")
    BY <1>6 DEF Acquire
  <2>2. p \notin Unleased => lease = NoProc /\ lease' = p
    BY <1>6 DEF Acquire
  <2>3. p \in Unleased => lease' = lease
    BY <1>6 DEF Acquire
  <2> QED BY <2>1, <2>2, <2>3, GotoTyped, WritersAssumption DEF Leases
<1>7. CASE Load(p)
  BY <1>2, <1>3, <1>7 DEF Load
<1>8. CASE Reserve(p)
  <2>1. pc[p] = "reserve"
    BY <1>8 DEF Reserve
  <2>2. \/ Goto(p, "commit") /\ UNCHANGED lease
        \/ Goto(p, "record") /\ UNCHANGED lease
        \/ Settle(p, "refused")
    BY <1>8 DEF Reserve
  <2> QED BY <1>2, <1>3, <2>1, <2>2
<1>9. CASE Commit(p)
  BY <1>3, <1>4, <1>9 DEF Commit
<1>10. CASE Record(p)
  BY <1>2, <1>3, <1>10 DEF Record
<1>11. CASE AppendRecord(p)
  BY <1>3, <1>11 DEF AppendRecord
<1>12. CASE Return(p) \/ Crash(p)
  BY <1>1, <1>12 DEF Return, Crash
<1>13. CASE Fault(p) /\ ~Crash(p)
  BY <1>2, <1>4, <1>13
     DEF Fault, LeaseFails, LoadFails, ReserveFails, Busy, AppendFails, RecordFails
<1> QED
  BY <1>5, <1>6, <1>7, <1>8, <1>9, <1>10, <1>11, <1>12, <1>13 DEF Step

\* Whoever writes holds the lease, so no other snapshot is open.
LEMMA SnapshotStep ==
  ASSUME Unleased = {}, Typed, Leases, SnapshotIsCurrent, NEW p \in Procs, Step(p) \/ Fault(p)
  PROVE  SnapshotIsCurrent'
<1> USE DEF Labels, Settled, Inside, Answers
<1> DEFINE Open == {"reserve", "commit"}
<1>1. ASSUME UNCHANGED <<proj, head, seen>>, NEW l \in Labels, Goto(p, l),
             l \in Open => pc[p] \in Open
      PROVE  SnapshotIsCurrent'
  BY <1>1, GotoTyped DEF SnapshotIsCurrent
<1>2. ASSUME UNCHANGED <<proj, head, seen>>, NEW a, Settle(p, a) PROVE SnapshotIsCurrent'
  BY <1>1, <1>2 DEF Settle
<1>3. ASSUME UNCHANGED <<proj, head, seen>>, Conflict(p) PROVE SnapshotIsCurrent'
  BY <1>1, <1>2, <1>3, ConflictOutcome
<1>4. ASSUME pc[p] \in Inside, NEW l \in Labels \ Open, Goto(p, l), UNCHANGED seen
      PROVE SnapshotIsCurrent'
  <2>1. \A q \in Procs \ {p} : pc'[q] \notin Open
    BY <1>4, GotoTyped DEF Leases
  <2> QED BY <1>4, <2>1, GotoTyped DEF SnapshotIsCurrent
<1>5. CASE Load(p)
  <2>1. CASE Loadable
    <3> DEFINE snapshot == [proj |-> proj, next |-> head]
    <3>1. seen' = [seen EXCEPT ![p] = snapshot] /\ Goto(p, "reserve") /\ UNCHANGED store
      BY <1>5, <2>1 DEF Load
    <3>2. \A q \in Procs : seen'[q] = IF q = p THEN snapshot ELSE seen[q]
      BY <3>1 DEF Typed
    <3>3. snapshot' = snapshot
      BY <3>1 DEF store
    <3>4. \A q \in Procs \ {p} : pc'[q] = pc[q]
      BY <3>1, GotoTyped
    <3> QED BY <3>2, <3>3, <3>4 DEF SnapshotIsCurrent
  <2>2. CASE ~Loadable
    BY <1>2, <1>5, <2>2 DEF Load, store
  <2> QED BY <2>1, <2>2
<1>6. CASE Explain(p)
  BY <1>1, <1>2, <1>6 DEF Explain, store
<1>7. CASE Acquire(p) \/ Return(p)
  BY <1>1, <1>7 DEF Acquire, Return, store
<1>8. CASE Reserve(p)
  <2>1. pc[p] = "reserve" /\ UNCHANGED <<proj, head, seen>>
    BY <1>8 DEF Reserve, store
  <2>2. Goto(p, "commit") \/ Goto(p, "record") \/ Settle(p, "refused")
    BY <1>8 DEF Reserve
  <2> QED BY <1>1, <1>2, <2>1, <2>2
<1>9. CASE Commit(p)
  BY <1>3, <1>4, <1>9 DEF Commit, store
<1>10. CASE Record(p)
  BY <1>1, <1>2, <1>10 DEF Record, store
<1>11. CASE AppendRecord(p)
  BY <1>4, <1>11 DEF AppendRecord
<1>12. CASE LeaseFails(p) \/ LoadFails(p) \/ ReserveFails(p) \/ Busy(p)
  BY <1>2, <1>3, <1>12 DEF LeaseFails, LoadFails, ReserveFails, Busy, store
<1>13. CASE AppendFails(p) \/ RecordFails(p)
  BY <1>4, <1>13 DEF AppendFails, RecordFails, Settle
<1>14. CASE Crash(p)
  <2>1. CASE UNCHANGED store
    BY <1>1, <1>14, <2>1 DEF Crash, store
  <2>2. CASE pc[p] = "commit"
    BY <1>4, <1>14, <2>2 DEF Crash
  <2> QED BY <1>14, <2>1, <2>2 DEF Crash
<1> QED
  BY <1>5, <1>6, <1>7, <1>8, <1>9, <1>10, <1>11, <1>12, <1>13, <1>14 DEF Step, Fault

\* ops.rs acquire_backend_write_lease: if every process takes the lease, a
\* decision is never made, nor committed, on a snapshot the store has moved past
\* (SnapshotIsCurrent), on either backend, whatever crashes and times out.
THEOREM DecisionsAreFresh ==
  ASSUME Unleased = {}
  PROVE  Spec => []SnapshotIsCurrent
<1> DEFINE Inv == Typed /\ Finite /\ Leases /\ SnapshotIsCurrent
<1>1. Init => Inv
  <2> SUFFICES ASSUME Init PROVE Inv
    OBVIOUS
  <2>1. Leases /\ SnapshotIsCurrent
    BY DEF Init, Leases, SnapshotIsCurrent, Inside
  <2> QED BY <2>1, InitTyped
<1>2. Inv /\ [Next]_vars => Inv'
  <2>1. Inv /\ UNCHANGED vars => (Leases /\ SnapshotIsCurrent)'
    BY DEF vars, Leases, SnapshotIsCurrent
  <2> QED BY <2>1, DataStep, LeaseStep, SnapshotStep, Stutters DEF Next
<1> QED
  BY <1>1, <1>2, PTL DEF Spec

-----------------------------------------------------------------------------
(* Event numbers of a database. Every process about to write owns a range  *)
(* below the allocator, apart from every other such range and from the log.*)

Claimants == {p \in Procs : pc[p] \in {"commit", "append_record"}}

\* How many numbers a process about to write has reserved, and where they end.
Width(p) == IF pc[p] = "commit" THEN Cardinality(DOMAIN Decided(p, first[p])) ELSE 1
End(p) == first[p] + Width(p)

Claims ==
  /\ \A i \in DOMAIN log : log[i].first + log[i].count <= alloc
  /\ \A p \in Claimants : Width(p) \in Nat \ {0} /\ End(p) <= alloc
  /\ \A p, q \in Claimants : p # q => End(p) <= first[q] \/ End(q) <= first[p]
  /\ \A p \in Claimants, i \in DOMAIN log :
       End(p) <= log[i].first \/ log[i].first + log[i].count <= first[p]

\* An audit that goes on to write has facts to record.
ReadSomething ==
  \A p \in Procs : job[p].op = "retrieve" /\ pc[p] \in Before \ {"explain"} => shown[p] # {}

\* Ranges apart have different first numbers, in no batch of the log.
LEMMA ClaimsSuffice ==
  ASSUME Typed, Claims
  PROVE  SignedNumbersDisjoint
<1>1. \A p \in Procs : first[p] \in Nat
  BY DEF Typed
<1>2. \A i \in DOMAIN log : log[i].first \in Nat /\ log[i].count \in Nat
  <2>1. \A i \in DOMAIN log : log[i] \in Entry
    BY DEF Typed
  <2> QED BY <2>1 DEF Entry
<1>3. \A p \in Claimants : first[p] < End(p)
  BY <1>1 DEF Claims, End, Claimants
<1>4. \A p, q \in Claimants : p # q => first[p] # first[q]
  <2> SUFFICES ASSUME NEW p \in Claimants, NEW q \in Claimants, p # q, first[p] = first[q]
               PROVE  FALSE
    OBVIOUS
  <2>1. /\ first[p] \in Nat /\ Width(p) \in Nat \ {0} /\ Width(q) \in Nat \ {0}
        /\ End(p) <= first[q] \/ End(q) <= first[p]
    BY <1>1 DEF Claims, Claimants
  <2> QED BY <2>1 DEF End
<1>5. \A p \in Claimants, i \in DOMAIN log : first[p] \notin Numbers(log[i])
  <2> SUFFICES ASSUME NEW p \in Claimants, NEW i \in DOMAIN log, first[p] \in Numbers(log[i])
               PROVE  FALSE
    OBVIOUS
  <2>1. /\ first[p] \in Nat /\ Width(p) \in Nat \ {0}
        /\ log[i].first \in Nat /\ log[i].count \in Nat
        /\ End(p) <= log[i].first \/ log[i].first + log[i].count <= first[p]
    BY <1>1, <1>2 DEF Claims, Claimants
  <2> QED BY <2>1 DEF End, Numbers
<1> QED
  BY <1>4, <1>5 DEF SignedNumbersDisjoint, Claimants

\* A step of one process leaves the claims of the others as they are.
LEMMA OthersKeep ==
  ASSUME Typed, NEW p \in Procs, Step(p) \/ Fault(p), NEW q \in Procs \ {p}
  PROVE  /\ pc'[q] = pc[q] /\ first'[q] = first[q] /\ Width(q)' = Width(q) /\ End(q)' = End(q)
         /\ shown'[q] = shown[q] /\ UNCHANGED job
<1> USE DEF Labels, Settled, Answers
<1>1. UNCHANGED job
  BY DEF Step, Fault, Explain, Acquire, Load, Reserve, Commit, Record, AppendRecord, Return,
         LeaseFails, LoadFails, ReserveFails, Busy, AppendFails, RecordFails, Crash
<1>2. first'[q] = first[q]
  BY DEF Step, Fault, Explain, Acquire, Load, Reserve, Commit, Record, AppendRecord, Return,
         LeaseFails, LoadFails, ReserveFails, Busy, AppendFails, RecordFails, Crash, TakeNumbers, Typed
<1>3. seen'[q] = seen[q] /\ shown'[q] = shown[q]
  BY DEF Step, Fault, Explain, Acquire, Load, Reserve, Commit, Record, AppendRecord, Return,
         LeaseFails, LoadFails, ReserveFails, Busy, AppendFails, RecordFails, Crash, Typed
<1>4. \E l : Goto(p, l)
  BY ConflictOutcome
     DEF Step, Fault, Explain, Acquire, Load, Reserve, Commit, Record, AppendRecord, Return,
         LeaseFails, LoadFails, ReserveFails, Busy, AppendFails, RecordFails, Crash, Settle
<1>5. pc'[q] = pc[q]
  BY <1>4 DEF Goto, Typed
<1>6. Width(q)' = Width(q)
  BY <1>1, <1>2, <1>3, <1>5 DEF Width, Decided
<1> QED
  BY <1>1, <1>2, <1>3, <1>5, <1>6 DEF End

\* A process that does not come to write, or stops short of writing.
LEMMA ClaimsQuiet ==
  ASSUME Typed, Typed', Claims, NEW p \in Procs, Step(p) \/ Fault(p), UNCHANGED log,
         alloc <= alloc', p \notin Claimants'
  PROVE  Claims'
<1>1. Claimants' \subseteq Claimants \ {p}
  BY OthersKeep DEF Claimants
<1>2. \A q \in Claimants' : first'[q] = first[q] /\ Width(q)' = Width(q) /\ End(q)' = End(q)
  BY <1>1, OthersKeep DEF Claimants
<1>3. \A q \in Claimants' : End(q) \in Nat
  BY <1>1 DEF Claims, End, Typed, Claimants
<1>4. \A i \in DOMAIN log : log[i].first + log[i].count \in Nat
  <2>1. \A i \in DOMAIN log : log[i] \in Entry
    BY DEF Typed
  <2> QED BY <2>1 DEF Entry
<1>5. alloc \in Nat /\ alloc' \in Nat
  BY DEF Typed
<1>6. \A i \in DOMAIN log : log[i].first + log[i].count <= alloc'
  BY <1>4, <1>5 DEF Claims
<1>7. \A q \in Claimants' : Width(q)' \in Nat \ {0} /\ End(q)' <= alloc'
  BY <1>1, <1>2, <1>3, <1>5 DEF Claims
<1>8. \A q, r \in Claimants' : q # r => End(q)' <= first'[r] \/ End(r)' <= first'[q]
  BY <1>1, <1>2 DEF Claims
<1>9. \A q \in Claimants', i \in DOMAIN log :
        End(q)' <= log[i].first \/ log[i].first + log[i].count <= first'[q]
  BY <1>1, <1>2 DEF Claims
<1> QED
  BY <1>6, <1>7, <1>8, <1>9 DEF Claims

\* A process that takes a range from the allocator.
LEMMA ClaimsTake ==
  ASSUME Typed, Typed', Claims, NEW p \in Procs, Step(p) \/ Fault(p), UNCHANGED log,
         p \notin Claimants, p \in Claimants', first'[p] = alloc,
         Width(p)' \in Nat \ {0}, alloc' = alloc + Width(p)'
  PROVE  Claims'
<1>1. Claimants' \ {p} \subseteq Claimants
  BY OthersKeep DEF Claimants
<1>2. \A q \in Claimants' \ {p} :
        first'[q] = first[q] /\ Width(q)' = Width(q) /\ End(q)' = End(q)
  BY <1>1, OthersKeep DEF Claimants
<1>3. \A q \in Claimants' \ {p} : End(q) \in Nat /\ End(q) <= alloc
  BY <1>1 DEF Claims, End, Typed, Claimants
<1>4. \A i \in DOMAIN log : /\ log[i].first + log[i].count \in Nat
                            /\ log[i].first + log[i].count <= alloc
  <2>1. \A i \in DOMAIN log : log[i] \in Entry
    BY DEF Typed
  <2> QED BY <2>1 DEF Entry, Claims
<1>5. alloc \in Nat /\ alloc' \in Nat /\ alloc <= alloc'
  BY DEF Typed
<1>6. End(p)' = alloc' /\ first'[p] = alloc
  BY DEF End
<1>7. \A i \in DOMAIN log : log[i].first + log[i].count <= alloc'
  BY <1>4, <1>5
<1>8. \A q \in Claimants' : Width(q)' \in Nat \ {0} /\ End(q)' <= alloc'
  BY <1>1, <1>2, <1>3, <1>5, <1>6 DEF Claims
<1>9. \A q, r \in Claimants' : q # r => End(q)' <= first'[r] \/ End(r)' <= first'[q]
  <2> SUFFICES ASSUME NEW q \in Claimants', NEW r \in Claimants', q # r
               PROVE  End(q)' <= first'[r] \/ End(r)' <= first'[q]
    OBVIOUS
  <2>1. CASE q = p
    BY <1>2, <1>3, <1>6, <2>1
  <2>2. CASE r = p
    BY <1>2, <1>3, <1>6, <2>2
  <2>3. CASE q # p /\ r # p
    BY <1>1, <1>2, <2>3 DEF Claims
  <2> QED BY <2>1, <2>2, <2>3
<1>10. \A q \in Claimants', i \in DOMAIN log :
        End(q)' <= log[i].first \/ log[i].first + log[i].count <= first'[q]
  BY <1>1, <1>2, <1>4, <1>6 DEF Claims
<1> QED
  BY <1>7, <1>8, <1>9, <1>10 DEF Claims

\* A process that writes the range it claimed.
LEMMA ClaimsWrite ==
  ASSUME Typed, Typed', Claims, NEW p \in Procs, Step(p) \/ Fault(p),
         p \in Claimants, p \notin Claimants', UNCHANGED alloc,
         NEW e \in Entry, log' = Append(log, e), e.first = first[p], e.count = Width(p)
  PROVE  Claims'
<1>1. Claimants' \subseteq Claimants \ {p}
  BY OthersKeep DEF Claimants
<1>2. \A q \in Claimants' : first'[q] = first[q] /\ Width(q)' = Width(q) /\ End(q)' = End(q)
  BY <1>1, OthersKeep DEF Claimants
<1>3. /\ DOMAIN log' = DOMAIN log \cup {Len(log) + 1}
      /\ \A i \in DOMAIN log : log'[i] = log[i]
      /\ log'[Len(log) + 1] = e
  BY DEF Typed
<1>4. e.first + e.count = End(p)
  BY DEF End
<1>5. \A i \in DOMAIN log' : log'[i].first + log'[i].count <= alloc'
  BY <1>3, <1>4 DEF Claims
<1>6. \A q \in Claimants' : Width(q)' \in Nat \ {0} /\ End(q)' <= alloc'
  BY <1>1, <1>2 DEF Claims
<1>7. \A q, r \in Claimants' : q # r => End(q)' <= first'[r] \/ End(r)' <= first'[q]
  BY <1>1, <1>2 DEF Claims
<1>8. \A q \in Claimants', i \in DOMAIN log' :
        End(q)' <= log'[i].first \/ log'[i].first + log'[i].count <= first'[q]
  BY <1>1, <1>2, <1>3, <1>4 DEF Claims
<1> QED
  BY <1>5, <1>6, <1>7, <1>8 DEF Claims

\* An operation that is accepted has at least one event to write.
LEMMA BatchNonempty ==
  ASSUME NEW op, NEW p, NEW r, NEW n, NEW t, HasTarget(op, p, r, t)
  PROVE  DOMAIN Batch(op, p, r, n, t) # {}
BY DEF HasTarget, Batch, PerIncumbent

\* An audit goes on only with the facts its read returned.
LEMMA ReadStep ==
  ASSUME Typed, ReadSomething, NEW p \in Procs, Step(p) \/ Fault(p)
  PROVE  ReadSomething'
<1> USE DEF Labels, Settled, Answers, Before
<1>1. \A q \in Procs \ {p} : pc'[q] = pc[q] /\ shown'[q] = shown[q] /\ UNCHANGED job
  BY OthersKeep
<1>2. UNCHANGED job
  BY DEF Step, Fault, Explain, Acquire, Load, Reserve, Commit, Record, AppendRecord, Return,
         LeaseFails, LoadFails, ReserveFails, Busy, AppendFails, RecordFails, Crash
<1>3. CASE Explain(p)
  <2>1. CASE \E a \in Answers : Settle(p, a)
    BY <1>1, <1>2, <2>1, SettleTyped DEF ReadSomething
  <2>2. CASE ~ \E a \in Answers : Settle(p, a)
    <3>1. \E s : s # {} /\ shown' = [shown EXCEPT ![p] = s]
      BY <1>3, <2>2 DEF Explain
    <3>2. shown'[p] # {}
      BY <3>1 DEF Typed
    <3> QED BY <1>1, <1>2, <3>2 DEF ReadSomething
  <2> QED BY <2>1, <2>2
<1>4. CASE ~Explain(p)
  <2>1. UNCHANGED shown
    BY <1>4 DEF Step, Fault, Acquire, Load, Reserve, Commit, Record, AppendRecord, Return,
                LeaseFails, LoadFails, ReserveFails, Busy, AppendFails, RecordFails, Crash
  <2>2. pc[p] \in Before \ {"explain"} \/ pc'[p] \notin Before
    <3>1. CASE Return(p) \/ Crash(p)
      BY <3>1, GotoTyped DEF Return, Crash
    <3>2. CASE ~Return(p) /\ ~Crash(p)
      BY <1>4, <3>2 DEF Step, Fault, Acquire, Load, Reserve, Commit, Record, AppendRecord,
                LeaseFails, LoadFails, ReserveFails, Busy, AppendFails, RecordFails
    <3> QED BY <3>1, <3>2
  <2> QED BY <1>1, <1>2, <2>1, <2>2 DEF ReadSomething
<1> QED
  BY <1>3, <1>4

\* Every step of a process keeps the claims of a database apart.
LEMMA ClaimsStep ==
  ASSUME Backend = "database", Typed, Typed', Finite, Claims, ReadSomething,
         NEW p \in Procs, Step(p) \/ Fault(p)
  PROVE  Claims'
<1> USE DEF Labels, Settled, Answers
<1> DEFINE writes == {"commit", "append_record"}
<1>1. alloc \in Nat
  BY DEF Typed
<1>2. ASSUME UNCHANGED <<log, alloc>>, NEW l \in Labels \ writes, Goto(p, l) PROVE Claims'
  BY <1>1, <1>2, GotoTyped, ClaimsQuiet DEF Claimants
<1>3. ASSUME UNCHANGED <<log, alloc>>, NEW a, Settle(p, a) PROVE Claims'
  BY <1>2, <1>3 DEF Settle
<1>4. ASSUME UNCHANGED <<log, alloc>>, Conflict(p) PROVE Claims'
  BY <1>2, <1>3, <1>4, ConflictOutcome
<1>5. CASE Explain(p)
  BY <1>2, <1>3, <1>5 DEF Explain, store
<1>6. CASE Acquire(p) \/ Return(p)
  BY <1>2, <1>6 DEF Acquire, Return, store
<1>7. CASE Load(p)
  BY <1>2, <1>3, <1>7 DEF Load, store
<1>8. CASE LeaseFails(p) \/ LoadFails(p) \/ Busy(p)
  BY <1>3, <1>4, <1>8 DEF LeaseFails, LoadFails, Busy, store
<1>9. CASE Reserve(p)
  <2> DEFINE op == job[p].op
             r == job[p].r
             width == Cardinality(DOMAIN Decided(p, alloc))
             targeted == op = "retrieve" \/ HasTarget(op, seen[p].proj, r, Instant)
  <2>1. pc[p] = "reserve" /\ UNCHANGED <<log, job, seen, shown>>
    BY <1>9 DEF Reserve, store
  <2>2. width \in Nat
    BY DecidedFinite, FS_CardinalityType
  <2>3. IF targeted THEN first' = [first EXCEPT ![p] = alloc] /\ alloc' = alloc + width
                    ELSE UNCHANGED <<first, alloc>>
    BY <1>9 DEF Reserve, TakeNumbers
  <2>4. alloc <= alloc'
    BY <1>1, <2>2, <2>3
  <2>5. \/ /\ Goto(p, "commit")
           /\ op = "retrieve" \/ Accepts(op, seen[p].proj, r, alloc, Instant)
        \/ Goto(p, "record") \/ Settle(p, "refused")
    BY <1>9 DEF Reserve
  <2>6. CASE Goto(p, "record") \/ Settle(p, "refused")
    BY <2>1, <2>4, <2>6, GotoTyped, ClaimsQuiet DEF Claimants, Settle
  <2>7. CASE /\ Goto(p, "commit")
             /\ op = "retrieve" \/ Accepts(op, seen[p].proj, r, alloc, Instant)
    <3>1. targeted
      BY <2>7 DEF Accepts, Permitted
    <3>2. pc'[p] = "commit" /\ first'[p] = alloc
      BY <2>3, <2>7, <3>1, GotoTyped DEF Typed
    <3>3. Width(p)' = width
      BY <2>1, <3>2 DEF Width, Decided
    <3>4. DOMAIN Decided(p, alloc) # {}
      <4>1. CASE op = "retrieve"
        BY <2>1, <4>1 DEF ReadSomething, Before, Decided, RetrievalBatch
      <4>2. CASE op # "retrieve"
        BY <3>1, <4>2, BatchNonempty DEF Decided
      <4> QED BY <4>1, <4>2
    <3>5. width # 0
      BY <3>4, DecidedFinite, FS_EmptySet
    <3> HIDE DEF width
    <3>6. p \in Claimants' /\ p \notin Claimants
      BY <2>1, <3>2 DEF Claimants
    <3> QED BY <2>1, <2>2, <2>3, <3>1, <3>2, <3>3, <3>5, <3>6, ClaimsTake
  <2> QED BY <2>5, <2>6, <2>7
<1>10. CASE Record(p)
  <2>1. pc[p] = "record" /\ UNCHANGED log
    BY <1>10 DEF Record, store
  <2>2. CASE Loadable /\ Goto(p, "append_record")
    <3>1. first'[p] = alloc /\ alloc' = alloc + 1 /\ pc'[p] = "append_record"
      BY <1>10, <2>2, GotoTyped DEF Record, TakeNumbers, Typed
    <3>2. Width(p)' = 1
      BY <3>1 DEF Width
    <3>3. p \in Claimants' /\ p \notin Claimants
      BY <2>1, <3>1 DEF Claimants
    <3> QED BY <2>1, <3>1, <3>2, <3>3, ClaimsTake
  <2>3. CASE Settle(p, "refused")
    <3>1. alloc <= alloc'
      BY <1>1, <1>10 DEF Record, TakeNumbers
    <3> QED BY <2>1, <2>3, <3>1, GotoTyped, ClaimsQuiet DEF Claimants, Settle
  <2> QED BY <1>10, <2>2, <2>3 DEF Record
<1>11. CASE Commit(p)
  <2>1. pc[p] = "commit" /\ UNCHANGED alloc
    BY <1>11 DEF Commit
  <2>2. CASE Conflict(p) /\ UNCHANGED store
    BY <1>4, <2>1, <2>2 DEF store
  <2>3. CASE Persist(p, Decided(p, first[p]), "op") /\ Goto(p, "return")
    <3>1. PICK e \in Entry : /\ log' = Append(log, e) /\ e.first = first[p]
                             /\ e.count = Cardinality(DOMAIN Decided(p, first[p]))
      BY <2>3, DecidedFinite, PersistTyped
    <3>2. e.count = Width(p)
      BY <2>1, <3>1 DEF Width
    <3>3. p \in Claimants /\ p \notin Claimants'
      BY <2>1, <2>3, GotoTyped DEF Claimants
    <3> QED BY <2>1, <3>1, <3>2, <3>3, ClaimsWrite
  <2> QED BY <1>11, <2>2, <2>3 DEF Commit
<1>12. CASE AppendRecord(p)
  <2>1. pc[p] = "append_record" /\ UNCHANGED alloc /\ Goto(p, "return")
    BY <1>12 DEF AppendRecord
  <2>2. CASE UNCHANGED store
    BY <1>2, <2>1, <2>2 DEF store
  <2>3. CASE Persist(p, LostContest(p, first[p]), "record")
    <3>1. PICK e \in Entry : /\ log' = Append(log, e) /\ e.first = first[p]
                             /\ e.count = Cardinality(DOMAIN LostContest(p, first[p]))
      BY <2>3, LostContestDomain, PersistTyped
    <3>2. e.count = Width(p)
      BY <2>1, <3>1, LostContestDomain DEF Width
    <3>3. p \in Claimants /\ p \notin Claimants'
      BY <2>1, <2>3, GotoTyped DEF Claimants
    <3> QED BY <2>1, <3>1, <3>2, <3>3, ClaimsWrite
  <2> QED BY <1>12, <2>2, <2>3 DEF AppendRecord
<1>13. CASE ReserveFails(p)
  <2>1. Settle(p, "refused") /\ UNCHANGED log
    BY <1>13 DEF ReserveFails, store
  <2>2. Cardinality(DOMAIN Decided(p, alloc)) \in Nat
    BY DecidedFinite, FS_CardinalityType
  <2>3. alloc <= alloc'
    BY <1>1, <1>13, <2>2 DEF ReserveFails
  <2> QED BY <2>1, <2>3, GotoTyped, ClaimsQuiet DEF Claimants, Settle
<1>14. ASSUME NEW l \in {"done", "crashed"}, Goto(p, l), UNCHANGED alloc,
              NEW batch, NEW what \in {"op", "record"}, p \in Claimants,
              IsFiniteSet(DOMAIN batch), Width(p) = Cardinality(DOMAIN batch),
              UNCHANGED store \/ CutShort(p, batch, what)
       PROVE  Claims'
  <2>1. CASE UNCHANGED store
    BY <1>2, <1>14, <2>1 DEF store
  <2>2. CASE ~UNCHANGED store
    <3>1. PICK e \in Entry : /\ log' = Append(log, e) /\ e.first = first[p]
                             /\ e.count = Width(p)
      BY <1>14, <2>2, CutShortEntry
    <3>2. p \notin Claimants'
      BY <1>14, GotoTyped DEF Claimants
    <3> QED BY <1>14, <3>1, <3>2, ClaimsWrite
  <2> QED BY <2>1, <2>2
<1>15. CASE AppendFails(p) \/ (Crash(p) /\ pc[p] = "commit")
  <2>1. /\ pc[p] = "commit" /\ UNCHANGED alloc
        /\ UNCHANGED store \/ CutShort(p, Decided(p, first[p]), "op")
    BY <1>15 DEF AppendFails, Crash
  <2>2. \E l \in {"done", "crashed"} : Goto(p, l)
    BY <1>15 DEF AppendFails, Crash, Settle
  <2>3. p \in Claimants /\ Width(p) = Cardinality(DOMAIN Decided(p, first[p]))
    BY <2>1 DEF Claimants, Width
  <2> QED BY <1>14, <2>1, <2>2, <2>3, DecidedFinite
<1>16. CASE Crash(p) /\ pc[p] # "commit"
  BY <1>2, <1>16 DEF Crash, store
<1>17. CASE RecordFails(p)
  <2>1. Settle(p, "refused") /\ UNCHANGED alloc
    BY <1>17 DEF RecordFails
  <2>2. CASE pc[p] = "append_record"
    <3>1. UNCHANGED store \/ CutShort(p, LostContest(p, first[p]), "record")
      BY <1>17 DEF RecordFails
    <3>2. p \in Claimants /\ Width(p) = Cardinality(DOMAIN LostContest(p, first[p]))
      BY <2>2, LostContestDomain DEF Claimants, Width
    <3> QED BY <1>14, <2>1, <3>1, <3>2, LostContestDomain DEF Settle
  <2>3. CASE pc[p] # "append_record"
    BY <1>3, <1>17, <2>1, <2>3 DEF RecordFails, store
  <2> QED BY <2>2, <2>3
<1>18. CASE Step(p)
  BY <1>5, <1>6, <1>7, <1>9, <1>10, <1>11, <1>12, <1>18 DEF Step
<1>19. CASE Fault(p)
  BY <1>8, <1>13, <1>15, <1>16, <1>17, <1>19 DEF Fault
<1> QED
  BY <1>18, <1>19

\* main.rs reserve_event_seq: on a database no two writers ever sign the same
\* event number, nor one that is in the log, however many processes race with
\* or without the lease (SignedNumbersDisjoint).
THEOREM NumbersAreOwned ==
  ASSUME Backend = "database"
  PROVE  Spec => []SignedNumbersDisjoint
<1> DEFINE Inv == Typed /\ Finite /\ Claims /\ ReadSomething
<1>1. Init => Inv
  <2> SUFFICES ASSUME Init PROVE Inv
    OBVIOUS
  <2>1. Claimants = {}
    BY DEF Init, Claimants
  <2>2. \A i \in DOMAIN log : log[i].first + log[i].count <= alloc
    BY DEF Init, Seeded
  <2>3. Claims
    BY <2>1, <2>2 DEF Claims
  <2>4. ReadSomething
    BY DEF Init, ReadSomething
  <2> QED BY <2>3, <2>4, InitTyped
<1>2. Inv /\ [Next]_vars => Inv'
  <2>1. Inv /\ UNCHANGED vars => (Claims /\ ReadSomething)'
    BY DEF vars, Claims, ReadSomething, Claimants, Width, End, Decided
  <2>2. ASSUME Inv, NEW p \in Procs, Step(p) \/ Fault(p) PROVE Inv'
    <3>1. Typed' /\ Finite'
      BY <2>2, DataStep
    <3>2. ReadSomething' /\ Claims'
      BY <2>2, <3>1, ReadStep, ClaimsStep
    <3> QED BY <3>1, <3>2
  <2> QED BY <2>1, <2>2, Stutters DEF Next
<1>3. Inv => SignedNumbersDisjoint
  BY ClaimsSuffice
<1> QED
  BY <1>1, <1>2, <1>3, PTL DEF Spec

-----------------------------------------------------------------------------
(* Linearizability. With the lease taken by everyone, what a process writes *)
(* was decided on the beliefs it is written on.                            *)

\* A process about to write has decided to, on its snapshot and with the number
\* it holds; one about to record a lost contest has lost it on its snapshot.
DecidedFor(p) ==
  /\ pc[p] = "commit" =>
       IF job[p].op = "retrieve" THEN Refused(seen[p].proj, Decided(p, first[p])) = {}
       ELSE Accepts(job[p].op, seen[p].proj, job[p].r, first[p], Instant)
  /\ pc[p] \in {"record", "append_record"} =>
       /\ job[p].op # "retrieve" /\ lost[p] # {}
       /\ \E n \in Nat : lost[p] = Challenge(job[p].op, seen[p].proj, job[p].r, n, Instant)

Decisions == \A p \in Procs : DecidedFor(p)

\* The labels of a process that decides or has decided on its snapshot.
Deciding == {"reserve", "commit", "record", "append_record"}

\* The beliefs of a snapshot are still the store's while its owner uses it.
Current == \A p \in Procs : pc[p] \in Deciding => seen[p].proj = proj

\* An audited read returns facts.
ShowsFacts == \A p \in Procs : shown[p] \subseteq Facts

\* A set of numbers has a first one.
LEMMA LessIsWellFounded ==
  \E R : IsWellFoundedOn(R, Nat) /\ \A x, y \in Nat : y < x => <<y, x>> \in R
<1> DEFINE R == OpToRel(<, Nat)
<1>1. \A x, y \in Nat : y < x => <<y, x>> \in R
  BY DEF OpToRel
<1>2. IsWellFoundedOn(R, Nat)
  BY NatLessThanWellFounded
<1> HIDE DEF R
<1> QED BY <1>1, <1>2, Zenon

LEMMA FirstOfIsIn ==
  ASSUME NEW S, S \subseteq Nat, S # {}
  PROVE  FirstOf(S) \in S
<1>1. PICK R : IsWellFoundedOn(R, Nat) /\ \A x, y \in Nat : y < x => <<y, x>> \in R
  BY LessIsWellFounded
<1>2. PICK x \in S : \A y \in S : ~(<<y, x>> \in R)
  BY <1>1, WFMin
<1>3. ASSUME NEW y \in S PROVE x <= y
  <2>1. x \in Nat /\ y \in Nat
    OBVIOUS
  <2>2. ~(y < x)
    BY <1>1, <1>2, <2>1, Zenon
  <2> QED BY <2>1, <2>2
<1> QED BY <1>3 DEF FirstOf

\* The subject an explanation is about is one of the beliefs.
LEMMA ExplainsABelief ==
  ASSUME NEW p, NEW shape, NEW t, BelievedOf(p, shape) # {}
  PROVE  ExplainSubject(p, shape, t) \in BelievedOf(p, shape)
<1> DEFINE B == BelievedOf(p, shape)
           live == UnexpiredOf(p, shape, t)
           contested == {f \in live : p[f].lifecycle = "Contested"}
           S == IF contested # {} THEN contested ELSE IF live # {} THEN live ELSE B
<1>1. B \subseteq Nat
  BY FactsAreEventNumbers DEF BelievedOf
<1>2. live \subseteq B /\ contested \subseteq live
  BY DEF UnexpiredOf
<1>3. ExplainSubject(p, shape, t) = FirstOf(S)
  BY DEF ExplainSubject
<1> HIDE DEF B, live, contested
<1>4. S \subseteq B /\ S # {}
  BY <1>2 DEF B
<1> HIDE DEF S
<1> QED BY <1>1, <1>3, <1>4, FirstOfIsIn DEF B

\* Who moves and what of the others stays.
LEMMA OthersStand ==
  ASSUME Typed, NEW p \in Procs, Step(p) \/ Fault(p), NEW q \in Procs \ {p}
  PROVE  /\ pc'[q] = pc[q] /\ first'[q] = first[q] /\ shown'[q] = shown[q] /\ UNCHANGED job
         /\ seen'[q] = seen[q] /\ lost'[q] = lost[q]
<1>1. seen'[q] = seen[q] /\ lost'[q] = lost[q]
  BY DEF Step, Fault, Explain, Acquire, Load, Reserve, Commit, Record, AppendRecord, Return,
         LeaseFails, LoadFails, ReserveFails, Busy, AppendFails, RecordFails, Crash, Typed
<1> QED BY <1>1, OthersKeep

\* Only a process that has decided writes, and its work is then over.
LEMMA WhoWrites ==
  ASSUME Typed, NEW p \in Procs, Step(p) \/ Fault(p)
  PROVE  \/ UNCHANGED store
         \/ /\ pc[p] \in {"commit", "append_record"}
            /\ pc'[p] \in {"return", "done", "crashed"}
<1> USE DEF Labels, Settled, Answers
<1>1. CASE Commit(p)
  BY <1>1, GotoTyped DEF Commit
<1>2. CASE AppendRecord(p)
  BY <1>2, GotoTyped DEF AppendRecord
<1>3. CASE AppendFails(p) \/ RecordFails(p) \/ Crash(p)
  <2>1. UNCHANGED store \/ pc[p] \in {"commit", "append_record"}
    BY <1>3 DEF AppendFails, RecordFails, Crash
  <2>2. Goto(p, "done") \/ Goto(p, "crashed")
    BY <1>3 DEF AppendFails, RecordFails, Crash, Settle
  <2> QED BY <2>1, <2>2, GotoTyped
<1>4. CASE \/ Step(p) /\ ~Commit(p) /\ ~AppendRecord(p)
           \/ LeaseFails(p) \/ LoadFails(p) \/ ReserveFails(p) \/ Busy(p)
  BY <1>4 DEF Step, Explain, Acquire, Load, Reserve, Record, Return,
              LeaseFails, LoadFails, ReserveFails, Busy
<1> QED BY <1>1, <1>2, <1>3, <1>4 DEF Fault

\* A step of a leased process leaves every open snapshot current.
LEMMA CurrentStep ==
  ASSUME Unleased = {}, Typed, Leases, Current, NEW p \in Procs, Step(p) \/ Fault(p)
  PROVE  Current'
<1> USE DEF Deciding, Inside, Labels, Settled, Answers
<1>1. ASSUME NEW q \in Procs \ {p}, pc'[q] \in Deciding PROVE seen'[q].proj = proj'
  <2>1. pc'[q] = pc[q] /\ seen'[q] = seen[q]
    BY <1>1, OthersStand
  <2>2. UNCHANGED store
    BY <1>1, <2>1, WhoWrites DEF Leases
  <2> QED BY <1>1, <2>1, <2>2 DEF Current, store
<1>2. ASSUME pc'[p] \in Deciding PROVE seen'[p].proj = proj'
  <2>1. UNCHANGED store
    BY <1>2, WhoWrites
  <2>2. ASSUME Conflict(p) PROVE FALSE
    BY <1>2, <2>2, ConflictOutcome, GotoTyped DEF Settle
  <2>3. ASSUME NEW a, Settle(p, a) PROVE FALSE
    BY <1>2, <2>3, GotoTyped DEF Settle
  <2>4. ASSUME NEW l \in Labels \ Deciding, Goto(p, l) PROVE FALSE
    BY <1>2, <2>4, GotoTyped
  <2>5. CASE Load(p)
    <3>1. seen' = [seen EXCEPT ![p] = [proj |-> proj, next |-> head]]
      BY <2>3, <2>5 DEF Load
    <3> QED BY <2>1, <3>1 DEF Typed, store
  <2>6. CASE ~Load(p)
    <3>1. UNCHANGED seen
      BY <2>6 DEF Step, Fault, Explain, Acquire, Reserve, Commit, Record, AppendRecord,
                  Return, LeaseFails, LoadFails, ReserveFails, Busy, AppendFails, RecordFails, Crash
    <3>2. pc[p] \in Deciding
      <4>1. Reserve(p) => pc[p] \in Deciding
        BY DEF Reserve
      <4> QED BY <2>2, <2>3, <2>4, <2>6, <4>1
              DEF Step, Fault, Explain, Acquire, Commit, Record, AppendRecord,
                  Return, LeaseFails, LoadFails, ReserveFails, Busy, AppendFails, RecordFails, Crash
    <3> QED BY <2>1, <3>1, <3>2 DEF Current, store
  <2> QED BY <2>5, <2>6
<1> QED BY <1>1, <1>2 DEF Current

LEMMA ShowsStep ==
  ASSUME Typed, ShowsFacts, NEW p \in Procs, Step(p) \/ Fault(p)
  PROVE  ShowsFacts'
<1>1. CASE UNCHANGED shown
  BY <1>1 DEF ShowsFacts
<1>2. CASE Explain(p)
  <2> DEFINE B == BelievedOf(proj, job[p].r.shape)
             E == ExplainSubject(proj, job[p].r.shape, Instant)
  <2>1. CASE B # {}
    <3>1. B \subseteq Facts /\ {E} \subseteq Facts
      BY <2>1, ExplainsABelief DEF BelievedOf
    <3>2. UNCHANGED shown \/ \E s \in {B, {E}} : shown' = [shown EXCEPT ![p] = s]
      BY <1>2, <2>1 DEF Explain
    <3> HIDE DEF B, E
    <3> QED BY <1>1, <3>1, <3>2 DEF ShowsFacts, Typed
  <2>2. CASE B = {}
    BY <1>1, <1>2, <2>2 DEF Explain
  <2> QED BY <2>1, <2>2
<1> QED
  BY <1>1, <1>2 DEF Step, Fault, Acquire, Load, Reserve, Commit, Record, AppendRecord, Return,
                    LeaseFails, LoadFails, ReserveFails, Busy, AppendFails, RecordFails, Crash

\* reserve_event_seq, then the decision with the number that was reserved.
LEMMA ReserveDecides ==
  ASSUME Typed, NEW p \in Procs, Reserve(p)
  PROVE  DecidedFor(p)'
<1> DEFINE op == job[p].op
           r == job[p].r
           n == IF Backend = "file" THEN seen[p].next ELSE alloc
<1>1. UNCHANGED <<job, seen, shown>> /\ n \in Nat
  BY DEF Reserve, Typed
<1>2. lost'[p] = IF op = "retrieve" THEN {} ELSE Challenge(op, seen[p].proj, r, n, Instant)
  BY DEF Reserve, Typed
<1>3. \/ /\ Goto(p, "commit")
         /\ IF op = "retrieve" THEN Refused(seen[p].proj, Decided(p, n)) = {}
                               ELSE Accepts(op, seen[p].proj, r, n, Instant)
      \/ Goto(p, "record") /\ lost'[p] # {}
      \/ Settle(p, "refused")
  BY DEF Reserve
<1>4. op = "retrieve" \/ HasTarget(op, seen[p].proj, r, Instant) => first'[p] = n
  BY DEF Reserve, TakeNumbers, Typed
<1>5. CASE /\ Goto(p, "commit")
           /\ IF op = "retrieve" THEN Refused(seen[p].proj, Decided(p, n)) = {}
                                 ELSE Accepts(op, seen[p].proj, r, n, Instant)
  <2>1. pc'[p] = "commit"
    BY <1>5, GotoTyped DEF Labels
  <2>2. first'[p] = n
    BY <1>4, <1>5 DEF Accepts, Permitted
  <2>3. Decided(p, first[p])' = Decided(p, n)
    BY <1>1, <2>2 DEF Decided
  <2> HIDE DEF n
  <2> QED BY <1>1, <1>5, <2>1, <2>2, <2>3 DEF DecidedFor
<1>6. CASE Goto(p, "record") /\ lost'[p] # {}
  <2>1. pc'[p] = "record"
    BY <1>6, GotoTyped DEF Labels
  <2> HIDE DEF n
  <2> QED BY <1>1, <1>2, <1>6, <2>1 DEF DecidedFor
<1>7. CASE Settle(p, "refused")
  BY <1>7, SettleTyped DEF DecidedFor, Answers
<1> QED BY <1>3, <1>5, <1>6, <1>7

LEMMA DecisionsStep ==
  ASSUME Typed, Decisions, NEW p \in Procs, Step(p) \/ Fault(p)
  PROVE  Decisions'
<1> USE DEF Labels, Settled, Answers
<1>1. ASSUME NEW q \in Procs \ {p} PROVE DecidedFor(q)'
  <2>1. Decided(q, first[q])' = Decided(q, first[q])
    BY OthersStand DEF Decided
  <2> QED BY <2>1, OthersStand DEF Decisions, DecidedFor
<1>2. DecidedFor(p)'
  <2> DEFINE Away == pc'[p] \notin {"commit", "record", "append_record"}
  <2>1. Away => DecidedFor(p)'
    BY DEF DecidedFor
  <2>2. Conflict(p) => Away
    BY ConflictOutcome, GotoTyped DEF Settle
  <2>3. ASSUME NEW a, Settle(p, a) PROVE Away
    BY <2>3, GotoTyped DEF Settle
  <2>4. ASSUME NEW l \in Labels \ {"commit", "record", "append_record"}, Goto(p, l) PROVE Away
    BY <2>4, GotoTyped
  <2>5. CASE Record(p)
    <3>1. CASE Goto(p, "append_record") /\ UNCHANGED <<job, seen, lost>> /\ pc[p] = "record"
      BY <3>1, GotoTyped DEF Decisions, DecidedFor
    <3> QED BY <2>1, <2>3, <2>5, <3>1 DEF Record
  <2> HIDE DEF Away
  <2>6. CASE ~Record(p) /\ ~Reserve(p)
    BY <2>1, <2>2, <2>3, <2>4, <2>6
       DEF Step, Fault, Explain, Acquire, Load, Commit, AppendRecord, Return,
           LeaseFails, LoadFails, ReserveFails, Busy, AppendFails, RecordFails, Crash
  <2> QED BY <2>5, <2>6, ReserveDecides
<1> QED BY <1>1, <1>2 DEF Decisions

-----------------------------------------------------------------------------
\* An audit that is admitted names facts that are there.
LEMMA AuditsWhatIsThere ==
  ASSUME NEW p, NEW facts, facts \subseteq Facts, NEW r, NEW n, NEW t,
         Refused(p, RetrievalBatch(facts, p, r, n, t)) = {}
  PROVE  facts \subseteq Present(p)
<1> DEFINE batch == RetrievalBatch(facts, p, r, n, t)
<1> SUFFICES ASSUME NEW f \in facts PROVE p[f] # NoState
  BY DEF Present
<1>1. DOMAIN batch = facts
  BY DEF RetrievalBatch
<1>2. \A g \in facts : batch[g].kind = "Retrieved" /\ batch[g].fact = g
  BY DEF RetrievalBatch, PerIncumbent, BuildEvent
<1>3. ArbitrateEvents(Working(p, batch), batch[f])
  BY <1>1, <1>2 DEF Refused
<1> HIDE DEF batch
<1>4. Working(p, batch)[f] = p[f]
  BY <1>1, <1>2 DEF Working
<1> QED BY <1>2, <1>3, <1>4 DEF ArbitrateEvents, TransitionOK

\* Who has written to a log: the served writers of the abstract belief base.
LEMMA ServedGrows ==
  ASSUME Typed, NEW p \in Procs, NEW e \in Entry, e.by = p, log' = Append(log, e),
         Written(log, p) = {}
  PROVE  p \notin Served /\ Served' = Served \cup {p}
<1>1. /\ DOMAIN log = 1..Len(log) /\ Len(log) \in Nat
      /\ DOMAIN log' = 1..(Len(log) + 1)
      /\ \A i \in DOMAIN log : log'[i] = log[i]
      /\ log'[Len(log) + 1] = e
  BY DEF Typed
<1>2. p # NoProc
  BY WritersAssumption
<1> QED BY <1>1, <1>2 DEF Served, Written

\* The invariant of leased writers.
Leased ==
  Typed /\ Finite /\ Accounts /\ ReadSomething /\ Leases /\ Current /\ ShowsFacts /\ Decisions

\* append_events of a decided batch, or of the first lines of it to a file, is
\* what the operation may leave when it runs alone at this instant.
LEMMA CommitServes ==
  ASSUME Facts = Nat, Leased, NEW p \in Procs, pc[p] = "commit",
         NEW batch \in Landings(Decided(p, first[p])), IsFiniteSet(DOMAIN batch),
         NEW what \in {"op", "part"}, Persist(p, batch, what), UNCHANGED job
  PROVE  Base!Serve(p)
<1> DEFINE j == job[p]
<1>1. PICK e \in Entry : log' = Append(log, e) /\ e.by = p
  BY PersistTyped DEF Leased
<1>2. Written(log, p) = {}
  BY DEF Leased, Accounts, Before, Labels
<1>3. p \notin Served /\ Served' = Served \cup {p}
  BY <1>1, <1>2, ServedGrows DEF Leased
<1>4. seen[p].proj = proj /\ first[p] \in Facts
  BY DEF Leased, Current, Deciding, Typed
<1>5. proj' = Applied(proj, batch)
  BY DEF Persist
<1>6. Effect(j, proj, proj')
  <2>1. CASE j.op = "retrieve"
    <3> DEFINE F == (SUBSET Present(proj)) \ {{}}
               Audit(facts, n) == RetrievalBatch(facts, proj, j.r, n, Instant)
    <3>1. Decided(p, first[p]) = Audit(shown[p], first[p])
      BY <1>4, <2>1 DEF Decided
    <3>2. Refused(proj, Decided(p, first[p])) = {}
      BY <1>4, <2>1 DEF Leased, Decisions, DecidedFor
    <3>3. shown[p] \subseteq Present(proj)
      BY <3>1, <3>2, AuditsWhatIsThere DEF Leased, ShowsFacts
    <3>4. shown[p] # {}
      BY <2>1 DEF Leased, ReadSomething, Before, Labels
    <3>5. shown[p] \in F
      BY <3>3, <3>4
    <3>6. batch \in Landings(Audit(shown[p], first[p]))
      BY <3>1
    <3>7. Effect(j, proj, proj') =
            \E facts \in F, n \in Facts :
              \E b \in Landings(Audit(facts, n)) : proj' = Applied(proj, b)
      BY <2>1 DEF Effect
    <3> HIDE DEF F, Audit, j
    <3> QED BY <1>4, <1>5, <3>5, <3>6, <3>7, Zenon
  <2>2. CASE j.op # "retrieve"
    <3>1. Decided(p, first[p]) = Batch(j.op, proj, j.r, first[p], Instant)
      BY <1>4, <2>2 DEF Decided
    <3>2. Accepts(j.op, proj, j.r, first[p], Instant)
      BY <1>4, <2>2 DEF Leased, Decisions, DecidedFor
    <3>3. batch \in Landings(Batch(j.op, proj, j.r, first[p], Instant))
      BY <3>1
    <3>4. (\E n \in Facts : /\ Accepts(j.op, proj, j.r, n, Instant)
                            /\ \E b \in Landings(Batch(j.op, proj, j.r, n, Instant)) :
                                 proj' = Applied(proj, b))
          => Effect(j, proj, proj')
      BY <2>2 DEF Effect
    <3> HIDE DEF j
    <3> QED BY <1>4, <1>5, <3>2, <3>3, <3>4, Zenon
  <2> QED BY <2>1, <2>2
<1> HIDE DEF j
<1> QED BY <1>3, <1>6 DEF Base!Serve, j

\* persist_challenge_record of a contest lost on the current beliefs.
LEMMA RecordServes ==
  ASSUME Facts = Nat, Leased, NEW p \in Procs, pc[p] = "append_record",
         Persist(p, LostContest(p, first[p]), "record"), UNCHANGED job
  PROVE  Base!Serve(p)
<1>1. PICK e \in Entry : log' = Append(log, e) /\ e.by = p
  BY LostContestDomain, PersistTyped DEF Leased
<1>2. Written(log, p) = {}
  BY DEF Leased, Accounts, Before, Labels
<1>3. p \notin Served /\ Served' = Served \cup {p}
  BY <1>1, <1>2, ServedGrows DEF Leased
<1>4. seen[p].proj = proj /\ first[p] \in Facts
  BY DEF Leased, Current, Deciding, Typed
<1>5. proj' = Applied(proj, LostContest(p, first[p]))
  BY DEF Persist
<1>6. /\ job[p].op # "retrieve" /\ lost[p] # {}
      /\ \E n \in Facts : lost[p] = Challenge(job[p].op, proj, job[p].r, n, Instant)
  BY <1>4 DEF Leased, Decisions, DecidedFor
<1>7. PICK n \in Facts : lost[p] = Challenge(job[p].op, proj, job[p].r, n, Instant)
  BY <1>6
<1> DEFINE c == CHOOSE x \in lost[p] : TRUE
<1>8. c \in Challenge(job[p].op, proj, job[p].r, n, Instant)
  BY <1>6, <1>7
<1>9. proj' = Applied(proj, RecordBatch(c, job[p].r, first[p], Instant))
  BY <1>5 DEF LostContest
<1> HIDE DEF c
<1>10. Effect(job[p], proj, proj')
  BY <1>4, <1>6, <1>8, <1>9 DEF Effect
<1> QED BY <1>3, <1>10 DEF Base!Serve

\* Every other step is invisible to the belief base.
LEMMA WritersStep ==
  ASSUME Facts = Nat, Leased, [Next]_vars
  PROVE  [Base!Next]_(Base!vars)
<1>1. CASE UNCHANGED <<job, proj, log>>
  BY <1>1 DEF Base!vars, Served
<1>2. ASSUME NEW p \in Procs, Step(p) \/ Fault(p) PROVE [Base!Next]_(Base!vars)
  <2>1. UNCHANGED job
    BY <1>2 DEF Step, Fault, Explain, Acquire, Load, Reserve, Commit, Record, AppendRecord, Return,
                LeaseFails, LoadFails, ReserveFails, Busy, AppendFails, RecordFails, Crash
  <2>2. CASE Commit(p)
    <3>1. \/ UNCHANGED store
          \/ pc[p] = "commit" /\ Persist(p, Decided(p, first[p]), "op")
      BY <2>2 DEF Commit
    <3> QED BY <1>1, <2>1, <3>1, CommitServes, DecidedFinite DEF Base!Next, store, Landings, Leased
  <2>3. CASE AppendRecord(p)
    <3>1. \/ UNCHANGED store
          \/ pc[p] = "append_record" /\ Persist(p, LostContest(p, first[p]), "record")
      BY <2>3 DEF AppendRecord
    <3> QED BY <1>1, <2>1, <3>1, RecordServes DEF Base!Next, store
  <2>4. CASE AppendFails(p) \/ Crash(p)
    <3> DEFINE batch == Decided(p, first[p])
    <3>1. \/ UNCHANGED store
          \/ pc[p] = "commit" /\ CutShort(p, batch, "op")
      BY <2>4 DEF AppendFails, Crash
    <3>2. IsFiniteSet(DOMAIN batch) /\ batch \in Landings(batch)
      BY DecidedFinite DEF Leased, Landings
    <3>3. CASE UNCHANGED store
      BY <1>1, <2>1, <3>3 DEF store
    <3>4. CASE pc[p] = "commit" /\ Persist(p, batch, "op")
      BY <2>1, <3>2, <3>4, CommitServes DEF Base!Next
    <3>5. ASSUME pc[p] = "commit", Backend = "file", NEW part \in Parts(batch),
                 IsFiniteSet(DOMAIN part), Persist(p, part, "part")
          PROVE  [Base!Next]_(Base!vars)
      <4>1. part \in Landings(batch)
        BY <3>5 DEF Landings
      <4> QED BY <2>1, <3>5, <4>1, CommitServes DEF Base!Next
    <3> HIDE DEF batch
    <3> QED BY <3>1, <3>2, <3>3, <3>4, <3>5, CutShortWrites
  <2>5. CASE RecordFails(p)
    <3>1. \/ UNCHANGED store
          \/ pc[p] = "append_record" /\ CutShort(p, LostContest(p, first[p]), "record")
      BY <2>5 DEF RecordFails
    <3> QED BY <1>1, <2>1, <3>1, RecordIsWhole, RecordServes DEF Base!Next, store
  <2>6. CASE \/ Step(p) /\ ~Commit(p) /\ ~AppendRecord(p)
             \/ LeaseFails(p) \/ LoadFails(p) \/ ReserveFails(p) \/ Busy(p)
    <3>1. UNCHANGED store
      BY <2>6 DEF Step, Explain, Acquire, Load, Reserve, Record, Return,
                  LeaseFails, LoadFails, ReserveFails, Busy
    <3> QED BY <1>1, <2>1, <3>1 DEF store
  <2> QED BY <1>2, <2>2, <2>3, <2>4, <2>5, <2>6 DEF Fault
<1> QED BY <1>1, <1>2 DEF Next, vars

LEMMA LeasedStep ==
  ASSUME Unleased = {}, Leased, [Next]_vars
  PROVE  Leased'
<1>1. CASE UNCHANGED vars
  <2>1. UNCHANGED <<job, proj, lease, pc, seen, first, lost, shown>>
    BY <1>1 DEF vars
  <2>2. \A p \in Procs : DecidedFor(p)' = DecidedFor(p)
    BY <2>1 DEF DecidedFor, Decided
  <2> QED
    BY <1>1, <2>1, <2>2, Stutters
       DEF Leased, Leases, ReadSomething, Current, ShowsFacts, Decisions
<1>2. ASSUME NEW p \in Procs, Step(p) \/ Fault(p) PROVE Leased'
  BY <1>2, DataStep, AccountsStep, ReadStep, LeaseStep, CurrentStep, ShowsStep, DecisionsStep
     DEF Leased
<1> QED BY <1>1, <1>2 DEF Next

\* with_write_retry and the leases: if every writer takes the lease, and event
\* numbers do not run out, any number of writers on either backend implement the
\* abstract belief base: each operation takes effect at most once, decided on the
\* beliefs of the instant it commits, whatever crashes, retries and failures
\* happen.
THEOREM WritersAreLinearizable ==
  ASSUME Unleased = {}, Facts = Nat
  PROVE  Spec => Linearizable
<1>1. Init => Leased /\ Base!Init
  <2> SUFFICES ASSUME Init PROVE Leased /\ Base!Init
    OBVIOUS
  <2>1. Written(log, NoProc) = DOMAIN log
    BY DEF Init, Seeded, Written
  <2>2. \A p \in Procs : Written(log, p) = {}
    BY <2>1, WritersAssumption DEF Written
  <2>3. Accounts
    BY <2>2 DEF Accounts, Init
  <2>4. ReadSomething /\ Leases /\ Current /\ ShowsFacts /\ Decisions
    BY DEF Init, ReadSomething, Leases, Current, ShowsFacts, Decisions, DecidedFor, Deciding, Inside
  <2>5. Served = {}
    BY <2>1 DEF Served, Written
  <2>6. Base!Init
    BY <2>5 DEF Init, Base!Init, AllJobs
  <2> QED BY <2>3, <2>4, <2>6, InitTyped DEF Leased
<1> QED
  BY <1>1, LeasedStep, WritersStep, PTL DEF Spec, Linearizable, Base!Spec

-----------------------------------------------------------------------------
(* Uniqueness on a database. The commit looks at the touched shapes only;   *)
(* the others keep the beliefs they had.                                   *)

Shaped(p) == \A f \in Facts : p[f] = NoState \/ "shape" \in DOMAIN p[f]

\* Every event of a batch is about the fact it is filed under.
NamesItsFacts(batch) == \A f \in DOMAIN batch : batch[f].fact = f

LEMMA AssertionNames ==
  ASSUME NEW r, NEW deps, NEW n, NEW t
  PROVE  BuildAssertion(r, deps, n, t).fact = n
<1> DEFINE e == BuildEvent(n, n, "Asserted", r, NoFact, t)
           a == [e EXCEPT !.value = r.value, !.ttl = r.ttl, !.valid_from = r.valid_from,
                          !.valid_to = r.valid_to, !.deps = deps,
                          !.evidence = 1 + Cardinality(deps)]
<1>1. a.fact = n /\ "fact" \in DOMAIN a
  BY DEF BuildEvent
<1>2. BuildAssertion(r, deps, n, t) = WithPolicyDefaults(a)
  BY DEF BuildAssertion
<1> HIDE DEF a
<1> QED BY <1>1, <1>2 DEF WithPolicyDefaults

LEMMA BatchNames ==
  ASSUME NEW op, NEW p, NEW r, NEW n, NEW t
  PROVE  NamesItsFacts(Batch(op, p, r, n, t))
<1> DEFINE I == Incumbents(op, p, r, t)
           asserts == op \in Asserting
           a == BuildAssertion(r, Basis(op, p, r), n, t)
           others == PerIncumbent(I, IF asserts THEN n + 1 ELSE n, IncumbentKind[op],
                                  r, IF asserts THEN n ELSE NoFact, t)
<1>1. a.fact = n
  BY AssertionNames
<1>2. DOMAIN others = I /\ \A f \in I : others[f].fact = f
  BY DEF PerIncumbent, BuildEvent
<1>3. Batch(op, p, r, n, t) =
        IF op \in {"assert", "derive"} THEN [f \in {n} |-> a]
        ELSE IF asserts THEN [f \in {n} \cup I |-> IF f = n THEN a ELSE others[f]]
        ELSE others
  BY DEF Batch
<1> HIDE DEF I, a, others
<1> QED BY <1>1, <1>2, <1>3 DEF NamesItsFacts

LEMMA WrittenNames ==
  ASSUME NEW p, NEW n
  PROVE  NamesItsFacts(Decided(p, n)) /\ NamesItsFacts(LostContest(p, n))
<1>1. NamesItsFacts(LostContest(p, n))
  BY DEF NamesItsFacts, LostContest, RecordBatch, BuildEvent
<1>2. CASE job[p].op = "retrieve"
  BY <1>1, <1>2 DEF NamesItsFacts, Decided, RetrievalBatch, PerIncumbent, BuildEvent
<1>3. CASE job[p].op # "retrieve"
  BY <1>1, <1>3, BatchNames DEF Decided
<1> QED BY <1>2, <1>3

\* apply_event keeps the subject and predicate a fact was asserted with.
LEMMA NextKeepsShape ==
  ASSUME NEW s, NEW e, "shape" \in DOMAIN s
  PROVE  NextState(s, e).shape = s.shape /\ "shape" \in DOMAIN NextState(s, e)
BY DEF NextState

\* An admitted event is of the shape of the fact it moves.
LEMMA AppliedShape ==
  ASSUME NEW p, NEW batch, Shaped(p), NamesItsFacts(batch), Refused(p, batch) = {},
         NEW f \in Facts, f \in DOMAIN batch
  PROVE  /\ Applied(p, batch)[f].shape = batch[f].shape
         /\ "shape" \in DOMAIN Applied(p, batch)[f]
         /\ p[f] = NoState \/ p[f].shape = batch[f].shape
<1> DEFINE e == batch[f]
           w == IF e.kind = "Asserted" THEN p ELSE Working(p, batch)
<1>1. ArbitrateEvents(w, e)
  BY DEF Refused
<1>2. w[f] = p[f] /\ e.fact = f
  BY DEF Working, NamesItsFacts
<1>3. Applied(p, batch)[f] = ApplyEvent(p[f], e)
  BY DEF Applied
<1> HIDE DEF e, w
<1>4. TransitionOK(p[f], e)
  BY <1>1, <1>2 DEF ArbitrateEvents
<1>5. CASE p[f] = NoState
  BY <1>3, <1>5 DEF ApplyEvent, InitialState, e
<1>6. CASE p[f] # NoState
  <2>1. "shape" \in DOMAIN p[f] /\ e.shape = p[f].shape
    BY <1>4, <1>6 DEF Shaped, TransitionOK, WellPlaced
  <2>2. Applied(p, batch)[f] = NextState(p[f], e)
    BY <1>3, <1>6 DEF ApplyEvent
  <2> QED BY <2>1, <2>2, NextKeepsShape DEF e
<1> QED BY <1>5, <1>6

\* append_many: rechecking the touched shapes is enough.
LEMMA TouchedShapesSuffice ==
  ASSUME NEW p, NEW batch, Shaped(p), NamesItsFacts(batch), Refused(p, batch) = {}, NEW t,
         \A f \in DOMAIN batch : UniqueProjection(Applied(p, batch), batch[f].shape, t),
         NEW shape, UniqueProjection(p, shape, t)
  PROVE  UniqueProjection(Applied(p, batch), shape, t)
<1> DEFINE q == Applied(p, batch)
<1>1. CASE \E f \in DOMAIN batch : batch[f].shape = shape
  BY <1>1
<1>2. CASE \A f \in DOMAIN batch : batch[f].shape # shape
  <2>1. ASSUME NEW f \in Facts
        PROVE  \/ q[f] = p[f]
               \/ /\ ~(IsBelieved(q[f]) /\ q[f].shape = shape)
                  /\ ~(IsBelieved(p[f]) /\ p[f].shape = shape)
    <3>1. CASE f \notin DOMAIN batch
      BY <3>1 DEF Applied
    <3>2. CASE f \in DOMAIN batch
      <4>1. q[f].shape = batch[f].shape /\ (p[f] = NoState \/ p[f].shape = batch[f].shape)
        BY <3>2, AppliedShape
      <4>2. ~IsBelieved(NoState)
        BY DEF IsBelieved, NoState, Believed
      <4> HIDE DEF q
      <4> QED BY <1>2, <3>2, <4>1, <4>2
    <3> QED BY <3>1, <3>2
  <2> HIDE DEF q
  <2>2. BelievedOf(q, shape) = BelievedOf(p, shape) /\ \A f \in BelievedOf(p, shape) : q[f] = p[f]
    BY <2>1 DEF BelievedOf
  <2>3. UnexpiredOf(q, shape, t) = UnexpiredOf(p, shape, t)
    BY <2>2 DEF UnexpiredOf
  <2> DEFINE group == UnexpiredOf(p, shape, t)
  <2>4. \A f \in group : q[f] = p[f]
    BY <2>2 DEF UnexpiredOf
  <2> HIDE DEF group
  <2>5. Accounted(q, group) = Accounted(p, group)
    BY <2>4 DEF Accounted
  <2> QED BY <2>3, <2>5 DEF UniqueProjection, group, q
<1> QED BY <1>1, <1>2

\* One belief is no duplicate.
LEMMA OneIsUnique ==
  ASSUME NEW p, NEW n, NEW shape, NEW t, BelievedOf(p, shape) \subseteq {n}
  PROVE  UniqueProjection(p, shape, t)
<1>1. UnexpiredOf(p, shape, t) \subseteq {n}
  BY DEF UnexpiredOf
<1>2. Cardinality(UnexpiredOf(p, shape, t)) <= Cardinality({n}) /\ Cardinality({n}) = 1
  BY <1>1, FS_Singleton, FS_Subset
<1>3. Cardinality(UnexpiredOf(p, shape, t)) \in Nat
  BY <1>1, FS_Singleton, FS_Subset, FS_CardinalityType
<1> QED BY <1>2, <1>3 DEF UniqueProjection

Deduped == Shaped(proj) /\ NoSilentDuplicates

LEMMA DedupedStep ==
  ASSUME Backend = "database", Deduped, NEW p \in Procs, Step(p) \/ Fault(p)
  PROVE  Deduped'
<1>1. CASE UNCHANGED proj
  BY <1>1 DEF Deduped, Shaped, NoSilentDuplicates
<1>2. ASSUME NEW batch, NEW what, NamesItsFacts(batch), DurablyAdmitted(p, batch),
             Persist(p, batch, what)
      PROVE  Deduped'
  <2>1. proj' = Applied(proj, batch) /\ Refused(proj, batch) = {}
    BY <1>2 DEF Persist, DurablyAdmitted
  <2>2. NoSilentDuplicates'
    BY <1>2, <2>1, TouchedShapesSuffice DEF Deduped, NoSilentDuplicates, DurablyAdmitted
  <2>3. ASSUME NEW f \in Facts PROVE proj'[f] = NoState \/ "shape" \in DOMAIN proj'[f]
    <3>1. CASE f \in DOMAIN batch
      BY <1>2, <2>1, <3>1, AppliedShape DEF Deduped
    <3>2. CASE f \notin DOMAIN batch
      BY <2>1, <3>2 DEF Applied, Deduped, Shaped
    <3> QED BY <3>1, <3>2
  <2> QED BY <2>2, <2>3 DEF Deduped, Shaped
<1>3. CASE Commit(p)
  <2>1. \/ UNCHANGED store
        \/ /\ DurablyAdmitted(p, Decided(p, first[p]))
           /\ Persist(p, Decided(p, first[p]), "op")
    BY <1>3 DEF Commit
  <2> QED BY <1>1, <1>2, <2>1, WrittenNames DEF store
<1>4. CASE AppendRecord(p)
  <2>1. \/ UNCHANGED store
        \/ /\ DurablyAdmitted(p, LostContest(p, first[p]))
           /\ Persist(p, LostContest(p, first[p]), "record")
    BY <1>4 DEF AppendRecord
  <2> QED BY <1>1, <1>2, <2>1, WrittenNames DEF store
<1>5. CASE AppendFails(p) \/ RecordFails(p) \/ Crash(p)
  <2>1. \/ UNCHANGED store
        \/ CutShort(p, Decided(p, first[p]), "op")
        \/ CutShort(p, LostContest(p, first[p]), "record")
    BY <1>5 DEF AppendFails, RecordFails, Crash
  <2>2. ASSUME NEW batch, NEW what, NamesItsFacts(batch), CutShort(p, batch, what)
        PROVE  Deduped'
    BY <1>1, <1>2, <2>2 DEF CutShort, store
  <2> QED BY <1>1, <2>1, <2>2, WrittenNames DEF store
<1>6. CASE \/ Step(p) /\ ~Commit(p) /\ ~AppendRecord(p)
           \/ LeaseFails(p) \/ LoadFails(p) \/ ReserveFails(p) \/ Busy(p)
  <2>1. UNCHANGED store
    BY <1>6 DEF Step, Explain, Acquire, Load, Reserve, Record, Return,
                LeaseFails, LoadFails, ReserveFails, Busy
  <2> QED BY <1>1, <2>1 DEF store
<1> QED BY <1>3, <1>4, <1>5, <1>6 DEF Fault

\* adapter.rs append_many: on a database no interleaving of writers, leased or
\* not, stale or not, leaves two live beliefs of a unique shape that no open
\* contest accounts for (NoSilentDuplicates).
THEOREM NoRaceDuplicates ==
  ASSUME Backend = "database"
  PROVE  Spec => []NoSilentDuplicates
<1>1. Init => Deduped
  <2> SUFFICES ASSUME Init PROVE Deduped
    OBVIOUS
  <2>1. CASE proj = NoBeliefs
    <3>1. \A shape \in Shapes : BelievedOf(proj, shape) \subseteq {0}
      BY <2>1 DEF NoBeliefs, BelievedOf, IsBelieved, NoState, Believed
    <3>2. Shaped(proj)
      BY <2>1 DEF Shaped, NoBeliefs
    <3> QED BY <3>1, <3>2, OneIsUnique DEF Deduped, NoSilentDuplicates
  <2>2. ASSUME NEW r, proj = Applied(NoBeliefs, Batch("assert", NoBeliefs, r, 0, Instant))
        PROVE  Deduped
    <3> DEFINE batch == Batch("assert", NoBeliefs, r, 0, Instant)
    <3>1. DOMAIN batch = {0}
      BY DEF Batch
    <3> HIDE DEF batch
    <3>2. \A f \in Facts : proj[f] = IF f = 0 THEN InitialState(batch[f]) ELSE NoState
      BY <2>2, <3>1 DEF Applied, ApplyEvent, NoBeliefs, batch
    <3>3. \A shape \in Shapes : BelievedOf(proj, shape) \subseteq {0}
      BY <3>2 DEF BelievedOf, IsBelieved, NoState, Believed
    <3>4. \A e : "shape" \in DOMAIN InitialState(e)
      BY DEF InitialState
    <3>5. Shaped(proj)
      BY <3>2, <3>4 DEF Shaped
    <3> QED BY <3>3, <3>5, OneIsUnique DEF Deduped, NoSilentDuplicates
  <2> QED BY <2>1, <2>2 DEF Init, InitialBeliefs
<1>2. Deduped /\ [Next]_vars => Deduped'
  <2>1. Deduped /\ UNCHANGED vars => Deduped'
    BY DEF vars, Deduped, Shaped, NoSilentDuplicates
  <2> QED BY <2>1, DedupedStep DEF Next
<1>3. Deduped => NoSilentDuplicates
  BY DEF Deduped
<1> QED
  BY <1>1, <1>2, <1>3, PTL DEF Spec

-----------------------------------------------------------------------------
(* What the read surfaces show, on any store that loads.                   *)

\* A belief is a recorded fact, and not a closed one.
LEMMA BelievedIsPresent ==
  ASSUME NEW p, NEW shape, NEW f \in BelievedOf(p, shape)
  PROVE  /\ f \in Facts /\ f # NoFact /\ p[f] # NoState /\ p[f].shape = shape
         /\ p[f].lifecycle \in Believed /\ p[f].lifecycle \notin Terminal
BY SentinelsApart DEF BelievedOf, IsBelieved, Believed, NoState, Terminal, ClosingKinds

\* validate_unique_projection: where several beliefs are silent, none is unexplained.
LEMMA ContestedIfSeveral ==
  ASSUME NEW p, NEW shape \in UniqueShapes, NEW t, Loads(p, t),
         Cardinality(UnexpiredOf(p, shape, t)) > 1
  PROVE  {f \in UnexpiredOf(p, shape, t) : p[f].lifecycle = "Contested"} # {}
<1> DEFINE U == UnexpiredOf(p, shape, t)
           C == {f \in U : p[f].lifecycle = "Contested"}
<1>1. U \subseteq Accounted(p, U)
  BY UniqueAreShapes DEF Loads, UniqueProjection
<1>2. Accounted(p, U) = C \cup UNION {p[f].contradicted_by : f \in C}
  BY DEF Accounted
<1>3. U # {}
  BY FS_EmptySet
<1> HIDE DEF U, C
<1>4. C # {}
  BY <1>1, <1>2, <1>3
<1> QED BY <1>4 DEF U, C

\* explain_subject: a dispute is what an explanation is about.
LEMMA ExplainsTheDispute ==
  ASSUME NEW p, NEW shape, NEW t,
         {f \in UnexpiredOf(p, shape, t) : p[f].lifecycle = "Contested"} # {}
  PROVE  /\ BelievedOf(p, shape) # {} /\ LatestFact(p, shape, t) = ExplainSubject(p, shape, t)
         /\ ExplainSubject(p, shape, t) \in UnexpiredOf(p, shape, t)
         /\ p[ExplainSubject(p, shape, t)].lifecycle = "Contested"
<1> DEFINE U == UnexpiredOf(p, shape, t)
           C == {f \in U : p[f].lifecycle = "Contested"}
<1>1. U \subseteq BelievedOf(p, shape) /\ BelievedOf(p, shape) \subseteq Nat
  BY FactsAreEventNumbers DEF UnexpiredOf, BelievedOf
<1>2. ExplainSubject(p, shape, t) = FirstOf(C)
  BY DEF ExplainSubject
<1>3. C \subseteq U /\ \A f \in C : p[f].lifecycle = "Contested"
  OBVIOUS
<1>4. BelievedOf(p, shape) # {}
  BY <1>1
<1> HIDE DEF U, C
<1>5. FirstOf(C) \in C
  BY <1>1, <1>3, FirstOfIsIn DEF U, C
<1> QED BY <1>1, <1>2, <1>3, <1>4, <1>5 DEF U, LatestFact

\* ops.rs conflicts_outcome, context.rs, snapshot.rs: on any store that loads,
\* two live beliefs of a unique predicate are shown as a dispute by every read.
LEMMA DisputeShows ==
  ASSUME NEW p, NEW d, NEW t, Loads(p, t), NEW shape \in UniqueShapes,
         Cardinality(UnexpiredOf(p, shape, t)) > 1
  PROVE  /\ p[LatestFact(p, shape, t)].lifecycle = "Contested"
         /\ LatestFact(p, shape, t) \in ContextPack(p, t, TRUE)
         /\ ~IsNotYetValidAt(p[LatestFact(p, shape, t)], t)
              => LatestFact(p, shape, t) \in ContextPack(p, t, FALSE)
         /\ shape \in ReconcileFailures(p, Shapes, t)
         /\ UnexpiredOf(p, shape, t) \subseteq Conflicts(p)[shape]
         /\ ExplainTool(p, Shapes, t) = "contested"
         /\ "contested" \in Snapshot(p, d, {}, t).attention
         /\ Snapshot(p, d, {}, t).status # "ok"
<1> DEFINE x == ExplainSubject(p, shape, t)
<1>1. shape \in Shapes
  BY UniqueAreShapes
<1>2. /\ LatestFact(p, shape, t) = x /\ x \in UnexpiredOf(p, shape, t)
      /\ p[x].lifecycle = "Contested"
  BY ContestedIfSeveral, ExplainsTheDispute
<1>3. x \in BelievedOf(p, shape)
  BY <1>2 DEF UnexpiredOf
<1>4. x # NoFact
  BY <1>3, BelievedIsPresent
<1> HIDE DEF x
<1>5. shape \in ReconcileFailures(p, Shapes, t)
  BY <1>1, <1>2, <1>4 DEF ReconcileFailures, ReconcileReference
<1>6. shape \in DOMAIN Conflicts(p) /\ Conflicts(p)[shape] = BelievedOf(p, shape)
  BY <1>1, <1>2, <1>3 DEF Conflicts
<1>7. UnexpiredOf(p, shape, t) \subseteq Conflicts(p)[shape]
  BY <1>6 DEF UnexpiredOf
<1>8. ExplainTool(p, Shapes, t) = "contested"
  <2> DEFINE y == OpExplainReceipt(p, shape, t)
             receipts == {z \in {OpExplainReceipt(p, s, t) : s \in Shapes} : z.found}
  <2>1. y.found /\ y.lifecycle = "Contested"
    BY <1>2, <1>4 DEF OpExplainReceipt
  <2>2. y \in receipts
    BY <1>1, <2>1
  <2> HIDE DEF y, receipts
  <2>3. \E z \in receipts : z.lifecycle = "Contested"
    BY <2>1, <2>2
  <2> QED BY <2>3 DEF ExplainTool, receipts
<1>9. "contested" \in Snapshot(p, d, {}, t).attention
  BY <1>6 DEF Snapshot, Attention
<1>10. Snapshot(p, d, {}, t).status # "ok"
  <2>1. \A findings, degraded : SnapshotStatus(p, findings, degraded) # "ok"
    BY <1>6 DEF SnapshotStatus
  <2> QED BY <2>1 DEF Snapshot
<1>11. p[x].lifecycle \notin Terminal
  BY <1>3, BelievedIsPresent
<1>12. x \in {LatestFact(p, s, t) : s \in Shapes} \ {NoFact}
  BY <1>1, <1>2, <1>4
<1>13. LatestFact(p, shape, t) \in ContextPack(p, t, TRUE)
  BY <1>2, <1>11, <1>12 DEF ContextPack
<1>14. ASSUME ~IsNotYetValidAt(p[x], t) PROVE LatestFact(p, shape, t) \in ContextPack(p, t, FALSE)
  <2>1. ~IsExpiredAt(p[x], t)
    BY <1>2 DEF UnexpiredOf
  <2>2. Freshness(p[x], t) = "fresh"
    BY <1>11, <1>14, <2>1 DEF Freshness, IsFreshAt
  <2> QED BY <1>2, <1>11, <1>12, <2>2 DEF ContextPack
<1> QED BY <1>2, <1>5, <1>7, <1>8, <1>9, <1>10, <1>13, <1>14

\* An explanation is about an unexpired belief, if there is one.
LEMMA ExplainsALiveOne ==
  ASSUME NEW p, NEW shape, NEW t, UnexpiredOf(p, shape, t) # {}
  PROVE  ExplainSubject(p, shape, t) \in UnexpiredOf(p, shape, t)
<1> DEFINE U == UnexpiredOf(p, shape, t)
           C == {f \in U : p[f].lifecycle = "Contested"}
           S == IF C # {} THEN C ELSE U
<1>1. U \subseteq Nat
  BY FactsAreEventNumbers DEF UnexpiredOf, BelievedOf
<1>2. ExplainSubject(p, shape, t) = FirstOf(S)
  BY DEF ExplainSubject
<1>3. S \subseteq U /\ S # {}
  OBVIOUS
<1> HIDE DEF S, C, U
<1>4. FirstOf(S) \in S
  BY <1>1, <1>3, FirstOfIsIn
<1> QED BY <1>2, <1>3, <1>4 DEF U

\* A finite set that holds no two holds one.
LEMMA AtMostOne ==
  ASSUME NEW U, IsFiniteSet(U), ~(Cardinality(U) > 1), NEW f \in U
  PROVE  U = {f}
<1>1. Cardinality(U) \in Nat
  BY FS_CardinalityType
<1>2. ASSUME NEW g \in U, g # f PROVE FALSE
  <2> DEFINE other == {g}
  <2>1. IsFiniteSet(other) /\ Cardinality(other) = 1 /\ f \notin other
    BY <1>2, FS_Singleton
  <2>2. other \cup {f} \subseteq U
    BY <1>2
  <2> HIDE DEF other
  <2>3. Cardinality(other \cup {f})
          = IF f \in other THEN Cardinality(other) ELSE Cardinality(other) + 1
    BY <2>1, FS_AddElement
  <2>4. Cardinality(other \cup {f}) = 2
    BY <2>1, <2>3
  <2>5. Cardinality(other \cup {f}) <= Cardinality(U)
    BY <2>2, FS_Subset
  <2> QED BY <1>1, <2>4, <2>5
<1> QED BY <1>2

\* A belief without rival is the one an explanation is about.
LEMMA ExplainsTheOnly ==
  ASSUME NEW p, NEW shape, NEW t, NEW f \in Facts, UnexpiredOf(p, shape, t) = {f}
  PROVE  LatestFact(p, shape, t) = f
<1> DEFINE C == {g \in {f} : p[g].lifecycle = "Contested"}
<1>1. f \in BelievedOf(p, shape)
  BY DEF UnexpiredOf
<1>2. FirstOf({f}) \in {f}
  BY FirstOfIsIn, FactsAreEventNumbers
<1>3. C = {} \/ C = {f}
  OBVIOUS
<1>4. ExplainSubject(p, shape, t) = FirstOf(IF C # {} THEN C ELSE {f})
  BY DEF ExplainSubject
<1> HIDE DEF C
<1>5. ExplainSubject(p, shape, t) = f
  BY <1>2, <1>3, <1>4
<1> QED BY <1>1, <1>5 DEF LatestFact

\* memory.rs latest_fact_id: on any store that loads, an undisputed fresh
\* belief is the one every read shows.
LEMMA FreshShows ==
  ASSUME NEW p, IsFiniteSet(Present(p)), NEW t, Loads(p, t), NEW shape \in UniqueShapes,
         NEW f \in BelievedOf(p, shape), IsFreshAt(p[f], t), shape \notin DOMAIN Conflicts(p)
  PROVE  /\ f \in ContextPack(p, t, FALSE)
         /\ shape \notin ReconcileFailures(p, Shapes, t)
         /\ FactsList(p, t)[shape] = "fresh"
<1> DEFINE U == UnexpiredOf(p, shape, t)
<1>1. shape \in Shapes
  BY UniqueAreShapes
<1>2. /\ f \in Facts /\ f # NoFact /\ p[f] # NoState /\ p[f].shape = shape
      /\ p[f].lifecycle \notin Terminal
  BY BelievedIsPresent
<1>3. \A g \in BelievedOf(p, shape) : p[g].lifecycle # "Contested"
  BY <1>1 DEF Conflicts
<1>4. f \in U
  BY DEF UnexpiredOf, IsFreshAt
<1>5. U \subseteq Present(p) /\ \A g \in U : p[g].lifecycle # "Contested"
  BY <1>3, BelievedIsPresent DEF UnexpiredOf, Present
<1>6. ~(Cardinality(U) > 1)
  BY <1>5, ContestedIfSeveral
<1> HIDE DEF U
<1>7. U = {f}
  <2>1. IsFiniteSet(U)
    BY <1>5, FS_Subset
  <2> QED BY <1>4, <1>6, <2>1, AtMostOne
<1>8. LatestFact(p, shape, t) = f
  BY <1>2, <1>7, ExplainsTheOnly DEF U
<1>9. Freshness(p[f], t) = "fresh"
  BY <1>2 DEF Freshness, IsFreshAt
<1>10. f \in ContextPack(p, t, FALSE)
  BY <1>1, <1>2, <1>8, <1>9 DEF ContextPack
<1>11. ReconcileReference(p, shape, t) = "ok"
  BY <1>2, <1>3, <1>8, <1>9 DEF ReconcileReference
<1>12. FactsList(p, t)[shape] = "fresh"
  <2>1. f \in Recorded(p, shape)
    BY <1>2 DEF Recorded
  <2> QED BY <1>1, <1>8, <1>9, <2>1 DEF FactsList
<1> QED BY <1>10, <1>11, <1>12 DEF ReconcileFailures

-----------------------------------------------------------------------------
(* The fold: what an event leaves of the fact it is filed under.           *)

\* state.rs: a folded state is never the absent one.
LEMMA FoldedIsPresent ==
  ASSUME NEW s \in FactState
  PROVE  s # NoState /\ s.lifecycle \in Believed \cup Terminal
BY DEF FactState, NoState, Believed, Terminal, ClosingKinds

\* apply_initial_event: an admitted first event is an assertion, of a well-formed
\* state that its source alone backs.
LEMMA BornState ==
  ASSUME NEW e \in Event, TransitionOK(NoState, e)
  PROVE  /\ InitialState(e) \in FactState /\ e.kind = "Asserted"
         /\ InitialState(e).lifecycle = "Active" /\ InitialState(e).level = e.level
         /\ InitialState(e).superseded_by = NoFact
         /\ InitialState(e).updated_at = e.recorded_at
         /\ InitialState(e).corroborating
              = [s \in Sources |-> IF s = e.source THEN e.level ELSE NoLevel]
         /\ InitialState(e).survived = [s \in Sources |-> NoLevel]
<1>1. e.kind = "Asserted" /\ e.value \in Values
  BY SentinelsApart DEF TransitionOK, Validates, Event
<1>2. FreshnessAnchor(e) \in Nat
  BY DEF FreshnessAnchor, FirstTime, Event, OptTime, NoTime
<1>3. InitialState(e).corroborating \in [Sources -> Levels \cup {NoLevel}]
  BY DEF InitialState, Event
<1>4. InitialState(e) \in FactState
  BY <1>1, <1>2, <1>3 DEF InitialState, FactState, Event, Believed, Terminal
<1> QED
  BY <1>1, <1>4 DEF InitialState

\* What no event changes: the identity, the strength and the validity of a fact.
Kept(s, s2) ==
  /\ s2.shape = s.shape /\ s2.level = s.level
  /\ s2.ttl = s.ttl /\ s2.freshness_anchor = s.freshness_anchor
  /\ s2.valid_from = s.valid_from /\ s2.valid_to = s.valid_to

\* A source backs a fact at its strongest level.
LEMMA BackingType ==
  ASSUME NEW b \in [Sources -> Levels \cup {NoLevel}], NEW e \in Event
  PROVE  /\ Backing(b, e) \in [Sources -> Levels \cup {NoLevel}]
         /\ \A x \in Sources : /\ Backing(b, e)[x] >= b[x]
                               /\ x # e.source => Backing(b, e)[x] = b[x]
BY DEF Backing, Greater, Event, Levels, NoLevel

\* apply_next_event: a later event leaves a well-formed state of the same fact.
LEMMA MovedState ==
  ASSUME NEW s \in FactState, NEW e \in Event
  PROVE  /\ NextState(s, e) \in FactState /\ Kept(s, NextState(s, e))
         /\ NextState(s, e).lifecycle =
              (IF e.kind \in ClosingKinds THEN e.kind
               ELSE IF e.kind = "Contradicted" THEN "Contested" ELSE s.lifecycle)
         /\ NextState(s, e).superseded_by =
              (IF e.kind = "Superseded" THEN e.by ELSE s.superseded_by)
         /\ NextState(s, e).contradicted_by =
              (IF e.kind = "Contradicted" THEN s.contradicted_by \cup {e.by}
               ELSE s.contradicted_by)
         /\ NextState(s, e).updated_at = e.recorded_at
         /\ NextState(s, e).corroborating =
              (IF e.kind = "Reinforced" THEN Backing(s.corroborating, e) ELSE s.corroborating)
         /\ NextState(s, e).survived =
              (IF e.kind = "ChallengeRejected" THEN Backing(s.survived, e) ELSE s.survived)
<1> DEFINE life == IF e.kind \in ClosingKinds THEN e.kind
                   ELSE IF e.kind = "Contradicted" THEN "Contested" ELSE s.lifecycle
           heir == IF e.kind = "Superseded" THEN e.by ELSE s.superseded_by
           foes == IF e.kind = "Contradicted" THEN s.contradicted_by \cup {e.by}
                   ELSE s.contradicted_by
           proof == IF e.kind = "Reinforced" THEN s.evidence_count + e.evidence
                    ELSE s.evidence_count
           friends == IF e.kind = "Reinforced" THEN Backing(s.corroborating, e)
                      ELSE s.corroborating
           beaten == IF e.kind = "ChallengeRejected" THEN Backing(s.survived, e)
                     ELSE s.survived
           n1 == [s EXCEPT !.lifecycle = life]
           n2 == [n1 EXCEPT !.superseded_by = heir]
           n3 == [n2 EXCEPT !.contradicted_by = foes]
           n4 == [n3 EXCEPT !.evidence_count = proof]
           n5 == [n4 EXCEPT !.corroborating = friends]
           n6 == [n5 EXCEPT !.survived = beaten]
           n7 == [n6 EXCEPT !.updated_at = e.recorded_at]
           n8 == [n7 EXCEPT !.last_event_id = e.id]
<1>1. /\ life \in Believed \cup Terminal
      /\ heir \in Facts \cup {NoFact}
      /\ foes \in SUBSET Facts
      /\ proof \in Nat
  BY DEF FactState, Event, Believed, Terminal, NamingKinds
<1>2. friends \in [Sources -> Levels \cup {NoLevel}]
      /\ beaten \in [Sources -> Levels \cup {NoLevel}]
  BY BackingType DEF FactState
<1>3. e.recorded_at \in Nat /\ e.id \in Ids
  BY DEF Event
<1>4. NextState(s, e) = n8
  BY DEF NextState
<1>5. n8 \in FactState
  <2> HIDE DEF life, heir, foes, proof, friends, beaten
  <2>1. n1 \in FactState
    BY <1>1 DEF FactState
  <2>2. n2 \in FactState
    <3> HIDE DEF n1
    <3> QED BY <1>1, <2>1 DEF FactState
  <2>3. n3 \in FactState
    <3> HIDE DEF n2
    <3> QED BY <1>1, <2>2 DEF FactState
  <2>4. n4 \in FactState
    <3> HIDE DEF n3
    <3> QED BY <1>1, <2>3 DEF FactState
  <2>5. n5 \in FactState
    <3> HIDE DEF n4
    <3> QED BY <1>2, <2>4 DEF FactState
  <2>6. n6 \in FactState
    <3> HIDE DEF n5
    <3> QED BY <1>2, <2>5 DEF FactState
  <2>7. n7 \in FactState
    <3> HIDE DEF n6
    <3> QED BY <1>3, <2>6 DEF FactState
  <2>8. QED
    <3> HIDE DEF n7
    <3> QED BY <1>3, <2>7 DEF FactState
<1>6. Kept(s, NextState(s, e))
  BY DEF NextState, FactState, Kept
<1>7. /\ NextState(s, e).lifecycle = life
      /\ NextState(s, e).superseded_by = heir
      /\ NextState(s, e).contradicted_by = foes
      /\ NextState(s, e).updated_at = e.recorded_at
      /\ NextState(s, e).corroborating = friends
      /\ NextState(s, e).survived = beaten
  BY DEF NextState, FactState
<1> QED
  BY <1>4, <1>5, <1>6, <1>7

-----------------------------------------------------------------------------
(* Entrenchment.                                                           *)

\* The sources that back a fact, or lost a challenge to it.
Backers(b) == {s \in Sources : b[s] # NoLevel}

Counted(s) == IsFiniteSet(Backers(s.corroborating)) /\ IsFiniteSet(Backers(s.survived))

\* Backing at a level is counted, and only grows.
LEMMA BackingGrows ==
  ASSUME NEW b \in [Sources -> Levels \cup {NoLevel}], IsFiniteSet(Backers(b)),
         NEW e \in Event, NEW min \in Levels
  PROVE  /\ IsFiniteSet(Backers(Backing(b, e)))
         /\ AtOrAbove(b, min) \in Nat /\ AtOrAbove(Backing(b, e), min) \in Nat
         /\ AtOrAbove(b, min) <= AtOrAbove(Backing(b, e), min)
<1> DEFINE c == Backing(b, e)
           A == {s \in Sources : b[s] >= min}
           C == {s \in Sources : c[s] >= min}
<1>1. /\ c \in [Sources -> Levels \cup {NoLevel}]
      /\ \A x \in Sources : c[x] >= b[x] /\ (x # e.source => c[x] = b[x])
  BY BackingType
<1> HIDE DEF c
<1>2. Backers(c) \subseteq Backers(b) \cup {e.source}
  BY <1>1 DEF Backers
<1>3. IsFiniteSet(Backers(c))
  BY <1>2, FS_AddElement, FS_Subset
<1>4. A \subseteq C /\ C \subseteq Backers(c)
  BY <1>1 DEF Backers, Levels, NoLevel
<1>5. IsFiniteSet(C) /\ IsFiniteSet(A) /\ Cardinality(A) <= Cardinality(C)
  BY <1>3, <1>4, FS_Subset
<1>6. Cardinality(A) \in Nat /\ Cardinality(C) \in Nat
  BY <1>5, FS_CardinalityType
<1> QED BY <1>3, <1>5, <1>6 DEF AtOrAbove, c

\* What a fact has earned is a number.
LEMMA EarnedIsCounted ==
  ASSUME NEW s \in FactState, Counted(s), NEW min \in Levels
  PROVE  EarnedEntrenchment(s, min) \in Nat
<1>1. ASSUME NEW b \in [Sources -> Levels \cup {NoLevel}], IsFiniteSet(Backers(b))
      PROVE  AtOrAbove(b, min) \in Nat
  <2>1. {x \in Sources : b[x] >= min} \subseteq Backers(b)
    BY DEF Backers, Levels, NoLevel
  <2> QED BY <1>1, <2>1, FS_Subset, FS_CardinalityType DEF AtOrAbove
<1>2. AtOrAbove(s.corroborating, min) \in Nat /\ AtOrAbove(s.survived, min) \in Nat
  BY <1>1 DEF Counted, FactState
<1> QED BY <1>2 DEF EarnedEntrenchment

\* No event takes any of it away.
LEMMA EarnedGrows ==
  ASSUME NEW s \in FactState, Counted(s), NEW e \in Event, NEW min \in Levels
  PROVE  /\ Counted(NextState(s, e))
         /\ EarnedEntrenchment(s, min) \in Nat /\ EarnedEntrenchment(NextState(s, e), min) \in Nat
         /\ EarnedEntrenchment(s, min) <= EarnedEntrenchment(NextState(s, e), min)
         /\ e.kind \notin {"Reinforced", "ChallengeRejected"} =>
              EarnedEntrenchment(NextState(s, e), min) = EarnedEntrenchment(s, min)
<1> DEFINE s2 == NextState(s, e)
<1>1. /\ s.corroborating \in [Sources -> Levels \cup {NoLevel}]
      /\ s.survived \in [Sources -> Levels \cup {NoLevel}]
  BY DEF FactState
<1>2. /\ IsFiniteSet(Backers(s.corroborating)) /\ IsFiniteSet(Backers(s.survived))
  BY DEF Counted
<1>3. /\ s2.corroborating =
           (IF e.kind = "Reinforced" THEN Backing(s.corroborating, e) ELSE s.corroborating)
      /\ s2.survived =
           (IF e.kind = "ChallengeRejected" THEN Backing(s.survived, e) ELSE s.survived)
  BY MovedState
<1> HIDE DEF s2
<1>4. /\ IsFiniteSet(Backers(s2.corroborating))
      /\ AtOrAbove(s.corroborating, min) \in Nat /\ AtOrAbove(s2.corroborating, min) \in Nat
      /\ AtOrAbove(s.corroborating, min) <= AtOrAbove(s2.corroborating, min)
  BY <1>1, <1>2, <1>3, BackingGrows
<1>5. /\ IsFiniteSet(Backers(s2.survived))
      /\ AtOrAbove(s.survived, min) \in Nat /\ AtOrAbove(s2.survived, min) \in Nat
      /\ AtOrAbove(s.survived, min) <= AtOrAbove(s2.survived, min)
  BY <1>1, <1>2, <1>3, BackingGrows
<1> QED BY <1>3, <1>4, <1>5 DEF EarnedEntrenchment, Counted, s2

\* A fresh assertion is backed once, by its own source at its own level.
LEMMA BornEarned ==
  ASSUME NEW e \in Event, TransitionOK(NoState, e)
  PROVE  Counted(InitialState(e)) /\ EarnedEntrenchment(InitialState(e), e.level) = 1
<1> DEFINE s == InitialState(e)
<1>1. /\ s.corroborating = [x \in Sources |-> IF x = e.source THEN e.level ELSE NoLevel]
      /\ s.survived = [x \in Sources |-> NoLevel]
  BY BornState
<1>2. e.source \in Sources /\ e.level \in Levels
  BY DEF Event
<1> HIDE DEF s
<1>3. /\ Backers(s.corroborating) = {e.source} /\ Backers(s.survived) = {}
      /\ {x \in Sources : s.corroborating[x] >= e.level} = {e.source}
      /\ {x \in Sources : s.survived[x] >= e.level} = {}
  BY <1>1, <1>2 DEF Backers, Levels, NoLevel
<1> DEFINE alone == {e.source}
<1>a. IsFiniteSet(alone) /\ Cardinality(alone) = 1
  BY FS_Singleton
<1> HIDE DEF alone
<1>4. Counted(s)
  BY <1>3, <1>a, FS_EmptySet DEF Counted, alone
<1>5. AtOrAbove(s.corroborating, e.level) = 1 /\ AtOrAbove(s.survived, e.level) = 0
  BY <1>3, <1>a, FS_EmptySet DEF AtOrAbove, alone
<1> QED BY <1>4, <1>5 DEF EarnedEntrenchment, s

-----------------------------------------------------------------------------
(* The invariant of a store: what holds of its projection p when the next  *)
(* event number is n and the clock reads t, and how one batch moves it.    *)

Projections == [Facts -> FactState \cup {NoState}]

\* A fact is named by an event of the log; its last event is not in the future.
Logged(s, f, n, t) == f < n /\ s.updated_at <= t /\ Counted(s)

\* A replacement ranks at least as high as what it replaced and, with the gate
\* on, is at least as entrenched if it ranks no higher.
Outranks(h, s) ==
  /\ h.level >= s.level
  /\ EntrenchmentGate /\ h.level = s.level =>
       EarnedEntrenchment(s, h.level) <= EarnedEntrenchment(h, h.level)

\* A fact that names an heir is superseded, and by a later fact.
HeirStands(p, f) ==
  LET h == p[f].superseded_by
  IN /\ p[f].lifecycle = "Superseded"
     /\ h \in Facts /\ p[h] # NoState /\ f < h /\ Outranks(p[h], p[f])

StoreOK(p, n, t) ==
  /\ p \in Projections
  /\ \A f \in Facts : p[f] # NoState => Logged(p[f], f, n, t)
  /\ \A f \in Facts : p[f] # NoState /\ p[f].superseded_by # NoFact => HeirStands(p, f)

\* The event e takes fact f of p to its state in q; n is the first number of
\* the batch, m one past its last. Only the fact named n is new, and it is what
\* replaces a superseded one.
MovedBy(p, q, n, m, t, f, e) ==
  /\ e.recorded_at = t /\ TransitionOK(p[f], e) /\ q[f] = ApplyEvent(p[f], e)
  /\ p[f] = NoState => f = n /\ n < m
  /\ e.kind = "Superseded" =>
       /\ e.by = n /\ n \in Facts /\ p[n] = NoState /\ q[n] # NoState
       /\ q[n].level >= p[f].level
       /\ EntrenchmentGate /\ q[n].level = p[f].level =>
            EarnedEntrenchment(p[f], q[n].level) <= 1

Evolves(p, q, n, m, t) ==
  /\ q = [f \in Facts |-> q[f]]
  /\ \A f \in Facts : q[f] = p[f] \/ \E e \in Event : MovedBy(p, q, n, m, t, f, e)

\* What a batch leaves of a fact.
LEMMA FactAfter ==
  ASSUME NEW n \in Nat, NEW m \in Nat, NEW t \in Nat, n <= m,
         NEW p, StoreOK(p, n, t), NEW q, Evolves(p, q, n, m, t), NEW f \in Facts
  PROVE  /\ q[f] \in FactState \cup {NoState}
         /\ q[f] # NoState => q[f] \in FactState /\ Logged(q[f], f, m, t)
         /\ p[f] = NoState /\ q[f] # NoState =>
              /\ q[f].superseded_by = NoFact /\ f = n
              /\ EarnedEntrenchment(q[f], q[f].level) = 1
         /\ p[f] # NoState =>
              /\ q[f] # NoState /\ p[f] \in FactState /\ Kept(p[f], q[f])
              /\ \A min \in Levels :
                   /\ EarnedEntrenchment(p[f], min) \in Nat
                   /\ EarnedEntrenchment(q[f], min) \in Nat
                   /\ EarnedEntrenchment(p[f], min) <= EarnedEntrenchment(q[f], min)
<1>1. /\ p[f] \in FactState \cup {NoState}
      /\ p[f] # NoState => p[f] \in FactState /\ Logged(p[f], f, n, t)
  BY DEF StoreOK, Projections
<1>2. f \in Nat
  BY FactsAreEventNumbers
<1>3. CASE p[f] \in FactState /\ q[f] = p[f]
  <2>1. Kept(p[f], q[f])
    BY <1>3 DEF Kept
  <2>2. Logged(p[f], f, n, t) /\ p[f] # NoState
    BY <1>1, <1>3, FoldedIsPresent
  <2>3. Logged(q[f], f, m, t)
    BY <1>2, <1>3, <2>2 DEF Logged
  <2>5. \A min \in Levels : EarnedEntrenchment(p[f], min) \in Nat
    BY <1>3, <2>2, EarnedIsCounted DEF Logged
  <2>6. \A min \in Levels : EarnedEntrenchment(p[f], min) <= EarnedEntrenchment(p[f], min)
    BY <2>5
  <2> QED BY <1>3, <2>1, <2>2, <2>3, <2>5, <2>6
<1>4. CASE p[f] = NoState /\ q[f] = p[f]
  BY <1>4
<1>5. ASSUME NEW e \in Event, MovedBy(p, q, n, m, t, f, e), p[f] = NoState
      PROVE  /\ q[f] \in FactState /\ Logged(q[f], f, m, t)
             /\ q[f].superseded_by = NoFact /\ f = n
             /\ EarnedEntrenchment(q[f], q[f].level) = 1
  <2>1. q[f] = InitialState(e) /\ TransitionOK(NoState, e) /\ f = n /\ n < m /\ e.recorded_at = t
    BY <1>5 DEF MovedBy, ApplyEvent
  <2>2. /\ InitialState(e) \in FactState /\ InitialState(e).level = e.level
        /\ InitialState(e).superseded_by = NoFact
        /\ InitialState(e).updated_at = e.recorded_at
    BY <2>1, BornState
  <2>3. Counted(InitialState(e)) /\ EarnedEntrenchment(InitialState(e), e.level) = 1
    BY <2>1, BornEarned
  <2> QED BY <2>1, <2>2, <2>3 DEF Logged
<1>6. ASSUME NEW e \in Event, MovedBy(p, q, n, m, t, f, e), p[f] \in FactState
      PROVE  /\ q[f] \in FactState /\ Logged(q[f], f, m, t) /\ Kept(p[f], q[f])
             /\ \A min \in Levels :
                  /\ EarnedEntrenchment(p[f], min) \in Nat
                  /\ EarnedEntrenchment(q[f], min) \in Nat
                  /\ EarnedEntrenchment(p[f], min) <= EarnedEntrenchment(q[f], min)
  <2>1. p[f] # NoState /\ Logged(p[f], f, n, t)
    BY <1>1, <1>6, FoldedIsPresent
  <2>2. q[f] = NextState(p[f], e) /\ e.recorded_at = t
    BY <1>6, <2>1 DEF MovedBy, ApplyEvent
  <2>3. NextState(p[f], e) \in FactState /\ Kept(p[f], NextState(p[f], e))
    BY <1>6, MovedState
  <2>4. NextState(p[f], e).updated_at = t
    BY <1>6, <2>2, MovedState
  <2>5. Counted(p[f])
    BY <2>1 DEF Logged
  <2>6. /\ Counted(NextState(p[f], e))
        /\ \A min \in Levels :
             /\ EarnedEntrenchment(p[f], min) \in Nat
             /\ EarnedEntrenchment(NextState(p[f], e), min) \in Nat
             /\ EarnedEntrenchment(p[f], min) <= EarnedEntrenchment(NextState(p[f], e), min)
    <3>1. 0 \in Levels
      BY DEF Levels
    <3> QED BY <1>6, <2>5, <3>1, EarnedGrows
  <2>7. f < m
    BY <1>2, <2>1 DEF Logged
  <2> QED BY <2>2, <2>3, <2>4, <2>6, <2>7 DEF Logged
<1>7. q[f] = p[f] \/ \E e \in Event : MovedBy(p, q, n, m, t, f, e)
  BY DEF Evolves
<1>8. ASSUME NEW s \in FactState PROVE s # NoState
  BY FoldedIsPresent
<1> QED BY <1>1, <1>3, <1>4, <1>5, <1>6, <1>7, <1>8

\* A batch leaves what outranked a fact above it.
LEMMA HeirAfter ==
  ASSUME NEW n \in Nat, NEW m \in Nat, NEW t \in Nat, n <= m,
         NEW p, StoreOK(p, n, t), NEW q, Evolves(p, q, n, m, t),
         NEW f \in Facts, q[f] # NoState, q[f].superseded_by # NoFact
  PROVE  HeirStands(q, f)
<1>1. p[f] # NoState /\ p[f] \in FactState /\ Kept(p[f], q[f]) /\ f < n /\ f \in Nat
  <2>1. p[f] = NoState /\ q[f] # NoState => q[f].superseded_by = NoFact
    BY FactAfter
  <2>2. p[f] # NoState
    BY <2>1
  <2>3. p[f] # NoState => p[f] \in FactState /\ Kept(p[f], q[f])
    BY FactAfter
  <2>4. f < n /\ f \in Nat
    BY <2>2, FactsAreEventNumbers DEF StoreOK, Logged
  <2> QED BY <2>2, <2>3, <2>4
<1>2. q[f].level = p[f].level
  BY <1>1 DEF Kept
<1>3. \A g \in Facts : q[g] # NoState => q[g].level \in Levels
  BY FactAfter DEF FactState
\* A fact closed before the batch: nobody's entrenchment has changed in its favour.
<1>4. ASSUME p[f].superseded_by # NoFact, q[f].superseded_by = p[f].superseded_by,
             q[f].lifecycle = p[f].lifecycle,
             \A min \in Levels :
               EarnedEntrenchment(q[f], min) = EarnedEntrenchment(p[f], min)
      PROVE  HeirStands(q, f)
  <2> DEFINE h == p[f].superseded_by
  <2>1. HeirStands(p, f)
    BY <1>1, <1>4 DEF StoreOK
  <2>2. p[f].lifecycle = "Superseded" /\ h \in Facts /\ p[h] # NoState /\ f < h
    BY <2>1 DEF HeirStands
  <2>3. /\ p[h].level >= p[f].level
        /\ EntrenchmentGate /\ p[h].level = p[f].level =>
             EarnedEntrenchment(p[f], p[h].level) <= EarnedEntrenchment(p[h], p[h].level)
    BY <2>1 DEF HeirStands, Outranks
  <2>h. q[f].superseded_by = h
    BY <1>4
  <2> HIDE DEF h
  <2>4. /\ q[h] # NoState /\ Kept(p[h], q[h])
        /\ \A min \in Levels :
             /\ EarnedEntrenchment(p[h], min) \in Nat
             /\ EarnedEntrenchment(q[h], min) \in Nat
             /\ EarnedEntrenchment(p[h], min) <= EarnedEntrenchment(q[h], min)
    BY <2>2, FactAfter
  <2>5. q[h].level = p[h].level /\ q[h].level \in Levels
    BY <1>3, <2>2, <2>4 DEF Kept
  <2>6. \A min \in Levels : EarnedEntrenchment(p[f], min) \in Nat
    BY <1>1, FactAfter
  <2>7. ASSUME EntrenchmentGate, q[h].level = q[f].level
        PROVE  EarnedEntrenchment(q[f], q[h].level) <= EarnedEntrenchment(q[h], q[h].level)
    <3> DEFINE min == q[h].level
    <3>1. EarnedEntrenchment(p[f], min) <= EarnedEntrenchment(p[h], min)
      BY <1>2, <2>3, <2>5, <2>7
    <3>2. min \in Levels
      BY <2>5
    <3> HIDE DEF min
    <3>3. EarnedEntrenchment(q[f], min) <= EarnedEntrenchment(q[h], min)
      BY <1>4, <2>4, <2>6, <3>1, <3>2
    <3> QED BY <3>3 DEF min
  <2>8. Outranks(q[h], q[f])
    BY <1>2, <2>3, <2>5, <2>7 DEF Outranks
  <2> QED BY <1>4, <2>2, <2>4, <2>8, <2>h DEF HeirStands
<1>5. CASE q[f] = p[f]
  BY <1>4, <1>5
<1>6. ASSUME NEW e \in Event, MovedBy(p, q, n, m, t, f, e)
      PROVE  HeirStands(q, f)
  <2>1. q[f] = NextState(p[f], e) /\ TransitionOK(p[f], e)
    BY <1>1, <1>6 DEF MovedBy, ApplyEvent
  <2> DEFINE s2 == NextState(p[f], e)
  <2>2. /\ s2.lifecycle =
             (IF e.kind \in ClosingKinds THEN e.kind
              ELSE IF e.kind = "Contradicted" THEN "Contested" ELSE p[f].lifecycle)
        /\ s2.superseded_by =
             (IF e.kind = "Superseded" THEN e.by ELSE p[f].superseded_by)
    BY <1>1, MovedState
  <2>3. \A min \in Levels : e.kind \notin {"Reinforced", "ChallengeRejected"} =>
          EarnedEntrenchment(s2, min) = EarnedEntrenchment(p[f], min)
    <3>1. Counted(p[f])
      BY <1>1 DEF StoreOK, Logged
    <3> QED BY <1>1, <3>1, EarnedGrows
  <2>q. q[f] = s2
    BY <2>1
  <2> HIDE DEF s2
  <2>4. CASE e.kind = "Superseded"
    <3>1. /\ e.by = n /\ n \in Facts /\ p[n] = NoState /\ q[n] # NoState
          /\ q[n].level >= p[f].level
          /\ EntrenchmentGate /\ q[n].level = p[f].level =>
               EarnedEntrenchment(p[f], q[n].level) <= 1
      BY <1>6, <2>4 DEF MovedBy
    <3>2. EarnedEntrenchment(q[n], q[n].level) = 1 /\ q[n].level \in Levels
      BY <1>3, <3>1, FactAfter
    <3>3. EarnedEntrenchment(q[f], q[n].level) = EarnedEntrenchment(p[f], q[n].level)
      BY <2>3, <2>4, <2>q, <3>2
    <3>4. Outranks(q[n], q[f])
      BY <1>2, <3>1, <3>2, <3>3 DEF Outranks
    <3>5. q[f].lifecycle = "Superseded" /\ q[f].superseded_by = n
      BY <2>2, <2>4, <2>q, <3>1 DEF ClosingKinds
    <3> QED BY <1>1, <3>1, <3>4, <3>5 DEF HeirStands
  <2>5. CASE e.kind # "Superseded"
    <3>1. q[f].superseded_by = p[f].superseded_by /\ p[f].superseded_by # NoFact
      BY <2>2, <2>5, <2>q
    <3>2. p[f].lifecycle \in Terminal
      BY <1>1, <3>1 DEF StoreOK, HeirStands, Terminal, ClosingKinds
    <3>3. e.kind \in AuditKinds
      BY <1>1, <2>1, <3>2 DEF TransitionOK, WellPlaced
    <3>4. q[f].lifecycle = p[f].lifecycle
      BY <2>2, <2>q, <3>3 DEF AuditKinds, ClosingKinds
    <3>5. \A min \in Levels : EarnedEntrenchment(q[f], min) = EarnedEntrenchment(p[f], min)
      BY <2>3, <2>q, <3>3 DEF AuditKinds
    <3> QED BY <1>4, <3>1, <3>4, <3>5
  <2> QED BY <2>4, <2>5
<1> QED BY <1>5, <1>6 DEF Evolves

\* A batch keeps the invariant.
LEMMA StoreStaysOK ==
  ASSUME NEW n \in Nat, NEW m \in Nat, NEW t \in Nat, n <= m,
         NEW p, StoreOK(p, n, t), NEW q, Evolves(p, q, n, m, t)
  PROVE  StoreOK(q, m, t)
<1>1. \A f \in Facts : q[f] \in FactState \cup {NoState}
  BY FactAfter
<1>2. q = [f \in Facts |-> q[f]]
  BY DEF Evolves
<1>3. q \in Projections
  BY <1>1, <1>2 DEF Projections
<1>4. \A f \in Facts : q[f] # NoState => Logged(q[f], f, m, t)
  BY FactAfter
<1>5. \A f \in Facts : q[f] # NoState /\ q[f].superseded_by # NoFact => HeirStands(q, f)
  BY HeirAfter
<1> QED BY <1>3, <1>4, <1>5 DEF StoreOK

\* The clock only moves forward.
LEMMA LaterStaysOK ==
  ASSUME NEW n, NEW t \in Nat, NEW u \in Nat, t <= u, NEW p, StoreOK(p, n, t)
  PROVE  StoreOK(p, n, u)
<1>1. p \in Projections
  BY DEF StoreOK
<1>2. ASSUME NEW f \in Facts, p[f] # NoState PROVE Logged(p[f], f, n, u)
  <2>1. Logged(p[f], f, n, t) /\ p[f].updated_at \in Nat
    BY <1>1, <1>2 DEF StoreOK, Projections, FactState
  <2> QED BY <2>1 DEF Logged
<1> QED BY <1>1, <1>2 DEF StoreOK

\* A log is finite.
LEMMA StoreIsFinite ==
  ASSUME NEW n \in Nat, NEW t, NEW p, StoreOK(p, n, t)
  PROVE  IsFiniteSet(Present(p))
<1>1. ASSUME NEW f \in Present(p) PROVE f \in 0..n
  <2>1. f \in Facts /\ p[f] # NoState
    BY DEF Present
  <2>2. f \in Nat /\ f < n
    BY <2>1, FactsAreEventNumbers DEF StoreOK, Logged
  <2> QED BY <2>2
<1>2. IsFiniteSet(0..n)
  BY FS_Interval
<1> QED BY <1>1, <1>2, FS_Subset

\* Numbers have a least one.
LEMMA HasLeast ==
  ASSUME NEW S, S \subseteq Nat, S # {}
  PROVE  \E x \in S : \A y \in S : x <= y
<1>1. PICK R : IsWellFoundedOn(R, Nat) /\ \A x, y \in Nat : y < x => <<y, x>> \in R
  BY LessIsWellFounded
<1>2. PICK x \in S : \A y \in S : ~(<<y, x>> \in R)
  BY <1>1, WFMin
<1>3. ASSUME NEW y \in S PROVE x <= y
  <2>1. x \in Nat /\ y \in Nat
    OBVIOUS
  <2>2. ~(y < x)
    BY <1>1, <1>2, <2>1, Zenon
  <2> QED BY <2>1, <2>2
<1> QED BY <1>3

\* lineage_issues: every heir is there, and heirs only get newer, so that no
\* lineage dangles or runs in a circle.
LEMMA LineageIsSound ==
  ASSUME NEW n \in Nat, NEW t, NEW p, StoreOK(p, n, t)
  PROVE  ~DanglingSupersession(p) /\ ~SupersessionCycle(p)
<1>1. ~DanglingSupersession(p)
  BY DEF DanglingSupersession, StoreOK, HeirStands
<1>2. ASSUME NEW S \in (SUBSET {f \in Facts : p[f].lifecycle = "Superseded"}) \ {{}},
             \A f \in S : p[f].superseded_by \in S
      PROVE  FALSE
  <2>1. S \subseteq Facts /\ S # {} /\ \A f \in S : p[f].lifecycle = "Superseded"
    OBVIOUS
  <2>2. \A f \in S : f \in Nat /\ p[f] # NoState /\ p[f].superseded_by # NoFact
    <3>1. NoState.lifecycle # "Superseded"
      BY DEF NoState
    <3>2. \A f \in S : f \in Facts /\ p[f].superseded_by \in Facts
      BY <1>2, <2>1
    <3> QED BY <2>1, <3>1, <3>2, FactsAreEventNumbers, SentinelsApart
  <2>3. \A f \in S : f < n /\ f < p[f].superseded_by
    BY <2>1, <2>2 DEF StoreOK, Logged, HeirStands
  <2> DEFINE D == {n - f : f \in S}
  <2>4. D \subseteq Nat /\ D # {}
    BY <2>1, <2>2, <2>3
  <2>5. PICK d \in D : \A y \in D : d <= y
    BY <2>4, HasLeast
  <2>6. PICK f \in S : d = n - f
    BY <2>5
  <2>7. n - p[f].superseded_by \in D /\ p[f].superseded_by \in Nat
    BY <1>2, <2>2
  <2>8. n - f <= n - p[f].superseded_by
    BY <2>5, <2>6, <2>7
  <2> QED BY <2>2, <2>3, <2>6, <2>7, <2>8
<1> QED BY <1>1, <1>2 DEF SupersessionCycle

\* unearned_supersessions: what replaces a fact outranks it.
LEMMA AuditIsClean ==
  ASSUME NEW n, NEW t, NEW p, StoreOK(p, n, t), EntrenchmentGate
  PROVE  Advisories(p) = {}
<1>1. ASSUME NEW f \in UnearnedSupersessions(p) PROVE FALSE
  <2> DEFINE h == p[f].superseded_by
  <2>1. /\ f \in Facts /\ p[f] # NoState /\ h # NoFact
        /\ \/ p[h].level < p[f].level
           \/ /\ p[h].level = p[f].level
              /\ EarnedEntrenchment(p[h], p[h].level) < EarnedEntrenchment(p[f], p[h].level)
    BY DEF UnearnedSupersessions
  <2>2. HeirStands(p, f)
    BY <2>1 DEF StoreOK
  <2>3. h \in Facts /\ p[h] # NoState /\ Outranks(p[h], p[f])
    BY <2>2 DEF HeirStands
  <2>4. \A g \in Facts : p[g] # NoState => p[g] \in FactState /\ Counted(p[g])
    BY DEF StoreOK, Projections, Logged
  <2>5. p[h].level \in Levels /\ p[f].level \in Levels
    BY <2>1, <2>3, <2>4 DEF FactState
  <2>6. /\ EarnedEntrenchment(p[h], p[h].level) \in Nat
        /\ EarnedEntrenchment(p[f], p[h].level) \in Nat
    BY <2>1, <2>3, <2>4, <2>5, EarnedIsCounted
  <2> HIDE DEF h
  <2>7. p[h].level >= p[f].level
    BY <2>3 DEF Outranks
  <2>8. p[h].level = p[f].level =>
          EarnedEntrenchment(p[f], p[h].level) <= EarnedEntrenchment(p[h], p[h].level)
    BY <2>3 DEF Outranks
  <2>9. ~(p[h].level < p[f].level)
    BY <2>5, <2>7 DEF Levels
  <2> QED BY <2>1, <2>6, <2>8, <2>9 DEF h
<1> QED BY <1>1 DEF Advisories

-----------------------------------------------------------------------------
(* An admitted batch evolves the store.                                    *)

\* A batch for p, built at t with the numbers from n up to m: only its first
\* event asserts, and what it supersedes that assertion replaces, earned.
BuiltFor(p, batch, n, m, t) ==
  /\ NamesItsFacts(batch)
  /\ \A f \in DOMAIN batch :
       /\ f \in Facts /\ batch[f] \in Event /\ batch[f].recorded_at = t
       /\ batch[f].kind = "Asserted" => f = n /\ n < m
       /\ batch[f].kind = "Superseded" =>
            /\ batch[f].by = n /\ n \in DOMAIN batch /\ batch[n].kind = "Asserted"
            /\ EntrenchmentGate /\ p[f].level = batch[n].level =>
                 EarnedEntrenchment(p[f], batch[n].level) <= 1

\* firewall.rs arbitrate: the event of a fact was admitted to the state before it.
LEMMA AdmittedEvent ==
  ASSUME NEW p, NEW batch, NamesItsFacts(batch), Refused(p, batch) = {},
         NEW f \in DOMAIN batch, f \in Facts
  PROVE  /\ TransitionOK(p[f], batch[f]) /\ Applied(p, batch)[f] = ApplyEvent(p[f], batch[f])
         /\ batch[f].kind = "Superseded" => Backed(Working(p, batch), batch[f])
<1> DEFINE e == batch[f]
           w == IF e.kind = "Asserted" THEN p ELSE Working(p, batch)
<1>1. ArbitrateEvents(w, e)
  BY DEF Refused
<1>2. w[f] = p[f] /\ e.fact = f
  BY DEF Working, NamesItsFacts
<1>3. Applied(p, batch)[f] = ApplyEvent(p[f], e)
  BY DEF Applied
<1>4. e.kind = "Superseded" => w = Working(p, batch)
  OBVIOUS
<1> HIDE DEF e, w
<1> QED BY <1>1, <1>2, <1>3, <1>4 DEF ArbitrateEvents, e

LEMMA AdmittedEvolves ==
  ASSUME NEW n \in Nat, NEW m, NEW t, NEW p, StoreOK(p, n, t),
         NEW batch, BuiltFor(p, batch, n, m, t), Refused(p, batch) = {}
  PROVE  Evolves(p, Applied(p, batch), n, m, t)
<1> DEFINE q == Applied(p, batch)
<1>1. q = [f \in Facts |-> q[f]]
  BY DEF Applied
<1>2. ASSUME NEW f \in Facts, f \in DOMAIN batch
      PROVE  MovedBy(p, q, n, m, t, f, batch[f])
  <2> DEFINE e == batch[f]
  <2>1. NamesItsFacts(batch) /\ e.recorded_at = t
    BY <1>2 DEF BuiltFor
  <2>2. /\ TransitionOK(p[f], e) /\ q[f] = ApplyEvent(p[f], e)
        /\ e.kind = "Superseded" => Backed(Working(p, batch), e)
    BY <1>2, <2>1, AdmittedEvent
  <2>3. p[f] = NoState => f = n /\ n < m
    BY <1>2, <2>2 DEF BuiltFor, TransitionOK
  <2>4. ASSUME e.kind = "Superseded"
        PROVE  /\ e.by = n /\ n \in Facts /\ p[n] = NoState /\ q[n] # NoState
               /\ q[n].level >= p[f].level
               /\ EntrenchmentGate /\ q[n].level = p[f].level =>
                    EarnedEntrenchment(p[f], q[n].level) <= 1
    <3>1. /\ e.by = n /\ n \in DOMAIN batch /\ batch[n].kind = "Asserted"
          /\ EntrenchmentGate /\ p[f].level = batch[n].level =>
               EarnedEntrenchment(p[f], batch[n].level) <= 1
      BY <1>2, <2>4 DEF BuiltFor
    <3>2. n \in Facts /\ batch[n] \in Event
      BY <3>1 DEF BuiltFor
    <3>3. p[n] = NoState
      BY <3>2 DEF StoreOK, Logged
    <3>4. TransitionOK(NoState, batch[n]) /\ q[n] = InitialState(batch[n])
      BY <2>1, <3>1, <3>2, <3>3, AdmittedEvent DEF ApplyEvent
    <3>5. q[n] \in FactState /\ q[n].level = batch[n].level
      BY <3>2, <3>4, BornState
    <3>6. q[n] # NoState
      BY <3>5, FoldedIsPresent
    <3>7. Working(p, batch)[n] = q[n]
      BY <3>1, <3>2 DEF Working, Applied
    <3>8. Working(p, batch)[f] = p[f] /\ e.fact = f
      BY <1>2, <2>1, <2>4 DEF Working, NamesItsFacts
    <3>9. q[n].level >= p[f].level
      BY <2>2, <2>4, <3>1, <3>7, <3>8 DEF Backed
    <3> QED BY <3>1, <3>2, <3>3, <3>5, <3>6, <3>9
  <2> HIDE DEF e, q
  <2> QED BY <2>1, <2>2, <2>3, <2>4 DEF MovedBy, e
<1>3. ASSUME NEW f \in Facts, f \notin DOMAIN batch PROVE q[f] = p[f]
  BY <1>3 DEF Applied
<1>4. \A f \in DOMAIN batch : batch[f] \in Event
  BY DEF BuiltFor
<1> QED BY <1>1, <1>2, <1>3, <1>4 DEF Evolves

-----------------------------------------------------------------------------
(* The batches the operations build.                                       *)

\* One event per fact, numbered within the batch.
LEMMA EventsAreNumbered ==
  ASSUME NEW I, I \subseteq Nat, IsFiniteSet(I), NEW f \in I
  PROVE  /\ Cardinality({g \in I : g < f}) \in Nat /\ Cardinality(I) \in Nat
         /\ Cardinality({g \in I : g < f}) < Cardinality(I)
<1> DEFINE B == {g \in I : g < f}
           R == I \ {f}
<1>1. B \subseteq R
  OBVIOUS
<1>2. IsFiniteSet(R) /\ Cardinality(R) = Cardinality(I) - 1
  BY FS_RemoveElement
<1> HIDE DEF B, R
<1>3. IsFiniteSet(B) /\ Cardinality(B) <= Cardinality(R)
  BY <1>1, <1>2, FS_Subset
<1>4. Cardinality(B) \in Nat /\ Cardinality(I) \in Nat
  BY <1>3, FS_CardinalityType
<1> QED BY <1>2, <1>3, <1>4 DEF B

\* ops.rs build_event: a well-formed event from a well-formed request.
LEMMA BuiltIsEvent ==
  ASSUME NEW id \in Facts, NEW f \in Facts, NEW kind \in Kinds, NEW r,
         r.shape \in Shapes, r.level \in Levels, r.source \in Sources,
         NEW by \in Facts \cup {NoFact}, kind \in NamingKinds => by \in Facts, NEW t \in Nat
  PROVE  BuildEvent(id, f, kind, r, by, t) \in Event
BY FactsAreEventNumbers DEF BuildEvent, Event, Levels, NeverTtl, Ttl, OptTime, NoTime

\* Validity::stamp and apply_policy_defaults: an assertion is a well-formed event.
LEMMA AssertionIsEvent ==
  ASSUME NEW r \in Request, NEW n \in Facts, NEW t \in Nat,
         NEW deps, deps \subseteq Facts, IsFiniteSet(deps)
  PROVE  /\ BuildAssertion(r, deps, n, t) \in Event
         /\ BuildAssertion(r, deps, n, t).kind = "Asserted"
         /\ BuildAssertion(r, deps, n, t).shape = r.shape
         /\ BuildAssertion(r, deps, n, t).level = r.level
         /\ BuildAssertion(r, deps, n, t).recorded_at = t
         /\ BuildAssertion(r, deps, n, t).fact = n
<1> DEFINE b == BuildEvent(n, n, "Asserted", r, NoFact, t)
           a == [b EXCEPT !.value = r.value, !.ttl = r.ttl, !.valid_from = r.valid_from,
                          !.valid_to = r.valid_to, !.deps = deps,
                          !.evidence = 1 + Cardinality(deps)]
<1>1. Cardinality(deps) \in Nat
  BY FS_CardinalityType
<1> DEFINE Good(e) == /\ e \in Event /\ e.kind = "Asserted" /\ e.shape = r.shape
                      /\ e.level = r.level /\ e.recorded_at = t /\ e.fact = n
           a1 == [b EXCEPT !.value = r.value]
           a2 == [a1 EXCEPT !.ttl = r.ttl]
           a3 == [a2 EXCEPT !.valid_from = r.valid_from]
           a4 == [a3 EXCEPT !.valid_to = r.valid_to]
           a5 == [a4 EXCEPT !.deps = deps]
           a6 == [a5 EXCEPT !.evidence = 1 + Cardinality(deps)]
<1>2. /\ r.shape \in Shapes /\ r.level \in Levels /\ r.source \in Sources /\ r.value \in Values
      /\ r.ttl \in Ttl /\ r.valid_from \in OptTime /\ r.valid_to \in OptTime
  BY DEF Request
<1>3. Good(a)
  <2>1. Good(b)
    <3>1. b \in Event
      BY <1>2, BuiltIsEvent DEF Kinds, NamingKinds
    <3> QED BY <3>1 DEF BuildEvent
  <2> HIDE DEF b
  <2>2. Good(a1)
    BY <1>2, <2>1 DEF Event
  <2> HIDE DEF a1
  <2>3. Good(a2)
    BY <1>2, <2>2 DEF Event
  <2> HIDE DEF a2
  <2>4. Good(a3)
    BY <1>2, <2>3 DEF Event
  <2> HIDE DEF a3
  <2>5. Good(a4)
    BY <1>2, <2>4 DEF Event
  <2> HIDE DEF a4
  <2>6. Good(a5)
    BY <2>5 DEF Event
  <2> HIDE DEF a5
  <2>7. Good(a6)
    BY <1>1, <2>6 DEF Event
  <2>8. a = a6
    BY DEF a1, a2, a3, a4, a5
  <2> QED BY <2>7, <2>8
<1>4. BuildAssertion(r, deps, n, t) = WithPolicyDefaults(a)
  BY DEF BuildAssertion
<1> HIDE DEF a
<1>5. Policy[a.shape].default_ttl \in Ttl
  BY <1>3, PolicyAssumption DEF PredicatePolicy, Event
<1>6. LET d == [a EXCEPT !.ttl = Policy[a.shape].default_ttl]
      IN /\ d \in Event /\ d.kind = a.kind /\ d.shape = a.shape /\ d.level = a.level
         /\ d.recorded_at = a.recorded_at /\ d.fact = a.fact
  BY <1>3, <1>5 DEF Event
<1> QED BY <1>3, <1>4, <1>6 DEF WithPolicyDefaults

\* The event an operation puts on what it acts on.
LEMMA KindOfIncumbent ==
  ASSUME NEW op \in Operations \ {"assert", "derive"}
  PROVE  /\ op \in Asserting => \/ op = "supersede" /\ IncumbentKind[op] = "Superseded"
                                \/ op = "contradict" /\ IncumbentKind[op] = "Contradicted"
         /\ op \notin Asserting =>
              IncumbentKind[op] \in {"Retracted", "Reinforced", "Expired", "UsedInDecision"}
BY DEF Operations, Asserting, IncumbentKind

\* The facts an operation acts on are beliefs, and there are finitely many.
LEMMA IncumbentsStand ==
  ASSUME NEW n \in Nat, NEW t, NEW p, StoreOK(p, n, t), NEW op, NEW r
  PROVE  /\ Incumbents(op, p, r, t) \subseteq BelievedOf(p, r.shape)
         /\ IsFiniteSet(Incumbents(op, p, r, t)) /\ Incumbents(op, p, r, t) \subseteq Facts
         /\ Incumbents(op, p, r, t) \subseteq Nat /\ n \notin Incumbents(op, p, r, t)
         /\ IsFiniteSet(Basis(op, p, r)) /\ Basis(op, p, r) \subseteq Facts
<1>1. \A shape : /\ BelievedOf(p, shape) \subseteq Present(p) /\ BelievedOf(p, shape) \subseteq Facts
  BY BelievedIsPresent DEF Present
<1>2. IsFiniteSet(Present(p))
  BY StoreIsFinite
<1>3. \A shape : IsFiniteSet(BelievedOf(p, shape))
  BY <1>1, <1>2, FS_Subset
<1>4. Incumbents(op, p, r, t) \subseteq BelievedOf(p, r.shape)
  BY ExplainsABelief DEF Incumbents
<1>5. IsFiniteSet(Incumbents(op, p, r, t))
  BY <1>3, <1>4, FS_Subset
<1>6. n \notin Present(p)
  BY DEF StoreOK, Logged, Present
<1>7. IsFiniteSet(Basis(op, p, r)) /\ Basis(op, p, r) \subseteq Facts
  BY <1>1, <1>3, FS_EmptySet DEF Basis
<1> QED BY <1>1, <1>4, <1>5, <1>6, <1>7, FactsAreEventNumbers

\* ops.rs build_per_incumbent: the events on the incumbents are well-formed.
LEMMA PerIncumbentBuilt ==
  ASSUME NEW I, I \subseteq Facts, IsFiniteSet(I), NEW k \in Nat, NEW m \in Nat,
         k + Cardinality(I) <= m, 0..(m - 1) \subseteq Facts,
         NEW kind \in Kinds, NEW r, r.shape \in Shapes, r.level \in Levels, r.source \in Sources,
         NEW by \in Facts \cup {NoFact}, kind \in {"Superseded", "Contradicted"} => by \in Facts,
         NEW t \in Nat, NEW f \in I
  PROVE  /\ PerIncumbent(I, k, kind, r, by, t)[f] \in Event
         /\ PerIncumbent(I, k, kind, r, by, t)[f].kind = kind
         /\ PerIncumbent(I, k, kind, r, by, t)[f].recorded_at = t
         /\ PerIncumbent(I, k, kind, r, by, t)[f].shape = r.shape
         /\ kind # "Reinforced" => PerIncumbent(I, k, kind, r, by, t)[f].by = by
<1> DEFINE c == Cardinality({g \in I : g < f})
           b == IF kind = "Reinforced" THEN f ELSE by
           e == BuildEvent(k + c, f, kind, r, b, t)
<1>1. c \in Nat /\ c < Cardinality(I) /\ Cardinality(I) \in Nat
  BY EventsAreNumbered, FactsAreEventNumbers
<1>2. PerIncumbent(I, k, kind, r, by, t)[f] = e
  BY DEF PerIncumbent
<1>3. b \in Facts \cup {NoFact} /\ (kind \in NamingKinds => b \in Facts)
  BY DEF NamingKinds
<1>4. e.kind = kind /\ e.recorded_at = t /\ e.by = b /\ e.shape = r.shape
  BY DEF BuildEvent
<1> HIDE DEF c, b
<1>5. k + c \in Facts
  BY <1>1
<1>6. e \in Event
  BY <1>3, <1>5, BuiltIsEvent
<1> QED BY <1>2, <1>4, <1>6 DEF b

\* ops.rs build_revision, build_per_incumbent: every operation that passes the
\* gate builds a well-formed batch.
LEMMA OperationBuilt ==
  ASSUME NEW n \in Nat, NEW m \in Nat, NEW t \in Nat, NEW p, StoreOK(p, n, t),
         NEW op \in Operations, NEW r \in Request, OutEntrenching(op, p, r) = {},
         n + Cardinality(DOMAIN Batch(op, p, r, n, t)) <= m, 0..(m - 1) \subseteq Facts
  PROVE  BuiltFor(p, Batch(op, p, r, n, t), n, m, t)
<1> DEFINE I == Incumbents(op, p, r, t)
           asserts == op \in Asserting
           a == BuildAssertion(r, Basis(op, p, r), n, t)
           kind == IncumbentKind[op]
           start == IF asserts THEN n + 1 ELSE n
           by == IF asserts THEN n ELSE NoFact
           others == PerIncumbent(I, start, kind, r, by, t)
           batch == Batch(op, p, r, n, t)
<1>1. /\ I \subseteq BelievedOf(p, r.shape) /\ IsFiniteSet(I) /\ I \subseteq Facts
      /\ n \notin I /\ IsFiniteSet(Basis(op, p, r)) /\ Basis(op, p, r) \subseteq Facts
  BY IncumbentsStand
<1>2. r.shape \in Shapes /\ r.level \in Levels /\ r.source \in Sources
  BY DEF Request
<1>3. n \in Facts /\ n < m =>
        /\ a \in Event /\ a.kind = "Asserted" /\ a.level = r.level /\ a.recorded_at = t
        /\ a.fact = n
  BY <1>1, AssertionIsEvent
<1>4. batch = IF op \in {"assert", "derive"} THEN [f \in {n} |-> a]
              ELSE IF asserts THEN [f \in {n} \cup I |-> IF f = n THEN a ELSE others[f]]
              ELSE others
  BY DEF Batch
<1>5. DOMAIN others = I
  BY DEF PerIncumbent
<1>6. NamesItsFacts(batch)
  BY BatchNames
<1>7. Cardinality(I) \in Nat
  BY <1>1, FS_CardinalityType
<1>c. n + Cardinality(DOMAIN batch) <= m
  OBVIOUS
<1>g. OutEntrenching(op, p, r) = {}
  OBVIOUS
<1> HIDE DEF I, a, batch
<1>8. CASE op \in {"assert", "derive"}
  <2>1. DOMAIN batch = {n} /\ batch[n] = a
    BY <1>4, <1>8
  <2>2. n < m
    <3>1. Cardinality({n}) = 1
      BY FS_Singleton
    <3> QED BY <1>c, <2>1, <3>1
  <2>3. n \in Facts
    BY <2>2
  <2> QED BY <1>3, <1>6, <2>1, <2>2, <2>3 DEF BuiltFor, batch
<1>9. CASE op \notin {"assert", "derive"} /\ asserts
  <2>1. /\ DOMAIN batch = I \cup {n} /\ batch[n] = a
        /\ \A f \in I : batch[f] = others[f]
    BY <1>1, <1>4, <1>9
  <2>2. Cardinality(I \cup {n}) = Cardinality(I) + 1
    BY <1>1, FS_AddElement
  <2>3. start + Cardinality(I) <= m /\ n < m /\ start \in Nat
    BY <1>7, <1>9, <1>c, <2>1, <2>2
  <2>4. n \in Facts
    BY <2>3
  <2>5. kind \in {"Superseded", "Contradicted"} /\ (kind = "Superseded" => op = "supersede")
    BY <1>9, KindOfIncumbent
  <2>6. by = n /\ kind \in Kinds
    BY <1>9, <2>5 DEF Kinds, NamingKinds
  <2> HIDE DEF kind, start, by, asserts
  <2>7. \A f \in I : /\ batch[f] \in Event /\ batch[f].kind = kind /\ batch[f].recorded_at = t
                     /\ batch[f].by = n
    <3> SUFFICES ASSUME NEW f \in I
                 PROVE  /\ others[f] \in Event /\ others[f].kind = kind
                        /\ others[f].recorded_at = t /\ others[f].by = n
      BY <2>1
    <3>1. by \in Facts
      BY <2>4, <2>6
    <3>2. kind # "Reinforced"
      BY <2>5
    <3>3. I \subseteq Facts /\ IsFiniteSet(I) /\ start \in Nat /\ start + Cardinality(I) <= m
      BY <1>1, <2>3
    <3>4. kind \in Kinds /\ by \in Facts \cup {NoFact}
      BY <2>6, <3>1
    <3>5. /\ others[f] \in Event /\ others[f].kind = kind /\ others[f].recorded_at = t
          /\ kind # "Reinforced" => others[f].by = by
      BY <1>2, <3>1, <3>3, <3>4, PerIncumbentBuilt
    <3> QED BY <2>6, <3>2, <3>5
  <2>8. ASSUME NEW f \in I, kind = "Superseded", EntrenchmentGate, p[f].level = a.level
        PROVE  EarnedEntrenchment(p[f], a.level) <= 1
    <3>1. f \in BelievedOf(p, r.shape) /\ a.level = r.level
      BY <1>1, <1>3, <2>3, <2>4
    <3>2. ~(EarnedEntrenchment(p[f], r.level) > 1)
      BY <1>g, <2>5, <2>8, <3>1 DEF OutEntrenching
    <3>3. p[f] \in FactState /\ Counted(p[f])
      BY <3>1, BelievedIsPresent DEF StoreOK, Projections, Logged
    <3>4. EarnedEntrenchment(p[f], r.level) \in Nat
      BY <1>2, <3>3, EarnedIsCounted
    <3> QED BY <3>1, <3>2, <3>4
  <2> QED BY <1>1, <1>3, <1>6, <2>1, <2>3, <2>4, <2>5, <2>7, <2>8 DEF BuiltFor, batch
<1>10. CASE ~asserts
  <2>1. op \notin {"assert", "derive"}
    BY <1>10 DEF Asserting
  <2>2. DOMAIN batch = I /\ batch = others
    BY <1>4, <1>5, <1>10, <2>1
  <2>3. start = n /\ by = NoFact
    BY <1>10
  <2>4. kind \in {"Retracted", "Reinforced", "Expired", "UsedInDecision"}
    BY <1>10, <2>1, KindOfIncumbent
  <2>5. kind \in Kinds /\ kind # "Asserted" /\ kind \notin {"Superseded", "Contradicted"}
    BY <2>4 DEF Kinds, NamingKinds, ClosingKinds, AuditKinds
  <2> HIDE DEF kind, start, by, asserts
  <2>6. \A f \in I : /\ batch[f] \in Event /\ batch[f].kind = kind /\ batch[f].recorded_at = t
    <3> SUFFICES ASSUME NEW f \in I
                 PROVE  /\ others[f] \in Event /\ others[f].kind = kind
                        /\ others[f].recorded_at = t
      BY <2>2
    <3>1. I \subseteq Facts /\ IsFiniteSet(I) /\ start \in Nat /\ start + Cardinality(I) <= m
      BY <1>1, <1>c, <2>2, <2>3
    <3>2. by \in Facts \cup {NoFact}
      BY <2>3
    <3> QED BY <1>2, <2>5, <3>1, <3>2, PerIncumbentBuilt
  <2> QED BY <1>1, <1>6, <2>2, <2>5, <2>6 DEF BuiltFor, batch
<1> QED BY <1>8, <1>9, <1>10

\* Every event of an operation claims the level of its request.
LEMMA BatchLevels ==
  ASSUME NEW n \in Facts, NEW t \in Nat, NEW p, StoreOK(p, n, t),
         NEW op \in Operations, NEW r \in Request, NEW f \in DOMAIN Batch(op, p, r, n, t)
  PROVE  /\ f \in Facts /\ Batch(op, p, r, n, t)[f].level = r.level
         /\ Batch(op, p, r, n, t)[f].fact = f
         /\ Batch(op, p, r, n, t)[f].kind = "Superseded" =>
              /\ Batch(op, p, r, n, t)[f].by = n /\ n \in DOMAIN Batch(op, p, r, n, t)
              /\ Batch(op, p, r, n, t)[n].kind = "Asserted"
<1> DEFINE I == Incumbents(op, p, r, t)
           asserts == op \in Asserting
           a == BuildAssertion(r, Basis(op, p, r), n, t)
           kind == IncumbentKind[op]
           start == IF asserts THEN n + 1 ELSE n
           by == IF asserts THEN n ELSE NoFact
           others == PerIncumbent(I, start, kind, r, by, t)
           batch == Batch(op, p, r, n, t)
<1>1. n \in Nat
  BY FactsAreEventNumbers
<1>2. /\ I \subseteq Facts /\ n \notin I
      /\ IsFiniteSet(Basis(op, p, r)) /\ Basis(op, p, r) \subseteq Facts
  BY <1>1, IncumbentsStand
<1>3. a.kind = "Asserted" /\ a.level = r.level
  BY <1>2, AssertionIsEvent
<1>4. batch = IF op \in {"assert", "derive"} THEN [g \in {n} |-> a]
              ELSE IF asserts THEN [g \in {n} \cup I |-> IF g = n THEN a ELSE others[g]]
              ELSE others
  BY DEF Batch
<1>5. DOMAIN others = I /\ \A g \in I : /\ others[g].kind = kind /\ others[g].level = r.level
                                        /\ kind # "Reinforced" => others[g].by = by
  BY DEF PerIncumbent, BuildEvent
<1>6. batch[f].fact = f /\ f \in DOMAIN batch
  BY BatchNames DEF NamesItsFacts
<1> HIDE DEF I, a, batch, others
<1>7. CASE op \in {"assert", "derive"}
  BY <1>3, <1>4, <1>6, <1>7 DEF batch
<1>8. CASE op \notin {"assert", "derive"} /\ asserts
  <2>1. /\ DOMAIN batch = {n} \cup I /\ batch[n] = a
        /\ \A g \in I : batch[g] = others[g]
    BY <1>2, <1>4, <1>8
  <2>2. kind \in {"Superseded", "Contradicted"} /\ by = n
    BY <1>8, KindOfIncumbent
  <2> HIDE DEF kind, by
  <2> QED BY <1>2, <1>3, <1>5, <1>6, <2>1, <2>2 DEF batch
<1>9. CASE ~asserts
  <2>1. op \notin {"assert", "derive"}
    BY <1>9 DEF Asserting
  <2>2. batch = others
    BY <1>4, <1>9, <2>1
  <2>3. kind # "Superseded"
    BY <1>9, <2>1, KindOfIncumbent
  <2> HIDE DEF kind, by
  <2> QED BY <1>2, <1>5, <1>6, <2>2, <2>3 DEF batch
<1> QED BY <1>7, <1>8, <1>9

\* ops.rs classify_challenge: a challenge is of a fact, at a level.
LEMMA ChallengeIsTyped ==
  ASSUME NEW n \in Facts, NEW t \in Nat, NEW p, StoreOK(p, n, t),
         NEW op \in Operations, NEW r \in Request, NEW c \in Challenge(op, p, r, n, t)
  PROVE  c.fact \in Facts /\ c.level \in Levels
<1> DEFINE batch == Batch(op, p, r, n, t)
           gated == OutEntrenching(op, p, r)
           loser == FirstRefused(p, batch)
           w == Working(p, batch)
<1>1. r.level \in Levels
  BY DEF Request
<1>2. CASE gated # {} /\ c = [fact |-> FirstOf(gated), level |-> r.level]
  <2>1. gated \subseteq Facts /\ gated \subseteq Nat
    BY FactsAreEventNumbers DEF OutEntrenching, BelievedOf
  <2>2. FirstOf(gated) \in gated
    BY <1>2, <2>1, FirstOfIsIn
  <2> QED BY <1>1, <1>2, <2>1, <2>2
<1>3. CASE Refused(p, batch) # {} /\ c = [fact |-> loser.fact, level |-> EffectiveLevel(w, loser)]
  <2> DEFINE X == {f \in Refused(p, batch) : batch[f].kind = "Asserted"}
             Y == IF X # {} THEN X ELSE Refused(p, batch)
  <2>1. \A f \in DOMAIN batch :
          /\ f \in Facts /\ batch[f].level = r.level /\ batch[f].fact = f
          /\ batch[f].kind = "Superseded" =>
               /\ batch[f].by = n /\ n \in DOMAIN batch
               /\ batch[n].kind = "Asserted"
    <3> SUFFICES ASSUME NEW f \in DOMAIN batch
                 PROVE  /\ f \in Facts /\ batch[f].level = r.level /\ batch[f].fact = f
                        /\ batch[f].kind = "Superseded" =>
                             /\ batch[f].by = n /\ n \in DOMAIN batch
                             /\ batch[n].kind = "Asserted"
      OBVIOUS
    <3>1. f \in DOMAIN Batch(op, p, r, n, t)
      OBVIOUS
    <3> HIDE DEF batch
    <3>2. /\ f \in Facts /\ Batch(op, p, r, n, t)[f].level = r.level
          /\ Batch(op, p, r, n, t)[f].fact = f
      BY <3>1, BatchLevels
    <3>3. Batch(op, p, r, n, t)[f].kind = "Superseded" =>
            /\ Batch(op, p, r, n, t)[f].by = n /\ n \in DOMAIN Batch(op, p, r, n, t)
            /\ Batch(op, p, r, n, t)[n].kind = "Asserted"
      BY <3>1, BatchLevels
    <3> QED BY <3>2, <3>3 DEF batch
  <2>2. Refused(p, batch) \subseteq DOMAIN batch
    BY DEF Refused
  <2>3. loser = batch[FirstOf(Y)]
    BY DEF FirstRefused
  <2>p. p[n] = NoState
    BY FactsAreEventNumbers DEF StoreOK, Logged
  <2> HIDE DEF batch
  <2>4. Y # {} /\ Y \subseteq DOMAIN batch
    BY <1>3, <2>2
  <2> HIDE DEF Y, loser
  <2>5. Y \subseteq Nat
    BY <2>1, <2>4, FactsAreEventNumbers
  <2>6. FirstOf(Y) \in Y
    BY <2>4, <2>5, FirstOfIsIn
  <2>7. PICK f \in DOMAIN batch : loser = batch[f]
    BY <2>3, <2>4, <2>6
  <2>8. ASSUME loser.kind = "Superseded" PROVE w[loser.by].level = r.level
    <3>1. loser.by = n /\ n \in DOMAIN batch /\ batch[n].kind = "Asserted" /\ batch[n].level = r.level
      BY <2>1, <2>7, <2>8
    <3>2. w[n] = InitialState(batch[n])
      BY <2>p, <3>1 DEF Working, ApplyEvent
    <3>3. w[n].level = batch[n].level
      BY <3>2 DEF InitialState
    <3> QED BY <3>1, <3>3
  <2>9. loser.fact \in Facts /\ loser.level = r.level
    BY <2>1, <2>7
  <2>10. EffectiveLevel(w, loser) = r.level
    BY <2>8, <2>9 DEF EffectiveLevel
  <2> QED BY <1>1, <1>3, <2>9, <2>10
<1> QED BY <1>2, <1>3 DEF Challenge

\* What loses a contest had something to say.
LEMMA ChallengersAct ==
  ASSUME NEW p, NEW n, NEW t, NEW op, NEW r, Challenge(op, p, r, n, t) # {}
  PROVE  DOMAIN Batch(op, p, r, n, t) # {}
<1>1. CASE OutEntrenching(op, p, r) # {}
  <2>1. op = "supersede"
    BY <1>1 DEF OutEntrenching
  <2> QED BY <2>1 DEF Batch, Asserting
<1>2. CASE Refused(p, Batch(op, p, r, n, t)) # {}
  BY <1>2 DEF Refused
<1> QED BY <1>1, <1>2 DEF Challenge

\* persist_challenge_record: the record is one well-formed event.
LEMMA RecordBuilt ==
  ASSUME NEW n \in Facts, NEW t \in Nat, NEW p, NEW r \in Request,
         NEW c, c.fact \in Facts, c.level \in Levels
  PROVE  /\ BuiltFor(p, RecordBatch(c, r, n, t), n, n + 1, t)
         /\ Cardinality(DOMAIN RecordBatch(c, r, n, t)) = 1
         /\ \A f \in DOMAIN RecordBatch(c, r, n, t) :
              RecordBatch(c, r, n, t)[f].kind = "ChallengeRejected"
<1> DEFINE s == [r EXCEPT !.level = c.level]
           e == BuildEvent(n, c.fact, "ChallengeRejected", s, NoFact, t)
           batch == RecordBatch(c, r, n, t)
<1>1. s.shape \in Shapes /\ s.level \in Levels /\ s.source \in Sources
  BY DEF Request
<1>2. DOMAIN batch = {c.fact} /\ batch[c.fact] = e
  BY DEF RecordBatch
<1>3. e.kind = "ChallengeRejected" /\ e.recorded_at = t /\ e.fact = c.fact
  BY DEF BuildEvent
<1> HIDE DEF s, batch
<1>4. e \in Event
  BY <1>1, BuiltIsEvent DEF Kinds, NamingKinds
<1> HIDE DEF e
<1>5. Cardinality(DOMAIN batch) = 1
  BY <1>2, FS_Singleton
<1>6. BuiltFor(p, batch, n, n + 1, t)
  BY <1>2, <1>3, <1>4 DEF BuiltFor, NamesItsFacts
<1> QED BY <1>2, <1>3, <1>5, <1>6 DEF batch

\* op_record_retrievals: an admitted audit is of facts that are there.
LEMMA RetrievalBuilt ==
  ASSUME NEW n \in Nat, NEW m \in Nat, NEW t \in Nat, NEW p, StoreOK(p, n, t),
         NEW r \in Request, NEW R, R \subseteq Facts,
         Refused(p, RetrievalBatch(R, p, r, n, t)) = {},
         n + Cardinality(R) <= m, 0..(m - 1) \subseteq Facts
  PROVE  /\ BuiltFor(p, RetrievalBatch(R, p, r, n, t), n, m, t)
         /\ DOMAIN RetrievalBatch(R, p, r, n, t) = R /\ IsFiniteSet(R)
         /\ \A f \in R : RetrievalBatch(R, p, r, n, t)[f].kind = "Retrieved"
<1> DEFINE batch == RetrievalBatch(R, p, r, n, t)
           event(f) == PerIncumbent(R, n, "Retrieved", r, NoFact, t)[f]
<1>1. DOMAIN batch = R /\ \A f \in R : batch[f] = [event(f) EXCEPT !.shape = p[f].shape]
  BY DEF RetrievalBatch
<1>2. \A f \in R : /\ event(f).kind = "Retrieved" /\ event(f).fact = f
                   /\ batch[f].kind = "Retrieved" /\ batch[f].fact = f
                   /\ batch[f].recorded_at = t
  BY DEF RetrievalBatch, PerIncumbent, BuildEvent
<1>r. Refused(p, batch) = {}
  OBVIOUS
<1> HIDE DEF batch, event
<1>3. NamesItsFacts(batch)
  BY <1>1, <1>2 DEF NamesItsFacts
<1>4. \A f \in R : p[f] \in FactState /\ p[f] # NoState
  <2> SUFFICES ASSUME NEW f \in R PROVE p[f] # NoState
    BY DEF StoreOK, Projections
  <2>1. TransitionOK(p[f], batch[f])
    BY <1>1, <1>3, <1>r, AdmittedEvent
  <2> QED BY <1>2, <2>1 DEF TransitionOK
<1>5. IsFiniteSet(R)
  <2>1. R \subseteq Present(p)
    BY <1>4 DEF Present
  <2> QED BY <2>1, StoreIsFinite, FS_Subset
<1>6. r.shape \in Shapes /\ r.level \in Levels /\ r.source \in Sources
  BY DEF Request
<1>7. \A f \in R : event(f) \in Event
  <2>1. "Retrieved" \in Kinds /\ "Retrieved" \notin {"Superseded", "Contradicted"}
    BY DEF Kinds, AuditKinds
  <2> QED BY <1>5, <1>6, <2>1, PerIncumbentBuilt DEF event
<1>8. \A f \in R : p[f].shape \in Shapes
  BY <1>4 DEF FactState
<1>9. \A f \in R : batch[f] \in Event
  BY <1>1, <1>7, <1>8 DEF Event
<1>10. BuiltFor(p, batch, n, m, t)
  BY <1>1, <1>2, <1>3, <1>9 DEF BuiltFor
<1> QED BY <1>1, <1>2, <1>5, <1>10 DEF batch

-----------------------------------------------------------------------------
(* Every step keeps the store's invariant and the types.                   *)

OpsInv ==
  /\ work \in Workloads
  /\ derived \in [Facts -> SUBSET Facts]
  /\ seq \in 0..work.events /\ now \in 0..work.until
  /\ unaudited \in [surface : {"none", "resource", "pack"}, facts : SUBSET Facts]
  /\ StoreOK(beliefs, seq, now)

LEMMA OpsInvTypes ==
  ASSUME OpsInv
  PROVE  /\ seq \in Nat /\ now \in Nat /\ work.events \in Nat /\ work.until \in Nat
         /\ work.requests \subseteq Request /\ work.ops \subseteq Operations
         /\ 0..(work.events - 1) \subseteq Facts
         /\ unaudited.facts \subseteq Facts
BY WorkloadsAssumption, EventsAreFacts DEF OpsInv

\* A batch is written: it is well built and was admitted whole.
Writes(batch) ==
  /\ AppendEvents(batch) /\ Refused(beliefs, batch) = {}
  /\ BuiltFor(beliefs, batch, seq, seq', now)
  /\ seq' \in Nat /\ seq <= seq' /\ seq' <= work.events

\* The events a step has room for have names.
LEMMA RoomForEvents ==
  ASSUME OpsInv, NEW m \in Nat, m <= work.events
  PROVE  0..(m - 1) \subseteq Facts /\ (seq < m => seq \in Facts)
BY OpsInvTypes

\* ops.rs: an operation writes its batch or, having lost, the record of that.
LEMMA PerformWrites ==
  ASSUME OpsInv, NEW op, NEW r \in work.requests, Perform(op, r)
  PROVE  \/ Accepts(op, beliefs, r, seq, now) /\ Writes(Batch(op, beliefs, r, seq, now))
         \/ \E c \in Challenge(op, beliefs, r, seq, now) : Writes(RecordBatch(c, r, seq, now))
<1> DEFINE batch == Batch(op, beliefs, r, seq, now)
           count == Cardinality(DOMAIN batch)
<1>1. /\ op \in work.ops /\ seq + count <= work.events
      /\ \/ Accepts(op, beliefs, r, seq, now) /\ AppendEvents(batch)
         \/ \E c \in Challenge(op, beliefs, r, seq, now) : PersistChallengeRecord(c, r)
  BY DEF Perform, Begin
<1>2. /\ op \in Operations /\ r \in Request /\ seq \in Nat /\ now \in Nat /\ work.events \in Nat
  BY <1>1, OpsInvTypes
<1>3. StoreOK(beliefs, seq, now)
  BY DEF OpsInv
<1>4. IsFiniteSet(DOMAIN batch) /\ count \in Nat
  BY <1>2, <1>3, StoreIsFinite, BatchFinite, FS_CardinalityType
<1>5. CASE Accepts(op, beliefs, r, seq, now) /\ AppendEvents(batch)
  <2>1. OutEntrenching(op, beliefs, r) = {} /\ Refused(beliefs, batch) = {}
    BY <1>5 DEF Accepts
  <2>2. seq' = seq + count
    BY <1>5 DEF AppendEvents
  <2>3. seq' \in Nat /\ seq <= seq' /\ seq' <= work.events
    BY <1>1, <1>2, <1>4, <2>2
  <2>4. 0..(seq' - 1) \subseteq Facts
    BY <2>3, RoomForEvents
  <2>5. BuiltFor(beliefs, batch, seq, seq', now)
    BY <1>2, <1>3, <2>1, <2>2, <2>3, <2>4, OperationBuilt
  <2> QED BY <1>5, <2>1, <2>3, <2>5 DEF Writes
<1>6. ASSUME NEW c \in Challenge(op, beliefs, r, seq, now), PersistChallengeRecord(c, r)
      PROVE  Writes(RecordBatch(c, r, seq, now))
  <2>1. DOMAIN batch # {}
    BY <1>6, ChallengersAct
  <2>2. count # 0
    BY <1>4, <2>1, FS_EmptySet
  <2>3. seq + 1 \in Nat /\ seq + 1 <= work.events
    BY <1>1, <1>2, <1>4, <2>2
  <2>4. seq \in Facts
    BY <1>2, <2>3, RoomForEvents
  <2>5. c.fact \in Facts /\ c.level \in Levels
    BY <1>2, <1>3, <1>6, <2>4, ChallengeIsTyped
  <2> DEFINE record == RecordBatch(c, r, seq, now)
  <2>6. BuiltFor(beliefs, record, seq, seq + 1, now) /\ Cardinality(DOMAIN record) = 1
    BY <1>2, <2>4, <2>5, RecordBuilt
  <2>7. Refused(beliefs, record) = {} /\ AppendEvents(record)
    BY <1>6 DEF PersistChallengeRecord
  <2> HIDE DEF record
  <2>8. seq' = seq + 1
    BY <2>6, <2>7 DEF AppendEvents
  <2> QED BY <1>2, <2>3, <2>6, <2>7, <2>8 DEF Writes, record
<1> QED BY <1>1, <1>5, <1>6

\* op_record_retrievals: the audit of a read writes one event per fact.
LEMMA RetrievalsWrite ==
  ASSUME OpsInv, NEW r \in work.requests, RecordRetrievals(r)
  PROVE  Writes(RetrievalBatch(unaudited.facts, beliefs, r, seq, now))
<1> DEFINE R == unaudited.facts
           batch == RetrievalBatch(R, beliefs, r, seq, now)
<1>1. /\ \A f \in R : seq + Cardinality(R) <= work.events
      /\ Refused(beliefs, batch) = {} /\ AppendEvents(batch)
  BY DEF RecordRetrievals, Begin
<1>2. /\ r \in Request /\ seq \in Nat /\ now \in Nat /\ work.events \in Nat /\ R \subseteq Facts
      /\ seq <= work.events
  BY OpsInvTypes DEF OpsInv
<1>3. StoreOK(beliefs, seq, now)
  BY DEF OpsInv
<1>4. DOMAIN batch = R
  BY DEF RetrievalBatch
<1>5. Cardinality(R) \in Nat /\ seq + Cardinality(R) <= work.events
  <2>1. CASE R = {}
    BY <1>2, <2>1, FS_EmptySet
  <2>2. CASE R # {}
    <3>1. NamesItsFacts(batch) /\ \A f \in R : batch[f].kind = "Retrieved"
      BY DEF NamesItsFacts, RetrievalBatch, PerIncumbent, BuildEvent
    <3> HIDE DEF batch
    <3>2. ASSUME NEW f \in R PROVE f \in Present(beliefs)
      <4>1. TransitionOK(beliefs[f], batch[f])
        BY <1>1, <1>2, <1>4, <3>1, AdmittedEvent
      <4> QED BY <1>2, <3>1, <4>1 DEF TransitionOK, Present
    <3>3. IsFiniteSet(R)
      BY <1>2, <1>3, <3>2, StoreIsFinite, FS_Subset
    <3> QED BY <1>1, <2>2, <3>3, FS_CardinalityType
  <2> QED BY <2>1, <2>2
<1>6. seq' = seq + Cardinality(R)
  BY <1>1, <1>4 DEF AppendEvents
<1>7. seq' \in Nat /\ seq <= seq' /\ seq' <= work.events
  BY <1>2, <1>5, <1>6
<1>8. 0..(seq' - 1) \subseteq Facts
  BY <1>7, RoomForEvents
<1>9. BuiltFor(beliefs, batch, seq, seq', now)
  BY <1>1, <1>2, <1>3, <1>6, <1>7, <1>8, RetrievalBuilt
<1> QED BY <1>1, <1>7, <1>9 DEF Writes

\* append_events: what is written keeps the store's invariant.
LEMMA WritesKeep ==
  ASSUME OpsInv, NEW batch, Writes(batch)
  PROVE  StoreOK(beliefs', seq', now) /\ seq' \in 0..work.events
<1>1. seq \in Nat /\ now \in Nat /\ work.events \in Nat /\ StoreOK(beliefs, seq, now)
  BY OpsInvTypes DEF OpsInv
<1>2. seq' \in Nat /\ seq <= seq' /\ seq' <= work.events /\ beliefs' = Applied(beliefs, batch)
  BY DEF Writes, AppendEvents
<1>3. Evolves(beliefs, beliefs', seq, seq', now)
  BY <1>1, <1>2, AdmittedEvolves DEF Writes
<1> QED BY <1>1, <1>2, <1>3, StoreStaysOK

\* memory.rs latest_fact_id, max_by_key: of closed facts one was updated last.
LEMMA OneUpdatedLast ==
  ASSUME NEW n \in Nat, NEW t \in Nat, NEW p, StoreOK(p, n, t),
         NEW S, S \subseteq Present(p), S # {}
  PROVE  LastUpdated(p, S) \in S
<1> DEFINE age(f) == t - p[f].updated_at
           A == {age(f) : f \in S}
<1>1. \A f \in S : /\ f \in Nat /\ f < n /\ p[f].updated_at \in Nat /\ p[f].updated_at <= t
  BY FactsAreEventNumbers DEF StoreOK, Projections, FactState, Logged, Present
<1>2. A \subseteq Nat /\ A # {}
  BY <1>1
<1>3. PICK a \in A : \A y \in A : a <= y
  BY <1>2, HasLeast
<1> DEFINE L == {f \in S : age(f) = a}
           D == {n - f : f \in L}
<1>4. D \subseteq Nat /\ D # {}
  BY <1>1, <1>3
<1>5. PICK d \in D : \A y \in D : d <= y
  BY <1>4, HasLeast
<1>6. PICK f \in L : d = n - f
  BY <1>5
<1>7. ASSUME NEW g \in S
      PROVE  \/ p[g].updated_at < p[f].updated_at
             \/ p[g].updated_at = p[f].updated_at /\ g <= f
  <2>1. age(f) <= age(g)
    BY <1>3, <1>6
  <2>2. CASE age(g) = a
    <3>1. n - f <= n - g
      BY <1>5, <1>6, <1>7, <2>2
    <3> QED BY <1>1, <1>6, <1>7, <2>2, <3>1
  <2>3. CASE age(g) # a
    BY <1>1, <1>6, <1>7, <2>1, <2>3
  <2> QED BY <2>2, <2>3
<1>8. f \in S
  BY <1>6
<1> QED BY <1>7, <1>8 DEF LastUpdated

\* A read that finds anything returns facts.
LEMMA ReadsReturnFacts ==
  ASSUME NEW n \in Nat, NEW t \in Nat, NEW p, StoreOK(p, n, t), NEW shape,
         LatestFact(p, shape, t) # NoFact
  PROVE  LatestFact(p, shape, t) \in Facts
<1>1. CASE BelievedOf(p, shape) # {}
  BY <1>1, ExplainsABelief DEF LatestFact, BelievedOf
<1>2. CASE BelievedOf(p, shape) = {}
  <2>1. Recorded(p, shape) # {} /\ LatestFact(p, shape, t) = LastUpdated(p, Recorded(p, shape))
    BY <1>2 DEF LatestFact
  <2>2. Recorded(p, shape) \subseteq Present(p)
    BY DEF Recorded, Present
  <2>3. LastUpdated(p, Recorded(p, shape)) \in Recorded(p, shape)
    BY <2>1, <2>2, OneUpdatedLast
  <2> QED BY <2>1, <2>3 DEF Recorded
<1> QED BY <1>1, <1>2

\* The actions that write.
Performs(r) ==
  \E op \in Operations :
    /\ Perform(op, r)
    /\ derived' = derived \/ derived' = [derived EXCEPT ![seq] = Basis("derive", beliefs, r)]

Reads == (\E shape \in Shapes : ReadResource(shape)) \/ \E s \in BOOLEAN : ReadContext(s)

LEMMA WhatSteps ==
  ASSUME OpsNext
  PROVE  \/ \E r \in work.requests : Performs(r) \/ RecordRetrievals(r)
         \/ Reads \/ Tick
<1>1. ASSUME NEW r, \/ Assert(r) \/ Derive(r) \/ Supersede(r) \/ Retract(r) \/ Reinforce(r)
                    \/ Expire(r) \/ UseInDecision(r) \/ Contradict(r)
      PROVE  Performs(r)
  BY <1>1 DEF Assert, Derive, Supersede, Retract, Reinforce, Expire, UseInDecision, Contradict,
              Performs, Operations, Asserting, IncumbentKind
<1> QED BY <1>1 DEF OpsNext, AuditResource, AuditPack, Reads

LEMMA OpsInvStep ==
  ASSUME OpsInv, OpsNext
  PROVE  OpsInv'
<1> USE OpsInvTypes
<1>1. StoreOK(beliefs, seq, now) /\ seq \in 0..work.events /\ now \in 0..work.until
  BY DEF OpsInv
<1>2. ASSUME NEW r \in work.requests, Performs(r) PROVE OpsInv'
  <2>1. PICK op \in Operations :
          /\ Perform(op, r)
          /\ derived' = derived \/ derived' = [derived EXCEPT ![seq] = Basis("derive", beliefs, r)]
    BY <1>2 DEF Performs
  <2>2. UNCHANGED <<work, now, unaudited>>
    BY <2>1 DEF Perform
  <2>3. PICK batch : Writes(batch)
    BY <2>1, PerformWrites
  <2>4. StoreOK(beliefs', seq', now) /\ seq' \in 0..work.events
    BY <2>3, WritesKeep
  <2>5. Basis("derive", beliefs, r) \subseteq Facts
    BY DEF Basis, BelievedOf
  <2>6. derived' \in [Facts -> SUBSET Facts]
    BY <2>1, <2>5 DEF OpsInv
  <2> QED BY <1>1, <2>2, <2>4, <2>6 DEF OpsInv
<1>3. ASSUME NEW r \in work.requests, RecordRetrievals(r) PROVE OpsInv'
  <2>1. UNCHANGED <<work, derived, now>> /\ unaudited' = NothingShown
    BY <1>3 DEF RecordRetrievals
  <2>2. StoreOK(beliefs', seq', now) /\ seq' \in 0..work.events
    BY <1>3, RetrievalsWrite, WritesKeep
  <2> QED BY <1>1, <2>1, <2>2 DEF OpsInv, NothingShown
<1>4. ASSUME Reads PROVE OpsInv'
  <2>1. UNCHANGED <<work, beliefs, derived, seq, now>>
    BY <1>4 DEF Reads, ReadResource, ReadContext
  <2>2. \A shape : LatestFact(beliefs, shape, now) # NoFact => LatestFact(beliefs, shape, now) \in Facts
    BY <1>1, ReadsReturnFacts
  <2>3. unaudited' \in [surface : {"none", "resource", "pack"}, facts : SUBSET Facts]
    <3>1. ASSUME NEW shape \in Shapes, ReadResource(shape)
          PROVE  unaudited' \in [surface : {"none", "resource", "pack"}, facts : SUBSET Facts]
      <4>1. LatestFact(beliefs, shape, now) # NoFact
        BY <3>1 DEF ReadResource, OpExplainReceipt
      <4>2. {LatestFact(beliefs, shape, now)} \in SUBSET Facts
        BY <2>2, <4>1
      <4> QED BY <3>1, <4>2 DEF ReadResource
    <3>2. ASSUME NEW s \in BOOLEAN, ReadContext(s)
          PROVE  unaudited' \in [surface : {"none", "resource", "pack"}, facts : SUBSET Facts]
      <4>1. ContextPack(beliefs, now, s) \in SUBSET Facts
        BY <2>2 DEF ContextPack
      <4> QED BY <3>2, <4>1 DEF ReadContext
    <3> QED BY <1>4, <3>1, <3>2 DEF Reads
  <2> QED BY <2>1, <2>3 DEF OpsInv
<1>5. ASSUME Tick PROVE OpsInv'
  <2>1. UNCHANGED <<work, beliefs, derived, seq, unaudited>> /\ now < work.until /\ now' = now + 1
    BY <1>5 DEF Tick
  <2>2. now' \in 0..work.until /\ now' \in Nat /\ now <= now'
    BY <1>1, <2>1
  <2>3. StoreOK(beliefs, seq, now')
    BY <1>1, <2>2, LaterStaysOK
  <2> QED BY <2>1, <2>2, <2>3 DEF OpsInv
<1> QED BY <1>2, <1>3, <1>4, <1>5, WhatSteps

LEMMA OpsInvInit ==
  ASSUME OpsInit
  PROVE  OpsInv
<1>1. StoreOK(beliefs, 0, 0)
  BY DEF OpsInit, StoreOK, Projections
<1>2. work.events \in Nat /\ work.until \in Nat
  BY WorkloadsAssumption DEF OpsInit
<1> QED BY <1>1, <1>2 DEF OpsInit, OpsInv, NothingShown

LEMMA OpsInvAlways == OpsSpec => []OpsInv
<1>1. OpsInv /\ UNCHANGED opsVars => OpsInv'
  BY DEF OpsInv, opsVars
<1> QED BY <1>1, OpsInvInit, OpsInvStep, PTL DEF OpsSpec

-----------------------------------------------------------------------------
(* What the op layer promises, for every workload.                         *)

\* main.rs, ops.rs: whatever operations run, in whatever order, every fact
\* keeps a well-formed state and every event a number within the log
\* (OpsTypeOK).
THEOREM OperationsAreTyped == OpsSpec => []OpsTypeOK
<1>1. OpsInv => OpsTypeOK
  BY DEF OpsInv, OpsTypeOK, StoreOK, Projections
<1> QED BY <1>1, OpsInvAlways, PTL

\* lib.rs unearned_supersessions, "the audit and the gate agree": through any
\* sequence of operations the audit finds nothing the gate let through
\* (GateAgreesWithAudit).
THEOREM GateAndAuditAgree == OpsSpec => []GateAgreesWithAudit
<1>1. OpsInv => GateAgreesWithAudit
  BY AuditIsClean DEF OpsInv, GateAgreesWithAudit
<1> QED BY <1>1, OpsInvAlways, PTL

\* main.rs validate_unique_log, conflicts_outcome, context.rs: whatever was
\* written, on a store that loads two live beliefs of a unique predicate are
\* contested in explain, conflicts, reconcile and the snapshot, and the pack has
\* the contested belief that explain shows unless it is not valid yet
\* (DisputeIsShown).
THEOREM DisputesAreShown == OpsSpec => []DisputeIsShown
<1>1. DisputeIsShown
  <2> SUFFICES ASSUME NEW shape \in UniqueShapes, Loads(beliefs, now),
                      Cardinality(UnexpiredOf(beliefs, shape, now)) > 1
               PROVE  LET latest == LatestFact(beliefs, shape, now)
                          snapshot == Snapshot(beliefs, derived, {}, now)
                      IN /\ beliefs[latest].lifecycle = "Contested"
                         /\ latest \in ContextPack(beliefs, now, TRUE)
                         /\ ~IsNotYetValidAt(beliefs[latest], now)
                              => latest \in ContextPack(beliefs, now, FALSE)
                         /\ shape \in ReconcileFailures(beliefs, Shapes, now)
                         /\ UnexpiredOf(beliefs, shape, now) \subseteq Conflicts(beliefs)[shape]
                         /\ ExplainTool(beliefs, Shapes, now) = "contested"
                         /\ "contested" \in snapshot.attention /\ snapshot.status # "ok"
    BY DEF DisputeIsShown
  <2>1. /\ beliefs[LatestFact(beliefs, shape, now)].lifecycle = "Contested"
        /\ LatestFact(beliefs, shape, now) \in ContextPack(beliefs, now, TRUE)
        /\ ~IsNotYetValidAt(beliefs[LatestFact(beliefs, shape, now)], now)
             => LatestFact(beliefs, shape, now) \in ContextPack(beliefs, now, FALSE)
        /\ shape \in ReconcileFailures(beliefs, Shapes, now)
        /\ UnexpiredOf(beliefs, shape, now) \subseteq Conflicts(beliefs)[shape]
        /\ ExplainTool(beliefs, Shapes, now) = "contested"
        /\ "contested" \in Snapshot(beliefs, derived, {}, now).attention
        /\ Snapshot(beliefs, derived, {}, now).status # "ok"
    BY DisputeShows
  <2> QED BY <2>1
<1> QED BY <1>1, PTL

\* memory.rs latest_fact_id, context_outcome: whatever was written, an
\* undisputed current belief is never hidden by a stale or a future one
\* (FreshBeliefIsPacked).
THEOREM FreshBeliefsAreShown == OpsSpec => []FreshBeliefIsPacked
<1>1. OpsInv => FreshBeliefIsPacked
  <2> SUFFICES ASSUME OpsInv, NEW shape \in UniqueShapes, NEW f \in BelievedOf(beliefs, shape),
                      Loads(beliefs, now), IsFreshAt(beliefs[f], now),
                      shape \notin DOMAIN Conflicts(beliefs)
               PROVE  /\ f \in ContextPack(beliefs, now, FALSE)
                      /\ shape \notin ReconcileFailures(beliefs, Shapes, now)
                      /\ FactsList(beliefs, now)[shape] = "fresh"
    BY DEF FreshBeliefIsPacked
  <2>1. IsFiniteSet(Present(beliefs))
    BY OpsInvTypes, StoreIsFinite DEF OpsInv
  <2> QED BY <2>1, FreshShows
<1> QED BY <1>1, OpsInvAlways, PTL

-----------------------------------------------------------------------------
(* Dissent.                                                                *)

\* registry.rs: nothing but a canonical incumbent refuses a contradiction.
LEMMA DissentGoesThrough ==
  ASSUME NEW n \in Facts, NEW t \in Nat, NEW p, StoreOK(p, n, t), NEW r \in Request,
         BelievedOf(p, r.shape) # {}, p[ExplainSubject(p, r.shape, t)].level # Canonical,
         Validates(BuildAssertion(r, {}, n, t))
  PROVE  Accepts("contradict", p, r, n, t)
<1> DEFINE x == ExplainSubject(p, r.shape, t)
           a == BuildAssertion(r, {}, n, t)
           I == Incumbents("contradict", p, r, t)
           batch == Batch("contradict", p, r, n, t)
           others == PerIncumbent(I, n + 1, IncumbentKind["contradict"], r, n, t)
           w == Working(p, batch)
<1>1. x \in BelievedOf(p, r.shape)
  BY ExplainsABelief
<1>2. /\ x \in Facts /\ p[x] # NoState /\ p[x].shape = r.shape /\ p[x].lifecycle \notin Terminal
  BY <1>1, BelievedIsPresent
<1>3. p[n] = NoState /\ n # x
  BY <1>2, FactsAreEventNumbers DEF StoreOK, Logged
<1>4. I = {x}
  BY DEF Incumbents
<1>5. a.kind = "Asserted" /\ a.fact = n
  BY AssertionIsEvent, FS_EmptySet
<1>6. "contradict" \in Asserting /\ IncumbentKind["contradict"] = "Contradicted"
  BY DEF Asserting, IncumbentKind
<1>7. Basis("contradict", p, r) = {}
  BY DEF Basis
<1>8. /\ others[x].kind = "Contradicted" /\ others[x].fact = x /\ others[x].shape = r.shape
      /\ others[x].valid_from = NoTime /\ others[x].valid_to = NoTime
  BY <1>4, <1>6 DEF PerIncumbent, BuildEvent
<1> HIDE DEF x, a, I, others
<1>9. batch = [f \in {n} \cup I |-> IF f = n THEN a ELSE others[f]]
  BY <1>6, <1>7 DEF Batch, a, I, others
<1> HIDE DEF batch
<1>10. DOMAIN batch = {n, x} /\ batch[n] = a /\ batch[x] = others[x]
  BY <1>3, <1>4, <1>9
<1>11. ArbitrateEvents(p, a)
  BY <1>3, <1>5 DEF ArbitrateEvents, TransitionOK, Backed, a
<1>12. ArbitrateEvents(w, others[x])
  <2>1. w[x] = p[x]
    BY <1>2, <1>8, <1>10 DEF Working
  <2> HIDE DEF w
  <2>2. Validates(others[x])
    BY <1>8 DEF Validates, AuditKinds
  <2>3. WellPlaced(p[x], others[x])
    BY <1>2, <1>8 DEF WellPlaced
  <2>4. ~CanonicalContradiction(p[x], others[x]) /\ ~InsufficientAuthority(p[x], others[x])
    BY <1>8 DEF CanonicalContradiction, InsufficientAuthority, ClosingKinds, x
  <2> QED BY <1>2, <1>8, <2>1, <2>2, <2>3, <2>4 DEF ArbitrateEvents, TransitionOK, Backed
<1>13. Refused(p, batch) = {}
  BY <1>5, <1>8, <1>10, <1>11, <1>12 DEF Refused
<1>14. OutEntrenching("contradict", p, r) = {}
  BY DEF OutEntrenching
<1>15. Permitted("contradict", p, r, n, t)
  BY <1>4 DEF Permitted, HasTarget, I
<1> QED BY <1>13, <1>14, <1>15 DEF Accepts, batch

\* registry.rs, "a low-authority agent must always be able to dissent": however
\* the store came about (DissentIsPossible).
THEOREM DissentIsNeverShutOut == OpsSpec => []DissentIsPossible
<1>1. OpsInv => DissentIsPossible
  <2> SUFFICES ASSUME OpsInv, NEW r \in work.requests,
                      Begin(r, 2), BelievedOf(beliefs, r.shape) # {},
                      beliefs[ExplainSubject(beliefs, r.shape, now)].level # Canonical,
                      Validates(BuildAssertion(r, {}, seq, now))
               PROVE  Accepts("contradict", beliefs, r, seq, now)
    BY DEF DissentIsPossible
  <2>1. seq \in Nat /\ work.events \in Nat /\ seq + 2 <= work.events
    BY OpsInvTypes DEF Begin
  <2>2. seq \in Facts
    BY <2>1, RoomForEvents
  <2>3. r \in Request /\ now \in Nat /\ StoreOK(beliefs, seq, now)
    BY OpsInvTypes DEF OpsInv
  <2> QED BY <2>2, <2>3, DissentGoesThrough
<1> QED BY <1>1, OpsInvAlways, PTL

-----------------------------------------------------------------------------
(* Uniqueness: what each kind of batch leaves of the beliefs of a shape.   *)

\* ops.rs op_supersede to op_expire: the facts a batch names.
LEMMA BatchOf ==
  ASSUME NEW op, NEW p, NEW r, NEW n, NEW t, op \notin {"assert", "derive"}
  PROVE  DOMAIN Batch(op, p, r, n, t) =
           (IF op \in Asserting THEN {n} ELSE {}) \cup Incumbents(op, p, r, t)
<1> DEFINE I == Incumbents(op, p, r, t)
           asserts == op \in Asserting
           a == BuildAssertion(r, Basis(op, p, r), n, t)
           start == IF asserts THEN n + 1 ELSE n
           by == IF asserts THEN n ELSE NoFact
           others == PerIncumbent(I, start, IncumbentKind[op], r, by, t)
           batch == Batch(op, p, r, n, t)
<1>1. batch = IF asserts THEN [g \in {n} \cup I |-> IF g = n THEN a ELSE others[g]] ELSE others
  BY DEF Batch
<1>2. DOMAIN others = I
  BY DEF PerIncumbent
<1> HIDE DEF batch, others, a, I
<1>3. DOMAIN batch = (IF asserts THEN {n} ELSE {}) \cup I
  BY <1>1, <1>2
<1> QED BY <1>3 DEF batch, I

\* ops.rs build_revision: the event an operation puts on an incumbent.
LEMMA IncumbentEvent ==
  ASSUME NEW op, NEW p, NEW r, NEW n, NEW t, op \notin {"assert", "derive"},
         NEW f \in Incumbents(op, p, r, t), f # n
  PROVE  /\ Batch(op, p, r, n, t)[f].kind = IncumbentKind[op]
         /\ Batch(op, p, r, n, t)[f].shape = r.shape
         /\ op = "contradict" => Batch(op, p, r, n, t)[f].by = n
<1> DEFINE I == Incumbents(op, p, r, t)
           asserts == op \in Asserting
           a == BuildAssertion(r, Basis(op, p, r), n, t)
           kind == IncumbentKind[op]
           start == IF asserts THEN n + 1 ELSE n
           by == IF asserts THEN n ELSE NoFact
           others == PerIncumbent(I, start, kind, r, by, t)
           batch == Batch(op, p, r, n, t)
<1>1. batch = IF asserts THEN [g \in {n} \cup I |-> IF g = n THEN a ELSE others[g]] ELSE others
  BY DEF Batch
<1>2. /\ others[f].kind = kind /\ others[f].shape = r.shape
      /\ kind # "Reinforced" => others[f].by = by
  BY DEF PerIncumbent, BuildEvent
<1>3. op = "contradict" => kind = "Contradicted" /\ by = n
  BY DEF IncumbentKind, Asserting
<1>4. f \in I
  OBVIOUS
<1> HIDE DEF batch, others, a, I, kind, by
<1>5. batch[f] = others[f]
  BY <1>1, <1>4
<1>6. /\ batch[f].kind = kind /\ batch[f].shape = r.shape
      /\ op = "contradict" => batch[f].by = n
  BY <1>2, <1>3, <1>5
<1> QED BY <1>6 DEF batch, kind

\* state.rs expires_at: what no event changes decides when a fact expires.
LEMMA KeptExpires ==
  ASSUME NEW s, NEW s2, Kept(s, s2), NEW t
  PROVE  IsExpiredAt(s2, t) <=> IsExpiredAt(s, t)
<1>1. ExpiresAt(s2) = ExpiresAt(s)
  BY DEF Kept, ExpiresAt
<1> QED BY <1>1 DEF IsExpiredAt

\* A projection has shapes.
LEMMA StoreIsShaped ==
  ASSUME NEW n, NEW t, NEW p, StoreOK(p, n, t)
  PROVE  Shaped(p)
BY DEF StoreOK, Projections, FactState, Shaped

\* What an admitted event leaves of a fact that was there.
LEMMA EventLeaves ==
  ASSUME NEW p \in Projections, NEW batch, NamesItsFacts(batch), Refused(p, batch) = {},
         NEW q, q = Applied(p, batch), NEW f \in DOMAIN batch, f \in Facts,
         batch[f] \in Event, batch[f].kind # "Asserted"
  PROVE  /\ p[f] \in FactState /\ p[f] # NoState
         /\ Kept(p[f], q[f])
         /\ q[f].lifecycle =
              (IF batch[f].kind \in ClosingKinds THEN batch[f].kind
               ELSE IF batch[f].kind = "Contradicted" THEN "Contested" ELSE p[f].lifecycle)
         /\ q[f].contradicted_by =
              (IF batch[f].kind = "Contradicted" THEN p[f].contradicted_by \cup {batch[f].by}
               ELSE p[f].contradicted_by)
<1> DEFINE e == batch[f]
<1>1. e \in Event
  OBVIOUS
<1>2. TransitionOK(p[f], e) /\ q[f] = ApplyEvent(p[f], e)
  BY <1>1, AdmittedEvent
<1>3. p[f] # NoState
  BY <1>2 DEF TransitionOK
<1>4. p[f] \in FactState
  BY <1>3 DEF Projections
<1>5. q[f] = NextState(p[f], e)
  BY <1>2, <1>3 DEF ApplyEvent
<1>6. Kept(p[f], q[f])
  BY <1>1, <1>4, <1>5, MovedState
<1>8. /\ NextState(p[f], e).lifecycle =
           (IF e.kind \in ClosingKinds THEN e.kind
            ELSE IF e.kind = "Contradicted" THEN "Contested" ELSE p[f].lifecycle)
      /\ NextState(p[f], e).contradicted_by =
           (IF e.kind = "Contradicted" THEN p[f].contradicted_by \cup {e.by}
            ELSE p[f].contradicted_by)
  <2> HIDE DEF e
  <2> QED BY <1>1, <1>4, MovedState
<1> QED BY <1>1, <1>3, <1>4, <1>5, <1>6, <1>8

\* The events that touch neither what is believed nor who contests it.
QuietKinds == {"Reinforced", "UsedInDecision", "Retrieved", "ChallengeRejected"}

\* memory.rs: a batch of bookkeeping events leaves every projection as unique.
LEMMA QuietKeepsUnique ==
  ASSUME NEW n \in Nat, NEW m, NEW t, NEW p, StoreOK(p, n, t),
         NEW batch, BuiltFor(p, batch, n, m, t), Refused(p, batch) = {},
         \A f \in DOMAIN batch : batch[f].kind \in QuietKinds,
         NEW shape, UniqueProjection(p, shape, t)
  PROVE  UniqueProjection(Applied(p, batch), shape, t)
<1> DEFINE q == Applied(p, batch)
           U == UnexpiredOf(p, shape, t)
<1>b. /\ p \in Projections /\ NamesItsFacts(batch)
      /\ \A f \in DOMAIN batch : f \in Facts /\ batch[f] \in Event
  BY DEF StoreOK, BuiltFor
<1>1. ASSUME NEW f \in Facts
      PROVE  /\ IsBelieved(q[f]) /\ q[f].shape = shape <=> IsBelieved(p[f]) /\ p[f].shape = shape
             /\ IsExpiredAt(q[f], t) <=> IsExpiredAt(p[f], t)
             /\ q[f].lifecycle = p[f].lifecycle
             /\ IsBelieved(p[f]) => q[f].contradicted_by = p[f].contradicted_by
  <2>1. CASE f \notin DOMAIN batch
    <3>1. q[f] = p[f]
      BY <2>1 DEF Applied
    <3> HIDE DEF q
    <3> QED BY <3>1
  <2>2. CASE f \in DOMAIN batch
    <3>1. batch[f].kind \notin ClosingKinds /\ batch[f].kind \notin {"Asserted", "Contradicted"}
      BY <2>2 DEF QuietKinds, ClosingKinds
    <3>q. q = Applied(p, batch)
      OBVIOUS
    <3> HIDE DEF q
    <3>a. /\ Kept(p[f], q[f])
          /\ q[f].lifecycle =
               (IF batch[f].kind \in ClosingKinds THEN batch[f].kind
                ELSE IF batch[f].kind = "Contradicted" THEN "Contested" ELSE p[f].lifecycle)
          /\ q[f].contradicted_by =
               (IF batch[f].kind = "Contradicted" THEN p[f].contradicted_by \cup {batch[f].by}
                ELSE p[f].contradicted_by)
      BY <1>b, <2>2, <3>1, <3>q, EventLeaves
    <3>2. /\ Kept(p[f], q[f]) /\ (IsExpiredAt(q[f], t) <=> IsExpiredAt(p[f], t))
          /\ q[f].lifecycle = p[f].lifecycle /\ q[f].contradicted_by = p[f].contradicted_by
      BY <3>1, <3>a, KeptExpires
    <3> QED BY <3>2 DEF Kept, IsBelieved
  <2> QED BY <2>1, <2>2
<1> HIDE DEF q
<1>2. BelievedOf(q, shape) = BelievedOf(p, shape)
  BY <1>1 DEF BelievedOf
<1>3. UnexpiredOf(q, shape, t) = U
  BY <1>1, <1>2 DEF UnexpiredOf, BelievedOf
<1>4. \A f \in U : /\ q[f].lifecycle = p[f].lifecycle
                   /\ q[f].contradicted_by = p[f].contradicted_by
  BY <1>1 DEF UnexpiredOf, BelievedOf
<1> HIDE DEF U
<1>5. Accounted(q, U) = Accounted(p, U)
  BY <1>4 DEF Accounted
<1> QED BY <1>3, <1>5 DEF UniqueProjection, q, U

\* One unexpired belief is no duplicate.
LEMMA OneLiveIsUnique ==
  ASSUME NEW p, NEW n, NEW shape, NEW t, UnexpiredOf(p, shape, t) \subseteq {n}
  PROVE  UniqueProjection(p, shape, t)
<1> DEFINE U == UnexpiredOf(p, shape, t)
<1>1. U = {} \/ U = {n}
  OBVIOUS
<1>2. Cardinality({}) = 0 /\ Cardinality({n}) = 1
  BY FS_EmptySet, FS_Singleton
<1> HIDE DEF U
<1>3. ~(Cardinality(U) > 1)
  BY <1>1, <1>2
<1> QED BY <1>3 DEF UniqueProjection, U

\* registry.rs enforce_policy: an assertion is admitted where nothing is believed.
LEMMA AssertionIsUnique ==
  ASSUME NEW n \in Facts, NEW t \in Nat, NEW p, StoreOK(p, n, t),
         NEW op \in {"assert", "derive"}, NEW r \in Request,
         Accepts(op, p, r, n, t), NEW q, q = Applied(p, Batch(op, p, r, n, t))
  PROVE  UniqueProjection(q, r.shape, t)
<1> DEFINE a == BuildAssertion(r, Basis(op, p, r), n, t)
<1>1. n \in Nat
  BY FactsAreEventNumbers
<1>2. a.kind = "Asserted" /\ a.shape = r.shape /\ a.fact = n
  BY <1>1, IncumbentsStand, AssertionIsEvent
<1>3. EnforcePolicy(p, a, t)
  BY DEF Accepts, Permitted
<1> HIDE DEF a
<1>4. r.shape \in UniqueShapes => UnexpiredOf(p, r.shape, t) \subseteq {n}
  BY <1>2, <1>3 DEF EnforcePolicy, NoOtherBelief
<1>5. \A f \in Facts \ {n} : q[f] = p[f]
  <2>1. DOMAIN Batch(op, p, r, n, t) = {n}
    BY DEF Batch
  <2> QED BY <2>1 DEF Applied
<1>6. UnexpiredOf(q, r.shape, t) \subseteq UnexpiredOf(p, r.shape, t) \cup {n}
  BY <1>5 DEF UnexpiredOf, BelievedOf
<1>7. CASE r.shape \in UniqueShapes
  <2>1. UnexpiredOf(q, r.shape, t) \subseteq {n}
    BY <1>4, <1>6, <1>7
  <2> QED BY <2>1, OneLiveIsUnique
<1>8. CASE r.shape \notin UniqueShapes
  BY <1>8 DEF UniqueProjection
<1> QED BY <1>7, <1>8

\* ops.rs op_supersede, op_retract, op_expire: every belief of the subject is
\* closed, so that at most the replacement is left.
LEMMA ClosingIsUnique ==
  ASSUME NEW n \in Facts, NEW m, NEW t \in Nat, NEW p, StoreOK(p, n, t),
         NEW op \in {"supersede", "retract", "expire"}, NEW r \in Request,
         NEW batch, batch = Batch(op, p, r, n, t), BuiltFor(p, batch, n, m, t),
         Refused(p, batch) = {}, NEW q, q = Applied(p, batch)
  PROVE  UniqueProjection(q, r.shape, t)
<1> DEFINE I == Incumbents(op, p, r, t)
<1>1. op \in Operations /\ IncumbentKind[op] \in ClosingKinds
      /\ op \notin {"assert", "derive", "contradict"}
      /\ (op \in Asserting => op = "supersede")
  BY DEF Operations, Asserting, IncumbentKind, ClosingKinds
<1>2. I = BelievedOf(p, r.shape)
  BY <1>1 DEF Incumbents
<1> HIDE DEF I
<1>3. /\ I \subseteq DOMAIN batch /\ DOMAIN batch \subseteq {n} \cup I
      /\ \A f \in I : batch[f].kind = IncumbentKind[op]
  <2>1. op \in Operations
    BY <1>1
  <2>2. n \notin Incumbents(op, p, r, t)
    BY IncumbentsStand, FactsAreEventNumbers
  <2>3. op \notin {"assert", "derive"}
    BY <1>1
  <2>4. DOMAIN Batch(op, p, r, n, t) =
          (IF op \in Asserting THEN {n} ELSE {}) \cup Incumbents(op, p, r, t)
    BY <2>3, BatchOf
  <2>5. ASSUME NEW f \in Incumbents(op, p, r, t)
        PROVE  Batch(op, p, r, n, t)[f].kind = IncumbentKind[op]
    BY <2>2, <2>3, IncumbentEvent
  <2> QED BY <2>4, <2>5 DEF I
<1>4. /\ p \in Projections /\ NamesItsFacts(batch)
      /\ \A f \in DOMAIN batch : f \in Facts /\ batch[f] \in Event
  BY DEF StoreOK, BuiltFor
<1>5. \A f \in I : q[f].lifecycle = IncumbentKind[op]
  <2> SUFFICES ASSUME NEW f \in I PROVE q[f].lifecycle = IncumbentKind[op]
    OBVIOUS
  <2>1. batch[f].kind \in ClosingKinds /\ batch[f].kind # "Asserted"
    BY <1>1, <1>3 DEF ClosingKinds
  <2>2. /\ Kept(p[f], q[f])
        /\ q[f].lifecycle =
             (IF batch[f].kind \in ClosingKinds THEN batch[f].kind
              ELSE IF batch[f].kind = "Contradicted" THEN "Contested" ELSE p[f].lifecycle)
        /\ q[f].contradicted_by =
             (IF batch[f].kind = "Contradicted" THEN p[f].contradicted_by \cup {batch[f].by}
              ELSE p[f].contradicted_by)
    <3>1. f \in DOMAIN batch /\ f \in Facts /\ batch[f] \in Event
      BY <1>3, <1>4
    <3>2. p \in Projections /\ NamesItsFacts(batch)
      BY <1>4
    <3> QED BY <2>1, <3>1, <3>2, EventLeaves
  <2> QED BY <1>3, <2>1, <2>2
<1>6. ASSUME NEW f \in BelievedOf(q, r.shape), f # n PROVE FALSE
  <2>1. f \in Facts /\ IsBelieved(q[f]) /\ q[f].shape = r.shape
    BY <1>6 DEF BelievedOf
  <2>2. CASE f \in I
    BY <1>1, <1>5, <2>1, <2>2 DEF IsBelieved, Believed, ClosingKinds
  <2>3. CASE f \notin I
    <3>1. q[f] = p[f]
      BY <1>3, <1>6, <2>1, <2>3 DEF Applied
    <3> QED BY <1>2, <2>1, <2>3, <3>1 DEF BelievedOf
  <2> QED BY <2>2, <2>3
<1>7. BelievedOf(q, r.shape) \subseteq {n}
  BY <1>6
<1> QED BY <1>7, OneIsUnique

\* ops.rs op_contradict: the new belief and all that were silent are explained
\* by the contest it opens.
LEMMA ContestIsUnique ==
  ASSUME NEW n \in Facts, NEW m, NEW t \in Nat, NEW p, StoreOK(p, n, t), NEW r \in Request,
         BelievedOf(p, r.shape) # {}, UniqueProjection(p, r.shape, t),
         NEW batch, batch = Batch("contradict", p, r, n, t), BuiltFor(p, batch, n, m, t),
         Refused(p, batch) = {}, NEW q, q = Applied(p, batch)
  PROVE  UniqueProjection(q, r.shape, t)
<1> DEFINE x == ExplainSubject(p, r.shape, t)
           U == UnexpiredOf(p, r.shape, t)
           V == UnexpiredOf(q, r.shape, t)
           C == {f \in U : p[f].lifecycle = "Contested"}
           D == {f \in V : q[f].lifecycle = "Contested"}
<1>1. /\ p \in Projections /\ NamesItsFacts(batch)
      /\ \A f \in DOMAIN batch : f \in Facts /\ batch[f] \in Event
  BY DEF StoreOK, BuiltFor
<1>2. x \in BelievedOf(p, r.shape)
  BY ExplainsABelief
<1>3. x \in Facts /\ p[x] # NoState /\ p[x].shape = r.shape
  BY <1>2, BelievedIsPresent
<1>4. x # n
  BY <1>3, FactsAreEventNumbers DEF StoreOK, Logged
<1>5. Incumbents("contradict", p, r, t) = {x}
  BY DEF Incumbents
<1> HIDE DEF x
<1>6. DOMAIN batch = {n, x} /\ batch[x].kind = "Contradicted" /\ batch[x].by = n
  <2>1. "contradict" \in Operations /\ IncumbentKind["contradict"] = "Contradicted"
    BY DEF Operations, Asserting, IncumbentKind
  <2>2. "contradict" \notin {"assert", "derive"} /\ "contradict" \in Asserting
    BY DEF Asserting
  <2>3. n \notin Incumbents("contradict", p, r, t)
    BY <1>4, <1>5
  <2>4. DOMAIN Batch("contradict", p, r, n, t) =
          (IF "contradict" \in Asserting THEN {n} ELSE {}) \cup Incumbents("contradict", p, r, t)
    BY <2>2, BatchOf
  <2>5. x \in Incumbents("contradict", p, r, t) /\ x # n
    BY <1>4, <1>5
  <2>6. /\ Batch("contradict", p, r, n, t)[x].kind = IncumbentKind["contradict"]
        /\ Batch("contradict", p, r, n, t)[x].by = n
    BY <2>2, <2>5, IncumbentEvent
  <2> QED BY <1>5, <2>1, <2>2, <2>4, <2>6
<1>7. /\ Kept(p[x], q[x]) /\ q[x].lifecycle = "Contested"
      /\ q[x].contradicted_by = p[x].contradicted_by \cup {n}
  <2>1. /\ Kept(p[x], q[x])
        /\ q[x].lifecycle =
             (IF batch[x].kind \in ClosingKinds THEN batch[x].kind
              ELSE IF batch[x].kind = "Contradicted" THEN "Contested" ELSE p[x].lifecycle)
        /\ q[x].contradicted_by =
             (IF batch[x].kind = "Contradicted" THEN p[x].contradicted_by \cup {batch[x].by}
              ELSE p[x].contradicted_by)
    <3>1. x \in DOMAIN batch /\ batch[x] \in Event /\ batch[x].kind # "Asserted"
      BY <1>1, <1>6
    <3>2. x \in Facts
      BY <1>3
    <3> QED BY <1>1, <3>1, <3>2, EventLeaves
  <2> QED BY <1>6, <2>1 DEF ClosingKinds
<1>8. \A f \in Facts \ {n, x} : q[f] = p[f]
  BY <1>6 DEF Applied
<1>9. IsExpiredAt(q[x], t) <=> IsExpiredAt(p[x], t)
  BY <1>7, KeptExpires
<1>10. x \in V <=> x \in U
  <2>1. q[x].shape = r.shape /\ IsBelieved(q[x])
    BY <1>3, <1>7 DEF Kept, IsBelieved, Believed
  <2> QED BY <1>2, <1>3, <1>9, <2>1 DEF UnexpiredOf, BelievedOf
<1>11. \A f \in Facts \ {n, x} : f \in V <=> f \in U
  BY <1>8 DEF UnexpiredOf, BelievedOf
<1>12. U \subseteq Facts /\ V \subseteq Facts /\ n \notin U
  <2>1. p[n] = NoState
    BY FactsAreEventNumbers DEF StoreOK, Logged
  <2> QED BY <2>1 DEF UnexpiredOf, BelievedOf, IsBelieved, Believed, NoState
<1>13. Accounted(q, V) = D \cup UNION {q[f].contradicted_by : f \in D}
  BY DEF Accounted
<1>14. Accounted(p, U) = C \cup UNION {p[f].contradicted_by : f \in C}
  BY DEF Accounted
<1>15. r.shape \in UniqueShapes /\ Cardinality(U) > 1 => U \subseteq Accounted(p, U)
  BY DEF UniqueProjection
<1>u. U # {} => x \in U
  BY ExplainsALiveOne DEF x
<1>f. IsFiniteSet(U)
  <2>1. U \subseteq Present(p)
    BY BelievedIsPresent DEF UnexpiredOf, Present
  <2> QED BY <2>1, StoreIsFinite, FactsAreEventNumbers, FS_Subset
<1>d. /\ \A f \in C : f \in D
      /\ x \in U => x \in D
  BY <1>7, <1>8, <1>10, <1>11, <1>12
<1>e. \A f \in C : p[f].contradicted_by \subseteq q[f].contradicted_by
  BY <1>7, <1>8, <1>12
<1> HIDE DEF U, V, C, D
<1>16. CASE U = {}
  <2>1. V \subseteq {n}
    BY <1>10, <1>11, <1>12, <1>16
  <2> QED BY <2>1, OneLiveIsUnique DEF V
<1>17. CASE U # {} /\ ~(r.shape \in UniqueShapes)
  BY <1>17 DEF UniqueProjection
<1>18. CASE U # {} /\ r.shape \in UniqueShapes
  <2>1. x \in D
    BY <1>d, <1>u, <1>18
  <2>2. n \in Accounted(q, V) /\ x \in Accounted(q, V)
    BY <1>7, <1>13, <2>1
  <2>3. U \subseteq Accounted(q, V)
    <3>1. CASE Cardinality(U) > 1
      <4>1. Accounted(p, U) \subseteq Accounted(q, V)
        BY <1>13, <1>14, <1>d, <1>e
      <4> QED BY <1>15, <1>18, <3>1, <4>1
    <3>2. CASE ~(Cardinality(U) > 1)
      <4>1. U = {x}
        BY <1>f, <1>u, <1>18, <3>2, AtMostOne
      <4> QED BY <2>2, <4>1
    <3> QED BY <3>1, <3>2
  <2>4. V \subseteq U \cup {n, x}
    BY <1>11, <1>12
  <2>5. V \subseteq Accounted(q, V)
    BY <2>2, <2>3, <2>4
  <2> QED BY <2>5 DEF UniqueProjection, V
<1> QED BY <1>16, <1>17, <1>18

\* ops.rs: an operation is about one subject and predicate: every event of its
\* batch is of that shape.
LEMMA BatchShapes ==
  ASSUME NEW n \in Facts, NEW t \in Nat, NEW p, StoreOK(p, n, t),
         NEW op \in Operations, NEW r \in Request, NEW f \in DOMAIN Batch(op, p, r, n, t)
  PROVE  Batch(op, p, r, n, t)[f].shape = r.shape
<1> DEFINE I == Incumbents(op, p, r, t)
           a == BuildAssertion(r, Basis(op, p, r), n, t)
           batch == Batch(op, p, r, n, t)
<1>1. n \in Nat
  BY FactsAreEventNumbers
<1>2. /\ n \notin I /\ IsFiniteSet(Basis(op, p, r)) /\ Basis(op, p, r) \subseteq Facts
  BY <1>1, IncumbentsStand
<1>3. a.shape = r.shape
  BY <1>2, AssertionIsEvent
<1>4. op \in Asserting => batch[n] = a
  BY DEF Batch, Asserting
<1>5. CASE op \in {"assert", "derive"}
  <2>1. f = n /\ op \in Asserting
    BY <1>5 DEF Batch, Asserting
  <2> QED BY <1>3, <1>4, <2>1
<1>6. CASE op \notin {"assert", "derive"}
  <2>1. DOMAIN batch = (IF op \in Asserting THEN {n} ELSE {}) \cup I
    BY <1>6, BatchOf
  <2>2. CASE f = n /\ op \in Asserting
    BY <1>3, <1>4, <2>2
  <2>3. CASE f \in I
    <3>1. f # n
      BY <1>2, <2>3
    <3> QED BY <1>6, <2>3, <3>1, IncumbentEvent
  <2> HIDE DEF batch, I
  <2>4. f \in DOMAIN batch
    BY DEF batch
  <2> QED BY <2>1, <2>2, <2>3, <2>4
<1> QED BY <1>5, <1>6

\* ops.rs op_reinforce, op_use_in_decision: their events are bookkeeping.
LEMMA BookkeepingIsUnique ==
  ASSUME NEW n \in Facts, NEW m, NEW t \in Nat, NEW p, StoreOK(p, n, t),
         NEW op \in {"reinforce", "used_in_decision"}, NEW r \in Request,
         UniqueProjection(p, r.shape, t),
         NEW batch, batch = Batch(op, p, r, n, t), BuiltFor(p, batch, n, m, t),
         Refused(p, batch) = {}
  PROVE  UniqueProjection(Applied(p, batch), r.shape, t)
<1>1. n \in Nat
  BY FactsAreEventNumbers
<1>2. op \notin {"assert", "derive"} /\ op \notin Asserting /\ IncumbentKind[op] \in QuietKinds
  BY DEF Asserting, IncumbentKind, QuietKinds
<1>3. DOMAIN Batch(op, p, r, n, t) =
        (IF op \in Asserting THEN {n} ELSE {}) \cup Incumbents(op, p, r, t)
  BY <1>2, BatchOf
<1>4. DOMAIN batch = Incumbents(op, p, r, t)
  BY <1>2, <1>3
<1>5. n \notin Incumbents(op, p, r, t)
  BY <1>1, IncumbentsStand
<1>6. ASSUME NEW f \in Incumbents(op, p, r, t)
      PROVE  Batch(op, p, r, n, t)[f].kind = IncumbentKind[op]
  BY <1>2, <1>5, IncumbentEvent
<1>7. \A f \in DOMAIN batch : batch[f].kind \in QuietKinds
  BY <1>2, <1>4, <1>6
<1> QED BY <1>1, <1>7, QuietKeepsUnique

\* main.rs validate_unique_log: an accepted operation leaves no silent
\* duplicate, of its own shape or of another.
LEMMA OperationKeepsUnique ==
  ASSUME NEW n \in Facts, NEW m, NEW t \in Nat, NEW p, StoreOK(p, n, t),
         NEW op \in Operations, NEW r \in Request, Accepts(op, p, r, n, t),
         UniqueProjection(p, r.shape, t),
         NEW batch, batch = Batch(op, p, r, n, t), BuiltFor(p, batch, n, m, t),
         NEW shape, UniqueProjection(p, shape, t)
  PROVE  UniqueProjection(Applied(p, batch), shape, t)
<1> DEFINE q == Applied(p, batch)
<1>1. Refused(p, batch) = {} /\ HasTarget(op, p, r, t)
  BY DEF Accepts, Permitted
<1>2. UniqueProjection(q, r.shape, t)
  <2>1. CASE op \in {"assert", "derive"}
    BY <2>1, AssertionIsUnique
  <2>2. CASE op \in {"supersede", "retract", "expire"}
    BY <1>1, <2>2, ClosingIsUnique
  <2>3. CASE op = "contradict"
    <3>1. BelievedOf(p, r.shape) # {}
      BY <1>1, <2>3 DEF HasTarget, Incumbents
    <3>2. batch = Batch("contradict", p, r, n, t)
      BY <2>3
    <3> QED BY <1>1, <3>1, <3>2, ContestIsUnique
  <2>4. CASE op \in {"reinforce", "used_in_decision"}
    BY <1>1, <2>4, BookkeepingIsUnique
  <2>5. op \in {"assert", "derive", "supersede", "contradict", "retract", "reinforce",
               "expire", "used_in_decision"}
    BY DEF Operations, Asserting, IncumbentKind
  <2> QED BY <2>1, <2>2, <2>3, <2>4, <2>5
<1>3. \A f \in DOMAIN batch : batch[f].shape = r.shape
  BY BatchShapes
<1>4. \A f \in DOMAIN batch : UniqueProjection(Applied(p, batch), batch[f].shape, t)
  BY <1>2, <1>3
<1>5. Shaped(p) /\ NamesItsFacts(batch)
  BY StoreIsShaped DEF BuiltFor
<1> QED BY <1>1, <1>4, <1>5, TouchedShapesSuffice

\* ops.rs, main.rs: an operation that writes leaves a store that loads.
LEMMA PerformLoads ==
  ASSUME OpsInv, NEW op, NEW r \in work.requests, Perform(op, r), seq' # seq
  PROVE  Loads(beliefs', now)
<1> DEFINE batch == Batch(op, beliefs, r, seq, now)
<1>1. op \in Operations /\ r \in Request /\ r.shape \in Shapes /\ seq \in Nat /\ now \in Nat
  BY OpsInvTypes DEF Perform, Request
<1>2. Loads(beliefs, now) /\ StoreOK(beliefs, seq, now)
  BY DEF Perform, Begin, OpsInv
<1>3. PICK b : /\ Writes(b)
               /\ \/ Accepts(op, beliefs, r, seq, now) /\ b = batch
                  \/ \E c \in Challenge(op, beliefs, r, seq, now) :
                       b = RecordBatch(c, r, seq, now)
  BY PerformWrites
<1>4. /\ beliefs' = Applied(beliefs, b) /\ Refused(beliefs, b) = {}
      /\ BuiltFor(beliefs, b, seq, seq', now)
      /\ seq' \in Nat /\ seq <= seq' /\ seq' <= work.events
  BY <1>3 DEF Writes, AppendEvents
<1>5. seq \in Facts
  BY <1>1, <1>4, RoomForEvents
<1>6. ~DanglingSupersession(beliefs') /\ ~SupersessionCycle(beliefs')
  <2>1. StoreOK(beliefs', seq', now)
    BY <1>3, WritesKeep
  <2> QED BY <1>4, <2>1, LineageIsSound
<1>7. ASSUME NEW shape \in Shapes PROVE UniqueProjection(Applied(beliefs, b), shape, now)
  <2>1. UniqueProjection(beliefs, shape, now) /\ UniqueProjection(beliefs, r.shape, now)
    BY <1>1, <1>2 DEF Loads
  <2>2. CASE Accepts(op, beliefs, r, seq, now) /\ b = batch
    BY <1>1, <1>2, <1>4, <1>5, <2>1, <2>2, OperationKeepsUnique
  <2>3. ASSUME NEW c \in Challenge(op, beliefs, r, seq, now), b = RecordBatch(c, r, seq, now)
        PROVE  UniqueProjection(Applied(beliefs, b), shape, now)
    <3>1. c.fact \in Facts /\ c.level \in Levels
      BY <1>1, <1>2, <1>5, ChallengeIsTyped
    <3>2. \A f \in DOMAIN RecordBatch(c, r, seq, now) :
            RecordBatch(c, r, seq, now)[f].kind = "ChallengeRejected"
      BY <1>1, <1>5, <3>1, RecordBuilt
    <3>3. \A f \in DOMAIN b : b[f].kind \in QuietKinds
      BY <2>3, <3>2 DEF QuietKinds
    <3> QED BY <1>1, <1>2, <1>4, <2>1, <3>3, QuietKeepsUnique
  <2> QED BY <1>3, <2>2, <2>3
<1> QED BY <1>4, <1>6, <1>7 DEF Loads

\* op_record_retrievals: so does the audit of a read.
LEMMA RetrievalsLoad ==
  ASSUME OpsInv, NEW r \in work.requests, RecordRetrievals(r), seq' # seq
  PROVE  Loads(beliefs', now)
<1> DEFINE R == unaudited.facts
           batch == RetrievalBatch(R, beliefs, r, seq, now)
<1>1. seq \in Nat /\ now \in Nat /\ StoreOK(beliefs, seq, now)
  BY OpsInvTypes DEF OpsInv
<1>2. Writes(batch)
  BY RetrievalsWrite
<1>3. DOMAIN batch = R /\ \A f \in DOMAIN batch : batch[f].kind = "Retrieved"
  BY DEF RetrievalBatch, PerIncumbent, BuildEvent
<1> HIDE DEF batch
<1>4. /\ beliefs' = Applied(beliefs, batch) /\ Refused(beliefs, batch) = {}
      /\ BuiltFor(beliefs, batch, seq, seq', now) /\ seq' = seq + Cardinality(R) /\ seq' \in Nat
  BY <1>2, <1>3 DEF Writes, AppendEvents
<1>5. R # {}
  <2>1. R = {} => seq' = seq
    BY <1>1, <1>4, FS_EmptySet
  <2> QED BY <2>1
<1>6. Loads(beliefs, now)
  BY <1>5 DEF RecordRetrievals, Begin
<1>7. StoreOK(beliefs', seq', now)
  BY <1>2, WritesKeep
<1>8. ~DanglingSupersession(beliefs') /\ ~SupersessionCycle(beliefs')
  BY <1>4, <1>7, LineageIsSound
<1>9. \A f \in DOMAIN batch : batch[f].kind \in QuietKinds
  BY <1>3 DEF QuietKinds
<1>10. ASSUME NEW shape \in Shapes PROVE UniqueProjection(Applied(beliefs, batch), shape, now)
  <2>1. UniqueProjection(beliefs, shape, now)
    BY <1>6 DEF Loads
  <2> QED BY <1>1, <1>4, <1>9, <2>1, QuietKeepsUnique
<1> QED BY <1>4, <1>8, <1>10 DEF Loads

\* main.rs validate_unique_log: whatever is written, by any operation on any
\* store that loaded, the store that is left loads at that instant: its lineage
\* is whole and every duplicate is explained by a contest (WritesLeaveLoadable).
THEOREM WritesLeaveAStoreThatLoads == OpsSpec => WritesLeaveLoadable
<1>1. OpsInv /\ [OpsNext]_opsVars => (seq' # seq => Loads(beliefs', now))
  <2> SUFFICES ASSUME OpsInv, OpsNext, seq' # seq PROVE Loads(beliefs', now)
    BY DEF opsVars
  <2>1. ASSUME NEW r \in work.requests, Performs(r) PROVE Loads(beliefs', now)
    BY <2>1, PerformLoads DEF Performs
  <2>2. ASSUME NEW r \in work.requests, RecordRetrievals(r) PROVE Loads(beliefs', now)
    BY <2>2, RetrievalsLoad
  <2>3. ~Reads /\ ~Tick
    BY DEF Reads, ReadResource, ReadContext, Tick
  <2> QED BY <2>1, <2>2, <2>3, WhatSteps
<1>2. OpsInv /\ [OpsNext]_opsVars => [seq' # seq => Loads(beliefs', now)]_opsVars
  BY <1>1
<1> QED BY <1>2, OpsInvAlways, PTL DEF OpsSpec, WritesLeaveLoadable

-----------------------------------------------------------------------------
(* Taint: the search of verify visits every fact a belief rests on.        *)

\* lib.rs an_invalidated_root: the facts a search of as many levels as there
\* are facts has visited are closed under the derivation edges: each level that
\* is not yet closed visits a fact more.
LEMMA AncestorsAreClosed ==
  ASSUME IsFiniteSet(Facts), NEW d \in [Facts -> SUBSET Facts], NEW f \in Facts
  PROVE  /\ Ancestors(d, f) \subseteq Facts /\ d[f] \subseteq Ancestors(d, f)
         /\ \A g \in Ancestors(d, f) : d[g] \subseteq Ancestors(d, f)
<1> DEFINE N == Cardinality(Facts)
           Wider(S) == S \cup UNION {d[g] : g \in S}
           Closed(S) == \A g \in S : d[g] \subseteq S
           Visits(s, k) == s = [n \in 0..k |-> IF n = 0 THEN d[f] ELSE Wider(s[n - 1])]
           visited == CHOOSE s : Visits(s, N)
<1>1. N \in Nat
  BY FS_CardinalityType
<1>2. \A S \in SUBSET Facts : Wider(S) \in SUBSET Facts
  OBVIOUS
<1>3. ASSUME NEW k0 \in Nat PROVE \E s : Visits(s, k0)
  <2> DEFINE Bad == {k \in Nat : ~ \E s : Visits(s, k)}
  <2> SUFFICES ASSUME Bad # {} PROVE FALSE
    OBVIOUS
  <2>1. PICK k \in Bad : \A j \in Bad : k <= j
    BY HasLeast
  <2>2. k \in Nat /\ ~ \E s : Visits(s, k)
    BY <2>1
  <2>3. CASE k = 0
    <3> DEFINE s == [n \in 0..0 |-> d[f]]
    <3>1. s = [n \in 0..0 |-> IF n = 0 THEN d[f] ELSE Wider(s[n - 1])]
      BY \A n \in 0..0 : n = 0
    <3> QED BY <2>2, <2>3, <3>1
  <2>4. CASE k # 0
    <3>1. k - 1 \in Nat /\ ~(k <= k - 1)
      BY <2>2, <2>4
    <3>2. k - 1 \notin Bad
      BY <2>1, <3>1
    <3>3. PICK s : Visits(s, k - 1)
      BY <3>1, <3>2
    <3> DEFINE s2 == [n \in 0..k |-> IF n = 0 THEN d[f] ELSE Wider(s[n - 1])]
    <3>4. ASSUME NEW n \in 0..(k - 1) PROVE s2[n] = s[n]
      <4>1. n \in 0..k
        BY <2>2
      <4> DEFINE v == IF n = 0 THEN d[f] ELSE Wider(s[n - 1])
      <4>2. s2[n] = v
        BY <4>1
      <4>3. s[n] = v
        BY <3>3
      <4> QED BY <4>2, <4>3
    <3>5. \A n \in 0..k : n # 0 => n - 1 \in 0..(k - 1)
      BY <2>2
    <3>6. s2 = [n \in 0..k |-> IF n = 0 THEN d[f] ELSE Wider(s2[n - 1])]
      BY <3>4, <3>5
    <3> QED BY <2>2, <3>6
  <2> QED BY <2>3, <2>4
<1>4. Visits(visited, N)
  BY <1>1, <1>3
<1>5. Ancestors(d, f) = visited[N]
  BY DEF Ancestors
<1>6. /\ visited[0] = d[f]
      /\ \A n \in 1..N : visited[n] = Wider(visited[n - 1])
  <2> HIDE DEF visited, N, Wider
  <2> QED BY <1>1, <1>4
<1> HIDE DEF visited, N
<1> DEFINE Good(n) == /\ visited[n] \subseteq Facts /\ d[f] \subseteq visited[n]
                      /\ Closed(visited[n]) \/ n < Cardinality(visited[n])
<1>7. ASSUME NEW n0 \in 0..N PROVE Good(n0)
  <2> DEFINE Bad == {n \in 0..N : ~ Good(n)}
  <2> SUFFICES ASSUME Bad # {} PROVE FALSE
    OBVIOUS
  <2> HIDE DEF Good
  <2>1. PICK k \in Bad : \A j \in Bad : k <= j
    <3>1. Bad \subseteq Nat
      BY <1>1
    <3> HIDE DEF Bad
    <3> QED BY <3>1, HasLeast
  <2>2. k \in 0..N /\ ~ Good(k)
    BY <2>1
  <2>3. CASE k = 0
    <3>1. visited[0] \subseteq Facts /\ IsFiniteSet(visited[0]) /\ Cardinality(visited[0]) \in Nat
      BY <1>6, FS_Subset, FS_CardinalityType
    <3>2. Cardinality(visited[0]) = 0 => visited[0] = {}
      BY <3>1, FS_EmptySet
    <3>3. Closed(visited[0]) \/ 0 < Cardinality(visited[0])
      BY <3>1, <3>2
    <3> QED BY <1>6, <2>2, <2>3, <3>1, <3>3 DEF Good
  <2>4. CASE k # 0
    <3>1. k \in Nat /\ k - 1 \in 0..N /\ ~(k <= k - 1) /\ k \in 1..N
      BY <1>1, <2>2, <2>4
    <3>2. Good(k - 1)
      BY <2>1, <3>1
    <3> DEFINE S == visited[k - 1]
    <3>3. S \subseteq Facts /\ d[f] \subseteq S /\ (Closed(S) \/ k - 1 < Cardinality(S))
      BY <3>2 DEF Good
    <3>4. visited[k] = Wider(S)
      BY <1>6, <3>1
    <3> HIDE DEF S
    <3>5. visited[k] \subseteq Facts /\ d[f] \subseteq visited[k]
      BY <1>2, <3>3, <3>4
    <3>6. CASE Closed(S)
      <4>1. visited[k] = S
        BY <3>4, <3>6
      <4> QED BY <2>2, <3>5, <3>6, <4>1 DEF Good
    <3>7. CASE ~ Closed(S)
      <4>1. PICK h : h \in Wider(S) /\ h \notin S
        BY <3>7
      <4>2. IsFiniteSet(S) /\ IsFiniteSet(visited[k])
        BY <3>3, <3>5, FS_Subset
      <4>3. Cardinality(S \cup {h}) = Cardinality(S) + 1 /\ IsFiniteSet(S \cup {h})
        BY <4>1, <4>2, FS_AddElement
      <4>4. S \cup {h} \subseteq visited[k]
        BY <3>4, <4>1
      <4>5. Cardinality(S \cup {h}) <= Cardinality(visited[k])
        BY <4>2, <4>4, FS_Subset
      <4>6. Cardinality(S) \in Nat /\ Cardinality(visited[k]) \in Nat
        BY <4>2, FS_CardinalityType
      <4>7. k < Cardinality(visited[k])
        BY <3>1, <3>3, <3>7, <4>3, <4>5, <4>6
      <4> QED BY <2>2, <3>5, <4>7 DEF Good
    <3> QED BY <3>6, <3>7
  <2> QED BY <2>3, <2>4
<1>8. Good(N)
  BY <1>1, <1>7
<1>9. Cardinality(visited[N]) <= N /\ Cardinality(visited[N]) \in Nat
  BY <1>8, FS_Subset, FS_CardinalityType DEF N
<1>10. Closed(visited[N])
  BY <1>1, <1>8, <1>9
<1> QED BY <1>5, <1>8, <1>10

\* lib.rs tainted_facts, "poison does not survive in derivatives": on a log of
\* finitely many facts, whatever operations wrote it, a belief that rests on a
\* withdrawn fact through any number of derivations is reported
\* (PoisonIsReported).
THEOREM PoisonIsAlwaysReported == IsFiniteSet(Facts) => (OpsSpec => []PoisonIsReported)
<1> SUFFICES ASSUME IsFiniteSet(Facts) PROVE OpsSpec => []PoisonIsReported
  OBVIOUS
<1>1. OpsInv => PoisonIsReported
  <2> SUFFICES ASSUME OpsInv, NEW f \in Facts, IsBelieved(beliefs[f]),
                      \A S \in SUBSET Facts :
                        derived[f] \subseteq S /\ (\A g \in S : derived[g] \subseteq S)
                          => \E g \in S : Invalidated(beliefs, g)
               PROVE  /\ f \in TaintedFacts(beliefs, derived)
                      /\ Loads(beliefs, now) =>
                           "tainted" \in Snapshot(beliefs, derived, {}, now).verify
                      /\ Snapshot(beliefs, derived, {}, now).status = "integrity_issues"
    BY DEF PoisonIsReported
  <2>1. derived \in [Facts -> SUBSET Facts]
    BY DEF OpsInv
  <2>2. /\ Ancestors(derived, f) \subseteq Facts /\ derived[f] \subseteq Ancestors(derived, f)
        /\ \A g \in Ancestors(derived, f) : derived[g] \subseteq Ancestors(derived, f)
    BY <2>1, AncestorsAreClosed
  <2>3. \E g \in Ancestors(derived, f) : Invalidated(beliefs, g)
    BY <2>2
  <2>4. beliefs[f] # NoState /\ beliefs[f].lifecycle \notin Terminal
    BY DEF IsBelieved, Believed, Terminal, ClosingKinds, NoState
  <2>5. f \in TaintedFacts(beliefs, derived)
    BY <2>3, <2>4 DEF TaintedFacts
  <2> DEFINE findings == VerifyLog(beliefs, derived, {}, now)
             snapshot == Snapshot(beliefs, derived, {}, now)
  <2>6. snapshot.verify = findings
    BY DEF Snapshot
  <2>7. \E degraded : snapshot.status = SnapshotStatus(beliefs, findings, degraded)
    BY DEF Snapshot
  <2>8. findings # {} /\ (Loads(beliefs, now) => "tainted" \in findings)
    BY <2>5 DEF VerifyLog, BackendFindings
  <2> HIDE DEF findings, snapshot
  <2>9. snapshot.status = "integrity_issues"
    BY <2>7, <2>8 DEF SnapshotStatus
  <2> QED BY <2>5, <2>6, <2>8, <2>9 DEF snapshot
<1> QED BY <1>1, OpsInvAlways, PTL
=============================================================================
