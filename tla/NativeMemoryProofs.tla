------------------------- MODULE NativeMemoryProofs -------------------------
(***************************************************************************)
(* Proofs about NativeMemory, for any number of commands, lines, facts,    *)
(* edits and crashes, whatever the op layer decides and the files hold.    *)
(***************************************************************************)
EXTENDS NativeMemory, SequenceTheorems, FiniteSetTheorems, WellFoundedInduction, TLAPS

(***************************************************************************)
(* The inductive invariant. What is said of a command is said of its       *)
(* record j, the queue q, the history h and the session pl, so that lemmas *)
(* apply to both ends of a step.                                           *)
(***************************************************************************)
JobFields == {"pc", "kind", "input", "at", "failed", "verdict", "flag", "text"}
HistFields ==
  {"attempted", "accepted", "overtaken", "torn", "edits", "line", "allowed", "appended"}

JobShaped(j) == j = [x \in JobFields |-> j[x]]
HistShaped(h) == h = [x \in HistFields |-> h[x]]

\* The labels at which a command has a current line.
Reading == {"line", "scan", "drain", "decide", "append", "record"}

\* A line behind a capture: accepted, or tried and among its failures.
Behind(l, j, h) == l \in h.accepted \/ (l \in Range(j.failed) /\ l \in h.attempted)

\* A capture: the lines it has passed are accounted for, and what the queue
\* holds it has read or is known to overtake.
Flushes(j, q, h) ==
  /\ j.pc \in Reading \cup {"consume", "write"}
  /\ j.at \in Nat \ {0} /\ j.failed \in Seq(Int)
  /\ Len(j.input) \in Nat /\ DOMAIN j.input = 1..Len(j.input)
  /\ \A i \in DOMAIN j.input : j.input[i].line \in Int
  /\ (j.pc \in Reading) = (j.at <= Len(j.input))
  /\ \A i \in DOMAIN j.input : i < j.at => Behind(j.input[i].line, j, h)
  /\ j.pc = "record" => j.input[j.at].line \in h.accepted
  /\ \A l \in Range(q) : l \in h.overtaken \/ \E i \in DOMAIN j.input : j.input[i].line = l

\* The value about to be decided on was allowed, or its event will be flagged.
Screened(j, pl) ==
  pl.scanner # "none" /\ j.input[j.at].prop.op \in Asserting => j.verdict = "allow" \/ j.flag

Tracks(j, q, h, pl) ==
  /\ JobShaped(j)
  /\ j.kind = "capture" => Flushes(j, q, h)
  /\ j.pc \in {"consume", "write"} => j.kind = "capture"
  /\ j.pc \in {"decide", "append"} => Screened(j, pl)
  /\ j.pc = "record" => Range(j.text) \subseteq h.appended

Setting ==
  /\ plan \in Plans /\ proposed \in Nat /\ queue \in Seq(Int)
  /\ job = [p \in Procs |-> job[p]] /\ HistShaped(hist)

Tracked == \A p \in Procs : Tracks(job[p], queue, hist, plan)

\* UnscannedIsFlagged without what verify reports of it.
Marked ==
  plan.scanner # "none" => \A f \in Facts : hist.line[f] # 0 /\ f \notin hist.allowed => f \in flagged

Inv == Setting /\ Tracked /\ QueueAccounts /\ Marked /\ JournalTellsTruth

\* What a step may add to the history.
Grows(h, h2) ==
  /\ HistShaped(h2)
  /\ h.attempted \subseteq h2.attempted /\ h.accepted \subseteq h2.accepted
  /\ h.overtaken \subseteq h2.overtaken /\ h.torn \subseteq h2.torn
  /\ h.appended \subseteq h2.appended
-----------------------------------------------------------------------------
(* Lemmas about records.                                                   *)

\* A command's record keeps what it says when the history grows.
LEMMA TracksGrows ==
  ASSUME NEW j, NEW q, NEW h, NEW h2, NEW pl, Tracks(j, q, h, pl), Grows(h, h2)
  PROVE  Tracks(j, q, h2, pl)
<1>1. ASSUME j.kind = "capture" PROVE Flushes(j, q, h2)
  <2>1. Flushes(j, q, h)
    BY <1>1 DEF Tracks
  <2> QED BY <2>1 DEF Flushes, Grows, Behind
<1> QED BY <1>1 DEF Tracks, Grows

\* An idle process promises nothing.
LEMMA IdleTracks ==
  ASSUME NEW q, NEW h, NEW pl PROVE Tracks(Idle, q, h, pl)
BY DEF Tracks, Idle, JobShaped, JobFields

\* A history grows by itself and by an attempted line.
LEMMA AttemptGrows ==
  ASSUME HistShaped(hist), NEW p
  PROVE  /\ Grows(hist, hist) /\ Grows(hist, Attempted(p))
         /\ Attempted(p).attempted = hist.attempted \cup {CurrentLine(p)}
         /\ Attempted(p).overtaken = hist.overtaken /\ Attempted(p).torn = hist.torn
         /\ Attempted(p).line = hist.line /\ Attempted(p).allowed = hist.allowed
         /\ Attempted(p).accepted = hist.accepted /\ Attempted(p).appended = hist.appended
BY DEF Grows, HistShaped, HistFields, Attempted

\* A failure is added to the failures.
LEMMA AppendRange ==
  ASSUME NEW s \in Seq(Int), NEW x \in Int
  PROVE  Append(s, x) \in Seq(Int) /\ Range(Append(s, x)) = Range(s) \cup {x}
<1>1. Append(s, x) \in Seq(Int) /\ Len(Append(s, x)) = Len(s) + 1
  OBVIOUS
<1>2. DOMAIN s = 1..Len(s) /\ DOMAIN Append(s, x) = 1..Len(s) + 1
  BY <1>1
<1>3. \A i \in 1..Len(s) : Append(s, x)[i] = s[i]
  OBVIOUS
<1>4. Append(s, x)[Len(s) + 1] = x
  OBVIOUS
<1>5. Len(s) \in Nat
  OBVIOUS
<1>6. ASSUME NEW y \in Range(Append(s, x)) PROVE y \in Range(s) \cup {x}
  <2>1. PICK i \in 1..Len(s) + 1 : y = Append(s, x)[i]
    BY <1>2 DEF Range
  <2>2. CASE i \in 1..Len(s)
    BY <2>1, <2>2, <1>2, <1>3 DEF Range
  <2>3. CASE i = Len(s) + 1
    BY <2>1, <2>3, <1>4
  <2> QED BY <2>2, <2>3, <1>5
<1>7. ASSUME NEW y \in Range(s) \cup {x} PROVE y \in Range(Append(s, x))
  <2>1. CASE y \in Range(s)
    <3>1. PICK i \in 1..Len(s) : y = s[i]
      BY <2>1, <1>2 DEF Range
    <3>2. i \in 1..Len(s) + 1 /\ y = Append(s, x)[i]
      BY <3>1, <1>3, <1>5
    <3> QED BY <3>2, <1>2 DEF Range
  <2>2. CASE y = x
    <3>1. Len(s) + 1 \in 1..Len(s) + 1
      BY <1>5
    <3> QED BY <3>1, <2>2, <1>4, <1>2 DEF Range
  <2> QED BY <2>1, <2>2
<1> QED BY <1>1, <1>6, <1>7

\* A command that passes its line: the record it goes on with.
LEMMA PastFields ==
  ASSUME NEW j, NEW ok \in BOOLEAN, JobShaped(j)
  PROVE  /\ JobShaped(Past(j, ok))
         /\ Past(j, ok).pc = j.pc /\ Past(j, ok).kind = j.kind /\ Past(j, ok).input = j.input
         /\ Past(j, ok).at = j.at + 1
         /\ Past(j, ok).failed = IF ok THEN j.failed ELSE Append(j.failed, j.input[j.at].line)
BY DEF Past, JobShaped, JobFields

LEMMA AtLineFields ==
  ASSUME NEW j, JobShaped(j)
  PROVE  \/ AtLine(j) = Idle /\ j.kind # "capture"
         \/ /\ AtLine(j) = [j EXCEPT !.pc = "line"] /\ j.at <= Len(j.input)
         \/ /\ AtLine(j) = [j EXCEPT !.pc = "consume"] /\ ~(j.at <= Len(j.input))
            /\ j.kind = "capture"
BY DEF AtLine

\* The same with another label.
LEMMA RelabelFields ==
  ASSUME NEW j, NEW pc, JobShaped(j)
  PROVE  LET k == [j EXCEPT !.pc = pc]
         IN /\ JobShaped(k) /\ k.pc = pc /\ k.kind = j.kind /\ k.input = j.input
            /\ k.at = j.at /\ k.failed = j.failed /\ k.text = j.text
            /\ k.verdict = j.verdict /\ k.flag = j.flag
BY DEF JobShaped, JobFields

\* Passing a line that was accepted, or tried in vain, is accounted for.
LEMMA PassingTracks ==
  ASSUME NEW j, NEW q, NEW h, NEW pl, NEW ok \in BOOLEAN,
         Tracks(j, q, h, pl), j.pc \in Reading,
         IF ok THEN j.pc = "record" ELSE j.input[j.at].line \in h.attempted
  PROVE  Tracks(AtLine(Past(j, ok)), q, h, pl)
<1> DEFINE k == Past(j, ok)
<1>1. /\ JobShaped(j) /\ JobShaped(k) /\ k.pc = j.pc /\ k.kind = j.kind /\ k.input = j.input
      /\ k.at = j.at + 1
      /\ k.failed = IF ok THEN j.failed ELSE Append(j.failed, j.input[j.at].line)
  BY PastFields DEF Tracks
<1> HIDE DEF k
<1>2. ASSUME j.kind = "capture"
      PROVE  /\ k.at \in Nat \ {0} /\ k.failed \in Seq(Int)
             /\ Range(j.failed) \subseteq Range(k.failed)
             /\ \A i \in DOMAIN j.input : i < k.at => Behind(j.input[i].line, k, h)
  <2>1. Flushes(j, q, h)
    BY <1>2 DEF Tracks
  <2>2. /\ j.at \in Nat \ {0} /\ j.at \in DOMAIN j.input /\ j.failed \in Seq(Int)
        /\ j.input[j.at].line \in Int /\ DOMAIN j.input \subseteq Nat
    BY <2>1 DEF Flushes
  <2>3. CASE ok
    <3>1. k.failed = j.failed /\ j.input[j.at].line \in h.accepted
      BY <2>1, <2>3, <1>1 DEF Flushes
    <3>2. ASSUME NEW i \in DOMAIN j.input, i < k.at PROVE Behind(j.input[i].line, k, h)
      <4>1. CASE i = j.at
        BY <4>1, <3>1 DEF Behind
      <4>2. CASE i < j.at
        BY <4>2, <3>1, <2>1 DEF Behind, Flushes
      <4> QED BY <4>1, <4>2, <3>2, <2>2, <1>1
    <3> QED BY <3>1, <3>2, <2>2, <1>1
  <2>4. CASE ~ok
    <3>1. k.failed \in Seq(Int) /\ Range(k.failed) = Range(j.failed) \cup {j.input[j.at].line}
      BY <2>2, <2>4, <1>1, AppendRange
    <3>2. ASSUME NEW i \in DOMAIN j.input, i < k.at PROVE Behind(j.input[i].line, k, h)
      <4>1. CASE i = j.at
        BY <4>1, <3>1, <2>4 DEF Behind
      <4>2. CASE i < j.at
        BY <4>2, <3>1, <2>1 DEF Behind, Flushes
      <4> QED BY <4>1, <4>2, <3>2, <2>2, <1>1
    <3> QED BY <3>1, <3>2, <2>2, <1>1
  <2> QED BY <2>3, <2>4
<1>3. CASE AtLine(k) = Idle
  BY <1>3, IdleTracks DEF k
<1>4. ASSUME NEW pc \in {"line", "consume"}, AtLine(k) = [k EXCEPT !.pc = pc],
             (pc = "line") = (k.at <= Len(k.input)), pc = "consume" => k.kind = "capture"
      PROVE  Tracks(AtLine(k), q, h, pl)
  <2> DEFINE m == [k EXCEPT !.pc = pc]
  <2>1. /\ JobShaped(m) /\ m.pc = pc /\ m.kind = k.kind /\ m.input = k.input
        /\ m.at = k.at /\ m.failed = k.failed
    BY <1>1, RelabelFields
  <2> HIDE DEF m
  <2>2. ASSUME m.kind = "capture" PROVE Flushes(m, q, h)
    <3>1. Flushes(j, q, h)
      BY <2>1, <2>2, <1>1 DEF Tracks
    <3>2. \A i \in DOMAIN m.input : i < m.at => Behind(m.input[i].line, m, h)
      BY <2>1, <2>2, <1>1, <1>2 DEF Behind
    <3>3. (pc \in Reading) <=> (pc = "line")
      BY DEF Reading
    <3>4. (m.pc \in Reading) = (m.at <= Len(m.input))
      BY <3>3, <2>1, <1>4
    <3>5. m.pc \in Reading \cup {"consume", "write"} /\ m.pc # "record"
      BY <2>1 DEF Reading
    <3>6. /\ m.at \in Nat \ {0} /\ m.failed \in Seq(Int)
          /\ Len(m.input) \in Nat /\ DOMAIN m.input = 1..Len(m.input)
          /\ \A i \in DOMAIN m.input : m.input[i].line \in Int
          /\ \A l \in Range(q) : l \in h.overtaken \/ \E i \in DOMAIN m.input : m.input[i].line = l
      BY <3>1, <2>1, <2>2, <1>1, <1>2 DEF Flushes
    <3> QED BY <3>2, <3>4, <3>5, <3>6 DEF Flushes
  <2> QED BY <2>1, <2>2, <1>1, <1>4 DEF Tracks, m
<1> QED BY <1>1, <1>3, <1>4, AtLineFields DEF k
-----------------------------------------------------------------------------
(* Steps.                                                                  *)

\* One command goes on with another record and the queue stays as it is.
Moves(p, j2) ==
  /\ job' = [job EXCEPT ![p] = j2]
  /\ queue' = queue /\ proposed' = proposed /\ plan' = plan
  /\ Grows(hist, hist')

\* The facts keep their lines, verdicts and flags.
Unmarked == flagged' = flagged /\ hist'.line = hist.line /\ hist'.allowed = hist.allowed

LEMMA MovesKeeps ==
  ASSUME Inv, NEW p \in Procs, NEW j2, Moves(p, j2), job[p].pc # "write",
         Tracks(j2, queue, hist', plan)
  PROVE  Setting' /\ Tracked' /\ QueueAccounts'
<1>1. \A q \in Procs : job'[q] = IF q = p THEN j2 ELSE job[q]
  BY DEF Inv, Setting, Moves
<1>2. Setting'
  BY DEF Inv, Setting, Moves, Grows
<1>3. Tracked'
  <2>1. ASSUME NEW q \in Procs PROVE Tracks(job'[q], queue', hist', plan')
    <3>1. CASE q = p
      BY <3>1, <1>1 DEF Moves
    <3>2. CASE q # p
      <4>1. Tracks(job[q], queue, hist, plan)
        BY DEF Inv, Tracked
      <4>2. Tracks(job[q], queue, hist', plan)
        BY <4>1, TracksGrows DEF Moves
      <4> QED BY <4>2, <3>2, <1>1 DEF Moves
    <3> QED BY <3>1, <3>2
  <2> QED BY <2>1 DEF Tracked
<1>4. QueueAccounts'
  <2> SUFFICES ASSUME NEW line \in ((1..proposed) \ (hist.overtaken \cup hist.torn))'
               PROVE  \/ line \in Range(queue') \cup hist'.accepted
                      \/ \E q \in Procs : job'[q].pc = "write" /\ line \in Range(Kept(q)')
                      \/ ~plan'.keep_failed /\ line \in hist'.attempted
    BY DEF QueueAccounts
  <2>1. line \in (1..proposed) \ (hist.overtaken \cup hist.torn)
    BY DEF Moves, Grows
  <2>2. \/ line \in Range(queue) \cup hist.accepted
        \/ \E q \in Procs : job[q].pc = "write" /\ line \in Range(Kept(q))
        \/ ~plan.keep_failed /\ line \in hist.attempted
    BY <2>1 DEF Inv, QueueAccounts
  <2>3. ASSUME NEW q \in Procs, job[q].pc = "write", line \in Range(Kept(q))
        PROVE  job'[q].pc = "write" /\ line \in Range(Kept(q)')
    <3>1. job'[q] = job[q]
      BY <2>3, <1>1
    <3>2. Kept(q)' = Kept(q)
      BY <3>1 DEF Kept, Moves
    <3> QED BY <3>1, <3>2, <2>3
  <2> QED BY <2>2, <2>3 DEF Moves, Grows
<1> QED BY <1>2, <1>3, <1>4

LEMMA MovesQuietly ==
  ASSUME Inv, NEW p \in Procs, NEW j2, Moves(p, j2), job[p].pc # "write",
         Tracks(j2, queue, hist', plan), Unmarked,
         \A r \in journal' : r \in journal \/ (r.decision = "admitted" => r \in hist'.appended)
  PROVE  Inv'
<1>1. Setting' /\ Tracked' /\ QueueAccounts'
  BY MovesKeeps
<1>2. Marked'
  BY DEF Inv, Marked, Unmarked, Moves
<1>3. JournalTellsTruth'
  BY DEF Inv, JournalTellsTruth, Moves, Grows
<1> QED BY <1>1, <1>2, <1>3 DEF Inv

\* A line refused, whatever refused it, is kept for the rewrite.
LEMMA RefusedKeeps ==
  ASSUME Inv, NEW p \in Procs, job[p].pc \in Reading,
         Settle(p, FALSE), hist' = Attempted(p), queue' = queue, proposed' = proposed,
         plan' = plan, flagged' = flagged,
         \A r \in journal' : r \in journal \/ (r.decision = "admitted" => r \in hist'.appended)
  PROVE  Inv'
<1> DEFINE j2 == AtLine(Past(job[p], FALSE))
<1>1. HistShaped(hist) /\ Tracks(job[p], queue, hist, plan)
  BY DEF Inv, Setting, Tracked
<1>2. /\ Grows(hist, hist') /\ CurrentLine(p) \in hist'.attempted
      /\ hist'.line = hist.line /\ hist'.allowed = hist.allowed
  BY <1>1, AttemptGrows
<1>3. Tracks(job[p], queue, hist', plan)
  BY <1>1, <1>2, TracksGrows
<1>4. Tracks(j2, queue, hist', plan)
  BY <1>2, <1>3, PassingTracks DEF CurrentLine
<1>5. Moves(p, j2) /\ Unmarked
  BY <1>2 DEF Moves, Unmarked, Settle
<1>6. job[p].pc # "write"
  BY DEF Reading
<1> QED BY <1>4, <1>5, <1>6, MovesQuietly

\* A command that stays at its line.
LEMMA OnTheSameLine ==
  ASSUME NEW j, NEW k, NEW q, NEW h, NEW pl, Tracks(j, q, h, pl), j.pc \in Reading,
         JobShaped(k), k.pc \in Reading, k.kind = j.kind, k.input = j.input, k.at = j.at,
         k.failed = j.failed,
         k.pc \in {"decide", "append"} => Screened(k, pl),
         k.pc = "record" => Range(k.text) \subseteq h.appended /\ k.input[k.at].line \in h.accepted
  PROVE  Tracks(k, q, h, pl)
<1>1. ASSUME k.kind = "capture" PROVE Flushes(k, q, h)
  <2>1. Flushes(j, q, h)
    BY <1>1 DEF Tracks
  <2> QED BY <2>1 DEF Flushes, Behind
<1>2. k.pc \notin {"consume", "write"}
  BY DEF Reading
<1> QED BY <1>1, <1>2 DEF Tracks

\* apply_proposal and the op layer up to the decision.
LEMMA EnteringKeeps ==
  ASSUME Inv, NEW p \in Procs, EnterOp(p)
  PROVE  Inv'
<1>1. HistShaped(hist) /\ Tracks(job[p], queue, hist, plan) /\ job = [q \in Procs |-> job[q]]
  BY DEF Inv, Setting, Tracked
<1>2. /\ job[p].pc = "line" /\ queue' = queue /\ proposed' = proposed /\ plan' = plan
      /\ flagged' = flagged /\ journal' = journal
  BY DEF EnterOp, files
<1>3. CASE Settle(p, FALSE) /\ hist' = Attempted(p)
  BY <1>2, <1>3, RefusedKeeps DEF Reading
<1> DEFINE scans == plan.scanner # "none" /\ Current(p).op \in Asserting
           pc == IF scans THEN "scan" ELSE "decide"
           k == [job[p] EXCEPT !.pc = pc]
<1>4. CASE hist' = hist /\ job' = [job EXCEPT ![p].pc = pc]
  <2>1. job' = [job EXCEPT ![p] = k]
    BY <1>4, <1>1
  <2>2. /\ JobShaped(k) /\ k.pc = pc /\ k.kind = job[p].kind /\ k.input = job[p].input
        /\ k.at = job[p].at /\ k.failed = job[p].failed
    BY <1>1, RelabelFields DEF Tracks
  <2>3. k.pc \in Reading /\ k.pc # "record" /\ job[p].pc \in Reading /\ job[p].pc # "write"
    BY <2>2, <1>2 DEF Reading
  <2>4. k.pc \in {"decide", "append"} => Screened(k, plan)
    BY <2>2 DEF Screened, Current
  <2>5. Tracks(k, queue, hist, plan)
    <3> HIDE DEF k
    <3> QED BY <2>2, <2>3, <2>4, <1>1, OnTheSameLine
  <2>6. Moves(p, k) /\ Unmarked
    BY <2>1, <1>1, <1>2, <1>4, AttemptGrows DEF Moves, Unmarked
  <2> HIDE DEF k
  <2> QED BY <2>3, <2>5, <2>6, <1>2, <1>4, MovesQuietly
<1> QED BY <1>3, <1>4 DEF EnterOp

\* The scanner answers, fails or leaves a child behind.
LEMMA ScanningKeeps ==
  ASSUME Inv, NEW p \in Procs,
         \/ ScanFails(p) \/ ScannerLeavesOrphan(p)
         \/ \E verdict \in {"allow", "taint", "reject"} : ScannerAnswers(p, verdict)
  PROVE  Inv'
<1>1. HistShaped(hist) /\ Tracks(job[p], queue, hist, plan) /\ job = [q \in Procs |-> job[q]]
  BY DEF Inv, Setting, Tracked
<1>2. /\ job[p].pc \in {"scan", "drain"} /\ queue' = queue /\ proposed' = proposed
      /\ plan' = plan /\ flagged' = flagged /\ journal' = journal
  BY DEF ScanFails, ScannerLeavesOrphan, ScannerAnswers, files
<1>3. CASE Settle(p, FALSE) /\ hist' = Attempted(p)
  BY <1>2, <1>3, RefusedKeeps DEF Reading
<1>4. ASSUME NEW k, job' = [job EXCEPT ![p] = k], hist' = hist, JobShaped(k),
             k.kind = job[p].kind, k.input = job[p].input, k.at = job[p].at,
             k.failed = job[p].failed,
             k.pc = "drain" \/ (k.pc = "decide" /\ (k.verdict = "allow" \/ k.flag))
      PROVE  Inv'
  <2>1. k.pc \in Reading /\ k.pc # "record" /\ job[p].pc \in Reading /\ job[p].pc # "write"
    BY <1>2, <1>4 DEF Reading
  <2>2. k.pc \in {"decide", "append"} => Screened(k, plan)
    BY <1>4 DEF Screened
  <2>3. Tracks(k, queue, hist, plan)
    BY <2>1, <2>2, <1>1, <1>4, OnTheSameLine
  <2>4. Moves(p, k) /\ Unmarked
    BY <1>1, <1>2, <1>4, AttemptGrows DEF Moves, Unmarked
  <2> QED BY <2>1, <2>3, <2>4, <1>2, <1>4, MovesQuietly
<1>5. ASSUME NEW verdict \in {"allow", "taint"}, hist' = hist,
             job' = [job EXCEPT ![p].pc = "decide", ![p].verdict = verdict,
                                ![p].flag = verdict = "taint"]
      PROVE  Inv'
  <2> DEFINE k == [job[p] EXCEPT !.pc = "decide", !.verdict = verdict, !.flag = (verdict = "taint")]
  <2>1. job' = [job EXCEPT ![p] = k]
    BY <1>5, <1>1
  <2>2. JobShaped(job[p])
    BY <1>1 DEF Tracks
  <2>3. /\ JobShaped(k) /\ k.kind = job[p].kind /\ k.input = job[p].input
        /\ k.at = job[p].at /\ k.failed = job[p].failed /\ k.pc = "decide" /\ k.verdict = verdict
    BY <2>2 DEF JobShaped, JobFields
  <2>4. k.flag = (verdict = "taint")
    BY <2>2 DEF JobShaped, JobFields
  <2>5. k.verdict = "allow" \/ k.flag
    BY <2>3, <2>4
  <2> HIDE DEF k
  <2> QED BY <2>1, <2>3, <2>5, <1>4, <1>5
<1>6. CASE hist' = hist /\ job' = [job EXCEPT ![p].pc = "decide", ![p].flag = TRUE]
  <2> DEFINE k == [job[p] EXCEPT !.pc = "decide", !.flag = TRUE]
  <2>1. job' = [job EXCEPT ![p] = k]
    BY <1>6, <1>1
  <2>2. JobShaped(job[p])
    BY <1>1 DEF Tracks
  <2>3. /\ JobShaped(k) /\ k.kind = job[p].kind /\ k.input = job[p].input
        /\ k.at = job[p].at /\ k.failed = job[p].failed /\ k.pc = "decide"
    BY <2>2 DEF JobShaped, JobFields
  <2>4. k.flag = TRUE
    BY <2>2 DEF JobShaped, JobFields
  <2> HIDE DEF k
  <2> QED BY <2>1, <2>3, <2>4, <1>4, <1>6
<1>7. CASE hist' = hist /\ job' = [job EXCEPT ![p].pc = "drain"]
  <2> DEFINE k == [job[p] EXCEPT !.pc = "drain"]
  <2>1. job' = [job EXCEPT ![p] = k]
    BY <1>7, <1>1
  <2>2. JobShaped(job[p])
    BY <1>1 DEF Tracks
  <2>3. /\ JobShaped(k) /\ k.kind = job[p].kind /\ k.input = job[p].input
        /\ k.at = job[p].at /\ k.failed = job[p].failed /\ k.pc = "drain"
    BY <2>2, RelabelFields
  <2> HIDE DEF k
  <2> QED BY <2>1, <2>3, <1>4, <1>7
<1>8. ASSUME NEW verdict \in {"allow", "taint", "reject"}, ScannerAnswers(p, verdict) PROVE Inv'
  <2>1. CASE verdict = "reject"
    BY <2>1, <1>3, <1>8 DEF ScannerAnswers
  <2>2. CASE verdict # "reject"
    BY <2>2, <1>5, <1>8 DEF ScannerAnswers
  <2> QED BY <2>1, <2>2
<1>9. CASE ScanFails(p)
  BY <1>9, <1>3, <1>6 DEF ScanFails
<1>10. CASE ScannerLeavesOrphan(p)
  BY <1>10, <1>7 DEF ScannerLeavesOrphan
<1> QED BY <1>8, <1>9, <1>10

\* Policy and arbitration.
LEMMA DecidingKeeps ==
  ASSUME Inv, NEW p \in Procs, Decide(p)
  PROVE  Inv'
<1>1. HistShaped(hist) /\ Tracks(job[p], queue, hist, plan) /\ job = [q \in Procs |-> job[q]]
  BY DEF Inv, Setting, Tracked
<1>2. /\ job[p].pc = "decide" /\ queue' = queue /\ proposed' = proposed /\ plan' = plan
      /\ flagged' = flagged
  BY DEF Decide, files
<1>3. CASE /\ Settle(p, FALSE) /\ hist' = Attempted(p)
           /\ journal' \in {journal, journal \cup {JournalRecord(p, "rejected")}}
  <2>1. \A r \in journal' : r \in journal \/ r.decision # "admitted"
    BY <1>3 DEF JournalRecord
  <2> QED BY <2>1, <1>2, <1>3, RefusedKeeps DEF Reading
<1>4. CASE hist' = hist /\ journal' = journal /\ job' = [job EXCEPT ![p].pc = "append"]
  <2> DEFINE k == [job[p] EXCEPT !.pc = "append"]
  <2>1. job' = [job EXCEPT ![p] = k]
    BY <1>4, <1>1
  <2>2. JobShaped(job[p]) /\ Screened(job[p], plan)
    BY <1>1, <1>2 DEF Tracks
  <2>3. /\ JobShaped(k) /\ k.pc = "append" /\ k.kind = job[p].kind /\ k.input = job[p].input
        /\ k.at = job[p].at /\ k.failed = job[p].failed
        /\ k.verdict = job[p].verdict /\ k.flag = job[p].flag
    BY <2>2, RelabelFields
  <2> HIDE DEF k
  <2>4. Screened(k, plan)
    BY <2>2, <2>3 DEF Screened
  <2>5. k.pc \in Reading /\ k.pc # "record" /\ job[p].pc \in Reading /\ job[p].pc # "write"
    BY <2>3, <1>2 DEF Reading
  <2>6. Tracks(k, queue, hist, plan)
    BY <2>3, <2>4, <2>5, <1>1, OnTheSameLine
  <2>7. Moves(p, k) /\ Unmarked
    BY <2>1, <1>1, <1>2, <1>4, AttemptGrows DEF Moves, Unmarked
  <2> QED BY <2>5, <2>6, <2>7, <1>2, <1>4, MovesQuietly
<1> QED BY <1>3, <1>4 DEF Decide

\* The batch is written: its line is accepted, its fact marked if it must be,
\* and the record to be journalled is one of an appended event.
LEMMA AppendingKeeps ==
  ASSUME Inv, NEW p \in Procs, AppendBatch(p)
  PROVE  Inv'
<1>1. HistShaped(hist) /\ Tracks(job[p], queue, hist, plan) /\ job = [q \in Procs |-> job[q]]
  BY DEF Inv, Setting, Tracked
<1> DEFINE r == JournalRecord(p, "admitted")
           k == [job[p] EXCEPT !.pc = "record", !.text = <<r>>]
           marks == IF job[p].verdict = "allow" THEN hist.allowed \cup Asserted(p) ELSE hist.allowed
           lines == [f \in Facts |-> IF f \in Asserted(p) THEN CurrentLine(p) ELSE hist.line[f]]
<1>2. /\ job[p].pc = "append" /\ queue' = queue /\ proposed' = proposed /\ plan' = plan
      /\ journal' = journal /\ job' = [job EXCEPT ![p].pc = "record", ![p].text = <<r>>]
      /\ flagged' = IF job[p].flag THEN flagged \cup Asserted(p) ELSE flagged
  BY DEF AppendBatch, files
<1>3. /\ HistShaped(hist')
      /\ hist'.attempted = hist.attempted \cup {CurrentLine(p)}
      /\ hist'.accepted = hist.accepted \cup {CurrentLine(p)}
      /\ hist'.overtaken = hist.overtaken /\ hist'.torn = hist.torn
      /\ hist'.appended = hist.appended \cup {r}
      /\ hist'.line = lines /\ hist'.allowed = marks
  <2> DEFINE a == Attempted(p)
  <2>1. /\ HistShaped(a) /\ a.attempted = hist.attempted \cup {CurrentLine(p)}
        /\ a.accepted = hist.accepted /\ a.overtaken = hist.overtaken /\ a.torn = hist.torn
        /\ a.line = hist.line /\ a.allowed = hist.allowed /\ a.appended = hist.appended
    BY <1>1, AttemptGrows DEF Grows
  <2>2. hist' = [a EXCEPT !.accepted = @ \cup {CurrentLine(p)},
                   !.line = [f \in Facts |-> IF f \in Asserted(p) THEN CurrentLine(p) ELSE @[f]],
                   !.allowed = IF job[p].verdict = "allow" THEN @ \cup Asserted(p) ELSE @,
                   !.appended = @ \cup {r}]
    BY DEF AppendBatch
  <2> HIDE DEF a, r
  <2>3. hist' = [a EXCEPT !.accepted = a.accepted \cup {CurrentLine(p)},
                   !.line = lines, !.allowed = marks, !.appended = a.appended \cup {r}]
    BY <2>1, <2>2
  <2> HIDE DEF lines, marks
  <2> QED BY <2>1, <2>3 DEF HistShaped, HistFields
<1>4. Grows(hist, hist')
  BY <1>3 DEF Grows
<1>5. job' = [job EXCEPT ![p] = k]
  BY <1>1, <1>2
<1>6. JobShaped(job[p]) /\ Screened(job[p], plan)
  BY <1>1, <1>2 DEF Tracks
<1>7. /\ JobShaped(k) /\ k.pc = "record" /\ k.kind = job[p].kind /\ k.input = job[p].input
      /\ k.at = job[p].at /\ k.failed = job[p].failed /\ k.text = <<r>>
  <2> HIDE DEF r
  <2> QED BY <1>6 DEF JobShaped, JobFields
<1>8. Range(k.text) \subseteq hist'.appended
  <2> HIDE DEF r, k
  <2>1. Range(<<r>>) = {r}
    BY DEF Range
  <2> QED BY <2>1, <1>3, <1>7
<1>9. k.input[k.at].line \in hist'.accepted
  BY <1>3, <1>7 DEF CurrentLine
<1> HIDE DEF k
<1>10. Tracks(job[p], queue, hist', plan)
  BY <1>1, <1>4, TracksGrows
<1>11. k.pc \in Reading /\ k.pc \notin {"decide", "append"} /\ job[p].pc \in Reading
       /\ job[p].pc # "write"
  BY <1>2, <1>7 DEF Reading
<1>12. Tracks(k, queue, hist', plan)
  BY <1>7, <1>8, <1>9, <1>10, <1>11, OnTheSameLine
<1>13. Moves(p, k)
  BY <1>2, <1>4, <1>5 DEF Moves
<1>14. Setting' /\ Tracked' /\ QueueAccounts'
  BY <1>11, <1>12, <1>13, MovesKeeps
<1>15. JournalTellsTruth'
  BY <1>2, <1>4 DEF Inv, JournalTellsTruth, Grows
<1>16. Marked'
  <2> SUFFICES ASSUME plan.scanner # "none", NEW f \in Facts, hist'.line[f] # 0, f \notin hist'.allowed
               PROVE  f \in flagged'
    BY <1>2 DEF Marked
  <2>1. CASE f \in Asserted(p)
    <3>1. job[p].verdict # "allow"
      BY <2>1, <1>3
    <3>2. Current(p).op \in Asserting
      BY <2>1 DEF Asserted
    <3>3. job[p].flag
      BY <3>1, <3>2, <1>6 DEF Screened, Current
    <3> QED BY <3>3, <2>1, <1>2
  <2>2. CASE f \notin Asserted(p)
    <3>1. hist.line[f] # 0 /\ f \notin hist.allowed
      BY <2>2, <1>3
    <3>2. f \in flagged
      BY <3>1 DEF Inv, Marked
    <3> QED BY <3>2, <1>2
  <2> QED BY <2>1, <2>2
<1> QED BY <1>14, <1>15, <1>16 DEF Inv

\* EvalCapture::admitted, and the next line.
LEMMA RecordingKeeps ==
  ASSUME Inv, NEW p \in Procs, RecordAdmitted(p)
  PROVE  Inv'
<1> DEFINE j2 == AtLine(Past(job[p], TRUE))
<1>1. HistShaped(hist) /\ Tracks(job[p], queue, hist, plan)
  BY DEF Inv, Setting, Tracked
<1>2. /\ job[p].pc = "record" /\ queue' = queue /\ proposed' = proposed /\ plan' = plan
      /\ flagged' = flagged /\ hist' = hist /\ job' = [job EXCEPT ![p] = j2]
      /\ journal' = journal \cup Range(job[p].text)
  BY DEF RecordAdmitted, Settle, files
<1>3. Range(job[p].text) \subseteq hist.appended
  BY <1>1, <1>2 DEF Tracks
<1>4. Tracks(j2, queue, hist', plan)
  BY <1>1, <1>2, PassingTracks DEF Reading
<1>5. Moves(p, j2) /\ Unmarked
  BY <1>1, <1>2, AttemptGrows DEF Moves, Unmarked
<1> HIDE DEF j2
<1> QED BY <1>2, <1>3, <1>4, <1>5, MovesQuietly

\* A process that starts or ends takes a record that tracks.
LEMMA BeginOrEndKeeps ==
  ASSUME Inv, NEW p \in Procs, NEW j2, job' = [job EXCEPT ![p] = j2], job[p].pc # "write",
         Tracks(j2, queue, hist, plan),
         queue' = queue, proposed' = proposed, plan' = plan, hist' = hist,
         flagged' = flagged, journal' = journal
  PROVE  Inv'
<1>1. HistShaped(hist)
  BY DEF Inv, Setting
<1>2. Moves(p, j2) /\ Unmarked
  BY <1>1, AttemptGrows DEF Moves, Unmarked
<1> QED BY <1>2, MovesQuietly

\* read_proposals: everything in the queue is read.
LEMMA CapturingKeeps ==
  ASSUME Inv, NEW p \in Procs, CaptureRead(p)
  PROVE  Inv'
<1> DEFINE input == [i \in DOMAIN queue |-> [line |-> queue[i], prop |-> plan.lines[queue[i]]]]
           k == [Idle EXCEPT !.kind = "capture", !.input = input, !.at = 1]
<1>1. queue \in Seq(Int) /\ Len(queue) \in Nat /\ DOMAIN queue = 1..Len(queue)
  BY DEF Inv, Setting
<1>2. /\ DOMAIN input = 1..Len(queue) /\ Len(input) = Len(queue)
      /\ \A i \in DOMAIN input : input[i].line = queue[i] /\ input[i].line \in Int
  <2>1. DOMAIN input = 1..Len(queue) /\ \A i \in DOMAIN input : input[i].line = queue[i]
    BY <1>1
  <2>2. \A i \in 1..Len(queue) : queue[i] \in Int
    BY <1>1
  <2>3. Len(input) = Len(queue)
    <3> DEFINE S == {input[i] : i \in 1..Len(queue)}
    <3>1. input \in [1..Len(queue) -> S]
      BY <1>1
    <3> HIDE DEF input, S
    <3>2. input \in Seq(S)
      BY <3>1, <1>1
    <3> QED BY <3>1, <3>2, <1>1
  <2> HIDE DEF input
  <2> QED BY <2>1, <2>2, <2>3
<1>3. job[p].pc = "idle" /\ job' = [job EXCEPT ![p] = AtLine(k)]
  BY DEF CaptureRead, Start
<1> HIDE DEF input
<1>4. /\ JobShaped(k) /\ k.kind = "capture" /\ k.input = input /\ k.at = 1
      /\ k.failed = <<>>
  BY DEF Idle, JobShaped, JobFields
<1> HIDE DEF k
<1>5. ASSUME NEW pc \in {"line", "consume"}, AtLine(k) = [k EXCEPT !.pc = pc],
             (pc = "line") <=> (k.at <= Len(k.input))
      PROVE  Tracks(AtLine(k), queue, hist, plan)
  <2> DEFINE m == [k EXCEPT !.pc = pc]
  <2>0. /\ JobShaped(m) /\ m.pc = pc /\ m.kind = k.kind /\ m.input = k.input
        /\ m.at = k.at /\ m.failed = k.failed
    <3>1. k = [x \in JobFields |-> k[x]]
      BY <1>4 DEF JobShaped
    <3>2. m = [x \in JobFields |-> IF x = "pc" THEN pc ELSE k[x]]
      BY <3>1 DEF JobFields
    <3> HIDE DEF m
    <3> QED BY <3>2 DEF JobShaped, JobFields
  <2>1. /\ JobShaped(m) /\ m.pc = pc /\ m.kind = "capture" /\ m.input = input
        /\ m.at = 1 /\ m.failed = <<>>
    BY <2>0, <1>4
  <2> HIDE DEF m
  <2>2. (pc \in Reading) <=> (pc = "line")
    BY DEF Reading
  <2>3. (m.pc \in Reading) = (m.at <= Len(m.input))
    BY <2>1, <2>2, <1>4, <1>5
  <2>4. m.pc \in Reading \cup {"consume", "write"} /\ m.pc # "record"
    BY <2>1 DEF Reading
  <2>5. \A l \in Range(queue) : \E i \in DOMAIN m.input : m.input[i].line = l
    BY <2>1, <1>1, <1>2 DEF Range
  <2>6. /\ m.at \in Nat \ {0} /\ m.failed \in Seq(Int)
        /\ Len(m.input) \in Nat /\ DOMAIN m.input = 1..Len(m.input)
        /\ \A i \in DOMAIN m.input : m.input[i].line \in Int
        /\ \A i \in DOMAIN m.input : ~(i < m.at)
    BY <2>1, <1>1, <1>2
  <2>7. Flushes(m, queue, hist)
    BY <2>3, <2>4, <2>5, <2>6 DEF Flushes
  <2> QED BY <2>1, <2>7, <1>5 DEF Tracks, m
<1>6. Tracks(AtLine(k), queue, hist, plan)
  BY <1>4, <1>5, AtLineFields
<1> QED BY <1>3, <1>6, BeginOrEndKeeps DEF CaptureRead, Start, files

\* An import, whatever the file holds.
LEMMA ImportingKeeps ==
  ASSUME Inv, NEW p \in Procs, ImportRead(p)
  PROVE  Inv'
<1> DEFINE input == [i \in DOMAIN ImportFile(file) |-> [line |-> -1, prop |-> ImportFile(file)[i]]]
           k == [Idle EXCEPT !.kind = "import", !.input = input, !.at = 1]
<1>1. job[p].pc = "idle" /\ job' = [job EXCEPT ![p] = AtLine(k)]
  BY DEF ImportRead, Start
<1> HIDE DEF input
<1>2. JobShaped(k) /\ k.kind = "import"
  BY DEF Idle, JobShaped, JobFields
<1> HIDE DEF k
<1>3. Tracks(AtLine(k), queue, hist, plan)
  <2>1. CASE AtLine(k) = Idle
    BY <2>1, IdleTracks
  <2>2. CASE AtLine(k) = [k EXCEPT !.pc = "line"]
    <3>1. JobShaped(AtLine(k)) /\ AtLine(k).pc = "line" /\ AtLine(k).kind = "import"
      BY <2>2, <1>2, RelabelFields
    <3> QED BY <3>1 DEF Tracks
  <2> QED BY <2>1, <2>2, <1>2, AtLineFields
<1> QED BY <1>1, <1>3, BeginOrEndKeeps DEF ImportRead, Start, files

\* An export, and the process's end.
LEMMA ExportingKeeps ==
  ASSUME Inv, NEW p \in Procs,
         ExportRead(p) \/ ExportSplice(p) \/ ExportTruncate(p) \/ ExportFill(p)
  PROVE  Inv'
<1>1. /\ queue' = queue /\ proposed' = proposed /\ plan' = plan /\ hist' = hist
      /\ flagged' = flagged /\ journal' = journal
      /\ job[p].pc \in {"idle", "splice", "truncate", "fill"}
  BY DEF ExportRead, ExportSplice, ExportTruncate, ExportFill, files
<1>2. Tracks(job[p], queue, hist, plan) /\ job = [q \in Procs |-> job[q]]
  BY DEF Inv, Setting, Tracked
<1>3. JobShaped(job[p]) /\ job[p].kind # "capture"
  BY <1>1, <1>2 DEF Tracks, Flushes, Reading
<1>4. ASSUME NEW k, job' = [job EXCEPT ![p] = k], JobShaped(k), k.kind # "capture",
             k.pc \in {"splice", "truncate", "fill"}
      PROVE  Inv'
  <2>1. Tracks(k, queue, hist, plan)
    BY <1>4 DEF Tracks
  <2> QED BY <2>1, <1>1, <1>4, BeginOrEndKeeps
<1>5. CASE job' = [job EXCEPT ![p] = Idle]
  BY <1>1, <1>5, IdleTracks, BeginOrEndKeeps
<1>6. CASE ExportRead(p)
  <2> DEFINE text == RenderBlock(PackLines)
             k == [Idle EXCEPT !.pc = "splice", !.kind = "export", !.text = text]
  <2>1. job' = [job EXCEPT ![p] = k]
    BY <1>6 DEF ExportRead
  <2> HIDE DEF text
  <2>2. JobShaped(k) /\ k.kind # "capture" /\ k.pc = "splice"
    BY DEF Idle, JobShaped, JobFields
  <2> HIDE DEF k
  <2> QED BY <2>1, <2>2, <1>4
<1>7. CASE ExportSplice(p)
  <2> DEFINE spliced == Splice(file, job[p].text)
             k == [job[p] EXCEPT !.pc = "truncate", !.text = spliced.file]
  <2>1. job' = [job EXCEPT ![p] = IF spliced.ok THEN k ELSE Idle]
    BY <1>7, <1>2 DEF ExportSplice
  <2> HIDE DEF spliced
  <2>2. JobShaped(k) /\ k.kind # "capture" /\ k.pc = "truncate"
    BY <1>3 DEF JobShaped, JobFields
  <2> HIDE DEF k
  <2> QED BY <2>1, <2>2, <1>4, <1>5
<1>8. CASE ExportTruncate(p)
  <2> DEFINE k == [job[p] EXCEPT !.pc = "fill"]
  <2>1. job' = [job EXCEPT ![p] = k]
    BY <1>8, <1>2 DEF ExportTruncate
  <2>2. JobShaped(k) /\ k.kind # "capture" /\ k.pc = "fill"
    BY <1>3, RelabelFields
  <2> HIDE DEF k
  <2> QED BY <2>1, <2>2, <1>4
<1>9. CASE ExportFill(p)
  BY <1>9, <1>5 DEF ExportFill
<1> QED BY <1>6, <1>7, <1>8, <1>9

\* A capture at the end of its input: what the queue holds may be dropped. It
\* is overtaken, accepted, attempted, or will be written back.
LEMMA NothingIsDropped ==
  ASSUME Inv, NEW p \in Procs, job[p].pc \in {"consume", "write"},
         NEW line \in Range(queue), line \notin hist.overtaken, line \notin hist.accepted
  PROVE  /\ line \in hist.attempted
         /\ plan.keep_failed => line \in Range(Kept(p))
<1> DEFINE j == job[p]
<1>1. Flushes(j, queue, hist)
  BY DEF Inv, Tracked, Tracks
<1>2. j.pc \notin Reading
  BY DEF Reading
<1>3. PICK i \in DOMAIN j.input : j.input[i].line = line
  BY <1>1 DEF Flushes
<1>4. i < j.at
  BY <1>1, <1>2 DEF Flushes
<1>5. Behind(line, j, hist)
  BY <1>1, <1>3, <1>4 DEF Flushes
<1> QED BY <1>5 DEF Behind, Kept

\* The truncated queue holds nothing a command must have read.
LEMMA EmptyQueueTracks ==
  ASSUME NEW j, NEW q, NEW h, NEW pl, Tracks(j, q, h, pl)
  PROVE  Tracks(j, <<>>, h, pl)
<1>1. Range(<<>>) = {}
  BY DEF Range
<1>2. ASSUME j.kind = "capture" PROVE Flushes(j, <<>>, h)
  <2>1. Flushes(j, q, h)
    BY <1>2 DEF Tracks
  <2> QED BY <2>1, <1>1 DEF Flushes
<1> QED BY <1>2 DEF Tracks

LEMMA TruncatingKeeps ==
  ASSUME Inv, NEW p \in Procs, ConsumeTruncate(p)
  PROVE  Inv'
<1> DEFINE k == [job[p] EXCEPT !.pc = "write"]
<1>1. /\ job[p].pc = "consume" /\ queue' = <<>> /\ proposed' = proposed /\ plan' = plan
      /\ hist' = hist /\ flagged' = flagged /\ journal' = journal
  BY DEF ConsumeTruncate
<1>2. job' = [job EXCEPT ![p] = IF proposed = 0 THEN Idle ELSE k]
  BY DEF ConsumeTruncate
<1>3. \A q \in Procs : Tracks(job[q], queue, hist, plan)
  BY DEF Inv, Tracked
<1>4. Setting'
  <2>1. <<>> \in Seq(Int)
    OBVIOUS
  <2>2. ASSUME NEW j2, job' = [job EXCEPT ![p] = j2] PROVE job' = [q \in Procs |-> job'[q]]
    BY <2>2 DEF Inv, Setting
  <2> QED BY <2>1, <2>2, <1>1, <1>2 DEF Inv, Setting
<1>5. \A q \in Procs : job'[q] = IF q # p THEN job[q] ELSE IF proposed = 0 THEN Idle ELSE k
  BY <1>2 DEF Inv, Setting
<1>6. JobShaped(job[p]) /\ job[p].kind = "capture" /\ Flushes(job[p], queue, hist)
  BY <1>1, <1>3 DEF Tracks
<1>7. /\ JobShaped(k) /\ k.pc = "write" /\ k.kind = job[p].kind /\ k.input = job[p].input
      /\ k.at = job[p].at /\ k.failed = job[p].failed
  BY <1>6, RelabelFields
<1> HIDE DEF k
<1>8. Tracks(k, queue, hist, plan)
  <2>1. job[p].pc \notin Reading /\ k.pc \notin Reading
    BY <1>1, <1>7 DEF Reading
  <2>2. (k.pc \in Reading) = (k.at <= Len(k.input))
    BY <2>1, <1>6, <1>7 DEF Flushes
  <2>3. \A i \in DOMAIN k.input : i < k.at => Behind(k.input[i].line, k, hist)
    BY <1>6, <1>7 DEF Flushes, Behind
  <2>4. Flushes(k, queue, hist)
    BY <2>2, <2>3, <1>6, <1>7 DEF Flushes
  <2> QED BY <2>4, <1>6, <1>7 DEF Tracks
<1>9. Tracked'
  <2>1. ASSUME NEW q \in Procs PROVE Tracks(job'[q], queue, hist, plan)
    BY <1>3, <1>5, <1>8, IdleTracks
  <2> QED BY <2>1, <1>1, EmptyQueueTracks DEF Tracked
<1>10. QueueAccounts'
  <2> SUFFICES ASSUME NEW line \in (1..proposed) \ (hist.overtaken \cup hist.torn),
                      line \notin hist.accepted, plan.keep_failed \/ line \notin hist.attempted
               PROVE  \E q \in Procs : job'[q].pc = "write" /\ line \in Range(Kept(q)')
    BY <1>1 DEF QueueAccounts
  <2>1. \/ line \in Range(queue)
        \/ \E q \in Procs : job[q].pc = "write" /\ line \in Range(Kept(q))
    BY DEF Inv, QueueAccounts
  <2>2. CASE line \in Range(queue)
    <3>1. line \in hist.attempted /\ (plan.keep_failed => line \in Range(Kept(p)))
      BY <2>2, <1>1, NothingIsDropped
    <3>2. proposed # 0
      BY DEF Inv, Setting
    <3>3. job'[p].pc = "write" /\ job'[p].failed = job[p].failed
      BY <3>2, <1>5, <1>7
    <3>4. Kept(p)' = Kept(p)
      BY <3>3, <1>1 DEF Kept
    <3> QED BY <3>1, <3>3, <3>4
  <2>3. ASSUME NEW q \in Procs, job[q].pc = "write", line \in Range(Kept(q))
        PROVE  job'[q].pc = "write" /\ line \in Range(Kept(q)')
    <3>1. job'[q] = job[q]
      BY <2>3, <1>1, <1>5
    <3>2. Kept(q)' = Kept(q)
      BY <3>1, <1>1 DEF Kept
    <3> QED BY <3>1, <3>2, <2>3
  <2> QED BY <2>1, <2>2, <2>3
<1>11. Marked' /\ JournalTellsTruth'
  BY <1>1 DEF Inv, Marked, JournalTellsTruth
<1> QED BY <1>4, <1>9, <1>10, <1>11 DEF Inv

\* Lines put into the queue are read by a capture under way, or overtaken.
LEMMA QueuedTracks ==
  ASSUME NEW j, NEW q, NEW q2, NEW h, NEW h2, NEW pl, Tracks(j, q, h, pl), Grows(h, h2),
         j.kind = "capture" =>
           \A l \in Range(q2) : \/ l \in Range(q) \/ l \in h2.overtaken
                                \/ \E i \in DOMAIN j.input : j.input[i].line = l
  PROVE  Tracks(j, q2, h2, pl)
<1>1. Tracks(j, q, h2, pl)
  BY TracksGrows
<1>2. ASSUME j.kind = "capture" PROVE Flushes(j, q2, h2)
  <2>1. Flushes(j, q, h2)
    BY <1>1, <1>2 DEF Tracks
  <2>2. \A l \in Range(q2) : l \in h2.overtaken \/ \E i \in DOMAIN j.input : j.input[i].line = l
    BY <2>1, <1>2 DEF Flushes
  <2> QED BY <2>1, <2>2 DEF Flushes
<1> QED BY <1>1, <1>2 DEF Tracks

LEMMA OvertakenGrows ==
  ASSUME HistShaped(hist), NEW lines,
         hist' = [hist EXCEPT !.overtaken = @ \cup Overtaken(lines)]
  PROVE  /\ Grows(hist, hist') /\ hist'.overtaken = hist.overtaken \cup Overtaken(lines)
         /\ hist'.torn = hist.torn /\ hist'.accepted = hist.accepted
         /\ hist'.attempted = hist.attempted /\ hist'.line = hist.line
         /\ hist'.allowed = hist.allowed /\ hist'.appended = hist.appended
<1> DEFINE new == hist.overtaken \cup Overtaken(lines)
<1>1. hist' = [hist EXCEPT !.overtaken = new]
  OBVIOUS
<1> HIDE DEF new
<1>2. /\ HistShaped(hist') /\ hist'.overtaken = new
      /\ hist'.torn = hist.torn /\ hist'.accepted = hist.accepted
      /\ hist'.attempted = hist.attempted /\ hist'.line = hist.line
      /\ hist'.allowed = hist.allowed /\ hist'.appended = hist.appended
  BY <1>1 DEF HistShaped, HistFields
<1> QED BY <1>2 DEF Grows, new

LEMMA RewritingKeeps ==
  ASSUME Inv, NEW p \in Procs, ConsumeWrite(p)
  PROVE  Inv'
<1>1. /\ job[p].pc = "write" /\ queue' = Kept(p) /\ proposed' = proposed /\ plan' = plan
      /\ job' = [job EXCEPT ![p] = Idle] /\ flagged' = flagged /\ journal' = journal
  BY DEF ConsumeWrite
<1>2. \A q \in Procs : Tracks(job[q], queue, hist, plan)
  BY DEF Inv, Tracked
<1>3. /\ Grows(hist, hist') /\ hist'.overtaken = hist.overtaken \cup Overtaken(Range(Kept(p)))
      /\ hist'.torn = hist.torn /\ hist'.accepted = hist.accepted
      /\ hist'.attempted = hist.attempted /\ hist'.line = hist.line
      /\ hist'.allowed = hist.allowed /\ hist'.appended = hist.appended
  BY OvertakenGrows DEF ConsumeWrite, Inv, Setting
<1>4. Flushes(job[p], queue, hist)
  BY <1>1, <1>2 DEF Tracks
<1>5. Setting'
  <2>1. queue' \in Seq(Int)
    BY <1>1, <1>4 DEF Kept, Flushes
  <2> QED BY <2>1, <1>1, <1>3 DEF Inv, Setting, Grows
<1>6. \A q \in Procs : job'[q] = IF q = p THEN Idle ELSE job[q]
  BY <1>1 DEF Inv, Setting
<1>7. Tracked'
  <2>1. ASSUME NEW q \in Procs PROVE Tracks(job'[q], queue', hist', plan')
    <3>1. CASE q = p
      BY <3>1, <1>6, IdleTracks
    <3>2. CASE q # p
      <4>1. job'[q] = job[q]
        BY <3>2, <1>6
      <4>2. ASSUME job[q].kind = "capture", NEW l \in Range(queue')
            PROVE  l \in hist'.overtaken \/ \E i \in DOMAIN job[q].input : job[q].input[i].line = l
        BY <4>1, <4>2, <1>1, <1>3 DEF Overtaken
      <4> QED BY <4>1, <4>2, <1>1, <1>2, <1>3, QueuedTracks
    <3> QED BY <3>1, <3>2
  <2> QED BY <2>1 DEF Tracked
<1>8. QueueAccounts'
  <2> SUFFICES ASSUME NEW line \in (1..proposed) \ (hist.overtaken \cup hist.torn),
                      line \notin hist.accepted, plan.keep_failed \/ line \notin hist.attempted
               PROVE  \/ line \in Range(Kept(p))
                      \/ \E q \in Procs : job'[q].pc = "write" /\ line \in Range(Kept(q)')
    BY <1>1, <1>3 DEF QueueAccounts
  <2>1. \/ line \in Range(queue)
        \/ \E q \in Procs : job[q].pc = "write" /\ line \in Range(Kept(q))
    BY DEF Inv, QueueAccounts
  <2>2. CASE line \in Range(queue)
    BY <2>2, <1>1, NothingIsDropped
  <2>3. ASSUME NEW q \in Procs, q # p, job[q].pc = "write", line \in Range(Kept(q))
        PROVE  job'[q].pc = "write" /\ line \in Range(Kept(q)')
    <3>1. job'[q] = job[q]
      BY <2>3, <1>6
    <3>2. Kept(q)' = Kept(q)
      BY <3>1, <1>1 DEF Kept
    <3> QED BY <3>1, <3>2, <2>3
  <2> QED BY <2>1, <2>2, <2>3
<1>9. Marked' /\ JournalTellsTruth'
  BY <1>1, <1>3 DEF Inv, Marked, JournalTellsTruth
<1> QED BY <1>5, <1>7, <1>8, <1>9 DEF Inv

LEMMA ProposingKeeps ==
  ASSUME Inv, Propose
  PROVE  Inv'
<1>1. /\ queue' = Append(queue, proposed + 1) /\ proposed' = proposed + 1 /\ plan' = plan
      /\ job' = job /\ flagged' = flagged /\ journal' = journal
  BY DEF Propose
<1>2. /\ Grows(hist, hist') /\ hist'.overtaken = hist.overtaken \cup Overtaken({proposed + 1})
      /\ hist'.torn = hist.torn /\ hist'.accepted = hist.accepted
      /\ hist'.attempted = hist.attempted /\ hist'.line = hist.line
      /\ hist'.allowed = hist.allowed /\ hist'.appended = hist.appended
  BY OvertakenGrows DEF Propose, Inv, Setting
<1>3. proposed \in Nat /\ queue \in Seq(Int) /\ proposed + 1 \in Int
  BY DEF Inv, Setting
<1>4. queue' \in Seq(Int) /\ Range(queue') = Range(queue) \cup {proposed + 1}
  BY <1>1, <1>3, AppendRange
<1>5. Setting'
  BY <1>1, <1>2, <1>3, <1>4 DEF Inv, Setting, Grows
<1>6. Tracked'
  <2>1. ASSUME NEW q \in Procs PROVE Tracks(job'[q], queue', hist', plan')
    <3>1. Tracks(job[q], queue, hist, plan)
      BY DEF Inv, Tracked
    <3>2. ASSUME job[q].kind = "capture", NEW l \in Range(queue')
          PROVE  \/ l \in Range(queue) \/ l \in hist'.overtaken
                 \/ \E i \in DOMAIN job[q].input : job[q].input[i].line = l
      BY <3>2, <1>1, <1>2, <1>4 DEF Overtaken
    <3> QED BY <3>1, <3>2, <1>1, <1>2, QueuedTracks
  <2> QED BY <2>1 DEF Tracked
<1>7. QueueAccounts'
  <2>1. ASSUME NEW line \in (1..proposed') \ (hist'.overtaken \cup hist'.torn)
        PROVE  \/ line \in Range(queue') \cup hist'.accepted
               \/ \E q \in Procs : job'[q].pc = "write" /\ line \in Range(Kept(q)')
               \/ ~plan'.keep_failed /\ line \in hist'.attempted
    <3>1. CASE line = proposed + 1
      BY <3>1, <1>4
    <3>2. CASE line # proposed + 1
      <4>1. line \in (1..proposed) \ (hist.overtaken \cup hist.torn)
        BY <3>2, <2>1, <1>1, <1>2, <1>3
      <4>2. \A q \in Procs : Kept(q)' = Kept(q)
        BY <1>1 DEF Kept
      <4> QED BY <4>1, <4>2, <1>1, <1>2, <1>4 DEF Inv, QueueAccounts
    <3> QED BY <3>1, <3>2
  <2> QED BY <2>1 DEF QueueAccounts
<1>8. Marked' /\ JournalTellsTruth'
  BY <1>1, <1>2 DEF Inv, Marked, JournalTellsTruth
<1> QED BY <1>5, <1>6, <1>7, <1>8 DEF Inv

\* A crash loses at most the lines of a rewrite it interrupts.
LEMMA CrashingKeeps ==
  ASSUME Inv, NEW p \in Procs, Crash(p)
  PROVE  Inv'
<1>1. /\ queue' = queue /\ proposed' = proposed /\ plan' = plan
      /\ job' = [job EXCEPT ![p] = Idle] /\ flagged' = flagged /\ journal' = journal
      /\ hist' = IF job[p].pc = "write"
                 THEN [hist EXCEPT !.torn = @ \cup Range(Kept(p))] ELSE hist
  BY DEF Crash, files
<1>2. HistShaped(hist)
  BY DEF Inv, Setting
<1>3. CASE job[p].pc # "write"
  BY <1>1, <1>3, IdleTracks, BeginOrEndKeeps
<1>4. CASE job[p].pc = "write"
  <2> DEFINE torn == hist.torn \cup Range(Kept(p))
  <2>1. hist' = [hist EXCEPT !.torn = torn]
    BY <1>1, <1>4
  <2> HIDE DEF torn
  <2>2. /\ HistShaped(hist') /\ hist'.overtaken = hist.overtaken
        /\ hist'.torn = torn /\ hist'.accepted = hist.accepted
        /\ hist'.attempted = hist.attempted /\ hist'.line = hist.line
        /\ hist'.allowed = hist.allowed /\ hist'.appended = hist.appended
    BY <2>1, <1>2 DEF HistShaped, HistFields
  <2>3. Grows(hist, hist')
    BY <2>2 DEF Grows, torn
  <2>4. \A q \in Procs : job'[q] = IF q = p THEN Idle ELSE job[q]
    BY <1>1 DEF Inv, Setting
  <2>5. Setting'
    BY <2>2, <1>1 DEF Inv, Setting
  <2>6. Tracked'
    <3>1. ASSUME NEW q \in Procs PROVE Tracks(job'[q], queue', hist', plan')
      <4>1. CASE q = p
        BY <4>1, <2>4, IdleTracks
      <4>2. CASE q # p
        <5>1. Tracks(job[q], queue, hist, plan)
          BY DEF Inv, Tracked
        <5> QED BY <5>1, <4>2, <2>3, <2>4, <1>1, TracksGrows
      <4> QED BY <4>1, <4>2
    <3> QED BY <3>1 DEF Tracked
  <2>7. QueueAccounts'
    <3>1. ASSUME NEW line \in (1..proposed') \ (hist'.overtaken \cup hist'.torn)
          PROVE  \/ line \in Range(queue') \cup hist'.accepted
                 \/ \E q \in Procs : job'[q].pc = "write" /\ line \in Range(Kept(q)')
                 \/ ~plan'.keep_failed /\ line \in hist'.attempted
      <4>1. line \in (1..proposed) \ (hist.overtaken \cup hist.torn) /\ line \notin Range(Kept(p))
        BY <3>1, <2>2, <1>1 DEF torn
      <4>2. \A q \in Procs : q # p => job'[q] = job[q] /\ Kept(q)' = Kept(q)
        BY <2>4, <1>1 DEF Kept
      <4> QED BY <4>1, <4>2, <2>2, <1>1 DEF Inv, QueueAccounts
    <3> QED BY <3>1 DEF QueueAccounts
  <2>8. Marked' /\ JournalTellsTruth'
    BY <2>2, <1>1 DEF Inv, Marked, JournalTellsTruth
  <2> QED BY <2>5, <2>6, <2>7, <2>8 DEF Inv
<1> QED BY <1>3, <1>4

\* Direct writes, edits of the memory file and idle steps touch none of it.
LEMMA ElsewhereKeeps ==
  ASSUME Inv, UNCHANGED <<plan, queue, proposed, job, flagged, journal>>, HistShaped(hist'),
         hist'.attempted = hist.attempted, hist'.accepted = hist.accepted,
         hist'.overtaken = hist.overtaken, hist'.torn = hist.torn, hist'.line = hist.line,
         hist'.allowed = hist.allowed, hist'.appended = hist.appended
  PROVE  Inv'
<1>1. Grows(hist, hist')
  BY DEF Grows
<1>2. Setting'
  BY DEF Inv, Setting
<1>3. Tracked'
  BY <1>1, TracksGrows DEF Inv, Tracked
<1>4. \A q \in Procs : Kept(q)' = Kept(q)
  BY DEF Kept
<1>5. QueueAccounts'
  BY <1>4 DEF Inv, QueueAccounts
<1>6. Marked' /\ JournalTellsTruth'
  BY DEF Inv, Marked, JournalTellsTruth
<1> QED BY <1>2, <1>3, <1>5, <1>6 DEF Inv

LEMMA InitInv == Init => Inv
<1> SUFFICES ASSUME Init PROVE Inv
  OBVIOUS
<1>1. \A p \in Procs : job[p] = Idle
  BY DEF Init
<1>2. Setting
  <2>1. HistShaped(hist)
    BY DEF Init, HistShaped, HistFields
  <2>2. job = [p \in Procs |-> job[p]]
    BY DEF Init
  <2>3. plan \in Plans /\ proposed \in Nat /\ queue \in Seq(Int)
    BY DEF Init
  <2> QED BY <2>1, <2>2, <2>3 DEF Setting
<1>3. Tracked
  BY <1>1, IdleTracks DEF Tracked
<1>4. QueueAccounts
  BY DEF Init, QueueAccounts
<1>5. Marked
  BY DEF Init, Marked
<1>6. JournalTellsTruth
  BY DEF Init, JournalTellsTruth
<1> QED BY <1>2, <1>3, <1>4, <1>5, <1>6 DEF Inv

LEMMA NextInv == Inv /\ [Next]_vars => Inv'
<1> SUFFICES ASSUME Inv, [Next]_vars PROVE Inv'
  OBVIOUS
<1>1. HistShaped(hist) /\ plan \in Plans
  BY DEF Inv, Setting
<1>2. plan.procs \subseteq Procs
  BY <1>1, PlansAssumption
<1>3. CASE UNCHANGED vars
  BY <1>1, <1>3, ElsewhereKeeps DEF vars
<1>4. CASE Propose
  BY <1>4, ProposingKeeps
<1>5. CASE OwnerWrites
  BY <1>1, <1>5, ElsewhereKeeps DEF OwnerWrites, files
<1>6. ASSUME NEW line, NEW at, UserEdits(line, at) PROVE Inv'
  <2> DEFINE edits == hist.edits + 1
  <2>1. hist' = [hist EXCEPT !.edits = edits]
    BY <1>6 DEF UserEdits
  <2> HIDE DEF edits
  <2>2. /\ HistShaped(hist') /\ hist'.overtaken = hist.overtaken
        /\ hist'.torn = hist.torn /\ hist'.accepted = hist.accepted
        /\ hist'.attempted = hist.attempted /\ hist'.line = hist.line
        /\ hist'.allowed = hist.allowed /\ hist'.appended = hist.appended
    BY <2>1, <1>1 DEF HistShaped, HistFields
  <2> QED BY <2>2, <1>6, ElsewhereKeeps DEF UserEdits
<1>7. ASSUME NEW p \in plan.procs,
             \/ CaptureRead(p) \/ ImportRead(p) \/ ExportRead(p)
             \/ ExportSplice(p) \/ ExportTruncate(p) \/ ExportFill(p)
             \/ Step(p) \/ Crash(p) \/ ScannerLeavesOrphan(p)
             \/ \E verdict \in {"allow", "taint", "reject"} : ScannerAnswers(p, verdict)
      PROVE  Inv'
  <2>1. p \in Procs
    BY <1>2, <1>7
  <2>2. CASE RefuseMalformed(p) \/ AppendFails(p)
    <3>1. /\ job[p].pc \in Reading /\ Settle(p, FALSE) /\ hist' = Attempted(p)
          /\ queue' = queue /\ proposed' = proposed /\ plan' = plan /\ flagged' = flagged
          /\ journal' = journal
      BY <2>2 DEF RefuseMalformed, AppendFails, files, Reading
    <3> QED BY <3>1, <2>1, RefusedKeeps
  <2>3. CASE Step(p)
    BY <2>1, <2>2, <2>3, EnteringKeeps, ScanningKeeps, DecidingKeeps, AppendingKeeps,
       RecordingKeeps, TruncatingKeeps, RewritingKeeps DEF Step
  <2> QED BY <2>1, <2>3, <1>7, CapturingKeeps, ImportingKeeps, ExportingKeeps, CrashingKeeps,
             ScanningKeeps
<1> QED BY <1>3, <1>4, <1>5, <1>6, <1>7 DEF Next
-----------------------------------------------------------------------------
(* The folds of the two parsers exist, by induction (as the least          *)
(* counterexample), and step from line to line.                            *)

\* Numbers have a least one.
LEMMA LeastNumber ==
  ASSUME NEW S, S \subseteq Nat, S # {}
  PROVE  \E x \in S : \A y \in S : x <= y
<1> DEFINE R == OpToRel(<, Nat)
<1>1. \A x, y \in Nat : y < x => <<y, x>> \in R
  BY DEF OpToRel
<1>2. IsWellFoundedOn(R, Nat)
  BY NatLessThanWellFounded
<1> HIDE DEF R
<1>3. PICK x \in S : \A y \in S : ~(<<y, x>> \in R)
  BY <1>2, WFMin
<1>4. ASSUME NEW y \in S PROVE x <= y
  <2>1. x \in Nat /\ y \in Nat /\ ~(y < x)
    BY <1>1, <1>3
  <2> QED BY <2>1
<1> QED BY <1>4

\* The fence that is open after a line, given the one open before it.
FenceStep(open, line) == IF line.kind = "fence" THEN AfterFence(open, line) ELSE open

Fences(open, text, n) ==
  open = [i \in 0..n |-> IF i = 0 THEN NoFence ELSE FenceStep(open[i - 1], text[i])]

\* managed_block_sentinels ends.
LEMMA FencesExist ==
  ASSUME NEW text, NEW n0 \in Nat
  PROVE  \E open : Fences(open, text, n0)
<1> DEFINE Bad == {k \in Nat : ~ \E open : Fences(open, text, k)}
<1> SUFFICES ASSUME Bad # {} PROVE FALSE
  OBVIOUS
<1>1. PICK k \in Bad : \A j \in Bad : k <= j
  <2>1. Bad \subseteq Nat
    OBVIOUS
  <2> HIDE DEF Bad
  <2> QED BY <2>1, LeastNumber
<1>2. k \in Nat /\ ~ \E open : Fences(open, text, k)
  BY <1>1
<1>3. CASE k = 0
  <2> DEFINE open == [i \in 0..0 |-> NoFence]
  <2>1. Fences(open, text, 0)
    BY \A i \in 0..0 : i = 0 DEF Fences
  <2> QED BY <1>2, <1>3, <2>1
<1>4. CASE k # 0
  <2>1. k - 1 \in Nat /\ ~(k <= k - 1)
    BY <1>2, <1>4
  <2>2. k - 1 \notin Bad
    BY <1>1, <2>1
  <2>3. PICK open : Fences(open, text, k - 1)
    BY <2>1, <2>2
  <2> DEFINE Val(i) == IF i = 0 THEN NoFence ELSE FenceStep(open[i - 1], text[i])
             more == [i \in 0..k |-> Val(i)]
  <2>4. ASSUME NEW i \in 0..(k - 1) PROVE more[i] = open[i]
    <3>1. i \in 0..k
      BY <1>2
    <3>2. more[i] = Val(i)
      BY <3>1
    <3>3. open[i] = Val(i)
      BY <2>3 DEF Fences
    <3> QED BY <3>2, <3>3
  <2>5. \A i \in 0..k : i # 0 => i - 1 \in 0..(k - 1)
    BY <1>2
  <2>6. Fences(more, text, k)
    BY <2>4, <2>5 DEF Fences
  <2> QED BY <1>2, <2>6
<1> QED BY <1>3, <1>4

\* The fence that is open after each line.
LEMMA OpenFenceIs ==
  ASSUME NEW text, Len(text) \in Nat
  PROVE  /\ OpenFence(text)[0] = NoFence
         /\ \A i \in 1..Len(text) :
              OpenFence(text)[i] = FenceStep(OpenFence(text)[i - 1], text[i])
<1> DEFINE n == Len(text)
           chosen == CHOOSE open : Fences(open, text, n)
           Val(i) == IF i = 0 THEN NoFence ELSE FenceStep(chosen[i - 1], text[i])
<1>1. Fences(chosen, text, n)
  BY FencesExist
<1>2. OpenFence(text) = chosen
  BY DEF OpenFence, Fences, FenceStep
<1> HIDE DEF chosen
<1>3. \A i \in 0..n : chosen[i] = Val(i)
  BY <1>1 DEF Fences
<1>4. 0 \in 0..n /\ \A i \in 1..n : i \in 0..n /\ i # 0
  OBVIOUS
<1> QED BY <1>2, <1>3, <1>4

Imports(s, text, n) ==
  s = [i \in 0..n |-> IF i = 0 THEN [fence |-> "none", found |-> <<>>]
                      ELSE ImportLine(s[i - 1], text[i])]

\* parse_import_file ends.
LEMMA ImportsExist ==
  ASSUME NEW text, NEW n0 \in Nat
  PROVE  \E s : Imports(s, text, n0)
<1> DEFINE start == [fence |-> "none", found |-> <<>>]
           Bad == {k \in Nat : ~ \E s : Imports(s, text, k)}
<1> SUFFICES ASSUME Bad # {} PROVE FALSE
  OBVIOUS
<1>1. PICK k \in Bad : \A j \in Bad : k <= j
  <2>1. Bad \subseteq Nat
    OBVIOUS
  <2> HIDE DEF Bad
  <2> QED BY <2>1, LeastNumber
<1>2. k \in Nat /\ ~ \E s : Imports(s, text, k)
  BY <1>1
<1>3. CASE k = 0
  <2> DEFINE s == [i \in 0..0 |-> start]
  <2>1. Imports(s, text, 0)
    BY \A i \in 0..0 : i = 0 DEF Imports
  <2> QED BY <1>2, <1>3, <2>1
<1>4. CASE k # 0
  <2>1. k - 1 \in Nat /\ ~(k <= k - 1)
    BY <1>2, <1>4
  <2>2. k - 1 \notin Bad
    BY <1>1, <2>1
  <2>3. PICK s : Imports(s, text, k - 1)
    BY <2>1, <2>2
  <2> DEFINE Val(i) == IF i = 0 THEN start ELSE ImportLine(s[i - 1], text[i])
             more == [i \in 0..k |-> Val(i)]
  <2>4. ASSUME NEW i \in 0..(k - 1) PROVE more[i] = s[i]
    <3>1. i \in 0..k
      BY <1>2
    <3>2. more[i] = Val(i)
      BY <3>1
    <3>3. s[i] = Val(i)
      BY <2>3 DEF Imports
    <3> QED BY <3>2, <3>3
  <2>5. \A i \in 0..k : i # 0 => i - 1 \in 0..(k - 1)
    BY <1>2
  <2>6. Imports(more, text, k)
    BY <2>4, <2>5 DEF Imports
  <2> QED BY <1>2, <2>6
<1> QED BY <1>3, <1>4

\* s is what an import of the text has come to after each line.
Reads(s, text) ==
  /\ s[0].fence = "none" /\ s[0].found = <<>>
  /\ \A i \in 1..Len(text) : /\ s[i].fence = TickToggles(s[i - 1].fence, text[i])
                             /\ s[i].found = s[i - 1].found \o Proposals(s[i - 1].fence, text[i])
  /\ ImportFile(text) = s[Len(text)].found

\* parse_import_file goes from line to line.
LEMMA ImportFileIs ==
  ASSUME NEW text, Len(text) \in Nat
  PROVE  \E s : Reads(s, text)
<1> DEFINE n == Len(text)
           chosen == CHOOSE s : Imports(s, text, n)
           Val(i) == IF i = 0 THEN [fence |-> "none", found |-> <<>>]
                     ELSE ImportLine(chosen[i - 1], text[i])
<1>1. Imports(chosen, text, n)
  BY ImportsExist
<1>2. ImportFile(text) = chosen[n].found
  BY DEF ImportFile, Imports
<1> HIDE DEF chosen
<1>3. \A i \in 0..n : chosen[i] = Val(i)
  BY <1>1 DEF Imports
<1>4. 0 \in 0..n /\ \A i \in 1..n : i \in 0..n /\ i # 0
  OBVIOUS
<1>5. chosen[0].fence = "none" /\ chosen[0].found = <<>>
  BY <1>3, <1>4
<1>6. \A i \in 1..n : chosen[i] = ImportLine(chosen[i - 1], text[i])
  BY <1>3, <1>4
<1> HIDE DEF Val
<1>7. \A i \in 1..n : /\ chosen[i].fence = TickToggles(chosen[i - 1].fence, text[i])
                      /\ chosen[i].found = chosen[i - 1].found \o Proposals(chosen[i - 1].fence, text[i])
  <2>1. \A a, x : /\ ImportLine(a, x).fence = TickToggles(a.fence, x)
                  /\ ImportLine(a, x).found = a.found \o Proposals(a.fence, x)
    BY DEF ImportLine
  <2> QED BY <1>6, <2>1
<1> QED BY <1>2, <1>5, <1>7 DEF Reads

-----------------------------------------------------------------------------
(* What the two parsers make of equal lines.                               *)

\* The k lines after line a of one text are those after line b of another.
Alike(text, a, other, b, k) ==
  /\ Len(text) \in Nat /\ Len(other) \in Nat /\ a + k <= Len(text) /\ b + k <= Len(other)
  /\ \A i \in 1..k : text[a + i] = other[b + i]

FencesAlike(text, a, other, b, k) ==
  \A i \in 0..k : OpenFence(text)[a + i] = OpenFence(other)[b + i]

\* Equal lines read from equal fences leave equal fences.
LEMMA FencesAgree ==
  ASSUME NEW text, NEW other, NEW a \in Nat, NEW b \in Nat, NEW k \in Nat,
         Alike(text, a, other, b, k), OpenFence(text)[a] = OpenFence(other)[b]
  PROVE  FencesAlike(text, a, other, b, k)
<1> DEFINE t == OpenFence(text)
           o == OpenFence(other)
           Bad == {i \in 0..k : t[a + i] # o[b + i]}
<1>1. /\ \A i \in 1..Len(text) : t[i] = FenceStep(t[i - 1], text[i])
      /\ \A i \in 1..Len(other) : o[i] = FenceStep(o[i - 1], other[i])
  BY OpenFenceIs DEF Alike
<1> HIDE DEF t, o
<1> SUFFICES ASSUME Bad # {} PROVE FALSE
  BY DEF t, o, FencesAlike
<1>2. PICK i \in Bad : \A j \in Bad : i <= j
  <2>1. Bad \subseteq Nat
    OBVIOUS
  <2> HIDE DEF Bad
  <2> QED BY <2>1, LeastNumber
<1>3. i \in 0..k /\ t[a + i] # o[b + i]
  BY <1>2
<1>4. i # 0
  BY <1>3 DEF t, o
<1>5. i - 1 \in 0..k /\ ~(i <= i - 1) /\ i \in 1..k
  BY <1>3, <1>4
<1>6. t[a + (i - 1)] = o[b + (i - 1)]
  BY <1>2, <1>5
<1>7. /\ a + i \in 1..Len(text) /\ b + i \in 1..Len(other)
      /\ a + i - 1 = a + (i - 1) /\ b + i - 1 = b + (i - 1)
  BY <1>5 DEF Alike
<1>8. t[a + i] = FenceStep(t[a + (i - 1)], text[a + i])
  BY <1>1, <1>7
<1>9. o[b + i] = FenceStep(o[b + (i - 1)], other[b + i])
  BY <1>1, <1>7
<1>10. text[a + i] = other[b + i]
  BY <1>5 DEF Alike
<1> QED BY <1>3, <1>6, <1>8, <1>9, <1>10

\* Lines that are no fences leave the fence as it is.
LEMMA FencesRest ==
  ASSUME NEW text, Len(text) \in Nat, NEW a \in Nat, NEW k \in Nat, a + k <= Len(text),
         \A i \in 1..k : text[a + i].kind # "fence"
  PROVE  \A i \in 0..k : OpenFence(text)[a + i] = OpenFence(text)[a]
<1> DEFINE t == OpenFence(text)
           Bad == {i \in 0..k : t[a + i] # t[a]}
<1>1. \A i \in 1..Len(text) : t[i] = FenceStep(t[i - 1], text[i])
  BY OpenFenceIs
<1> HIDE DEF t
<1> SUFFICES ASSUME Bad # {} PROVE FALSE
  BY DEF t
<1>2. PICK i \in Bad : \A j \in Bad : i <= j
  <2>1. Bad \subseteq Nat
    OBVIOUS
  <2> HIDE DEF Bad
  <2> QED BY <2>1, LeastNumber
<1>3. i \in 0..k /\ t[a + i] # t[a]
  BY <1>2
<1>4. i # 0
  BY <1>3
<1>5. i - 1 \in 0..k /\ ~(i <= i - 1) /\ i \in 1..k
  BY <1>3, <1>4
<1>6. t[a + (i - 1)] = t[a]
  BY <1>2, <1>5
<1>7. a + i \in 1..Len(text) /\ a + i - 1 = a + (i - 1)
  BY <1>5
<1>8. t[a + i] = FenceStep(t[a + (i - 1)], text[a + i])
  BY <1>1, <1>7
<1> QED BY <1>3, <1>5, <1>6, <1>8 DEF FenceStep

SameStart(text, other, k) == \A i \in 1..k : text[i] = other[i]
Unfenced(text, a, k) == \A i \in 1..k : text[a + i].kind # "fence"

\* An import toggles the same fence on equal lines.
LEMMA ImportsAgree ==
  ASSUME NEW text, NEW other, NEW s, NEW r, Reads(s, text), Reads(r, other),
         Len(text) \in Nat, Len(other) \in Nat,
         NEW k \in Nat, k <= Len(text), k <= Len(other),
         SameStart(text, other, k)
  PROVE  \A i \in 0..k : s[i].fence = r[i].fence
<1> DEFINE Bad == {i \in 0..k : s[i].fence # r[i].fence}
<1> SUFFICES ASSUME Bad # {} PROVE FALSE
  OBVIOUS
<1>1. PICK i \in Bad : \A j \in Bad : i <= j
  <2>1. Bad \subseteq Nat
    OBVIOUS
  <2> HIDE DEF Bad
  <2> QED BY <2>1, LeastNumber
<1>2. i \in 0..k /\ s[i].fence # r[i].fence
  BY <1>1
<1>3. i # 0
  BY <1>2 DEF Reads
<1>4. i - 1 \in 0..k /\ ~(i <= i - 1) /\ i \in 1..k /\ i \in 1..Len(text) /\ i \in 1..Len(other)
  BY <1>2, <1>3
<1>5. s[i - 1].fence = r[i - 1].fence
  BY <1>1, <1>4
<1>6. s[i].fence = TickToggles(s[i - 1].fence, text[i])
  BY <1>4 DEF Reads
<1>7. r[i].fence = TickToggles(r[i - 1].fence, other[i])
  BY <1>4 DEF Reads
<1>8. text[i] = other[i]
  BY <1>4 DEF SameStart
<1> QED BY <1>2, <1>5, <1>6, <1>7, <1>8

\* Lines that are no fences leave an import where it is.
LEMMA ImportsRest ==
  ASSUME NEW text, NEW s, Reads(s, text), Len(text) \in Nat,
         NEW a \in Nat, NEW k \in Nat, a + k <= Len(text),
         Unfenced(text, a, k)
  PROVE  \A i \in 0..k : s[a + i].fence = s[a].fence
<1> DEFINE Bad == {i \in 0..k : s[a + i].fence # s[a].fence}
<1> SUFFICES ASSUME Bad # {} PROVE FALSE
  OBVIOUS
<1>1. PICK i \in Bad : \A j \in Bad : i <= j
  <2>1. Bad \subseteq Nat
    OBVIOUS
  <2> HIDE DEF Bad
  <2> QED BY <2>1, LeastNumber
<1>2. i \in 0..k /\ s[a + i].fence # s[a].fence
  BY <1>1
<1>3. i # 0
  BY <1>2
<1>4. i - 1 \in 0..k /\ ~(i <= i - 1) /\ i \in 1..k
  BY <1>2, <1>3
<1>5. s[a + (i - 1)].fence = s[a].fence
  BY <1>1, <1>4
<1>6. a + i \in 1..Len(text) /\ a + i - 1 = a + (i - 1)
  BY <1>4
<1>7. \A m \in 1..Len(text) : s[m].fence = TickToggles(s[m - 1].fence, text[m])
  BY DEF Reads
<1>8. s[a + i].fence = TickToggles(s[a + (i - 1)].fence, text[a + i])
  BY <1>6, <1>7
<1>9. text[a + i].kind # "fence"
  BY <1>4 DEF Unfenced
<1> QED BY <1>2, <1>5, <1>8, <1>9 DEF TickToggles

\* Where fences are plain, a fence is open to export when one is to import.
LEMMA FencesTogether ==
  ASSUME NEW text, NEW s, Reads(s, text), Len(text) \in Nat, DOMAIN text = 1..Len(text),
         PlainFences(text)
  PROVE  \A i \in 0..Len(text) : OpenFence(text)[i] = NoFence <=> s[i].fence = "none"
<1> DEFINE t == OpenFence(text)
           Ticks == [ch |-> "tick", run |-> 3]
           Good(i) == /\ t[i] \in {NoFence, Ticks}
                      /\ t[i] = NoFence <=> s[i].fence = "none"
           Bad == {i \in 0..Len(text) : ~Good(i)}
<1>0. Ticks # NoFence
  BY DEF NoFence
<1>1. t[0] = NoFence /\ \A i \in 1..Len(text) : t[i] = FenceStep(t[i - 1], text[i])
  BY OpenFenceIs
<1>2. \A i \in 1..Len(text) : text[i].kind = "fence" =>
        text[i].ch = "tick" /\ text[i].run = 3 /\ (t[i - 1] # NoFence => text[i].info = "")
  BY DEF PlainFences
<1> HIDE DEF t
<1> SUFFICES ASSUME Bad # {} PROVE FALSE
  BY DEF t
<1>3. PICK i \in Bad : \A j \in Bad : i <= j
  <2>1. Bad \subseteq Nat
    OBVIOUS
  <2> HIDE DEF Bad
  <2> QED BY <2>1, LeastNumber
<1>4. i \in 0..Len(text) /\ ~Good(i)
  BY <1>3
<1>5. i # 0
  <2>1. Good(0)
    BY <1>1 DEF Reads
  <2> QED BY <1>4, <2>1
<1>6. i - 1 \in 0..Len(text) /\ ~(i <= i - 1) /\ i \in 1..Len(text)
  BY <1>4, <1>5
<1>7. Good(i - 1)
  BY <1>3, <1>6
<1> DEFINE line == text[i]
<1>8. t[i] = FenceStep(t[i - 1], line) /\ s[i].fence = TickToggles(s[i - 1].fence, line)
  BY <1>1, <1>6 DEF Reads
<1>9. line.kind = "fence" =>
        line.ch = "tick" /\ line.run = 3 /\ (t[i - 1] # NoFence => line.info = "")
  BY <1>2, <1>6
<1> HIDE DEF line, Ticks
<1>10. CASE line.kind # "fence"
  <2>1. t[i] = t[i - 1] /\ s[i].fence = s[i - 1].fence
    BY <1>8, <1>10 DEF FenceStep, TickToggles
  <2> QED BY <1>4, <1>7, <2>1
<1>11. CASE line.kind = "fence" /\ t[i - 1] = NoFence
  <2>1. t[i] = Ticks
    BY <1>8, <1>9, <1>11 DEF FenceStep, AfterFence, Ticks
  <2>2. s[i].fence # "none"
    BY <1>7, <1>8, <1>9, <1>11 DEF TickToggles
  <2> QED BY <1>0, <1>4, <2>1, <2>2
<1>12. CASE line.kind = "fence" /\ t[i - 1] # NoFence
  <2>1. t[i - 1] = Ticks /\ Ticks.ch = "tick" /\ Ticks.run = 3
    BY <1>7, <1>12 DEF Ticks
  <2>2. t[i] = AfterFence(Ticks, line)
    BY <1>8, <1>12, <2>1 DEF FenceStep
  <2>3. line.ch = Ticks.ch /\ line.run >= Ticks.run /\ line.info = ""
    <3>1. line.ch = "tick" /\ line.run = 3 /\ line.info = ""
      BY <1>9, <1>12
    <3>2. 3 >= 3
      OBVIOUS
    <3>3. line.run >= Ticks.run
      BY <2>1, <3>1, <3>2, Zenon
    <3> QED BY <2>1, <3>1, <3>3
  <2>4. t[i] = NoFence
    BY <1>0, <2>2, <2>3 DEF AfterFence
  <2>5. s[i].fence = "none"
    BY <1>7, <1>8, <1>9, <1>12 DEF TickToggles
  <2> QED BY <1>4, <2>4, <2>5
<1> QED BY <1>10, <1>11, <1>12

-----------------------------------------------------------------------------
(* The block, and where a splice puts it.                                  *)

IsText(text) == \E S : text \in Seq(S)

\* The shape of a block: sentinels around lines that are neither sentinels nor
\* fences, unless a value is one.
Managed(block) ==
  /\ Len(block) \in Nat /\ 2 <= Len(block)
  /\ block[1] = Plain("begin") /\ block[Len(block)] = Plain("end")
  /\ \A i \in 2..(Len(block) - 1) : block[i].kind \in {"chrome", "blank", "fact"}

\* render_managed_block: what it renders is a block.
LEMMA RenderedIsManaged ==
  ASSUME NEW F, NEW facts \in Seq(F), \A x \in F : x.kind = "fact"
  PROVE  IsText(RenderBlock(facts)) /\ Managed(RenderBlock(facts))
<1> DEFINE P == {Plain("begin"), Plain("end"), Plain("chrome"), Plain("blank")}
           S == F \cup P
           top == <<Plain("begin"), Plain("chrome")>>
           none == <<Plain("blank"), Plain("chrome")>>
           chrome == <<Plain("blank"), Plain("chrome"), Plain("blank")>>
           middle == IF facts = <<>> THEN none ELSE chrome \o facts
           bottom == <<Plain("blank"), Plain("end")>>
           Inner == {"chrome", "blank", "fact"}
<1>1. \A kind : Plain(kind).kind = kind
  BY DEF Plain
<1>2. facts \in Seq(S)
  BY SeqMonotonic
<1>3. top \in Seq(S) /\ Len(top) = 2 /\ top[1] = Plain("begin") /\ top[2] = Plain("chrome")
  OBVIOUS
<1>4. bottom \in Seq(S) /\ Len(bottom) = 2 /\ bottom[1] = Plain("blank") /\ bottom[2] = Plain("end")
  OBVIOUS
<1>5. none \in Seq(S) /\ Len(none) = 2 /\ none[1] = Plain("blank") /\ none[2] = Plain("chrome")
  OBVIOUS
<1>6. /\ chrome \in Seq(S) /\ Len(chrome) = 3
      /\ chrome[1] = Plain("blank") /\ chrome[2] = Plain("chrome") /\ chrome[3] = Plain("blank")
  OBVIOUS
<1>7. \A i \in 1..Len(facts) : facts[i].kind = "fact"
  BY ElementOfSeq
<1>8. RenderBlock(facts) = (top \o middle) \o bottom
  BY DEF RenderBlock
<1> HIDE DEF S, top, none, chrome, bottom
<1>9. middle \in Seq(S) /\ Len(middle) \in Nat /\ \A i \in 1..Len(middle) : middle[i].kind \in Inner
  <2>1. CASE facts = <<>>
    <3>1. middle = none
      BY <2>1
    <3>2. \A i \in 1..2 : i = 1 \/ i = 2
      OBVIOUS
    <3>3. \A i \in 1..2 : none[i].kind \in Inner
      BY <1>1, <1>5, <3>2
    <3> HIDE DEF middle
    <3>4. Len(middle) = 2 /\ Len(middle) \in Nat /\ middle \in Seq(S)
      BY <1>5, <3>1
    <3>5. \A i \in 1..Len(middle) : middle[i].kind \in Inner
      BY <3>1, <3>3, <3>4
    <3> QED BY <3>4, <3>5
  <2>2. CASE facts # <<>>
    <3> DEFINE m == chrome \o facts
    <3>0. /\ m \in Seq(S) /\ Len(m) = Len(chrome) + Len(facts)
          /\ \A i \in 1..(Len(chrome) + Len(facts)) :
               m[i] = IF i <= Len(chrome) THEN chrome[i] ELSE facts[i - Len(chrome)]
      BY <1>2, <1>6, ConcatProperties
    <3>3. middle = m
      BY <2>2
    <3> HIDE DEF m, middle
    <3>1. /\ m \in Seq(S) /\ Len(m) = 3 + Len(facts) /\ Len(facts) \in Nat
          /\ \A i \in 1..(3 + Len(facts)) : m[i] = IF i <= 3 THEN chrome[i] ELSE facts[i - 3]
      BY <1>2, <1>6, <3>0, LenProperties
    <3>2. ASSUME NEW i \in 1..Len(m) PROVE m[i].kind \in Inner
      <4>1. CASE i <= 3
        <5>1. i \in {1, 2, 3} /\ m[i] = chrome[i]
          BY <3>1, <4>1
        <5> QED BY <1>1, <1>6, <5>1
      <4>2. CASE ~(i <= 3)
        <5>1. i - 3 \in 1..Len(facts) /\ m[i] = facts[i - 3]
          BY <3>1, <4>2
        <5> QED BY <1>7, <5>1
      <4> QED BY <4>1, <4>2
    <3> QED BY <3>1, <3>2, <3>3
  <2> QED BY <2>1, <2>2
<1> HIDE DEF middle
<1> DEFINE upper == top \o middle
           block == upper \o bottom
<1>10. /\ upper \in Seq(S) /\ Len(upper) = 2 + Len(middle)
       /\ \A i \in 1..(2 + Len(middle)) : upper[i] = IF i <= 2 THEN top[i] ELSE middle[i - 2]
  <2>1. /\ upper \in Seq(S) /\ Len(upper) = Len(top) + Len(middle)
        /\ \A i \in 1..(Len(top) + Len(middle)) :
             upper[i] = IF i <= Len(top) THEN top[i] ELSE middle[i - Len(top)]
    BY <1>3, <1>9, ConcatProperties
  <2> HIDE DEF upper
  <2> QED BY <1>3, <2>1
<1> HIDE DEF upper
<1>11. /\ block \in Seq(S) /\ Len(block) = Len(middle) + 4
       /\ \A i \in 1..(Len(middle) + 4) :
            block[i] = IF i <= Len(middle) + 2 THEN upper[i] ELSE bottom[i - (Len(middle) + 2)]
  <2>1. /\ block \in Seq(S) /\ Len(block) = Len(upper) + Len(bottom)
        /\ \A i \in 1..(Len(upper) + Len(bottom)) :
             block[i] = IF i <= Len(upper) THEN upper[i] ELSE bottom[i - Len(upper)]
    BY <1>4, <1>10, ConcatProperties
  <2>2. Len(upper) = Len(middle) + 2 /\ Len(upper) + Len(bottom) = Len(middle) + 4
    BY <1>4, <1>9, <1>10
  <2> QED BY <2>1, <2>2
<1> HIDE DEF block
<1>12. block[1] = Plain("begin") /\ block[Len(block)] = Plain("end")
  <2>1. block[1] = upper[1] /\ upper[1] = top[1]
    BY <1>9, <1>10, <1>11
  <2>2. Len(block) - (Len(middle) + 2) = 2 /\ block[Len(block)] = bottom[Len(block) - (Len(middle) + 2)]
    BY <1>9, <1>11
  <2> QED BY <1>3, <1>4, <2>1, <2>2
<1>13. ASSUME NEW i \in 2..(Len(block) - 1) PROVE block[i].kind \in Inner
  <2>1. CASE i = 2
    <3>1. block[i] = upper[2] /\ upper[2] = top[2]
      BY <1>9, <1>10, <1>11, <2>1
    <3> QED BY <1>1, <1>3, <3>1
  <2>2. CASE i # 2 /\ i <= Len(middle) + 2
    <3>1. i - 2 \in 1..Len(middle) /\ block[i] = upper[i] /\ upper[i] = middle[i - 2]
      BY <1>9, <1>10, <1>11, <2>2
    <3> QED BY <1>9, <3>1
  <2>3. CASE ~(i <= Len(middle) + 2)
    <3>1. i - (Len(middle) + 2) = 1 /\ block[i] = bottom[i - (Len(middle) + 2)]
      BY <1>9, <1>11, <2>3
    <3> QED BY <1>1, <1>4, <3>1
  <2> QED BY <2>1, <2>2, <2>3
<1>14. RenderBlock(facts) = block
  BY <1>8 DEF block, upper
<1>15. Len(block) \in Nat /\ 2 <= Len(block)
  BY <1>9, <1>11
<1> QED BY <1>11, <1>12, <1>13, <1>14, <1>15 DEF IsText, Managed

\* render_managed_block: every fact has a line.
LEMMA RenderedHasFacts ==
  ASSUME NEW F, NEW facts \in Seq(F), NEW i \in 1..Len(facts)
  PROVE  5 + i \in DOMAIN RenderBlock(facts) /\ RenderBlock(facts)[5 + i] = facts[i]
<1> DEFINE S == F \cup {Plain("begin"), Plain("end"), Plain("chrome"), Plain("blank")}
           top == <<Plain("begin"), Plain("chrome")>>
           chrome == <<Plain("blank"), Plain("chrome"), Plain("blank")>>
           bottom == <<Plain("blank"), Plain("end")>>
           middle == chrome \o facts
           upper == top \o middle
           block == upper \o bottom
<1>1. facts \in Seq(S) /\ Len(facts) \in Nat
  BY SeqMonotonic, LenProperties
<1>2. top \in Seq(S) /\ Len(top) = 2 /\ chrome \in Seq(S) /\ Len(chrome) = 3
  OBVIOUS
<1>b. bottom \in Seq(S) /\ Len(bottom) = 2
  OBVIOUS
<1>3. RenderBlock(facts) = block
  <2>1. facts # <<>>
    OBVIOUS
  <2> QED BY <2>1 DEF RenderBlock
<1> HIDE DEF S, top, chrome, bottom
<1>4. /\ middle \in Seq(S) /\ Len(middle) = 3 + Len(facts)
      /\ middle[3 + i] = facts[i]
  <2>1. /\ middle \in Seq(S) /\ Len(middle) = Len(chrome) + Len(facts)
        /\ \A j \in 1..(Len(chrome) + Len(facts)) :
             middle[j] = IF j <= Len(chrome) THEN chrome[j] ELSE facts[j - Len(chrome)]
    BY <1>1, <1>2, ConcatProperties
  <2> HIDE DEF middle
  <2>2. 3 + i \in 1..(3 + Len(facts)) /\ ~(3 + i <= 3) /\ (3 + i) - 3 = i
    BY <1>1
  <2> QED BY <1>2, <2>1, <2>2
<1> HIDE DEF middle
<1>5. /\ upper \in Seq(S) /\ Len(upper) = 5 + Len(facts)
      /\ upper[5 + i] = facts[i]
  <2>1. /\ upper \in Seq(S) /\ Len(upper) = Len(top) + Len(middle)
        /\ \A j \in 1..(Len(top) + Len(middle)) :
             upper[j] = IF j <= Len(top) THEN top[j] ELSE middle[j - Len(top)]
    BY <1>2, <1>4, ConcatProperties
  <2> HIDE DEF upper
  <2>2. /\ 5 + i \in 1..(2 + (3 + Len(facts))) /\ ~(5 + i <= 2) /\ (5 + i) - 2 = 3 + i
        /\ 2 + (3 + Len(facts)) = 5 + Len(facts)
    BY <1>1
  <2> QED BY <1>2, <1>4, <2>1, <2>2
<1> HIDE DEF upper
<1>6. /\ block \in Seq(S) /\ Len(block) = 7 + Len(facts)
      /\ block[5 + i] = facts[i]
  <2>1. /\ block \in Seq(S) /\ Len(block) = Len(upper) + Len(bottom)
        /\ \A j \in 1..(Len(upper) + Len(bottom)) :
             block[j] = IF j <= Len(upper) THEN upper[j] ELSE bottom[j - Len(upper)]
    <3>1. upper \in Seq(S) /\ bottom \in Seq(S)
      BY <1>b, <1>5
    <3> QED BY <3>1, ConcatProperties
  <2> HIDE DEF block
  <2>2. /\ 5 + i \in 1..((5 + Len(facts)) + 2) /\ 5 + i <= 5 + Len(facts)
        /\ (5 + Len(facts)) + 2 = 7 + Len(facts)
    BY <1>1
  <2> QED BY <1>b, <1>5, <2>1, <2>2
<1> HIDE DEF block
<1>7. DOMAIN block = 1..(7 + Len(facts)) /\ 5 + i \in 1..(7 + Len(facts))
  BY <1>1, <1>6, LenProperties
<1> QED BY <1>3, <1>6, <1>7

\* parse_meta_hints on the receipt of a source without a blank: what was printed.
LEMMA ReceiptIsRead ==
  ASSUME NEW level, NEW source, PlainName(source)
  PROVE  /\ MetaHint(Receipt(level, source), "authority", NoLevel) = level
         /\ MetaHint(Receipt(level, source), "source", NoSource) = source
<1> DEFINE a == Word("authority", level)
           b == Word("source", source)
           r == Receipt(level, source)
<1>1. a.hint = "authority" /\ a.says = level /\ b.hint = "source" /\ b.says = source
  BY DEF Word
<1>2. r = <<a>> \o <<b>>
  BY DEF Receipt, PlainName
<1> HIDE DEF a, b, r
<1>3. DOMAIN r = {1, 2} /\ r[1] = a /\ r[2] = b
  <2>1. /\ <<a>> \in Seq({a, b}) /\ <<b>> \in Seq({a, b})
        /\ Len(<<a>>) = 1 /\ <<a>>[1] = a /\ Len(<<b>>) = 1 /\ <<b>>[1] = b
    OBVIOUS
  <2>2. /\ r \in Seq({a, b}) /\ Len(r) = Len(<<a>>) + Len(<<b>>)
        /\ \A i \in 1..(Len(<<a>>) + Len(<<b>>)) :
             r[i] = IF i <= Len(<<a>>) THEN <<a>>[i] ELSE <<b>>[i - Len(<<a>>)]
    BY <1>2, <2>1, ConcatProperties
  <2>3. Len(r) = 2 /\ DOMAIN r = 1..2
    BY <2>1, <2>2, LenProperties
  <2>4. 1 \in 1..2 /\ 2 \in 1..2 /\ 1 <= 1 /\ ~(2 <= 1) /\ 2 - 1 = 1 /\ 1 + 1 = 2 /\ 1..2 = {1, 2}
    OBVIOUS
  <2>5. r[1] = <<a>>[1] /\ r[2] = <<b>>[1]
    BY <2>1, <2>2, <2>4
  <2> QED BY <2>1, <2>3, <2>4, <2>5
<1>4. {i \in DOMAIN r : r[i].hint = "authority"} = {1} /\ {i \in DOMAIN r : r[i].hint = "source"} = {2}
  BY <1>1, <1>3
<1>5. (CHOOSE i \in {1} : \A j \in {1} : j <= i) = 1 /\ (CHOOSE i \in {2} : \A j \in {2} : j <= i) = 2
  OBVIOUS
<1> QED BY <1>1, <1>3, <1>4, <1>5 DEF MetaHint, r

\* A block has one sentinel of each kind, at its ends, and no fence.
LEMMA ManagedLines ==
  ASSUME NEW b, Managed(b), ~HasSentinel(b), DOMAIN b = 1..Len(b)
  PROVE  \A j \in 1..Len(b) : /\ b[j].kind # "fence"
                              /\ HasBegin(b[j]) <=> j = 1
                              /\ HasEnd(b[j]) <=> j = Len(b)
<1> SUFFICES ASSUME NEW j \in 1..Len(b)
             PROVE  /\ b[j].kind # "fence"
                    /\ HasBegin(b[j]) <=> j = 1
                    /\ HasEnd(b[j]) <=> j = Len(b)
  OBVIOUS
<1>1. \A kind : Plain(kind).kind = kind
  BY DEF Plain
<1>2. Len(b) # 1 /\ Len(b) \in Nat
  BY DEF Managed
<1>3. CASE j = 1
  <2>1. b[j].kind = "begin"
    BY <1>1, <1>3 DEF Managed
  <2> QED BY <1>2, <1>3, <2>1 DEF HasBegin, HasEnd
<1>4. CASE j = Len(b)
  <2>1. b[j].kind = "end"
    BY <1>1, <1>4 DEF Managed
  <2> QED BY <1>2, <1>4, <2>1 DEF HasBegin, HasEnd
<1>5. CASE j # 1 /\ j # Len(b)
  <2>1. j \in 2..(Len(b) - 1)
    <3> DEFINE n == Len(b)
    <3>1. n \in Nat /\ j \in 1..n /\ j # 1 /\ j # n
      BY <1>2, <1>5
    <3> HIDE DEF n
    <3>2. j \in 2..(n - 1)
      BY <3>1
    <3> QED BY <3>2 DEF n
  <2>2. b[j].kind \in {"chrome", "blank", "fact"}
    BY <2>1 DEF Managed
  <2>3. ~(b[j].kind = "fact" /\ HasEnd(b[j]))
    BY DEF HasSentinel
  <2> QED BY <1>5, <2>2, <2>3 DEF HasBegin, HasEnd
<1> QED BY <1>3, <1>4, <1>5

\* The text with the block b between the lines A and C.
Around(A, b, C) == (A \o b) \o C

\* The lines of a text made of three.
MadeOf(text, A, b, C) ==
  /\ Len(A) \in Nat /\ Len(b) \in Nat /\ Len(C) \in Nat
  /\ Len(text) = Len(A) + Len(b) + Len(C)
  /\ \A i \in 1..Len(A) : text[i] = A[i]
  /\ \A i \in 1..Len(b) : text[Len(A) + i] = b[i]
  /\ \A i \in 1..Len(C) : text[Len(A) + Len(b) + i] = C[i]

LEMMA AroundLines ==
  ASSUME NEW S, NEW A \in Seq(S), NEW b \in Seq(S), NEW C \in Seq(S)
  PROVE  Around(A, b, C) \in Seq(S) /\ MadeOf(Around(A, b, C), A, b, C)
<1> DEFINE la == Len(A)
           lb == Len(b)
           lc == Len(C)
           AB == A \o b
           text == AB \o C
<1>1. la \in Nat /\ lb \in Nat /\ lc \in Nat
  BY LenProperties
<1>2. /\ AB \in Seq(S) /\ Len(AB) = la + lb
      /\ \A i \in 1..(la + lb) : AB[i] = IF i <= la THEN A[i] ELSE b[i - la]
  BY ConcatProperties
<1> HIDE DEF AB
<1>3. /\ text \in Seq(S) /\ Len(text) = Len(AB) + lc
      /\ \A i \in 1..(Len(AB) + lc) : text[i] = IF i <= Len(AB) THEN AB[i] ELSE C[i - Len(AB)]
  <2>1. AB \in Seq(S)
    BY <1>2
  <2> QED BY <2>1, ConcatProperties
<1> HIDE DEF la, lb, lc, text
<1>4. ASSUME NEW i \in 1..la PROVE text[i] = A[i]
  BY <1>1, <1>2, <1>3
<1>5. ASSUME NEW i \in 1..lb PROVE text[la + i] = b[i]
  <2>1. la + i \in 1..(la + lb) /\ la + i \in 1..(Len(AB) + lc) /\ (la + i) - la = i /\ ~(la + i <= la)
    BY <1>1, <1>2
  <2> QED BY <1>1, <1>2, <1>3, <2>1
<1>6. ASSUME NEW i \in 1..lc PROVE text[la + lb + i] = C[i]
  <2>1. /\ la + lb + i \in 1..(Len(AB) + lc) /\ (la + lb + i) - Len(AB) = i
        /\ ~(la + lb + i <= Len(AB))
    BY <1>1, <1>2
  <2> QED BY <1>1, <1>2, <1>3, <2>1
<1>7. Around(A, b, C) = text
  BY DEF Around, text, AB
<1>8. Len(text) = la + lb + lc
  BY <1>1, <1>2, <1>3
<1> QED BY <1>1, <1>3, <1>4, <1>5, <1>6, <1>7, <1>8 DEF la, lb, lc, MadeOf

\* Lines with no sentinel of their own outside their fences.
Bare(text) == Begins(text) = {} /\ Ends(text) = {}

\* managed_block_sentinels: a block put where no fence is open, between bare
\* lines, is the block that is found, and what is around it the user's text.
LEMMA BlockFound ==
  ASSUME NEW S, NEW A \in Seq(S), NEW b \in Seq(S), NEW C \in Seq(S),
         Managed(b), ~HasSentinel(b), Bare(A), Bare(C), OpenFence(A)[Len(A)] = NoFence
  PROVE  /\ HasBlock(Around(A, b, C))
         /\ Before(Around(A, b, C)) = A /\ After(Around(A, b, C)) = C
<1> DEFINE la == Len(A)
           lb == Len(b)
           lc == Len(C)
           text == Around(A, b, C)
           o == OpenFence(text)
<1>1. /\ text \in Seq(S) /\ la \in Nat /\ lb \in Nat /\ lc \in Nat /\ Len(text) = la + lb + lc
      /\ \A i \in 1..la : text[i] = A[i]
      /\ \A i \in 1..lb : text[la + i] = b[i]
      /\ \A i \in 1..lc : text[la + lb + i] = C[i]
  <2>1. text \in Seq(S) /\ MadeOf(text, A, b, C)
    BY AroundLines
  <2> HIDE DEF text
  <2> QED BY <2>1 DEF MadeOf
<1>2. DOMAIN text = 1..Len(text) /\ DOMAIN A = 1..la /\ DOMAIN b = 1..lb /\ DOMAIN C = 1..lc
  BY <1>1, LenProperties
<1>3. 2 <= lb
  BY DEF Managed
<1> HIDE DEF text
<1>4. \A j \in 1..lb : /\ b[j].kind # "fence"
                       /\ HasBegin(b[j]) <=> j = 1
                       /\ HasEnd(b[j]) <=> j = lb
  BY <1>2, ManagedLines
<1>5. \A i \in 0..la : o[i] = OpenFence(A)[i]
  <2>1. o[0] = NoFence /\ OpenFence(A)[0] = NoFence
    BY <1>1, OpenFenceIs
  <2>2. Alike(text, 0, A, 0, la)
    BY <1>1 DEF Alike
  <2>3. 0 \in Nat
    OBVIOUS
  <2>4. FencesAlike(text, 0, A, 0, la)
    BY <1>1, <2>1, <2>2, <2>3, FencesAgree
  <2> QED BY <1>1, <2>4 DEF FencesAlike
<1>6. o[la] = NoFence
  BY <1>1, <1>5
<1>7. \A i \in 0..lb : o[la + i] = NoFence
  <2>1. la + lb <= Len(text) /\ Len(text) \in Nat
    BY <1>1
  <2>2. \A i \in 1..lb : text[la + i].kind # "fence"
    BY <1>1, <1>4
  <2> HIDE DEF la, lb
  <2>3. \A i \in 0..lb : OpenFence(text)[la + i] = OpenFence(text)[la]
    BY <1>1, <2>1, <2>2, FencesRest
  <2> QED BY <1>6, <2>3
<1>8. \A i \in 0..lc : o[la + lb + i] = OpenFence(C)[i]
  <2> DEFINE m == la + lb
  <2>1. m \in Nat /\ 0 \in Nat
    BY <1>1
  <2>2. Alike(text, m, C, 0, lc)
    BY <1>1 DEF Alike
  <2>3. o[m] = OpenFence(C)[0]
    <3>1. OpenFence(C)[0] = NoFence
      BY <1>1, OpenFenceIs
    <3>2. lb \in 0..lb
      BY <1>1
    <3> QED BY <1>7, <3>1, <3>2
  <2> HIDE DEF m
  <2>4. FencesAlike(text, m, C, 0, lc)
    BY <1>1, <2>1, <2>2, <2>3, FencesAgree
  <2>5. \A i \in 0..lc : o[m + i] = OpenFence(C)[0 + i]
    BY <2>4 DEF FencesAlike
  <2> HIDE DEF o
  <2>6. ASSUME NEW i \in 0..lc PROVE o[m + i] = OpenFence(C)[i]
    <3>1. 0 + i = i
      BY <1>1
    <3>2. o[m + i] = OpenFence(C)[0 + i]
      BY <2>5
    <3> QED BY <3>1, <3>2
  <2> QED BY <2>6 DEF m
<1> HIDE DEF o, la, lb, lc
<1>9. /\ \A i \in 1..la : o[i] = NoFence => ~HasBegin(A[i]) /\ ~HasEnd(A[i])
      /\ \A i \in 1..lc : o[la + lb + i] = NoFence => ~HasBegin(C[i]) /\ ~HasEnd(C[i])
  <2>1. \A i \in 1..la : OpenFence(A)[i] = NoFence => ~HasBegin(A[i]) /\ ~HasEnd(A[i])
    BY <1>2 DEF Bare, Begins, Ends
  <2>2. \A i \in 1..lc : OpenFence(C)[i] = NoFence => ~HasBegin(C[i]) /\ ~HasEnd(C[i])
    BY <1>2 DEF Bare, Begins, Ends
  <2>3. (\A i \in 1..la : i \in 0..la) /\ (\A i \in 1..lc : i \in 0..lc)
    BY <1>1
  <2> QED BY <1>5, <1>8, <2>1, <2>2, <2>3
<1>10. ASSUME NEW i \in 1..Len(text)
       PROVE  /\ HasBegin(text[i]) /\ o[i] = NoFence <=> i = la + 1
              /\ HasEnd(text[i]) /\ o[i] = NoFence <=> i = la + lb
  <2>1. CASE i <= la
    <3>1. i \in 1..la /\ i # la + 1 /\ i # la + lb
      BY <1>1, <1>3, <2>1
    <3> QED BY <1>1, <1>9, <3>1
  <2>2. CASE la < i /\ i <= la + lb
    <3> DEFINE j == i - la
    <3>1. j \in 1..lb /\ j \in 0..lb /\ la + j = i
      BY <1>1, <2>2
    <3>2. (i = la + 1 <=> j = 1) /\ (i = la + lb <=> j = lb)
      BY <1>1
    <3> HIDE DEF j
    <3>3. text[i] = b[j] /\ o[i] = NoFence
      BY <1>1, <1>7, <3>1
    <3> QED BY <1>4, <3>1, <3>2, <3>3
  <2>3. CASE la + lb < i
    <3> DEFINE j == i - (la + lb)
    <3>1. j \in 1..lc /\ la + lb + j = i /\ i # la + 1 /\ i # la + lb
      BY <1>1, <1>3, <2>3
    <3> HIDE DEF j
    <3>2. text[i] = C[j] /\ (o[i] = NoFence => ~HasBegin(C[j]) /\ ~HasEnd(C[j]))
      BY <1>1, <1>9, <3>1
    <3> QED BY <3>1, <3>2
  <2> QED BY <1>1, <2>1, <2>2, <2>3
<1>11. /\ la + 1 \in 1..Len(text) /\ la + lb \in 1..Len(text) /\ la + 1 < la + lb
       /\ (la + 1) - 1 = la /\ Len(text) \in Nat
  BY <1>1, <1>3
<1>12. Begins(text) = {la + 1} /\ Ends(text) = {la + lb}
  BY <1>2, <1>10, <1>11 DEF Begins, Ends, o
<1>13. HasBlock(text)
  BY <1>2, <1>11, <1>12 DEF HasBlock, IsBlock
<1>14. Before(text) = A
  <2> DEFINE s == SubSeq(text, 1, la)
  <2>1. Before(text) = s
    <3>1. (CHOOSE e \in {la + 1} : TRUE) = la + 1
      OBVIOUS
    <3> QED BY <1>11, <1>12, <3>1 DEF Before
  <2>2. \A i \in 1..la : text[i] \in S
    BY <1>1, ElementOfSeq, <1>11
  <2>3. 1 \in Int /\ la \in Int /\ la - 1 + 1 = la /\ (1 <= la \/ la = 0) /\ \A i \in 1..la : 1 + i - 1 = i
    BY <1>1
  <2>4. /\ s \in Seq(S) /\ Len(s) = IF 1 <= la THEN la - 1 + 1 ELSE 0
        /\ \A i \in 1..(la - 1 + 1) : s[i] = text[1 + i - 1]
    BY <2>2, <2>3, SubSeqProperties
  <2> HIDE DEF s
  <2>5. Len(s) = la /\ \A i \in 1..la : s[i] = A[i]
    BY <1>1, <2>3, <2>4
  <2> QED BY <2>1, <2>4, <2>5, SeqEqual DEF la
<1>15. After(text) = C
  <2> DEFINE n == Len(text)
             m == la + lb + 1
             s == SubSeq(text, m, n)
  <2>1. After(text) = s
    <3>1. (CHOOSE e \in {la + lb} : TRUE) = la + lb
      OBVIOUS
    <3> QED BY <1>12, <3>1 DEF After
  <2>2. \A i \in m..n : text[i] \in S
    <3>1. \A i \in m..n : i \in 1..Len(text)
      BY <1>1
    <3> QED BY <1>1, <3>1, ElementOfSeq
  <2>3. /\ m \in Int /\ n \in Int /\ n - m + 1 = lc /\ (m <= n \/ lc = 0)
        /\ \A i \in 1..lc : m + i - 1 = la + lb + i
    BY <1>1
  <2> HIDE DEF m, n
  <2>4. /\ s \in Seq(S) /\ Len(s) = IF m <= n THEN n - m + 1 ELSE 0
        /\ \A i \in 1..(n - m + 1) : s[i] = text[m + i - 1]
    BY <2>2, <2>3, SubSeqProperties
  <2> HIDE DEF s
  <2>5. Len(s) = lc /\ \A i \in 1..lc : s[i] = C[i]
    <3>1. Len(s) = lc
      BY <2>3, <2>4
    <3>2. \A i \in 1..lc : s[i] = text[la + lb + i]
      BY <2>3, <2>4
    <3> QED BY <1>1, <3>1, <3>2
  <2> QED BY <2>1, <2>4, <2>5, SeqEqual DEF lc
<1> QED BY <1>13, <1>14, <1>15 DEF text

\* The lines A are the first k of the text, after which no fence is open, and
\* then lines that are no fences.
Leads(A, text, k) ==
  /\ k \in Nat /\ Alike(A, 0, text, 0, k) /\ OpenFence(text)[k] = NoFence
  /\ \A i \in (k + 1)..Len(A) : A[i].kind # "fence"

\* After such lines no fence is open.
LEMMA LeadsClosed ==
  ASSUME NEW A, NEW text, NEW k, Leads(A, text, k)
  PROVE  OpenFence(A)[Len(A)] = NoFence
<1> DEFINE n == Len(A)
           m == n - k
<1>1. k \in Nat /\ n \in Nat /\ k <= n /\ Len(text) \in Nat /\ Alike(A, 0, text, 0, k)
  BY DEF Leads, Alike
<1>2. m \in Nat /\ k + m = n /\ k + m <= n /\ 0 \in Nat
  BY <1>1
<1>3. OpenFence(A)[0] = NoFence /\ OpenFence(text)[0] = NoFence
  BY <1>1, OpenFenceIs
<1>4. FencesAlike(A, 0, text, 0, k)
  BY <1>1, <1>2, <1>3, FencesAgree
<1>5. OpenFence(A)[k] = NoFence
  <2>1. k \in 0..k /\ 0 + k = k
    BY <1>1
  <2>2. OpenFence(A)[0 + k] = OpenFence(text)[0 + k]
    BY <1>4, <2>1 DEF FencesAlike
  <2> QED BY <2>1, <2>2 DEF Leads
<1>6. \A i \in 1..m : A[k + i].kind # "fence"
  <2>1. \A i \in 1..m : k + i \in (k + 1)..n
    BY <1>1
  <2> QED BY <2>1 DEF Leads
<1> HIDE DEF m
<1>7. \A i \in 0..m : OpenFence(A)[k + i] = OpenFence(A)[k]
  BY <1>1, <1>2, <1>6, FencesRest
<1>8. m \in 0..m
  BY <1>2
<1>9. OpenFence(A)[k + m] = NoFence
  BY <1>5, <1>7, <1>8
<1> QED BY <1>2, <1>9

\* Bare lines are bare in any text that they are a part of, and conversely.
LEMMA PartIsBare ==
  ASSUME NEW part, NEW text, NEW a \in Nat, DOMAIN part = 1..Len(part), DOMAIN text = 1..Len(text),
         Alike(text, a, part, 0, Len(part)), OpenFence(text)[a] = NoFence,
         \A i \in Begins(text) \cup Ends(text) : ~(a < i /\ i <= a + Len(part))
  PROVE  Bare(part)
<1> DEFINE k == Len(part)
<1>1. k \in Nat /\ Len(text) \in Nat /\ a + k <= Len(text)
  BY DEF Alike
<1>2. OpenFence(part)[0] = NoFence /\ 0 \in Nat
  BY <1>1, OpenFenceIs
<1>3. FencesAlike(text, a, part, 0, k)
  <2>1. OpenFence(text)[a] = OpenFence(part)[0]
    BY <1>2
  <2> QED BY <1>1, <1>2, <2>1, FencesAgree
<1>4. ASSUME NEW i \in 1..k
      PROVE  /\ text[a + i] = part[i] /\ OpenFence(text)[a + i] = OpenFence(part)[i]
             /\ a + i \in DOMAIN text /\ a + i \notin Begins(text) /\ a + i \notin Ends(text)
  <2>1. 0 + i = i /\ i \in 0..k /\ a + i \in 1..Len(text) /\ a < a + i /\ a + i <= a + k
    BY <1>1
  <2>2. text[a + i] = part[0 + i]
    BY DEF Alike
  <2>3. OpenFence(text)[a + i] = OpenFence(part)[0 + i]
    BY <1>3, <2>1 DEF FencesAlike
  <2> QED BY <2>1, <2>2, <2>3
<1>5. \A i \in 1..k : OpenFence(part)[i] = NoFence => ~HasBegin(part[i]) /\ ~HasEnd(part[i])
  BY <1>4 DEF Begins, Ends
<1> QED BY <1>5 DEF Bare, Begins, Ends

\* The lines around the block of a text.
LEMMA AroundTheBlock ==
  ASSUME NEW T, NEW text \in Seq(T), NEW b \in DOMAIN text, NEW e \in DOMAIN text,
         IsBlock(text, b, e)
  PROVE  /\ Before(text) \in Seq(T) /\ After(text) \in Seq(T)
         /\ Leads(Before(text), text, b - 1) /\ Bare(Before(text)) /\ Bare(After(text))
<1> DEFINE n == Len(text)
           la == b - 1
           lc == n - e
           m == e + 1
           A == SubSeq(text, 1, la)
           C == SubSeq(text, m, n)
<1>1. n \in Nat /\ DOMAIN text = 1..n /\ b \in 1..n /\ e \in 1..n
  BY LenProperties
<1>2. Begins(text) = {b} /\ Ends(text) = {e} /\ b < e
  BY DEF IsBlock
<1>3. Before(text) = A /\ After(text) = C
  <2>1. (CHOOSE x \in {b} : TRUE) = b /\ (CHOOSE x \in {e} : TRUE) = e
    OBVIOUS
  <2> QED BY <1>2, <2>1 DEF Before, After
<1>4. /\ la \in Nat /\ lc \in Nat /\ m \in Nat /\ 1 \in Int /\ la \in Int /\ m \in Int /\ n \in Int
      /\ la < b /\ la <= n /\ e + lc = n
  BY <1>1
<1>5. A \in Seq(T) /\ Len(A) = la /\ \A i \in 1..la : A[i] = text[i]
  <2>1. \A i \in 1..la : text[i] \in T
    BY <1>1, ElementOfSeq
  <2> HIDE DEF la
  <2>2. /\ A \in Seq(T) /\ Len(A) = IF 1 <= la THEN la - 1 + 1 ELSE 0
        /\ \A i \in 1..(la - 1 + 1) : A[i] = text[1 + i - 1]
    BY <1>4, <2>1, SubSeqProperties
  <2> HIDE DEF A
  <2>3. la - 1 + 1 = la /\ (1 <= la \/ la = 0) /\ \A i \in 1..la : 1 + i - 1 = i
    BY <1>4
  <2> QED BY <2>2, <2>3
<1>6. C \in Seq(T) /\ Len(C) = lc /\ \A i \in 1..lc : C[i] = text[e + i]
  <2>1. \A i \in m..n : text[i] \in T
    BY <1>1, ElementOfSeq
  <2>2. n - m + 1 = lc /\ (m <= n \/ lc = 0) /\ \A i \in 1..lc : m + i - 1 = e + i
    BY <1>1
  <2> HIDE DEF m, n
  <2>3. /\ C \in Seq(T) /\ Len(C) = IF m <= n THEN n - m + 1 ELSE 0
        /\ \A i \in 1..(n - m + 1) : C[i] = text[m + i - 1]
    BY <1>4, <2>1, SubSeqProperties
  <2> HIDE DEF C, lc
  <2> QED BY <2>2, <2>3
<1>7. DOMAIN A = 1..Len(A) /\ DOMAIN C = 1..Len(C)
  BY <1>5, <1>6, LenProperties
<1> HIDE DEF A, C
<1>8. OpenFence(text)[la] = NoFence
  <2>1. b \in Begins(text)
    BY <1>2
  <2>2. text[b].kind = "begin" /\ OpenFence(text)[b] = NoFence
    BY <2>1 DEF Begins, HasBegin
  <2>3. OpenFence(text)[b] = FenceStep(OpenFence(text)[b - 1], text[b])
    BY <1>1, OpenFenceIs
  <2> QED BY <2>2, <2>3 DEF FenceStep
<1>9. OpenFence(text)[e] = NoFence
  <2>1. e \in Ends(text)
    BY <1>2
  <2> QED BY <2>1 DEF Ends
<1>10. OpenFence(text)[0] = NoFence /\ 0 \in Nat
  BY <1>1, OpenFenceIs
<1>11. Leads(A, text, la)
  <2>1. Alike(A, 0, text, 0, la)
    BY <1>1, <1>4, <1>5 DEF Alike
  <2>2. (la + 1)..Len(A) = {}
    BY <1>4, <1>5
  <2> HIDE DEF la
  <2> QED BY <1>4, <1>8, <2>1, <2>2 DEF Leads
<1>12. Bare(A)
  <2>1. Alike(text, 0, A, 0, Len(A))
    BY <1>1, <1>4, <1>5 DEF Alike
  <2>2. \A i \in Begins(text) \cup Ends(text) : ~(0 < i /\ i <= 0 + Len(A))
    BY <1>1, <1>2, <1>4, <1>5
  <2> QED BY <1>1, <1>7, <1>10, <2>1, <2>2, PartIsBare
<1>13. Bare(C)
  <2>1. Alike(text, e, C, 0, Len(C))
    BY <1>1, <1>4, <1>6 DEF Alike
  <2>2. \A i \in Begins(text) \cup Ends(text) : ~(e < i /\ i <= e + Len(C))
    BY <1>1, <1>2
  <2>3. e \in Nat
    BY <1>1
  <2> QED BY <1>1, <1>7, <1>9, <2>1, <2>2, <2>3, PartIsBare
<1> QED BY <1>3, <1>5, <1>6, <1>11, <1>12, <1>13

\* What is the user's of their own lines.
Trimmed(own) == IF own # <<>> /\ Last(own) = Plain("blank") THEN Front(own) ELSE own

\* A splice put the block between the lines A and C, and the user's text around
\* it is that of the text it was put into.
Site(text, b, A, C, k) ==
  /\ Splice(text, b).file = Around(A, b, C)
  /\ Leads(A, text, k) /\ Bare(A) /\ Bare(C)
  /\ Trimmed(A \o C) = UserText(text)

Sited(text, b, S) == b \in Seq(S) /\ \E A, C \in Seq(S) : \E k \in Nat : Site(text, b, A, C, k)

LEMMA EmptyIsBare ==
  Len(<<>>) = 0 /\ Bare(<<>>) /\ ~HasBlock(<<>>) /\ Trimmed(<<>>) = <<>> /\ OpenFence(<<>>)[0] = NoFence
<1>1. Len(<<>>) = 0 /\ DOMAIN <<>> = {}
  OBVIOUS
<1>2. Begins(<<>>) = {} /\ Ends(<<>>) = {}
  BY <1>1 DEF Begins, Ends
<1>3. ~HasBlock(<<>>)
  BY <1>1 DEF HasBlock
<1>4. Len(<<>>) \in Nat
  BY <1>1
<1>5. OpenFence(<<>>)[0] = NoFence
  BY <1>4, OpenFenceIs
<1> QED BY <1>1, <1>2, <1>3, <1>5 DEF Bare, Trimmed

\* An export creates the file.
LEMMA SpliceCreates ==
  ASSUME NEW S, NEW b \in Seq(S), Managed(b)
  PROVE  Sited(<<>>, b, S)
<1>1. Splice(<<>>, b).file = b
  BY DEF Splice, Spliced
<1>2. <<>> \in Seq(S) /\ <<>> \o <<>> = <<>> /\ <<>> \o b = b /\ b \o <<>> = b
  BY EmptySeq, ConcatEmptySeq
<1>3. Around(<<>>, b, <<>>) = b
  BY <1>2 DEF Around
<1>4. Leads(<<>>, <<>>, 0)
  <2>1. Alike(<<>>, 0, <<>>, 0, 0)
    BY EmptyIsBare DEF Alike
  <2>2. 0 \in Nat /\ (0 + 1)..Len(<<>>) = {}
    BY EmptyIsBare
  <2> QED BY <2>1, <2>2, EmptyIsBare DEF Leads
<1>5. UserText(<<>>) = <<>>
  BY EmptyIsBare DEF UserText
<1>6. Site(<<>>, b, <<>>, <<>>, 0)
  BY <1>1, <1>2, <1>3, <1>4, <1>5, EmptyIsBare DEF Site
<1> QED BY <1>2, <1>6 DEF Sited

\* An export replaces the one block there is.
LEMMA SpliceReplaces ==
  ASSUME NEW S, NEW b \in Seq(S), NEW text \in Seq(S), text # <<>>, HasBlock(text)
  PROVE  Sited(text, b, S)
<1> DEFINE A == Before(text)
           C == After(text)
<1>1. PICK x, y \in DOMAIN text : IsBlock(text, x, y)
  BY DEF HasBlock
<1>2. A \in Seq(S) /\ C \in Seq(S) /\ Leads(A, text, x - 1) /\ Bare(A) /\ Bare(C)
  BY <1>1, AroundTheBlock
<1>3. Splice(text, b).file = Around(A, b, C)
  BY DEF Splice, Spliced, Around
<1>4. UserText(text) = Trimmed(A \o C)
  BY DEF UserText, Trimmed
<1> HIDE DEF A, C
<1>5. x - 1 \in Nat
  BY <1>2 DEF Leads
<1>6. Site(text, b, A, C, x - 1)
  BY <1>2, <1>3, <1>4 DEF Site
<1> QED BY <1>2, <1>5, <1>6 DEF Sited

\* An export appends the block to a file without one, after a blank line.
LEMMA SpliceAppends ==
  ASSUME NEW S, NEW b \in Seq(S), NEW text \in Seq(S), text # <<>>, ~HasBlock(text),
         Splice(text, b).ok, Plain("blank") \in S
  PROVE  Sited(text, b, S)
<1> DEFINE n == Len(text)
           blank == Plain("blank")
           A == text \o Gap(text)
<1>1. n \in Nat /\ n # 0 /\ DOMAIN text = 1..n
  BY LenProperties, EmptySeq
<1>2. blank.kind = "blank"
  BY DEF Plain
<1>3. /\ Begins(text) \cup Ends(text) = {} /\ OpenFence(text)[n] = NoFence
      /\ Splice(text, b).file = A \o b
  BY DEF Splice, Spliced, Refuse
<1>4. UserText(text) = Trimmed(text)
  BY DEF UserText, Trimmed
<1>5. Bare(text)
  BY <1>3 DEF Bare
<1> HIDE DEF blank
<1>6. CASE Last(text) = blank
  <2>1. A = text
    BY <1>6, ConcatEmptySeq DEF Gap, blank
  <2>2. <<>> \in Seq(S) /\ text \o <<>> = text
    BY EmptySeq, ConcatEmptySeq
  <2>3. text \o b \in Seq(S)
    BY ConcatProperties
  <2>4. Splice(text, b).file = Around(text, b, <<>>)
    BY <1>3, <2>1, <2>3, ConcatEmptySeq DEF Around
  <2>5. Leads(text, text, n)
    <3>1. Alike(text, 0, text, 0, n)
      BY <1>1 DEF Alike
    <3>2. (n + 1)..Len(text) = {}
      BY <1>1
    <3> QED BY <1>1, <1>3, <3>1, <3>2 DEF Leads
  <2>6. Site(text, b, text, <<>>, n)
    BY <1>4, <1>5, <2>2, <2>4, <2>5, EmptyIsBare DEF Site
  <2> QED BY <1>1, <2>2, <2>6 DEF Sited
<1>7. CASE Last(text) # blank
  <2> DEFINE gap == <<blank>>
  <2>1. A = text \o gap
    BY <1>7 DEF Gap, blank
  <2>2. gap \in Seq(S) /\ Len(gap) = 1 /\ gap[1] = blank
    BY DEF blank
  <2> HIDE DEF gap, A
  <2>3. /\ A \in Seq(S) /\ Len(A) = n + 1 /\ \A i \in 1..n : A[i] = text[i]
        /\ A[n + 1] = blank
    <3>1. /\ A \in Seq(S) /\ Len(A) = Len(text) + Len(gap)
          /\ \A i \in 1..(Len(text) + Len(gap)) :
               A[i] = IF i <= Len(text) THEN text[i] ELSE gap[i - Len(text)]
      BY <2>1, <2>2, ConcatProperties
    <3>2. /\ n + 1 \in 1..(n + 1) /\ ~(n + 1 <= n) /\ (n + 1) - n = 1
          /\ \A i \in 1..n : i \in 1..(n + 1) /\ i <= n
      BY <1>1
    <3> QED BY <2>2, <3>1, <3>2
  <2>4. DOMAIN A = 1..Len(A) /\ A # <<>>
    BY <1>1, <2>3, LenProperties, EmptySeq
  <2>5. <<>> \in Seq(S) /\ A \o <<>> = A
    BY <2>3, EmptySeq, ConcatEmptySeq
  <2>6. Splice(text, b).file = Around(A, b, <<>>)
    <3>1. A \o b \in Seq(S)
      BY <2>3, ConcatProperties
    <3> QED BY <1>3, <3>1, ConcatEmptySeq DEF Around
  <2>7. Leads(A, text, n)
    <3>1. Alike(A, 0, text, 0, n)
      BY <1>1, <2>3 DEF Alike
    <3>2. ASSUME NEW i \in (n + 1)..Len(A) PROVE A[i].kind # "fence"
      <4>1. i = n + 1
        BY <1>1, <2>3
      <4> QED BY <1>2, <2>3, <4>1
    <3> QED BY <1>1, <1>3, <3>1, <3>2 DEF Leads
  <2>8. Bare(A)
    <3>1. OpenFence(A)[0] = NoFence /\ OpenFence(text)[0] = NoFence /\ 0 \in Nat
      BY <1>1, <2>3, OpenFenceIs
    <3>2. FencesAlike(A, 0, text, 0, n)
      <4>1. Alike(A, 0, text, 0, n)
        BY <2>7 DEF Leads
      <4> QED BY <1>1, <3>1, <4>1, FencesAgree
    <3>3. ASSUME NEW i \in 1..Len(A), HasBegin(A[i]) \/ HasEnd(A[i]), OpenFence(A)[i] = NoFence
          PROVE  FALSE
      <4>1. i # n + 1
        BY <1>2, <2>3, <3>3 DEF HasBegin, HasEnd
      <4>2. i \in 1..n /\ i \in 0..n /\ 0 + i = i
        BY <1>1, <2>3, <4>1
      <4>3. A[i] = text[i] /\ OpenFence(A)[0 + i] = OpenFence(text)[0 + i]
        BY <2>3, <3>2, <4>2 DEF FencesAlike
      <4>4. i \in Begins(text) \cup Ends(text)
        BY <1>1, <3>3, <4>2, <4>3 DEF Begins, Ends
      <4> QED BY <1>3, <4>4
    <3> QED BY <2>4, <3>3 DEF Bare, Begins, Ends
  <2>9. Trimmed(A) = text
    <3>1. Last(A) = blank
      BY <2>3 DEF Last
    <3>2. Trimmed(A) = Front(A)
      BY <2>4, <3>1 DEF Trimmed, blank
    <3>3. Front(A) = SubSeq(A, 1, n)
      BY <1>1, <2>3 DEF Front
    <3>4. SubSeq(A, 1, n) = text
      <4> DEFINE s == SubSeq(A, 1, n)
      <4>1. \A i \in 1..n : A[i] \in S
        BY <2>3, ElementOfSeq
      <4>2. 1 \in Int /\ n \in Int /\ 1 <= n /\ n - 1 + 1 = n /\ \A i \in 1..n : 1 + i - 1 = i
        BY <1>1
      <4> HIDE DEF n
      <4>3. /\ s \in Seq(S) /\ Len(s) = IF 1 <= n THEN n - 1 + 1 ELSE 0
            /\ \A i \in 1..(n - 1 + 1) : s[i] = A[1 + i - 1]
        BY <4>1, <4>2, SubSeqProperties
      <4> HIDE DEF s
      <4>4. Len(s) = n /\ \A i \in 1..n : s[i] = text[i]
        BY <2>3, <4>2, <4>3
      <4> QED BY <4>3, <4>4, SeqEqual DEF s, n
    <3> QED BY <3>2, <3>3, <3>4
  <2>10. Trimmed(text) = text
    BY <1>7 DEF Trimmed, blank
  <2>11. Site(text, b, A, <<>>, n)
    BY <1>4, <2>5, <2>6, <2>7, <2>8, <2>9, <2>10, EmptyIsBare DEF Site
  <2> QED BY <1>1, <2>3, <2>5, <2>11 DEF Sited
<1> QED BY <1>6, <1>7

\* splice_managed_block: wherever a block is put, it is found there again, and
\* the user's text is what it was.
LEMMA SpliceKeeps ==
  ASSUME NEW text, IsText(text), NEW b, IsText(b), Managed(b), ~HasSentinel(b), Splice(text, b).ok
  PROVE  \E S : Sited(text, b, S)
<1>1. PICK T : text \in Seq(T)
  BY DEF IsText
<1>2. PICK R : b \in Seq(R)
  BY DEF IsText
<1> DEFINE S == T \cup R \cup {Plain("blank")}
<1>3. text \in Seq(S)
  <2>1. T \subseteq S
    OBVIOUS
  <2> HIDE DEF S
  <2> QED BY <1>1, <2>1, SeqMonotonic
<1>4. b \in Seq(S)
  <2>1. R \subseteq S
    OBVIOUS
  <2> HIDE DEF S
  <2> QED BY <1>2, <2>1, SeqMonotonic
<1>5. Plain("blank") \in S
  OBVIOUS
<1> HIDE DEF S
<1> QED BY <1>3, <1>4, <1>5, SpliceCreates, SpliceReplaces, SpliceAppends

\* An import adds to what it has found, and never drops any of it.
LEMMA FoundGrows ==
  ASSUME NEW text, NEW s, Reads(s, text), Len(text) \in Nat
  PROVE  \E X : /\ \A i \in 0..Len(text) : s[i].found \in Seq(X)
                /\ \A i \in 1..Len(text) : Proposals(s[i - 1].fence, text[i]) \in Seq(X)
<1> DEFINE n == Len(text)
           P(i) == Proposals(s[i - 1].fence, text[i])
           X == {P(i)[1] : i \in 1..n}
           Bad == {i \in 0..n : s[i].found \notin Seq(X)}
<1>1. ASSUME NEW i \in 1..n PROVE P(i) \in Seq(X)
  <2>1. \A fence, line : \/ Proposals(fence, line) = <<>>
                         \/ \E x : Proposals(fence, line) = <<x>>
    BY DEF Proposals
  <2>2. CASE P(i) = <<>>
    BY <2>2, EmptySeq
  <2>3. CASE \E x : P(i) = <<x>>
    <3>1. PICK x : P(i) = <<x>>
      BY <2>3
    <3>2. <<x>>[1] = x
      OBVIOUS
    <3>3. x \in X
      BY <3>1, <3>2
    <3> HIDE DEF X, P
    <3>4. <<x>> \in Seq(X)
      BY <3>3
    <3> QED BY <3>1, <3>4
  <2> HIDE DEF X, P
  <2>4. P(i) = <<>> \/ \E x : P(i) = <<x>>
    BY <2>1 DEF P
  <2> QED BY <2>2, <2>3, <2>4
<1> HIDE DEF X
<1>2. Bad = {}
  <2> SUFFICES ASSUME Bad # {} PROVE FALSE
    OBVIOUS
  <2>1. PICK i \in Bad : \A j \in Bad : i <= j
    <3>1. Bad \subseteq Nat
      OBVIOUS
    <3> HIDE DEF Bad
    <3> QED BY <3>1, LeastNumber
  <2>2. i \in 0..n /\ s[i].found \notin Seq(X)
    BY <2>1
  <2>3. i # 0
    <3>1. s[0].found = <<>>
      BY DEF Reads
    <3> QED BY <2>2, <3>1, EmptySeq
  <2>4. i - 1 \in 0..n /\ ~(i <= i - 1) /\ i \in 1..n
    BY <2>2, <2>3
  <2>5. s[i - 1].found \in Seq(X)
    BY <2>1, <2>4
  <2>6. s[i].found = s[i - 1].found \o P(i)
    BY <2>4 DEF Reads
  <2>7. P(i) \in Seq(X)
    BY <1>1, <2>4
  <2> HIDE DEF P
  <2>8. s[i - 1].found \o P(i) \in Seq(X)
    BY <2>5, <2>7, ConcatProperties
  <2> QED BY <2>2, <2>6, <2>8
<1> QED BY <1>1, <1>2

\* What has been found is in the outcome.
LEMMA FoundStays ==
  ASSUME NEW text, NEW s, Reads(s, text), Len(text) \in Nat, NEW k \in 0..Len(text),
         NEW x \in Range(s[k].found)
  PROVE  x \in Range(ImportFile(text))
<1> DEFINE n == Len(text)
           Bad == {i \in k..n : x \notin Range(s[i].found)}
<1>1. PICK X : /\ \A i \in 0..n : s[i].found \in Seq(X)
               /\ \A i \in 1..n : Proposals(s[i - 1].fence, text[i]) \in Seq(X)
  BY FoundGrows
<1>2. Bad = {}
  <2> SUFFICES ASSUME Bad # {} PROVE FALSE
    OBVIOUS
  <2>1. PICK i \in Bad : \A j \in Bad : i <= j
    <3>1. Bad \subseteq Nat
      OBVIOUS
    <3> HIDE DEF Bad
    <3> QED BY <3>1, LeastNumber
  <2>2. i \in k..n /\ x \notin Range(s[i].found)
    BY <2>1
  <2>3. i # k
    BY <2>2
  <2>4. i - 1 \in k..n /\ ~(i <= i - 1) /\ i \in 1..n /\ i - 1 \in 0..n
    BY <2>2, <2>3
  <2>5. x \in Range(s[i - 1].found)
    BY <2>1, <2>4
  <2> DEFINE old == s[i - 1].found
             new == Proposals(s[i - 1].fence, text[i])
  <2>6. s[i].found = old \o new
    BY <2>4 DEF Reads
  <2>7. old \in Seq(X) /\ new \in Seq(X)
    BY <1>1, <2>4
  <2> HIDE DEF old, new
  <2>8. PICK j \in 1..Len(old) : x = old[j]
    <3>1. DOMAIN old = 1..Len(old)
      BY <2>7, LenProperties
    <3>2. x \in Range(old)
      BY <2>5 DEF old
    <3> QED BY <3>1, <3>2 DEF Range
  <2>9. /\ old \o new \in Seq(X) /\ Len(old \o new) = Len(old) + Len(new)
        /\ \A m \in 1..(Len(old) + Len(new)) :
             (old \o new)[m] = IF m <= Len(old) THEN old[m] ELSE new[m - Len(old)]
    BY <2>7, ConcatProperties
  <2>10. /\ Len(old) \in Nat /\ Len(new) \in Nat /\ DOMAIN (old \o new) = 1..Len(old \o new)
    BY <2>7, <2>9, LenProperties
  <2>11. j \in DOMAIN (old \o new) /\ (old \o new)[j] = x
    BY <2>8, <2>9, <2>10
  <2>12. x \in Range(old \o new)
    BY <2>11 DEF Range
  <2> QED BY <2>2, <2>6, <2>12
<1>3. n \in k..n
  OBVIOUS
<1>4. x \in Range(s[n].found)
  BY <1>2, <1>3
<1> QED BY <1>4 DEF Reads

\* parse_import_file: a fact line outside every fence is a proposal.
LEMMA FactIsFound ==
  ASSUME NEW text, NEW s, Reads(s, text), Len(text) \in Nat, NEW k \in 1..Len(text),
         s[k - 1].fence = "none", text[k].kind = "fact", ~HasEnd(text[k])
  PROVE  ReceiptProposal(text[k]) \in Range(ImportFile(text))
<1> DEFINE x == ReceiptProposal(text[k])
           old == s[k - 1].found
           new == Proposals(s[k - 1].fence, text[k])
<1>1. k \in 0..Len(text) /\ k - 1 \in 0..Len(text)
  OBVIOUS
<1>2. new = <<x>>
  BY DEF Proposals, HasBegin
<1>3. s[k].found = old \o new
  BY DEF Reads
<1>4. PICK X : old \in Seq(X) /\ new \in Seq(X)
  BY <1>1, FoundGrows
<1> HIDE DEF old, new, x
<1>5. Len(new) = 1 /\ new[1] = x
  BY <1>2
<1>6. /\ old \o new \in Seq(X) /\ Len(old \o new) = Len(old) + Len(new)
      /\ \A m \in 1..(Len(old) + Len(new)) :
           (old \o new)[m] = IF m <= Len(old) THEN old[m] ELSE new[m - Len(old)]
  BY <1>4, ConcatProperties
<1>7. Len(old) \in Nat /\ DOMAIN (old \o new) = 1..Len(old \o new)
  BY <1>4, <1>6, LenProperties
<1>8. /\ Len(old) + 1 \in 1..(Len(old) + Len(new)) /\ ~(Len(old) + 1 <= Len(old))
      /\ (Len(old) + 1) - Len(old) = 1
  BY <1>5, <1>7
<1>9. Len(old) + 1 \in DOMAIN (old \o new) /\ (old \o new)[Len(old) + 1] = x
  BY <1>5, <1>6, <1>7, <1>8
<1>10. x \in Range(s[k].found)
  BY <1>3, <1>9 DEF Range
<1>11. x \in Range(ImportFile(text))
  BY <1>1, <1>10, FoundStays
<1> QED BY <1>11 DEF x

\* An import of the text around which the block was put proposes its facts.
LEMMA FactsComeBack ==
  ASSUME NEW S, NEW text, NEW A \in Seq(S), NEW b \in Seq(S), NEW C \in Seq(S), NEW k,
         Managed(b), ~HasSentinel(b), Leads(A, text, k),
         PlainFences(text), DOMAIN text = 1..Len(text),
         NEW i \in 1..Len(b), b[i].kind = "fact"
  PROVE  ReceiptProposal(b[i]) \in Range(ImportFile(Around(A, b, C)))
<1> DEFINE la == Len(A)
           lb == Len(b)
           m == (la - k) + lb
           full == Around(A, b, C)
<1>1. k \in Nat /\ la \in Nat /\ k <= la /\ Len(text) \in Nat /\ k <= Len(text)
  BY DEF Leads, Alike
<1>2. /\ MadeOf(full, A, b, C)
      /\ DOMAIN b = 1..lb
  BY AroundLines, LenProperties
<1> HIDE DEF full
<1>3. /\ lb \in Nat /\ Len(C) \in Nat /\ Len(full) = la + lb + Len(C) /\ Len(full) \in Nat
      /\ \A j \in 1..la : full[j] = A[j]
      /\ \A j \in 1..lb : full[la + j] = b[j]
  BY <1>2 DEF MadeOf
<1>4. /\ m \in Nat /\ k + m = la + lb /\ k + m <= Len(full) /\ k <= Len(full)
      /\ i - 1 + (la - k) \in 0..m /\ k + (i - 1 + (la - k)) = (la + i) - 1
      /\ la + i \in 1..Len(full)
  BY <1>1, <1>3
<1>5. PICK s : Reads(s, full)
  BY <1>3, ImportFileIs
<1>6. PICK r : Reads(r, text)
  BY <1>1, ImportFileIs
<1>7. s[k].fence = "none"
  <2>1. ASSUME NEW j \in 1..k PROVE full[j] = text[j]
    <3>1. j \in 1..la /\ 0 + j = j
      BY <1>1
    <3>2. A[0 + j] = text[0 + j]
      BY DEF Leads, Alike
    <3> QED BY <1>3, <3>1, <3>2
  <2>2. k \in 0..k /\ k \in 0..Len(text)
    BY <1>1
  <2>3. \A j \in 0..k : s[j].fence = r[j].fence
    <3>1. SameStart(full, text, k)
      BY <2>1 DEF SameStart
    <3>2. k \in Nat /\ Len(full) \in Nat /\ Len(text) \in Nat /\ k <= Len(full) /\ k <= Len(text)
      BY <1>1, <1>3, <1>4
    <3> QED BY <1>5, <1>6, <3>1, <3>2, ImportsAgree
  <2>4. OpenFence(text)[k] = NoFence <=> r[k].fence = "none"
    BY <1>1, <1>6, <2>2, FencesTogether
  <2>5. OpenFence(text)[k] = NoFence
    BY DEF Leads
  <2> QED BY <2>2, <2>3, <2>4, <2>5
<1>8. \A j \in 1..lb : b[j].kind # "fence" /\ (HasEnd(b[j]) => j = lb)
  BY <1>2, ManagedLines
<1>9. ASSUME NEW j \in 1..m PROVE full[k + j].kind # "fence"
  <2>1. CASE k + j <= la
    <3>1. k + j \in (k + 1)..la /\ k + j \in 1..la
      BY <1>1, <1>4, <2>1
    <3>2. A[k + j].kind # "fence"
      BY <3>1 DEF Leads
    <3> QED BY <1>3, <3>1, <3>2
  <2>2. CASE ~(k + j <= la)
    <3> DEFINE q == k + j - la
    <3>1. q \in 1..lb /\ la + q = k + j
      BY <1>1, <1>3, <1>4, <2>2
    <3> HIDE DEF q
    <3>2. full[la + q].kind # "fence"
      BY <1>3, <1>8, <3>1
    <3> QED BY <3>1, <3>2
  <2> QED BY <2>1, <2>2
<1> HIDE DEF m
<1>10. \A j \in 0..m : s[k + j].fence = s[k].fence
  <2>1. Unfenced(full, k, m)
    BY <1>9 DEF Unfenced
  <2>2. k \in Nat /\ m \in Nat /\ Len(full) \in Nat /\ k + m <= Len(full)
    BY <1>1, <1>3, <1>4
  <2> QED BY <1>5, <2>1, <2>2, ImportsRest, ZenonT(60)
<1>11. s[(la + i) - 1].fence = "none"
  BY <1>4, <1>7, <1>10
<1>12. full[la + i] = b[i]
  BY <1>3
<1>13. ~HasEnd(b[i])
  BY <1>2 DEF HasSentinel
<1>14. ReceiptProposal(full[la + i]) \in Range(ImportFile(full))
  BY <1>3, <1>4, <1>5, <1>11, <1>12, <1>13, FactIsFound
<1> QED BY <1>12, <1>14 DEF full

\* What an export into a text keeps, and what an import of the outcome finds.
KeepsTheText(text, b) == UserText(Splice(text, b).file) = UserText(text)
GivesBack(text, b) ==
  \A i \in DOMAIN b : b[i].kind = "fact" =>
    ReceiptProposal(b[i]) \in Range(ImportFile(Splice(text, b).file))

\* memory.rs: what export renders, import finds.
LEMMA SpliceRoundTrips ==
  ASSUME NEW text, IsText(text), NEW b, IsText(b), Managed(b), ~HasSentinel(b), Splice(text, b).ok
  PROVE  KeepsTheText(text, b) /\ (PlainFences(text) => GivesBack(text, b))
<1>1. PICK S : Sited(text, b, S)
  BY SpliceKeeps
<1>2. b \in Seq(S)
  BY <1>1 DEF Sited
<1>3. PICK A \in Seq(S), C \in Seq(S) : \E k \in Nat : Site(text, b, A, C, k)
  BY <1>1 DEF Sited
<1>4. PICK k \in Nat : Site(text, b, A, C, k)
  BY <1>3
<1>5. /\ Splice(text, b).file = Around(A, b, C)
      /\ Leads(A, text, k) /\ Bare(A) /\ Bare(C)
      /\ Trimmed(A \o C) = UserText(text)
  BY <1>4 DEF Site
<1>6. KeepsTheText(text, b)
  <2>1. OpenFence(A)[Len(A)] = NoFence
    BY <1>5, LeadsClosed
  <2>2. HasBlock(Around(A, b, C)) /\ Before(Around(A, b, C)) = A /\ After(Around(A, b, C)) = C
    BY <1>2, <1>5, <2>1, BlockFound
  <2>3. UserText(Around(A, b, C)) = Trimmed(A \o C)
    BY <2>2 DEF UserText, Trimmed
  <2> QED BY <1>5, <2>3 DEF KeepsTheText
<1>7. ASSUME PlainFences(text) PROVE GivesBack(text, b)
  <2>1. PICK T : text \in Seq(T)
    BY DEF IsText
  <2>2. DOMAIN text = 1..Len(text) /\ DOMAIN b = 1..Len(b)
    BY <1>2, <2>1, LenProperties
  <2>3. ASSUME NEW i \in 1..Len(b), b[i].kind = "fact"
        PROVE  ReceiptProposal(b[i]) \in Range(ImportFile(Around(A, b, C)))
    BY <1>2, <1>5, <1>7, <2>2, <2>3, FactsComeBack
  <2> QED BY <1>5, <2>2, <2>3 DEF GivesBack
<1> QED BY <1>6, <1>7

-----------------------------------------------------------------------------
(* Exports write texts, of finitely many facts.                            *)

Present(p) == {f \in Facts : p[f] # NoState}

\* The labels at which a command is about to write the memory file.
Writing == {"splice", "truncate", "fill"}
Texts(j) == j.pc \in Writing => IsText(j.text)

FileInv ==
  /\ IsText(file) /\ IsFiniteSet(Present(proj))
  /\ \A p \in Procs : Texts(job[p])

\* context_outcome: a pack has a fact for each stream that has one.
LEMMA PackIsFinite ==
  ASSUME NEW p, NEW t, IsFiniteSet(Present(p))
  PROVE  IsFiniteSet(ContextPack(p, t, FALSE))
<1> DEFINE P == Present(p)
           latest == [f \in P |-> LatestFact(p, p[f].shape, t)]
           T == {latest[f] : f \in P}
<1>1. latest \in Surjection(P, T)
  BY DEF Surjection
<1> HIDE DEF latest, P
<1>2. IsFiniteSet(P)
  BY DEF P
<1> HIDE DEF T
<1>3. IsFiniteSet(T)
  BY <1>1, <1>2, FS_Surjection
<1>4. ASSUME NEW f \in ContextPack(p, t, FALSE) PROVE f \in T
  <2>1. PICK shape \in Shapes : f = LatestFact(p, shape, t) /\ f # NoFact
    BY <1>4 DEF ContextPack
  <2>2. PICK g \in BelievedOf(p, shape) \cup Recorded(p, shape) : TRUE
    BY <2>1 DEF LatestFact
  <2>3. g \in P /\ p[g].shape = shape
    BY DEF BelievedOf, Recorded, P, Present, IsBelieved, Believed, NoState
  <2>4. latest[g] = f
    BY <2>1, <2>3 DEF latest
  <2> QED BY <2>3, <2>4 DEF T
<1>5. ContextPack(p, t, FALSE) \subseteq T
  BY <1>4
<1> QED BY <1>3, <1>5, FS_Subset

\* The line of a fact in a managed block.
LineOf(f) == FactLine(proj[f].shape, proj[f].value, Receipt(proj[f].level, origin[f]))

\* The lines of a pack are fact lines, one for each fact of it.
LEMMA PackLinesAreFacts ==
  ASSUME IsFiniteSet(Present(proj))
  PROVE  \E F : /\ PackLines \in Seq(F) /\ \A x \in F : x.kind = "fact"
                /\ \A f \in ContextPack(proj, now, FALSE) :
                     \E i \in 1..Len(PackLines) : PackLines[i] = LineOf(f)
<1> DEFINE S == ContextPack(proj, now, FALSE)
           n == Cardinality(S)
           pack == SetToSeq(S)
           F == {PackLines[i] : i \in 1..n}
<1>1. IsFiniteSet(S)
  BY PackIsFinite
<1> HIDE DEF S
<1>2. n \in Nat /\ ExistsBijection(1..n, S)
  BY <1>1, FS_CardinalityType
<1>3. PICK g \in [1..n -> S] : IsInjective(g)
  BY <1>2 DEF ExistsBijection, Bijection, Injection, IsInjective
<1>4. pack \in [1..n -> S] /\ IsInjective(pack)
  BY <1>3 DEF SetToSeq
<1>5. DOMAIN pack = 1..n
  BY <1>4
<1> HIDE DEF pack
<1>6. \A f \in S : \E i \in 1..n : pack[i] = f
  <2>1. IsFiniteSet(1..n) /\ Cardinality(1..n) = Cardinality(S)
    BY <1>2, FS_Interval
  <2>2. pack \in Injection(1..n, S)
    BY <1>4 DEF Injection
  <2>3. pack \in Surjection(1..n, S)
    BY <1>1, <2>1, <2>2, FS_Injection
  <2> QED BY <2>3 DEF Surjection
<1> HIDE DEF n
<1>7. PackLines = [i \in 1..n |-> LineOf(pack[i])]
  BY <1>5 DEF PackLines, pack, S, LineOf
<1>8. \A i \in 1..n : PackLines[i].kind = "fact"
  BY <1>7 DEF LineOf, FactLine
<1>9. PackLines \in [1..n -> F]
  BY <1>7
<1>10. \A x \in F : x.kind = "fact"
  BY <1>8
<1> HIDE DEF F
<1>11. PackLines \in Seq(F) /\ Len(PackLines) = n
  BY <1>2, <1>9
<1>12. \A f \in S : \E i \in 1..n : PackLines[i] = LineOf(f)
  BY <1>6, <1>7
<1> QED BY <1>10, <1>11, <1>12 DEF S

\* What an export renders is a block.
LEMMA BlocksAreManaged ==
  ASSUME IsFiniteSet(Present(proj)), NEW b \in Blocks
  PROVE  IsText(b) /\ Managed(b)
<1>1. CASE b = RenderBlock(PackLines)
  BY <1>1, PackLinesAreFacts, RenderedIsManaged
<1>2. CASE b = RenderBlock(<<>>)
  <2> DEFINE F == {Plain("fact")}
  <2>1. \A x \in F : x.kind = "fact"
    BY DEF Plain
  <2> HIDE DEF F
  <2>2. <<>> \in Seq(F)
    BY EmptySeq
  <2> QED BY <1>2, <2>1, <2>2, RenderedIsManaged
<1> QED BY <1>1, <1>2 DEF Blocks

\* Two texts have lines of one kind.
LEMMA TextsJoin ==
  ASSUME NEW text, NEW other, IsText(text), IsText(other)
  PROVE  IsText(text \o other)
<1>1. PICK T : text \in Seq(T)
  BY DEF IsText
<1>2. PICK R : other \in Seq(R)
  BY DEF IsText
<1> DEFINE S == T \cup R
<1>3. T \subseteq S /\ R \subseteq S
  OBVIOUS
<1> HIDE DEF S
<1>4. text \in Seq(S)
  BY <1>1, <1>3, SeqMonotonic
<1>5. other \in Seq(S)
  BY <1>2, <1>3, SeqMonotonic
<1>6. text \o other \in Seq(S)
  BY <1>4, <1>5, ConcatProperties
<1> QED BY <1>6 DEF IsText

\* splice_managed_block writes a text.
LEMMA SpliceIsText ==
  ASSUME NEW text, NEW b, IsText(text), IsText(b), Splice(text, b).ok
  PROVE  IsText(Splice(text, b).file)
<1>1. CASE text = <<>>
  BY <1>1 DEF Splice, Spliced
<1>2. CASE text # <<>> /\ HasBlock(text)
  <2>1. Splice(text, b).file = (Before(text) \o b) \o After(text)
    BY <1>2 DEF Splice, Spliced
  <2>2. PICK x, y \in DOMAIN text : IsBlock(text, x, y)
    BY <1>2 DEF HasBlock
  <2>3. IsText(Before(text)) /\ IsText(After(text))
    BY <2>2, AroundTheBlock DEF IsText
  <2>4. IsText(Before(text) \o b)
    BY <2>3, TextsJoin
  <2>5. IsText((Before(text) \o b) \o After(text))
    BY <2>3, <2>4, TextsJoin
  <2> QED BY <2>1, <2>5
<1>3. CASE text # <<>> /\ ~HasBlock(text)
  <2>1. Splice(text, b).file = (text \o Gap(text)) \o b
    BY <1>3 DEF Splice, Spliced, Refuse
  <2>2. <<>> \in Seq({Plain("blank")}) /\ <<Plain("blank")>> \in Seq({Plain("blank")})
    OBVIOUS
  <2>3. IsText(Gap(text))
    BY <2>2 DEF IsText, Gap
  <2>4. IsText(text \o Gap(text))
    BY <2>3, TextsJoin
  <2>5. IsText((text \o Gap(text)) \o b)
    BY <2>4, TextsJoin
  <2> QED BY <2>1, <2>5
<1> QED BY <1>1, <1>2, <1>3

\* build_revision: a batch touches the new fact and the incumbents, no more.
LEMMA BatchFinite ==
  ASSUME NEW op, NEW p, NEW r, NEW n, NEW t, IsFiniteSet(Present(p))
  PROVE  IsFiniteSet(DOMAIN Batch(op, p, r, n, t))
<1> DEFINE B == BelievedOf(p, r.shape)
           E == ExplainSubject(p, r.shape, t)
<1>1. B \subseteq Present(p)
  BY DEF BelievedOf, IsBelieved, Believed, Present, NoState
<1>2. IsFiniteSet((B \cup {E}) \cup {n})
  BY <1>1, FS_Subset, FS_AddElement
<1>3. Incumbents(op, p, r, t) \subseteq B \cup {E}
  BY DEF Incumbents
<1>4. DOMAIN Batch(op, p, r, n, t) \subseteq (B \cup {E}) \cup {n}
  BY <1>3 DEF Batch, PerIncumbent
<1> QED BY <1>2, <1>4, FS_Subset

LEMMA OpsBatchFinite ==
  ASSUME NEW op, NEW p, NEW r, NEW n, NEW t, IsFiniteSet(Present(p))
  PROVE  IsFiniteSet(DOMAIN Ops!Batch(op, p, r, n, t))
<1> DEFINE B == Ops!BelievedOf(p, r.shape)
           E == Ops!ExplainSubject(p, r.shape, t)
<1>1. B \subseteq Present(p)
  BY DEF Ops!BelievedOf, Ops!IsBelieved, Ops!Believed, Present, NoState
<1>2. IsFiniteSet((B \cup {E}) \cup {n})
  BY <1>1, FS_Subset, FS_AddElement
<1>3. Ops!Incumbents(op, p, r, t) \subseteq B \cup {E}
  BY DEF Ops!Incumbents
<1>4. DOMAIN Ops!Batch(op, p, r, n, t) \subseteq (B \cup {E}) \cup {n}
  BY <1>3 DEF Ops!Batch, Ops!PerIncumbent
<1> QED BY <1>2, <1>4, FS_Subset

\* append_events: a finite batch adds finitely many facts.
LEMMA AppendFinite ==
  ASSUME IsFiniteSet(Present(proj)), NEW batch, IsFiniteSet(DOMAIN batch), Ops!AppendEvents(batch)
  PROVE  IsFiniteSet(Present(proj'))
<1>1. proj' = Ops!Applied(proj, batch)
  BY DEF Ops!AppendEvents
<1>2. Present(proj') \subseteq Present(proj) \cup DOMAIN batch
  BY <1>1 DEF Present, Ops!Applied
<1>3. IsFiniteSet(Present(proj) \cup DOMAIN batch)
  BY FS_Union
<1> QED BY <1>2, <1>3, FS_Subset

\* persist_challenge_record writes one event.
LEMMA ChallengeFinite ==
  ASSUME IsFiniteSet(Present(proj)), NEW c, NEW r, Ops!PersistChallengeRecord(c, r)
  PROVE  IsFiniteSet(Present(proj'))
<1> DEFINE batch == Ops!RecordBatch(c, r, seq, now)
<1>1. Ops!AppendEvents(batch)
  BY DEF Ops!PersistChallengeRecord
<1>2. IsFiniteSet(DOMAIN batch)
  BY FS_Singleton DEF Ops!RecordBatch
<1> HIDE DEF batch
<1> QED BY <1>1, <1>2, AppendFinite

\* An operation writes its batch, or the contest it lost.
LEMMA PerformFinite ==
  ASSUME IsFiniteSet(Present(proj)), NEW op, NEW r, Ops!Perform(op, r)
  PROVE  IsFiniteSet(Present(proj'))
<1> DEFINE batch == Ops!Batch(op, proj, r, seq, now)
<1>1. CASE Ops!AppendEvents(batch)
  <2>1. IsFiniteSet(DOMAIN batch)
    BY OpsBatchFinite
  <2> HIDE DEF batch
  <2> QED BY <1>1, <2>1, AppendFinite
<1>2. CASE \E c : Ops!PersistChallengeRecord(c, r)
  BY <1>2, ChallengeFinite
<1> QED BY <1>1, <1>2 DEF Ops!Perform

\* What a step leaves of the invariant to the others: the record of a command
\* that moves, and the store.
LEMMA TextsMove ==
  ASSUME Inv, FileInv, NEW p \in Procs, NEW k, job' = [job EXCEPT ![p] = k], Texts(k),
         IsText(file'), IsFiniteSet(Present(proj'))
  PROVE  FileInv'
<1>1. \A q \in Procs : job'[q] = IF q = p THEN k ELSE job[q]
  BY DEF Inv, Setting
<1>2. \A q \in Procs : Texts(job'[q])
  BY <1>1 DEF FileInv
<1> QED BY <1>2 DEF FileInv

\* A command at a line, or past its last one, writes no memory file.
LEMMA SettledTexts ==
  ASSUME Inv, NEW p \in Procs, NEW ok \in BOOLEAN, Settle(p, ok)
  PROVE  \E k : job' = [job EXCEPT ![p] = k] /\ Texts(k)
<1> DEFINE j == Past(job[p], ok)
<1>1. JobShaped(job[p])
  BY DEF Inv, Tracked, Tracks
<1>2. JobShaped(j)
  BY <1>1, PastFields
<1> HIDE DEF j
<1>3. AtLine(j).pc \in {"line", "consume", "idle"}
  <2>1. Idle.pc = "idle"
    BY DEF Idle
  <2>2. \A pc : [j EXCEPT !.pc = pc].pc = pc
    BY <1>2, RelabelFields
  <2>3. AtLine(j) \in {Idle, [j EXCEPT !.pc = "line"], [j EXCEPT !.pc = "consume"]}
    BY DEF AtLine
  <2> QED BY <2>1, <2>2, <2>3
<1>4. Texts(AtLine(j))
  BY <1>3 DEF Texts, Writing
<1> QED BY <1>4 DEF Settle, j

\* A command that goes on to a label at which it writes no memory file.
LEMMA RelabelledTexts ==
  ASSUME Inv, NEW p \in Procs, NEW pc, pc \notin Writing, job' = [job EXCEPT ![p].pc = pc]
  PROVE  \E k : job' = [job EXCEPT ![p] = k] /\ Texts(k)
<1> DEFINE k == [job[p] EXCEPT !.pc = pc]
<1>1. JobShaped(job[p]) /\ job = [q \in Procs |-> job[q]]
  BY DEF Inv, Setting, Tracked, Tracks
<1>2. job' = [job EXCEPT ![p] = k]
  BY <1>1
<1>3. k.pc = pc
  BY <1>1, RelabelFields
<1> HIDE DEF k
<1>4. Texts(k)
  BY <1>3 DEF Texts
<1> QED BY <1>2, <1>4

\* A step of a capture or an import: its record, and the facts there are then.
LEMMA StepTexts ==
  ASSUME Inv, FileInv, NEW p \in Procs, Step(p)
  PROVE  FileInv'
<1>1. IsText(file) /\ IsFiniteSet(Present(proj)) /\ JobShaped(job[p]) /\ job = [q \in Procs |-> job[q]]
  BY DEF FileInv, Inv, Setting, Tracked, Tracks
<1>2. ASSUME NEW pc, pc \notin Writing, job' = [job EXCEPT ![p].pc = pc],
             file' = file, IsFiniteSet(Present(proj'))
      PROVE  FileInv'
  BY <1>1, <1>2, RelabelledTexts, TextsMove
<1>3. ASSUME NEW ok \in BOOLEAN, Settle(p, ok), file' = file, IsFiniteSet(Present(proj'))
      PROVE  FileInv'
  BY <1>1, <1>3, SettledTexts, TextsMove
<1>4. CASE RefuseMalformed(p) \/ AppendFails(p) \/ RecordAdmitted(p)
  <2>1. (Settle(p, FALSE) \/ Settle(p, TRUE)) /\ file' = file /\ proj' = proj
    BY <1>4 DEF RefuseMalformed, AppendFails, RecordAdmitted, files, store
  <2> QED BY <1>1, <1>3, <2>1
<1>5. CASE EnterOp(p)
  <2> DEFINE pc == IF plan.scanner # "none" /\ Current(p).op \in Asserting THEN "scan" ELSE "decide"
  <2>1. /\ file' = file /\ proj' = proj
        /\ Settle(p, FALSE) \/ job' = [job EXCEPT ![p].pc = pc]
    BY <1>5 DEF EnterOp, files, store
  <2>2. pc \notin Writing
    BY DEF Writing
  <2> HIDE DEF pc
  <2> QED BY <1>1, <1>2, <1>3, <2>1, <2>2
<1>6. CASE ScanFails(p)
  <2>1. /\ file' = file /\ proj' = proj
        /\ Settle(p, FALSE) \/ job' = [job EXCEPT ![p].pc = "decide", ![p].flag = TRUE]
    BY <1>6 DEF ScanFails, files, store
  <2>2. ASSUME job' = [job EXCEPT ![p].pc = "decide", ![p].flag = TRUE]
        PROVE  \E k : job' = [job EXCEPT ![p] = k] /\ Texts(k)
    <3> DEFINE k == [job[p] EXCEPT !.pc = "decide", !.flag = TRUE]
    <3>1. job' = [job EXCEPT ![p] = k]
      BY <1>1, <2>2
    <3>2. k.pc = "decide"
      BY <1>1 DEF JobShaped, JobFields
    <3> HIDE DEF k
    <3>3. Texts(k)
      BY <3>2 DEF Texts, Writing
    <3> QED BY <3>1, <3>3
  <2> QED BY <1>1, <1>3, <2>1, <2>2, TextsMove
<1>7. CASE Decide(p)
  <2>1. /\ file' = file
        /\ \/ job' = [job EXCEPT ![p].pc = "append"] /\ proj' = proj
           \/ /\ Settle(p, FALSE)
              /\ proj' = proj \/ \E c, r : Ops!PersistChallengeRecord(c, r)
    BY <1>7 DEF Decide, files, store
  <2>2. IsFiniteSet(Present(proj'))
    BY <1>1, <2>1, ChallengeFinite
  <2>3. "append" \notin Writing
    BY DEF Writing
  <2> QED BY <1>2, <1>3, <2>1, <2>2, <2>3
<1>8. CASE AppendBatch(p)
  <2> DEFINE batch == Batch(Current(p).op, proj, RequestOf(Current(p)), seq, now)
             text == <<JournalRecord(p, "admitted")>>
             k == [job[p] EXCEPT !.pc = "record", !.text = text]
  <2>1. /\ file' = file /\ Ops!AppendEvents(batch)
        /\ job' = [job EXCEPT ![p].pc = "record", ![p].text = text]
    BY <1>8 DEF AppendBatch, files
  <2>2. IsFiniteSet(DOMAIN batch)
    BY <1>1, BatchFinite
  <2> HIDE DEF batch, text
  <2>3. IsFiniteSet(Present(proj'))
    BY <1>1, <2>1, <2>2, AppendFinite
  <2>4. job' = [job EXCEPT ![p] = k]
    BY <1>1, <2>1
  <2>5. k.pc = "record"
    BY <1>1 DEF JobShaped, JobFields
  <2> HIDE DEF k
  <2>6. Texts(k)
    BY <2>5 DEF Texts, Writing
  <2> QED BY <1>1, <2>1, <2>3, <2>4, <2>6, TextsMove
<1>9. CASE ConsumeTruncate(p)
  <2> DEFINE k == [job[p] EXCEPT !.pc = "write"]
             next == IF proposed = 0 THEN Idle ELSE k
  <2>1. file' = file /\ proj' = proj /\ job' = [job EXCEPT ![p] = next]
    BY <1>1, <1>9 DEF ConsumeTruncate, store
  <2>2. Idle.pc = "idle" /\ k.pc = "write"
    BY <1>1, RelabelFields DEF Idle
  <2> HIDE DEF k
  <2>3. Texts(next)
    BY <2>2 DEF Texts, Writing
  <2> HIDE DEF next
  <2> QED BY <1>1, <2>1, <2>3, TextsMove
<1>10. CASE ConsumeWrite(p)
  <2>1. file' = file /\ proj' = proj /\ job' = [job EXCEPT ![p] = Idle]
    BY <1>10 DEF ConsumeWrite, store
  <2>2. Texts(Idle)
    BY DEF Texts, Writing, Idle
  <2> QED BY <1>1, <2>1, <2>2, TextsMove
<1> QED BY <1>4, <1>5, <1>6, <1>7, <1>8, <1>9, <1>10 DEF Step

\* An export carries a text from its reading to its writing.
LEMMA ExportTexts ==
  ASSUME Inv, FileInv, NEW p \in Procs,
         ExportRead(p) \/ ExportSplice(p) \/ ExportTruncate(p) \/ ExportFill(p)
  PROVE  FileInv'
<1>1. /\ IsText(file) /\ IsFiniteSet(Present(proj)) /\ Texts(job[p])
      /\ JobShaped(job[p]) /\ job = [q \in Procs |-> job[q]]
  BY DEF FileInv, Inv, Setting, Tracked, Tracks
<1>2. proj' = proj
  BY DEF ExportRead, ExportSplice, ExportTruncate, ExportFill, store
<1>3. Texts(Idle)
  BY DEF Texts, Writing, Idle
<1>4. CASE ExportRead(p)
  <2> DEFINE text == RenderBlock(PackLines)
             k == [Idle EXCEPT !.pc = "splice", !.kind = "export", !.text = text]
  <2>1. job' = [job EXCEPT ![p] = k] /\ file' = file
    BY <1>4 DEF ExportRead, files
  <2>2. IsText(text)
    <3>1. text \in Blocks
      BY DEF Blocks
    <3> QED BY <1>1, <3>1, BlocksAreManaged
  <2> HIDE DEF text
  <2>3. k.text = text
    BY DEF Idle
  <2> HIDE DEF k
  <2> QED BY <1>1, <1>2, <2>1, <2>2, <2>3, TextsMove DEF Texts
<1>5. CASE ExportSplice(p)
  <2> DEFINE spliced == Splice(file, job[p].text)
             k == [job[p] EXCEPT !.pc = "truncate", !.text = spliced.file]
  <2>1. /\ job' = [job EXCEPT ![p] = IF spliced.ok THEN k ELSE Idle] /\ file' = file
        /\ job[p].pc = "splice"
    BY <1>1, <1>5 DEF ExportSplice, files
  <2>2. spliced.ok => IsText(spliced.file)
    BY <1>1, <2>1, SpliceIsText DEF Texts, Writing
  <2> HIDE DEF spliced
  <2>3. k.text = spliced.file
    BY <1>1 DEF JobShaped, JobFields
  <2> HIDE DEF k
  <2>4. CASE spliced.ok
    <3>1. job' = [job EXCEPT ![p] = k] /\ Texts(k)
      BY <2>1, <2>2, <2>3, <2>4 DEF Texts
    <3> QED BY <1>1, <1>2, <2>1, <3>1, TextsMove
  <2>5. CASE ~spliced.ok
    <3>1. job' = [job EXCEPT ![p] = Idle]
      BY <2>1, <2>5
    <3> QED BY <1>1, <1>2, <1>3, <2>1, <3>1, TextsMove
  <2> QED BY <2>4, <2>5
<1>6. CASE ExportTruncate(p)
  <2> DEFINE k == [job[p] EXCEPT !.pc = "fill"]
  <2>1. job' = [job EXCEPT ![p] = k] /\ file' = <<>> /\ job[p].pc = "truncate"
    BY <1>1, <1>6 DEF ExportTruncate
  <2>2. k.text = job[p].text
    BY <1>1, RelabelFields
  <2> HIDE DEF k
  <2>3. Texts(k)
    BY <1>1, <2>1, <2>2 DEF Texts, Writing
  <2>4. IsText(<<>>)
    BY EmptySeq DEF IsText
  <2> QED BY <1>1, <1>2, <2>1, <2>3, <2>4, TextsMove
<1>7. CASE ExportFill(p)
  <2>1. job' = [job EXCEPT ![p] = Idle] /\ file' = job[p].text /\ job[p].pc = "fill"
    BY <1>7 DEF ExportFill
  <2>2. IsText(file')
    BY <1>1, <2>1 DEF Texts, Writing
  <2> QED BY <1>1, <1>2, <1>3, <2>1, <2>2, TextsMove
<1> QED BY <1>4, <1>5, <1>6, <1>7

\* A command that starts, dies or waits for its scanner.
LEMMA OtherTexts ==
  ASSUME Inv, FileInv, NEW p \in Procs,
         \/ CaptureRead(p) \/ ImportRead(p) \/ Crash(p) \/ ScannerLeavesOrphan(p)
         \/ \E verdict \in {"allow", "taint", "reject"} : ScannerAnswers(p, verdict)
  PROVE  FileInv'
<1>1. /\ IsText(file) /\ IsFiniteSet(Present(proj))
      /\ JobShaped(job[p]) /\ job = [q \in Procs |-> job[q]]
  BY DEF FileInv, Inv, Setting, Tracked, Tracks
<1>2. proj' = proj /\ file' = file
  BY DEF CaptureRead, ImportRead, Start, Crash, ScannerLeavesOrphan, ScannerAnswers, store, files
<1>3. IsText(file') /\ IsFiniteSet(Present(proj'))
  BY <1>1, <1>2
<1>4. ASSUME NEW kind, NEW input, Start(p, kind, input) PROVE FileInv'
  <2> DEFINE j == [Idle EXCEPT !.kind = kind, !.input = input, !.at = 1]
  <2>1. job' = [job EXCEPT ![p] = AtLine(j)]
    BY <1>4 DEF Start
  <2>2. JobShaped(j)
    BY DEF Idle, JobShaped, JobFields
  <2> HIDE DEF j
  <2>3. AtLine(j).pc \in {"line", "consume", "idle"}
    <3>1. Idle.pc = "idle"
      BY DEF Idle
    <3>2. \A pc : [j EXCEPT !.pc = pc].pc = pc
      BY <2>2, RelabelFields
    <3>3. AtLine(j) \in {Idle, [j EXCEPT !.pc = "line"], [j EXCEPT !.pc = "consume"]}
      BY DEF AtLine
    <3> QED BY <3>1, <3>2, <3>3
  <2>4. Texts(AtLine(j))
    BY <2>3 DEF Texts, Writing
  <2> QED BY <1>3, <2>1, <2>4, TextsMove
<1>5. CASE CaptureRead(p) \/ ImportRead(p)
  BY <1>4, <1>5 DEF CaptureRead, ImportRead
<1>6. CASE Crash(p)
  <2>1. job' = [job EXCEPT ![p] = Idle]
    BY <1>6 DEF Crash
  <2>2. Texts(Idle)
    BY DEF Texts, Writing, Idle
  <2> QED BY <1>3, <2>1, <2>2, TextsMove
<1>7. CASE ScannerLeavesOrphan(p)
  <2>1. job' = [job EXCEPT ![p].pc = "drain"] /\ "drain" \notin Writing
    BY <1>7 DEF ScannerLeavesOrphan, Writing
  <2> QED BY <1>3, <2>1, RelabelledTexts, TextsMove
<1>8. ASSUME NEW verdict, ScannerAnswers(p, verdict) PROVE FileInv'
  <2> DEFINE tainted == verdict = "taint"
             k == [job[p] EXCEPT !.pc = "decide", !.verdict = verdict, !.flag = tainted]
  <2>1. \/ Settle(p, FALSE)
        \/ job' = [job EXCEPT ![p].pc = "decide", ![p].verdict = verdict, ![p].flag = tainted]
    BY <1>8 DEF ScannerAnswers
  <2> HIDE DEF tainted
  <2>2. CASE Settle(p, FALSE)
    BY <1>3, <2>2, SettledTexts, TextsMove
  <2>3. CASE job' = [job EXCEPT ![p].pc = "decide", ![p].verdict = verdict, ![p].flag = tainted]
    <3>1. job' = [job EXCEPT ![p] = k]
      BY <1>1, <2>3
    <3>2. k.pc = "decide"
      BY <1>1 DEF JobShaped, JobFields
    <3> HIDE DEF k
    <3>3. Texts(k)
      BY <3>2 DEF Texts, Writing
    <3> QED BY <1>3, <3>1, <3>3, TextsMove
  <2> QED BY <2>1, <2>2, <2>3
<1> QED BY <1>5, <1>6, <1>7, <1>8

LEMMA InitTexts == Init => FileInv
<1> SUFFICES ASSUME Init PROVE FileInv
  OBVIOUS
<1>1. IsText(file)
  <2>1. plan \in Plans /\ file \in plan.files
    BY DEF Init
  <2>2. file \in Seq(Range(file))
    BY <2>1, PlansAssumption
  <2> QED BY <2>2 DEF IsText
<1>2. IsFiniteSet(Present(proj))
  <2>1. Present(proj) = {}
    BY DEF Init, Present
  <2> QED BY <2>1, FS_EmptySet
<1>3. ASSUME NEW p \in Procs PROVE Texts(job[p])
  <2>1. job[p] = Idle
    BY DEF Init
  <2>2. Idle.pc = "idle"
    BY DEF Idle
  <2> QED BY <2>1, <2>2 DEF Texts, Writing
<1> QED BY <1>1, <1>2, <1>3 DEF FileInv

\* The user's editor leaves a text.
LEMMA EditIsText ==
  ASSUME NEW text, IsText(text), NEW at \in 1..(Len(text) + 1), NEW line
  PROVE  IsText(InsertAt(text, at, line))
<1> DEFINE above == SubSeq(text, 1, at - 1)
           below == SubSeq(text, at, Len(text))
           one == <<line>>
<1>1. PICK T : text \in Seq(T)
  BY DEF IsText
<1>2. Len(text) \in Nat /\ \A i \in 1..Len(text) : text[i] \in T
  BY <1>1, LenProperties, ElementOfSeq
<1>3. above \in Seq(T)
  <2> DEFINE n == at - 1
  <2>1. n \in Int /\ 1 \in Int /\ \A i \in 1..n : text[i] \in T
    BY <1>2
  <2> HIDE DEF n
  <2>2. SubSeq(text, 1, n) \in Seq(T)
    BY <2>1, SubSeqProperties
  <2> QED BY <2>2 DEF n
<1>4. below \in Seq(T)
  <2> DEFINE n == Len(text)
  <2>1. at \in Int /\ n \in Int /\ \A i \in at..n : text[i] \in T
    BY <1>2
  <2> HIDE DEF n
  <2>2. SubSeq(text, at, n) \in Seq(T)
    BY <2>1, SubSeqProperties
  <2> QED BY <2>2 DEF n
<1>5. one \in Seq({line})
  OBVIOUS
<1>6. IsText(above) /\ IsText(below) /\ IsText(one)
  BY <1>3, <1>4, <1>5 DEF IsText
<1>7. InsertAt(text, at, line) = (above \o one) \o below
  BY DEF InsertAt
<1> HIDE DEF above, below, one
<1>8. IsText(above \o one)
  BY <1>6, TextsJoin
<1>9. IsText((above \o one) \o below)
  BY <1>6, <1>8, TextsJoin
<1> QED BY <1>7, <1>9

LEMMA NextTexts == Inv /\ FileInv /\ [Next]_vars => FileInv'
<1> SUFFICES ASSUME Inv, FileInv, [Next]_vars PROVE FileInv'
  OBVIOUS
<1>1. plan.procs \subseteq Procs
  BY PlansAssumption DEF Inv, Setting
<1>2. ASSUME job' = job, IsText(file'), IsFiniteSet(Present(proj')) PROVE FileInv'
  BY <1>2 DEF FileInv
<1>3. IsText(file) /\ IsFiniteSet(Present(proj))
  BY DEF FileInv
<1>4. CASE UNCHANGED vars
  BY <1>2, <1>3, <1>4 DEF vars, store
<1>5. CASE Propose
  BY <1>2, <1>3, <1>5 DEF Propose, store
<1>6. CASE OwnerWrites
  <2>1. job' = job /\ file' = file /\ \E r, op : Ops!Perform(op, r)
    BY <1>6 DEF OwnerWrites, files
  <2> QED BY <1>2, <1>3, <2>1, PerformFinite
<1>7. ASSUME NEW line, NEW at \in 1..Len(file) + 1, UserEdits(line, at) PROVE FileInv'
  <2>1. job' = job /\ proj' = proj /\ file' = InsertAt(file, at, line)
    BY <1>7 DEF UserEdits, store
  <2>2. IsText(file')
    BY <1>3, <2>1, EditIsText
  <2> QED BY <1>2, <1>3, <2>1, <2>2
<1>8. ASSUME NEW p \in plan.procs,
             \/ CaptureRead(p) \/ ImportRead(p) \/ ExportRead(p)
             \/ ExportSplice(p) \/ ExportTruncate(p) \/ ExportFill(p)
             \/ Step(p) \/ Crash(p) \/ ScannerLeavesOrphan(p)
             \/ \E verdict \in {"allow", "taint", "reject"} : ScannerAnswers(p, verdict)
      PROVE  FileInv'
  <2>1. p \in Procs
    BY <1>1, <1>8
  <2> QED BY <2>1, <1>8, StepTexts, ExportTexts, OtherTexts
<1> QED BY <1>4, <1>5, <1>6, <1>7, <1>8 DEF Next

-----------------------------------------------------------------------------
(* The results.                                                            *)

\* capture.rs cmd_capture: whatever captures, crashes, writers and edits there
\* are, a line that was not put into the queue behind a running capture's back
\* is still there, accepted, about to be written back, or was attempted.
THEOREM NoProposalIsLost == Spec => []QueueAccounts
<1>1. Inv => QueueAccounts
  BY DEF Inv
<1> QED BY InitInv, NextInv, <1>1, PTL DEF Spec

\* content_check.rs enforce: with a scanner configured, a proposed fact in the
\* store was allowed by it, or is flagged and verify reports it while believed.
THEOREM UnscannedIsReported == Spec => []UnscannedIsFlagged
<1>1. Inv => UnscannedIsFlagged
  <2> SUFFICES ASSUME Inv, plan.scanner # "none", NEW f \in Facts, hist.line[f] # 0,
                      f \notin hist.allowed
               PROVE  f \in flagged /\ (IsBelieved(proj[f]) => "content" \in BackendFindings(proj, derived, flagged))
    BY DEF UnscannedIsFlagged
  <2>1. f \in flagged
    BY DEF Inv, Marked
  <2>2. ASSUME IsBelieved(proj[f]) PROVE f \in ContentFlagged(proj, flagged)
    <3>1. proj[f].lifecycle \notin Terminal
      BY <2>2 DEF IsBelieved, Believed, Terminal, ClosingKinds
    <3>2. proj[f] # NoState
      BY <2>2 DEF IsBelieved, Believed, NoState
    <3> QED BY <3>1, <3>2, <2>1 DEF ContentFlagged
  <2> QED BY <2>1, <2>2 DEF BackendFindings
<1> QED BY InitInv, NextInv, <1>1, PTL DEF Spec

\* eval_capture.rs: an admission in the journal is of an event in the store,
\* through failed appends and crashes between the append and the journal.
THEOREM JournalIsTrue == Spec => []JournalTellsTruth
<1>1. Inv => JournalTellsTruth
  BY DEF Inv
<1> QED BY InitInv, NextInv, <1>1, PTL DEF Spec

\* A fact whose line an import has read comes back.
LEMMA LineComesBack ==
  ASSUME NEW f, NEW props, ReceiptProposal(LineOf(f)) \in Range(props)
  PROVE  ComesBack(f, props)
<1> DEFINE prop == ReceiptProposal(LineOf(f))
           receipt == Receipt(proj[f].level, origin[f])
<1>1. /\ prop.op = "assert" /\ prop.shape = proj[f].shape
      /\ prop.value = DecodeBlockValue(proj[f].value)
      /\ prop.level = MetaHint(receipt, "authority", NoLevel)
      /\ prop.source = MetaHint(receipt, "source", NoSource)
  BY DEF ReceiptProposal, LineOf, FactLine
<1>2. PlainName(origin[f]) => prop.level = proj[f].level /\ prop.source = origin[f]
  BY <1>1, ReceiptIsRead
<1> HIDE DEF receipt
<1>3. prop \in Range(props)
  OBVIOUS
<1> HIDE DEF prop
<1> QED BY <1>1, <1>2, <1>3 DEF ComesBack, DecodeBlockValue

\* memory.rs splice_managed_block, parse_import_file: whatever the store, the
\* file and the user's edits are, an export that is not refused keeps the user's
\* text, and on plain fences an import of the outcome proposes every fact of the
\* pack again: a text as it was, JSON as its text, and rank and source wherever
\* no blank is in the name of the source.
THEOREM ExportsComeBack == Spec => []ExportRoundTrips
<1>1. ASSUME FileInv PROVE ExportRoundTrips
  <2>1. ASSUME NEW b \in Blocks, Splice(file, b).ok, ~HasSentinel(b)
        PROVE  KeepsTheText(file, b) /\ (PlainFences(file) => GivesBack(file, b))
    <3>1. IsText(file) /\ IsText(b) /\ Managed(b)
      BY <1>1, BlocksAreManaged DEF FileInv
    <3> QED BY <2>1, <3>1, SpliceRoundTrips
  <2> DEFINE block == RenderBlock(PackLines)
             found == ImportFile(Splice(file, block).file)
  <2>2. ASSUME Splice(file, block).ok, ~HasSentinel(block), PlainFences(file),
               NEW f \in ContextPack(proj, now, FALSE)
        PROVE  ComesBack(f, found)
    <3>1. PICK F : /\ PackLines \in Seq(F) /\ \A x \in F : x.kind = "fact"
                   /\ \A g \in ContextPack(proj, now, FALSE) :
                        \E i \in 1..Len(PackLines) : PackLines[i] = LineOf(g)
      BY <1>1, PackLinesAreFacts DEF FileInv
    <3>2. PICK i \in 1..Len(PackLines) : PackLines[i] = LineOf(f)
      BY <3>1
    <3>3. 5 + i \in DOMAIN block /\ block[5 + i] = LineOf(f)
      BY <3>1, <3>2, RenderedHasFacts
    <3>4. block[5 + i].kind = "fact"
      BY <3>3 DEF LineOf, FactLine
    <3>5. GivesBack(file, block)
      BY <2>1, <2>2 DEF Blocks
    <3>6. ReceiptProposal(LineOf(f)) \in Range(found)
      BY <3>3, <3>4, <3>5 DEF GivesBack
    <3> QED BY <3>6, LineComesBack
  <2> HIDE DEF block
  <2>3. \A b \in Blocks : Splice(file, b).ok /\ ~HasSentinel(b) => UserText(Splice(file, b).file) = UserText(file)
    BY <2>1 DEF KeepsTheText
  <2> QED BY <2>2, <2>3 DEF ExportRoundTrips, block
<1>2. Init => Inv /\ FileInv
  BY InitInv, InitTexts
<1>3. (Inv /\ FileInv) /\ [Next]_vars => (Inv /\ FileInv)'
  BY NextInv, NextTexts
<1> QED BY <1>1, <1>2, <1>3, PTL DEF Spec
=============================================================================
