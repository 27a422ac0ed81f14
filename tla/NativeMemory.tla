---------------------------- MODULE NativeMemory ----------------------------
(***************************************************************************)
(* The belief store beside the files an agent and its user edit: capture   *)
(* flushes a queue of proposals the agent wrote during a session, import   *)
(* turns a memory file into proposals, export splices the believed facts   *)
(* back into one. Every proposal goes through the op layer (WriteOps) under*)
(* the file store's write lease, which is held while the content scanner,  *)
(* a foreign process, looks at the value. The queue and the memory file are*)
(* read and rewritten with no lock at all: the agent, the user and another *)
(* capture may come in between, and the process may die at any step.       *)
(*                                                                         *)
(* A direct write by the owner is one step of WriteOps. Context packs      *)
(* record their retrievals without the lease: ConcurrentWriters has that.  *)
(***************************************************************************)
EXTENDS ReadOps, ManagedBlock

CONSTANTS
  Grants, Workloads,  \* as in WriteOps: the owner's direct writes
  Plans,              \* the sessions explored
  Procs, NoProc,      \* command invocations
  AgentSource         \* CAPTURE_FALLBACK_SOURCE

\* A session: the direct writes made in it, the lines the agent will propose, the invocations and the commands
\* that may run, what the command line and the signed grant say of authority and source, the
\* scanner ("none", or its failure policy), the memory files a user may have,
\* the lines to be put into them, and the bounds on edits and on crashes.
ASSUME PlansAssumption ==
  /\ NoProc \notin Procs /\ NoSource \notin Sources /\ AgentSource \in Sources
  /\ \A p \in Plans :
       /\ DOMAIN p = {"work", "procs", "lines", "commands", "flags", "grant", "keep_failed",
                      "scanner", "files", "edits", "max_edits", "crashes"}
       /\ p.work \in Workloads /\ p.procs \subseteq Procs
       /\ p.commands \subseteq {"capture", "import", "export"}
       /\ p.scanner \in {"none", "fail_closed", "fail_open"}
       /\ \A text \in p.files : text \in Seq(Range(text))
       /\ p.keep_failed \in BOOLEAN /\ p.crashes \in Nat /\ p.max_edits \in Nat

VARIABLES
  work, proj, derived, seq, now,  \* the store, as in WriteOps
  origin,    \* the asserting source of each fact
  plan,      \* the session of this behaviour
  queue,     \* the proposals file: the numbers of the lines in it
  proposed,  \* how many lines the agent has written so far
  file,      \* the native memory file
  job,       \* each command's progress
  lease,     \* the holder of <log>.lock
  flagged,   \* facts whose assertion carries a content flag
  journal,   \* the evaluation capture journal
  crashes,   \* commands that have died
  hist       \* history: what became of each line and of each fact

store == <<work, proj, derived, seq, now, origin>>
vars == <<store, plan, queue, proposed, file, job, lease, flagged, journal, crashes, hist>>

\* No read of WriteOps is under way.
Ops == INSTANCE WriteOps WITH beliefs <- proj, unaudited <- [surface |-> "none", facts |-> {}]

\* A command's progress: the proposals it read, the one it is at, the lines that
\* failed, the verdict on the current one and whether its event is flagged, and
\* what it is about to write.
Idle ==
  [ pc |-> "idle", kind |-> "none", input |-> <<>>, at |-> 0, failed |-> <<>>,
    verdict |-> "none", flag |-> FALSE, text |-> <<>> ]

TypeOK ==
  /\ work \in Workloads /\ plan \in Plans
  /\ proj \in [Facts -> FactState \cup {NoState}]
  /\ seq \in 0..work.events /\ origin \in [Facts -> Sources \cup {NoSource}]
  /\ Range(queue) \subseteq DOMAIN plan.lines /\ proposed \in 0..Len(plan.lines)
  /\ DOMAIN job = Procs /\ lease \in Procs \cup {NoProc}
  /\ \A p \in Procs : (lease = p) = (job[p].pc \in {"scan", "drain", "decide", "append", "record"})
  /\ flagged \subseteq Facts /\ crashes \in 0..plan.crashes

Init ==
  /\ plan \in Plans /\ work = plan.work
  /\ proj = [f \in Facts |-> NoState] /\ derived = [f \in Facts |-> {}]
  /\ seq = 0 /\ now = 0 /\ origin = [f \in Facts |-> NoSource]
  /\ queue = <<>> /\ proposed = 0 /\ file \in plan.files
  /\ job = [p \in Procs |-> Idle] /\ lease = NoProc
  /\ flagged = {} /\ journal = {} /\ crashes = 0
  /\ hist = [ attempted |-> {}, accepted |-> {}, overtaken |-> {}, torn |-> {}, edits |-> 0,
              line |-> [f \in Facts |-> 0], allowed |-> {}, appended |-> {} ]

files == <<queue, proposed, file>>
-----------------------------------------------------------------------------
(* One proposal, resolved and handed to the op layer.                      *)

\* resolve_proposal_meta: the line, then the flags, then the signed grant,
\* then the agent tier.
ResolvedLevel(prop) ==
  Head(SelectSeq(<<prop.level, plan.flags.level, plan.grant.level, 1>>, LAMBDA l : l # NoLevel))
ResolvedSource(prop) ==
  Head(SelectSeq(<<prop.source, plan.flags.source, plan.grant.source, AgentSource>>,
                 LAMBDA s : s # NoSource))

RequestOf(prop) ==
  [ source |-> ResolvedSource(prop), level |-> ResolvedLevel(prop), shape |-> prop.shape,
    value |-> prop.value, ttl |-> NeverTtl, valid_from |-> NoTime, valid_to |-> NoTime,
    from |-> prop.shape ]

Current(p) == job[p].input[job[p].at].prop
CurrentLine(p) == job[p].input[job[p].at].line

\* A command at its next line, or past its last one.
AtLine(j) ==
  IF j.at <= Len(j.input) THEN [j EXCEPT !.pc = "line"]
  ELSE IF j.kind = "capture" THEN [j EXCEPT !.pc = "consume"] ELSE Idle

\* The line has an outcome: on to the next one, with the lease dropped.
Past(j, succeeded) ==
  [j EXCEPT !.at = j.at + 1, !.verdict = "none", !.flag = FALSE, !.text = <<>>,
            !.failed = IF succeeded THEN j.failed ELSE Append(j.failed, j.input[j.at].line)]

Settle(p, succeeded) ==
  /\ job' = [job EXCEPT ![p] = AtLine(Past(job[p], succeeded))]
  /\ lease' = IF lease = p THEN NoProc ELSE lease

Attempted(p) == [hist EXCEPT !.attempted = @ \cup {CurrentLine(p)}]

\* apply_proposal on a line that does not parse: invalid, no lease taken.
RefuseMalformed(p) ==
  /\ job[p].pc = "line" /\ Current(p).op = "malformed"
  /\ Settle(p, FALSE) /\ hist' = Attempted(p)
  /\ UNCHANGED <<store, plan, files, flagged, journal, crashes>>

\* The lease is taken, authority enforced, the store loaded, the incumbents
\* resolved: refused, or on to the content check of an event with a value.
EnterOp(p) ==
  LET prop == Current(p)
      r == RequestOf(prop)
  IN /\ job[p].pc = "line" /\ prop.op # "malformed" /\ lease = NoProc
     /\ IF Ops!Authorised(r) /\ Loads(proj, now) /\ HasTarget(prop.op, proj, r, now)
        THEN /\ lease' = p
             /\ job' = [job EXCEPT ![p].pc =
                          IF plan.scanner # "none" /\ prop.op \in Asserting THEN "scan" ELSE "decide"]
             /\ UNCHANGED hist
        ELSE Settle(p, FALSE) /\ hist' = Attempted(p)
     /\ UNCHANGED <<store, plan, files, flagged, journal, crashes>>

\* The scanner exits with its verdict on stdout.
ScannerAnswers(p, verdict) ==
  /\ job[p].pc \in {"scan", "drain"}
  /\ IF verdict = "reject" THEN Settle(p, FALSE) /\ hist' = Attempted(p)
     ELSE /\ job' = [job EXCEPT ![p].pc = "decide", ![p].verdict = verdict,
                              ![p].flag = verdict = "taint"]
          /\ UNCHANGED <<lease, hist>>
  /\ UNCHANGED <<store, plan, files, flagged, journal, crashes>>

\* The scanner exits, and a child it left behind holds its stdout open.
ScannerLeavesOrphan(p) ==
  /\ job[p].pc = "scan"
  /\ job' = [job EXCEPT ![p].pc = "drain"]
  /\ UNCHANGED <<store, plan, files, lease, flagged, journal, crashes, hist>>

\* Mutant: under fail-open an unscanned value is let in like an allowed one.
ScanFailsUnmarked(p) ==
  /\ job[p].pc \in {"scan", "drain"}
  /\ IF plan.scanner = "fail_closed" THEN Settle(p, FALSE) /\ hist' = Attempted(p)
     ELSE /\ job' = [job EXCEPT ![p].pc = "decide"]
          /\ UNCHANGED <<lease, hist>>
  /\ UNCHANGED <<store, plan, files, flagged, journal, crashes>>

\* Mutant: only the scanner itself has a deadline, not the reading of its pipe.
ScanFailsUndrained(p) ==
  /\ job[p].pc = "scan"
  /\ IF plan.scanner = "fail_closed" THEN Settle(p, FALSE) /\ hist' = Attempted(p)
     ELSE /\ job' = [job EXCEPT ![p].pc = "decide", ![p].flag = TRUE]
          /\ UNCHANGED <<lease, hist>>
  /\ UNCHANGED <<store, plan, files, flagged, journal, crashes>>

\* The deadline passes, or what the scanner says is no verdict: refused, or
\* under fail-open admitted with a flag.
ScanFails(p) ==
  /\ job[p].pc \in {"scan", "drain"}
  /\ IF plan.scanner = "fail_closed" THEN Settle(p, FALSE) /\ hist' = Attempted(p)
     ELSE /\ job' = [job EXCEPT ![p].pc = "decide", ![p].flag = TRUE]
          /\ UNCHANGED <<lease, hist>>
  /\ UNCHANGED <<store, plan, files, flagged, journal, crashes>>

JournalRecord(p, decision) ==
  [decision |-> decision, op |-> Current(p).op, shape |-> Current(p).shape, first |-> seq]

\* Policy and arbitration. A refusal is journalled and a contest lost recorded.
Decide(p) ==
  LET op == Current(p).op
      r == RequestOf(Current(p))
      challenge == Challenge(op, proj, r, seq, now)
      heard == seq < work.events /\ challenge # {}
  IN /\ job[p].pc = "decide"
     /\ IF Accepts(op, proj, r, seq, now)
        THEN /\ job' = [job EXCEPT ![p].pc = "append"]
             /\ UNCHANGED <<store, lease, journal, hist>>
        ELSE /\ Settle(p, FALSE) /\ hist' = Attempted(p)
             /\ journal' = IF OutEntrenching(op, proj, r) # {} THEN journal
                           ELSE journal \cup {JournalRecord(p, "rejected")}
             /\ IF heard THEN \E c \in challenge : Ops!PersistChallengeRecord(c, r)
                ELSE UNCHANGED <<proj, seq>>
             /\ UNCHANGED <<work, derived, now, origin>>
     /\ UNCHANGED <<plan, files, flagged, crashes>>

Asserted(p) == IF Current(p).op \in Asserting THEN {seq} ELSE {}

\* append_events writes the batch, with the flag as evidence of its assertion.
AppendBatch(p) ==
  LET op == Current(p).op
      batch == Batch(op, proj, RequestOf(Current(p)), seq, now)
  IN /\ job[p].pc = "append" /\ seq + Cardinality(DOMAIN batch) <= work.events
     /\ Ops!AppendEvents(batch)
     /\ origin' = [f \in Facts |-> IF f \in Asserted(p) THEN RequestOf(Current(p)).source ELSE origin[f]]
     /\ flagged' = IF job[p].flag THEN flagged \cup Asserted(p) ELSE flagged
     /\ job' = [job EXCEPT ![p].pc = "record", ![p].text = <<JournalRecord(p, "admitted")>>]
     /\ hist' = [Attempted(p) EXCEPT
                   !.accepted = @ \cup {CurrentLine(p)},
                   !.line = [f \in Facts |-> IF f \in Asserted(p) THEN CurrentLine(p) ELSE @[f]],
                   !.allowed = IF job[p].verdict = "allow" THEN @ \cup Asserted(p) ELSE @,
                   !.appended = @ \cup {JournalRecord(p, "admitted")}]
     /\ UNCHANGED <<work, derived, now, plan, files, lease, journal, crashes>>

\* Mutant: the attempt is journalled as it was decided.
AppendFailsJournalled(p) ==
  /\ job[p].pc = "append"
  /\ Settle(p, FALSE) /\ hist' = Attempted(p)
  /\ journal' = journal \cup {JournalRecord(p, "admitted")}
  /\ UNCHANGED <<store, plan, files, flagged, crashes>>

\* The disk refuses the append: nothing is written, nothing journalled.
AppendFails(p) ==
  /\ job[p].pc = "append"
  /\ Settle(p, FALSE) /\ hist' = Attempted(p)
  /\ UNCHANGED <<store, plan, files, flagged, journal, crashes>>

\* EvalCapture::admitted, once the append is durable.
RecordAdmitted(p) ==
  /\ job[p].pc = "record"
  /\ journal' = journal \cup Range(job[p].text)
  /\ Settle(p, TRUE)
  /\ UNCHANGED <<store, plan, files, flagged, crashes, hist>>
-----------------------------------------------------------------------------
(* Capture and import.                                                     *)

\* Lines put into the file that a capture under way has not read: it will
\* overwrite them.
Overtaken(lines) ==
  { l \in lines : \E p \in Procs :
      /\ job'[p].kind = "capture"
      /\ \A i \in DOMAIN job'[p].input : job'[p].input[i].line # l }

\* The agent appends a line to the proposals file.
Propose ==
  /\ proposed < Len(plan.lines)
  /\ proposed' = proposed + 1
  /\ queue' = Append(queue, proposed + 1)
  /\ UNCHANGED job
  /\ hist' = [hist EXCEPT !.overtaken = @ \cup Overtaken({proposed + 1})]
  /\ UNCHANGED <<store, plan, file, lease, flagged, journal, crashes>>

Start(p, kind, input) ==
  /\ job[p].pc = "idle" /\ kind \in plan.commands
  /\ job' = [job EXCEPT ![p] = AtLine([Idle EXCEPT !.kind = kind, !.input = input, !.at = 1])]
  /\ UNCHANGED <<store, plan, files, lease, flagged, journal, crashes, hist>>

\* read_proposals; a missing file is an empty one.
CaptureRead(p) ==
  Start(p, "capture", [i \in DOMAIN queue |-> [line |-> queue[i], prop |-> plan.lines[queue[i]]]])

\* cmd_import without --dry-run, which applies nothing.
ImportRead(p) ==
  /\ ImportFile(file) # <<>>
  /\ Start(p, "import", [i \in DOMAIN ImportFile(file) |->
                            [line |-> -1, prop |-> ImportFile(file)[i]]])

\* Mutant: lines a crash-free run refused are dropped with the others.
KeptNone(p) == <<>>

\* failed_lines, when --keep-failed asks for them.
Kept(p) == IF plan.keep_failed THEN job[p].failed ELSE <<>>

\* The file is there, and is truncated to be rewritten.
ConsumeTruncate(p) ==
  /\ job[p].pc = "consume"
  /\ queue' = <<>>
  /\ job' = [job EXCEPT ![p] = IF proposed = 0 THEN Idle ELSE [@ EXCEPT !.pc = "write"]]
  /\ UNCHANGED <<store, plan, proposed, file, lease, flagged, journal, crashes, hist>>

ConsumeWrite(p) ==
  /\ job[p].pc = "write"
  /\ queue' = Kept(p)
  /\ job' = [job EXCEPT ![p] = Idle]
  /\ hist' = [hist EXCEPT !.overtaken = @ \cup Overtaken(Range(Kept(p)))]
  /\ UNCHANGED <<store, plan, proposed, file, lease, flagged, journal, crashes>>

-----------------------------------------------------------------------------
(* Export, and the user's own edits.                                       *)

\* The lines of the pack, with the rank and the asserting source of each fact.
PackLines ==
  LET pack == SetToSeq(ContextPack(proj, now, FALSE))
  IN [ i \in DOMAIN pack |->
         FactLine(proj[pack[i]].shape, proj[pack[i]].value,
                  Receipt(proj[pack[i]].level, origin[pack[i]])) ]

ExportRead(p) ==
  /\ job[p].pc = "idle" /\ "export" \in plan.commands /\ Loads(proj, now)
  /\ job' = [job EXCEPT ![p] = [Idle EXCEPT !.pc = "splice", !.kind = "export",
                                            !.text = RenderBlock(PackLines)]]
  /\ UNCHANGED <<store, plan, files, lease, flagged, journal, crashes, hist>>

\* The target is read and the block spliced in, or the export refused.
ExportSplice(p) ==
  LET spliced == Splice(file, job[p].text)
  IN /\ job[p].pc = "splice"
     /\ job' = [job EXCEPT ![p] = IF spliced.ok THEN [@ EXCEPT !.pc = "truncate", !.text = spliced.file]
                                  ELSE Idle]
     /\ UNCHANGED <<store, plan, files, lease, flagged, journal, crashes, hist>>

ExportTruncate(p) ==
  /\ job[p].pc = "truncate"
  /\ file' = <<>>
  /\ job' = [job EXCEPT ![p].pc = "fill"]
  /\ UNCHANGED <<store, plan, queue, proposed, lease, flagged, journal, crashes, hist>>

ExportFill(p) ==
  /\ job[p].pc = "fill"
  /\ file' = job[p].text
  /\ job' = [job EXCEPT ![p] = Idle]
  /\ UNCHANGED <<store, plan, queue, proposed, lease, flagged, journal, crashes, hist>>

\* The user's editor saves the file with one more line, anywhere in it.
UserEdits(line, at) ==
  /\ hist.edits < plan.max_edits
  /\ hist' = [hist EXCEPT !.edits = @ + 1]
  /\ file' = InsertAt(file, at, line)
  /\ UNCHANGED <<store, plan, queue, proposed, job, lease, flagged, journal, crashes>>

-----------------------------------------------------------------------------

\* The process is killed: its lock goes with it, its half-done files stay.
Crash(p) ==
  /\ job[p].pc # "idle" /\ crashes < plan.crashes
  /\ crashes' = crashes + 1
  /\ job' = [job EXCEPT ![p] = Idle]
  /\ lease' = IF lease = p THEN NoProc ELSE lease
  /\ hist' = IF job[p].pc = "write"
             THEN [hist EXCEPT !.torn = @ \cup Range(Kept(p))] ELSE hist
  /\ UNCHANGED <<store, plan, files, flagged, journal>>

\* A direct write: the whole operation in one step, the lease being free.
OwnerWrites ==
  /\ lease = NoProc
  /\ \E r \in work.requests, op \in work.ops :
       /\ Ops!Perform(op, r)
       /\ origin' = [f \in Facts |-> IF f = seq /\ op \in Asserting THEN r.source ELSE origin[f]]
  /\ UNCHANGED <<derived, plan, files, job, lease, flagged, journal, crashes, hist>>

\* What a capture or an import does by itself, deadlines included.
Step(p) ==
  \/ RefuseMalformed(p) \/ EnterOp(p) \/ ScanFails(p) \/ Decide(p)
  \/ AppendBatch(p) \/ AppendFails(p) \/ RecordAdmitted(p)
  \/ ConsumeTruncate(p) \/ ConsumeWrite(p)

Next ==
  \/ Propose \/ OwnerWrites
  \/ \E line \in plan.edits, at \in 1..Len(file) + 1 : UserEdits(line, at)
  \/ \E p \in plan.procs :
       \/ CaptureRead(p) \/ ImportRead(p) \/ ExportRead(p)
       \/ ExportSplice(p) \/ ExportTruncate(p) \/ ExportFill(p)
       \/ Step(p) \/ Crash(p)
       \/ ScannerLeavesOrphan(p)
       \/ \E verdict \in {"allow", "taint", "reject"} : ScannerAnswers(p, verdict)

\* A command that can take a step takes it; a lock that is freed again and
\* again is granted. The scanner, the agent and the user owe nothing.
Fairness == \A p \in Procs : WF_vars(Step(p)) /\ SF_vars(EnterOp(p))

Spec == Init /\ [][Next]_vars /\ Fairness
-----------------------------------------------------------------------------
(* Properties.                                                             *)

\* capture.rs cmd_capture: no proposal is lost. A line that no capture under way
\* had failed to read when it was put into the file is still there, or was
\* accepted, or, without --keep-failed, was attempted; short of a crash inside
\* the rewrite itself, whatever other captures, writers and crashes there were.
QueueAccounts ==
  \A line \in (1..proposed) \ (hist.overtaken \cup hist.torn) :
    \/ line \in Range(queue) \cup hist.accepted
    \/ \E p \in Procs : job[p].pc = "write" /\ line \in Range(Kept(p))
    \/ ~plan.keep_failed /\ line \in hist.attempted

\* content_check.rs enforce: with a scanner configured, every proposed fact in
\* the store was allowed by it or carries a flag that verify reports as long as
\* the fact stands, through timeouts, orphans and fail-open.
UnscannedIsFlagged ==
  plan.scanner # "none" =>
    \A f \in Facts : hist.line[f] # 0 /\ f \notin hist.allowed =>
      f \in flagged /\ (IsBelieved(proj[f]) => "content" \in BackendFindings(proj, derived, flagged))

\* eval_capture.rs: what the journal says was admitted is in the store, under
\* the event number it names, even after a failed append or a crash.
JournalTellsTruth == \A r \in journal : r.decision = "admitted" => r \in hist.appended

HasSentinel(block) == \E i \in DOMAIN block : block[i].kind = "fact" /\ HasEnd(block[i])

Blocks == {RenderBlock(PackLines), RenderBlock(<<>>)}

\* A proposal makes the fact f again: its text, or the text of its JSON, with
\* the rank and the source of the fact where a receipt can tell them.
ComesBack(f, proposals) ==
  \E prop \in Range(proposals) :
    /\ prop.op = "assert" /\ prop.shape = proj[f].shape
    /\ proj[f].value \notin DOMAIN JsonText => prop.value = proj[f].value
    /\ proj[f].value \in DOMAIN JsonText => prop.value = JsonText[proj[f].value]
    /\ PlainName(origin[f]) => prop.level = proj[f].level /\ prop.source = origin[f]

\* memory.rs splice_managed_block, import: an export into any file a user can
\* make keeps everything outside the block, and import takes it back: on a file
\* with plain fences, wherever the block ends up, it proposes every fact of the
\* pack again. Only a text comes back as the value it was, and rank and source
\* only under a name without a blank.
ExportRoundTrips ==
  /\ \A b \in Blocks : Splice(file, b).ok /\ ~HasSentinel(b) =>
       UserText(Splice(file, b).file) = UserText(file)
  /\ LET b == RenderBlock(PackLines)
     IN Splice(file, b).ok /\ ~HasSentinel(b) /\ PlainFences(file) =>
          \A f \in ContextPack(proj, now, FALSE) :
            ComesBack(f, ImportFile(Splice(file, b).file))

\* content_check.rs run_scanner: a capture or an import ends although the
\* scanner, or a child of it that holds the pipe, never does.
CommandsEnd == \A p \in Procs : job[p].kind \in {"capture", "import"} ~> job[p].pc = "idle"
=============================================================================
