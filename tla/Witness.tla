------------------------------- MODULE Witness -------------------------------
(***************************************************************************)
(* The witness: signed tree heads over two append-only lanes, the event log *)
(* and the grant log.  Signers (`witness serve`, `witness sign`) append     *)
(* heads to a local file per lane, `witness publish` copies the latest head *)
(* to a sequence kept elsewhere, and `witness verify`, `verify-published`   *)
(* and `doctor` judge the current logs against the heads.  Every command    *)
(* reads several files one after the other, and none takes a lock.          *)
(*                                                                         *)
(* A digest of a chain is the chained prefix itself (SHA-256 is collision   *)
(* free); a signature is the key that made it.                              *)
(***************************************************************************)
EXTENDS Naturals, Sequences, FiniteSets, FiniteSetsExt, SequencesExt

CONSTANTS
    Record,      \* what a line of a log can hold
    MaxLog,      \* bound: records of a lane
    MaxHeads,    \* bound: heads a signer appends (serve's max_heads, sign's calls)
    MaxErrors,   \* MAX_CONSECUTIVE_ERRORS
    MaxKey,      \* bound: keypairs generated
    Workloads    \* signers, readers, records, bounds of the lanes, faults and their bound

Lanes == {"events", "grants"}

ASSUME WitnessAssumption ==
    /\ MaxLog \in Nat \ {0} /\ MaxHeads \in Nat \ {0} /\ MaxErrors \in Nat \ {0}
    /\ MaxKey \in Nat \ {0}
    /\ \A w \in Workloads : w.records \subseteq Record /\ w.size \in [Lanes -> 0..MaxLog]

VARIABLES
    work,       \* the workload of this behaviour
    log,        \* lane -> the log's records
    heads,      \* lane -> the local witness log
    published,  \* lane -> the sequence kept outside the writer's control
    key,        \* [secret, public]: the key files; 0 when absent
    signer,     \* signer -> its process
    reader,     \* the publish / verify / verify-published / doctor process
    faults,     \* history: how often a record, a head or the key was altered
    overlap     \* history: two signers ran at once

vars == <<work, log, heads, published, key, signer, reader, faults, overlap>>

Signers == {"serve", "sign"}
Kinds == {"verify", "published", "doctor", "publish"}
Verdicts == {"ok", "warn", "none", "failed", "tamper", "rollback", "conflict"}

-----------------------------------------------------------------------------
(* Heads.                                                                    *)

Digest(records) == records

SignHead(records, secret) ==
    [count |-> Len(records), digest |-> Digest(records), key |-> secret]

NoHead == [count |-> MaxLog + 1, digest |-> << >>, key |-> 0]

VerifySignedHead(records, head, public) ==
    /\ Len(records) = head.count
    /\ Digest(records) = head.digest
    /\ head.key = public

\* Mutant: the head is compared with the whole log, not with its prefix.
PrefixOf_WholeLog(records, n) == records

PrefixOf(records, n) == SubSeq(records, 1, n)

PreviousCount(hs, i) == IF i = 1 THEN 0 ELSE hs[i - 1].count

\* Of the verdicts on the heads, the first that is not "ok".
FirstFault(verdicts) ==
    LET faulty == {i \in DOMAIN verdicts : verdicts[i] # "ok"}
    IN IF faulty = {} THEN "ok" ELSE verdicts[Min(faulty)]

VerifyHeads(records, hs, public) ==
    FirstFault([i \in DOMAIN hs |->
        CASE hs[i].count < PreviousCount(hs, i) -> "rollback"
          [] hs[i].count > Len(records) -> "rollback"
          [] ~VerifySignedHead(PrefixOf(records, hs[i].count), hs[i], public) -> "tamper"
          [] OTHER -> "ok"])

VerifyGrantHeads(records, hs, public) ==
    FirstFault([i \in DOMAIN hs |->
        CASE hs[i].key # public -> "tamper"
          [] hs[i].count < PreviousCount(hs, i) -> "rollback"
          [] hs[i].count > Len(records) -> "rollback"
          [] hs[i].count > 0 /\ hs[i].digest # PrefixOf(records, hs[i].count) -> "tamper"
          [] OTHER -> "ok"])

Judge(lane, records, hs, public) ==
    IF lane = "events" THEN VerifyHeads(records, hs, public)
    ELSE VerifyGrantHeads(records, hs, public)

CoverageLevel(witnessed, current) == IF witnessed = current THEN "ok" ELSE "warn"

\* Whether and how the latest local head may follow the published sequence.
PublicationState(pub, latest) ==
    IF pub = << >> THEN "append"
    ELSE CASE Last(pub).count > latest.count -> "rollback"
           [] Last(pub).count = latest.count /\ Last(pub) # latest -> "conflict"
           [] Last(pub) = latest -> "already"
           [] OTHER -> "append"

\* grants_publication_state compares the counts of the grant lane alike.
GrantsPublicationState(pub, latest) ==
    IF pub = << >> \/ Last(pub).count < latest.count THEN "append"
    ELSE IF Last(pub).count > latest.count THEN "rollback"
    ELSE IF Last(pub) = latest THEN "already" ELSE "conflict"

-----------------------------------------------------------------------------
(* The environment: honest growth, and the faults the witness is there for.  *)

\* History: nothing that was written has been altered.
honest == faults = 0

Running(p) == signer[p].pc \notin {"off", "stopped"}

\* Init: `init --witness` prepares the paths; no key, no heads, no process.
Init ==
    /\ work \in Workloads
    /\ log = [l \in Lanes |-> << >>]
    /\ heads = [l \in Lanes |-> << >>]
    /\ published = [l \in Lanes |-> << >>]
    /\ key = [secret |-> 0, public |-> 0]
    /\ signer = [p \in Signers |->
                   [pc |-> "off", snap |-> << >>, key |-> 0, signed |-> 0, errors |-> 0,
                    failed |-> FALSE, last |-> [l \in Lanes |-> NoHead]]]
    /\ reader = [pc |-> "idle", kind |-> "verify", snap |-> << >>, level |-> "ok",
                 status |-> "none", sick |-> FALSE]
    /\ faults = 0 /\ overlap = FALSE

Grow(lane, r) ==
    /\ r \in work.records
    /\ Len(log[lane]) < work.size[lane]
    /\ log' = [log EXCEPT ![lane] = Append(@, r)]
    /\ UNCHANGED <<work, heads, published, key, signer, reader, faults, overlap>>

Tamper(lane) ==
    /\ \/ /\ "rewrite" \in work.faults
          /\ \E i \in DOMAIN log[lane], r \in work.records :
                /\ log[lane][i] # r
                /\ log' = [log EXCEPT ![lane][i] = r]
       \/ /\ "truncate" \in work.faults
          /\ log[lane] # << >>
          /\ log' = [log EXCEPT ![lane] = Front(@)]
    /\ faults < work.budget
    /\ faults' = faults + 1
    /\ UNCHANGED <<work, heads, published, key, signer, reader, overlap>>

\* Whoever controls the writer's storage can shorten the local witness log too.
DropHead(lane) ==
    /\ "drop" \in work.faults
    /\ heads[lane] # << >>
    /\ heads' = [heads EXCEPT ![lane] = Front(@)]
    /\ faults < work.budget
    /\ faults' = faults + 1
    /\ UNCHANGED <<work, log, published, key, signer, reader, overlap>>

\* `witness keygen`: never over an existing key; a pair whose public half
\* cannot be written is removed again, which changes nothing.
Keygen ==
    /\ key.secret = 0
    /\ key.public < MaxKey
    /\ key' = [secret |-> key.public + 1, public |-> key.public + 1]
    /\ UNCHANGED <<work, log, heads, published, signer, reader, faults, overlap>>

RemoveKey ==
    /\ "rekey" \in work.faults
    /\ key.secret # 0
    /\ key' = [key EXCEPT !.secret = 0]
    /\ faults < work.budget
    /\ faults' = faults + 1
    /\ UNCHANGED <<work, log, heads, published, signer, reader, overlap>>

-----------------------------------------------------------------------------
(* Signers.                                                                  *)

\* The key is read once: a running `serve` keeps the key it started with.
Start(p) ==
    /\ p \in work.signers
    /\ signer[p].pc = "off"
    /\ key.secret # 0
    /\ signer[p].signed < MaxHeads
    /\ signer' = [signer EXCEPT
                    ![p] = [@ EXCEPT !.pc = "ready", !.key = key.secret, !.errors = 0,
                                     !.failed = FALSE,
                                     !.last = [l \in Lanes |->
                                                 IF p = "sign" \/ heads[l] = << >>
                                                 THEN NoHead ELSE Last(heads[l])]]]
    /\ overlap' = (overlap \/ \E q \in Signers : Running(q))
    /\ UNCHANGED <<work, log, heads, published, key, reader, faults>>

LoadEvents(p) ==
    /\ signer[p].pc = "ready"
    /\ signer' = [signer EXCEPT ![p] = [@ EXCEPT !.pc = "events", !.snap = log["events"],
                                                    !.failed = FALSE]]
    /\ UNCHANGED <<work, log, heads, published, key, reader, faults, overlap>>

\* Append a head to a lane's witness log.
AppendHead(lane, head) == heads' = [heads EXCEPT ![lane] = Append(@, head)]

\* Mutant: what was signed is remembered although it was not written.
LastSigned_Forgets(p, head, written) == head

LastSigned(p, head, written) == IF written THEN head ELSE signer[p].last["events"]

\* `sign` always signs; `serve` signs when the count is not the last signed one.
SignEvents(p) ==
    /\ signer[p].pc = "events"
    /\ LET head == SignHead(signer[p].snap, signer[p].key)
           due == p = "sign" \/ signer[p].last["events"].count # head.count
       IN \/ /\ due
             /\ AppendHead("events", head)
             /\ signer' = [signer EXCEPT
                             ![p] = [@ EXCEPT !.pc = "midway", !.signed = signer[p].signed + 1,
                                              !.last["events"] = LastSigned(p, head, TRUE)]]
          \/ /\ due
             /\ "io" \in work.faults
             /\ signer' = [signer EXCEPT
                             ![p] = [@ EXCEPT !.pc = IF p = "sign" THEN "off" ELSE "midway",
                                              !.failed = TRUE,
                                              !.last["events"] = LastSigned(p, head, FALSE)]]
             /\ UNCHANGED heads
          \/ /\ ~due
             /\ signer' = [signer EXCEPT ![p] = [@ EXCEPT !.pc = "midway"]]
             /\ UNCHANGED heads
    /\ UNCHANGED <<work, log, published, key, reader, faults, overlap>>

\* The end of a tick: give up after MaxErrors failed ticks in a row, stop at
\* the number of heads asked for, else sleep and tick again.
EndTick(p, failed) ==
    LET errors == IF failed THEN signer[p].errors + 1 ELSE 0
    IN CASE p = "sign" -> "off"
         [] errors >= MaxErrors -> "stopped"
         [] signer[p].signed >= MaxHeads -> "stopped"
         [] OTHER -> "ready"

\* The grant lane of a tick, when there is a grant log.  `serve` compares the
\* state it reads with the last one it signed; signing reads the log again.
SignGrants(p) ==
    /\ signer[p].pc = "midway"
    /\ LET now == SignHead(log["grants"], signer[p].key)
           due == /\ log["grants"] # << >>
                  /\ \/ p = "sign"
                     \/ signer[p].last["grants"].count # now.count
                     \/ signer[p].last["grants"].digest # now.digest
           fail == signer[p].failed
       IN IF due
          THEN signer' = [signer EXCEPT ![p] = [@ EXCEPT !.pc = "grants", !.snap = log["grants"]]]
          ELSE signer' = [signer EXCEPT
                            ![p] = [@ EXCEPT !.pc = EndTick(p, fail), !.snap = << >>,
                                             !.errors = IF fail THEN signer[p].errors + 1 ELSE 0]]
    /\ UNCHANGED <<work, log, heads, published, key, reader, faults, overlap>>

SignGrantHead(p) ==
    /\ signer[p].pc = "grants"
    /\ \/ /\ AppendHead("grants", SignHead(log["grants"], signer[p].key))
          /\ signer' = [signer EXCEPT
                          ![p] = [@ EXCEPT !.pc = EndTick(p, signer[p].failed), !.snap = << >>,
                                           !.errors = IF signer[p].failed
                                                      THEN signer[p].errors + 1 ELSE 0,
                                           !.last["grants"] = SignHead(signer[p].snap,
                                                                       signer[p].key)]]
       \/ /\ "io" \in work.faults
          /\ signer' = [signer EXCEPT
                          ![p] = [@ EXCEPT !.pc = EndTick(p, TRUE), !.snap = << >>,
                                           !.errors = signer[p].errors + 1]]
          /\ UNCHANGED heads
    /\ UNCHANGED <<work, log, published, key, reader, faults, overlap>>

-----------------------------------------------------------------------------
(* Readers.  The event log is read first, the heads after it.                *)

\* History: a published head of this lane is no longer a prefix of the log.
Broken(lane) == \E i \in DOMAIN published[lane] :
                   ~IsPrefix(published[lane][i].digest, log[lane])

Begin(kind) ==
    /\ kind \in work.kinds
    /\ reader.pc = "idle"
    /\ key.public # 0
    /\ reader' = [pc |-> "events", kind |-> kind, snap |-> log["events"], level |-> "ok",
                  status |-> "none", sick |-> Broken("events")]
    /\ UNCHANGED <<work, log, heads, published, key, signer, faults, overlap>>

Report(status) == [reader EXCEPT !.pc = "idle", !.status = status, !.snap = << >>]
Onward(level) == [reader EXCEPT !.pc = "lane", !.level = level, !.snap = << >>]

\* What a command that publishes does to one lane.  It judges the local heads,
\* then the published ones with the latest local one added.
PublishResult(lane, records) ==
    LET local == heads[lane]
        latest == Last(local)
        state == IF lane = "events" THEN PublicationState(published[lane], latest)
                 ELSE GrantsPublicationState(published[lane], latest)
        after == IF state = "append" THEN Append(published[lane], latest)
                 ELSE published[lane]
        ofLocal == Judge(lane, records, local, key.public)
        ofPublished == Judge(lane, records, after, key.public)
    IN CASE local = << >> -> [status |-> "failed", sequence |-> published[lane]]
         [] local # << >> /\ ofLocal # "ok" -> [status |-> ofLocal, sequence |-> published[lane]]
         [] local # << >> /\ ofLocal = "ok" /\ state \in {"rollback", "conflict"} ->
              [status |-> state, sequence |-> published[lane]]
         [] local # << >> /\ ofLocal = "ok" /\ state \in {"append", "already"} ->
              IF ofPublished # "ok"
              THEN [status |-> ofPublished, sequence |-> published[lane]]
              ELSE [status |-> CoverageLevel(latest.count, Len(records)), sequence |-> after]

Publish ==
    /\ reader.kind = "publish"
    /\ reader.pc = "events"
    /\ LET result == PublishResult("events", reader.snap)
       IN /\ published' = [published EXCEPT !["events"] = result.sequence]
          /\ reader' = IF result.status \in {"ok", "warn"} THEN Onward(result.status)
                       ELSE Report(result.status)
    /\ UNCHANGED <<work, log, heads, key, signer, faults, overlap>>

PublishGrants ==
    /\ reader.kind = "publish"
    /\ reader.pc = "grants"
    /\ LET result == PublishResult("grants", reader.snap)
       IN /\ published' = [published EXCEPT !["grants"] = result.sequence]
          /\ reader' = Report(IF result.status = "ok" THEN reader.level ELSE result.status)
    /\ UNCHANGED <<work, log, heads, key, signer, faults, overlap>>

\* `verify` with no event heads has nothing to check and does not look at the
\* grant lane either.
Verify ==
    /\ reader.kind = "verify"
    /\ reader.pc = "events"
    /\ LET verdict == VerifyHeads(reader.snap, heads["events"], key.public)
       IN reader' = CASE heads["events"] = << >> -> Report("none")
                      [] heads["events"] # << >> /\ verdict = "ok" ->
                           Onward(CoverageLevel(Last(heads["events"]).count, Len(reader.snap)))
                      [] OTHER -> Report(verdict)
    /\ UNCHANGED <<work, log, heads, published, key, signer, faults, overlap>>

\* Mutant: the monitor reads the writer's witness log.
MonitoredHeads_Local(lane) == heads[lane]

MonitoredHeads(lane) == published[lane]

VerifyPublished ==
    /\ reader.kind = "published"
    /\ reader.pc = "events"
    /\ LET monitored == MonitoredHeads("events")
           verdict == VerifyHeads(reader.snap, monitored, key.public)
       IN reader' = CASE monitored = << >> -> Report("failed")
                      [] monitored # << >> /\ verdict = "ok" ->
                           Onward(CoverageLevel(Last(monitored).count, Len(reader.snap)))
                      [] OTHER -> Report(verdict)
    /\ UNCHANGED <<work, log, heads, published, key, signer, faults, overlap>>

\* `doctor` (and the MCP server's status tool) judges the event lane only.
DoctorStatus ==
    /\ reader.kind = "doctor"
    /\ reader.pc = "events"
    /\ LET verdict == VerifyHeads(reader.snap, heads["events"], key.public)
       IN reader' = Report(CASE heads["events"] = << >> -> "warn"
                             [] heads["events"] # << >> /\ verdict = "ok" ->
                                  CoverageLevel(Last(heads["events"]).count, Len(reader.snap))
                             [] OTHER -> verdict)
    /\ UNCHANGED <<work, log, heads, published, key, signer, faults, overlap>>

\* The first read of the grant lane: `verify` reads the heads first, the
\* commands given --grants read the grant log first.
ReadGrants ==
    /\ reader.pc = "lane"
    /\ reader' =
         CASE reader.kind = "verify" /\ heads["grants"] = << >> -> Report(reader.level)
           [] reader.kind = "verify" /\ heads["grants"] # << >> ->
                [reader EXCEPT !.pc = "grants", !.snap = heads["grants"]]
           [] reader.kind # "verify" /\ work.size["grants"] = 0 -> Report(reader.level)
           [] reader.kind # "verify" /\ work.size["grants"] > 0 ->
                [reader EXCEPT !.pc = "grants", !.snap = log["grants"],
                               !.sick = @ \/ Broken("grants")]
    /\ UNCHANGED <<work, log, heads, published, key, signer, faults, overlap>>

VerifyGrantLogHeads ==
    /\ reader.kind = "verify"
    /\ reader.pc = "grants"
    /\ LET verdict == VerifyGrantHeads(log["grants"], reader.snap, key.public)
       IN reader' = Report(IF verdict = "ok" THEN reader.level ELSE verdict)
    /\ UNCHANGED <<work, log, heads, published, key, signer, faults, overlap>>

VerifyPublishedGrants ==
    /\ reader.kind = "published"
    /\ reader.pc = "grants"
    /\ LET monitored == MonitoredHeads("grants")
           verdict == VerifyGrantHeads(reader.snap, monitored, key.public)
       IN reader' =
            Report(CASE monitored = << >> -> "failed"
                     [] monitored # << >> /\ verdict # "ok" -> verdict
                     [] OTHER -> IF CoverageLevel(Last(monitored).count, Len(reader.snap)) = "warn"
                                 THEN "warn" ELSE reader.level)
    /\ UNCHANGED <<work, log, heads, published, key, signer, faults, overlap>>

-----------------------------------------------------------------------------

SignerStep(p) == LoadEvents(p) \/ SignEvents(p) \/ SignGrants(p) \/ SignGrantHead(p)
ReaderStep == \/ Publish \/ PublishGrants \/ Verify \/ VerifyPublished \/ DoctorStatus
              \/ ReadGrants \/ VerifyGrantLogHeads \/ VerifyPublishedGrants

Next ==
    \/ \E l \in Lanes, r \in Record : Grow(l, r)
    \/ \E l \in Lanes : Tamper(l) \/ DropHead(l)
    \/ Keygen \/ RemoveKey
    \/ \E p \in Signers : Start(p) \/ SignerStep(p)
    \/ \E kind \in Kinds : Begin(kind)
    \/ ReaderStep

\* A process that runs takes its next step; nothing makes anyone start one.
Spec == Init /\ [][Next]_vars /\ WF_vars(SignerStep("serve")) /\ WF_vars(ReaderStep)

-----------------------------------------------------------------------------
(* Properties.                                                               *)

Heads == [count : 0..MaxLog, digest : SeqOf(Record, MaxLog), key : 1..MaxKey]

\* Every variable has its shape: heads are heads, verdicts are verdicts.
TypeOK ==
    /\ log \in [Lanes -> SeqOf(Record, MaxLog)]
    /\ \A l \in Lanes : Range(heads[l]) \subseteq Heads /\ Range(published[l]) \subseteq Heads
    /\ key.secret \in 0..MaxKey /\ key.public \in 0..MaxKey
    /\ \A p \in Signers :
          /\ signer[p].pc \in {"off", "ready", "events", "midway", "grants", "stopped"}
          /\ signer[p].errors \in 0..MaxErrors
          /\ \A l \in Lanes : signer[p].last[l] \in Heads \cup {NoHead}
    /\ reader.pc \in {"idle", "events", "lane", "grants"}
    /\ reader.kind \in Kinds /\ reader.status \in Verdicts
    /\ faults \in 0..work.budget /\ overlap \in BOOLEAN

\* With honest logs, one signer at a time and one key, the local heads and the
\* published ones verify in every state, the middle of a tick included.
HonestVerifies ==
    honest /\ ~overlap =>
        \A l \in Lanes : /\ Judge(l, log[l], heads[l], key.public) = "ok"
                         /\ Judge(l, log[l], published[l], key.public) = "ok"

\* `verify-published` and `publish` never accept a log that had already lost
\* a published head when they read it, whatever happens while they run.
PublishedCatches ==
    reader.pc = "idle" /\ reader.sick /\ reader.kind \in {"published", "publish"}
        => reader.status \notin {"ok", "warn"}

Covered(n) == \E i \in DOMAIN heads["events"] : heads["events"][i].count >= n

\* A running `serve` brings the last event under a signed head in the end, unless
\* it gives up, reaches its head count, or the log or the witness log shrinks.
ServeCatchesUp ==
    (Running("serve") /\ Len(log["events"]) = work.size["events"])
        ~> (Covered(work.size["events"]) \/ ~honest \/ signer["serve"].pc = "stopped")

=============================================================================
