# dent8: models, checks and proofs

dent8 is a belief base for coding agents: an append-only log of *fact events* (assert,
reinforce, contradict, supersede, expire, retract, and audit events), a pure transition
function that folds a fact's events into its state, a firewall that refuses events which
would let weak sources overrule strong ones, three stores for the log (a JSON-lines file,
SQLite, Postgres) and a command line and MCP server whose operations read a snapshot,
decide, and append.

This directory models that system in TLA+, checks small instances with TLC and proves
the most important results with TLAPS for every value of the constants. Source paths
below are relative to `src/crates/`; `PROJECT.json` gives the exact lines of every
definition.

Contents: [inventory](#inventory), [modules](#modules), [what is checked](#what-is-checked),
[where the code disagrees with its comments](#where-the-code-disagrees-with-its-comments),
[behaviours worth knowing](#behaviours-worth-knowing),
[bounds](#bounds), [fairness](#fairness), [proofs](#proofs),
[only model-checked](#only-model-checked), [not modelled](#not-modelled), [plan](#plan).

## Inventory

| component | state it keeps | operations | hard behaviour | what makes it correct |
|---|---|---|---|---|
| event model and kernel (`dent8-core`: `model.rs`, `state.rs`) | the state of one fact: lifecycle, value, authority, who backs, contests or replaced it, standing | `validate`, `apply_event`, `is_fresh_at`, `earned_entrenchment` | long event sequences; terminal facts still take audit events; time at its limits | a closed fact stays closed, closing takes rank, standing is earned per source |
| counterfactual policies (`policy.rs`) | none | `admits`, replay under a policy | events vanish from the middle of a stream | replay stays total; distrust never strengthens |
| firewall and in-memory store (`dent8-store`: `firewall.rs`, `memory.rs`) | log, states, edges | `arbitrate_events`, `append`, lookups | a batch is judged event by event against a state the batch itself moves | no laundering, ids unique |
| store library (`lib.rs`) | none | replay, projections, lineage issues, taint | two definitions of the same thing (fold, projection, audit) | they agree |
| predicate registry (`registry.rs`) | a table of policies | defaults, floor, retention ceiling, uniqueness | several gates that must not close together; clock-dependent uniqueness | limits hold on every path; dissent stays possible |
| Postgres and SQLite adapters | event, projection and edge tables, number allocator, lease | `append_many`, `reserve_event_ids`, `acquire_write_lease` | rollback in the middle of a batch, contention, stale writers | projection = fold of the log, numbers never signed twice |
| belief operations (`dent8-cli/src/ops.rs`) | none between calls | `op_assert`, `op_derive`, `op_supersede`, `op_contradict`, `op_retract`, `op_reinforce`, `op_expire`, `op_used_in_decision`, `op_record_retrievals`; reads | load-decide-append spans, retries, a second write for a lost challenge, crash anywhere | linearizable under the lease; the answer is true |
| store plumbing (`main.rs`) | the file log | `load_store`, `append_events`, event numbers, uniqueness on load, `verify_log` | torn lines, the clock | nothing lost unreported, nothing half-applied |
| authority registry (`main.rs`, `setup.rs`) | one JSON file of grants | `authority add/remove/defaults`, `init`, `agent add`, the write gate | issuer chains, replacement and revocation in any order, editors without a lock, hand edits | delegation never exceeds the delegator; revocation only tightens |
| read surfaces (`ops.rs`, `context.rs`, `snapshot.rs`, `native.rs`) | none | explain, facts list, conflicts, context pack, snapshot, verify, reconcile, as-of and what-if reads | several beliefs of one predicate, stale, future or contested; clocks that disagree with the log | a dispute is never shown as settled, a current belief never hidden, poison always reported |
| MCP server and daemon (`mcp.rs`, `mcp_client.rs`, `daemon.rs`) | connections, handshake states, subscriptions | hello and prove, write tools, resource reads (which write an audit event), subscribe, the notifier | revocation and rotation under live connections, replayed proofs, a daemon that dies between commit and answer, a notifier in three steps | only proven connections write, answers are true, changes are reported in the end |
| signed identity (`identity*.rs`) | keys, grants, trust root, active grants, grant log | bootstrap, add, rotate, revoke, repair, back-fill, status; gate and attestation of a write | failure or kill between files; gate, stamp and attestation read the files at three moments | no key is lost, a failed command restores, a gated write is entitled by the log |
| witness, anchor, hash chain (`witness.rs`, `anchor.rs`, `hash.rs`) | signed heads beside the logs and published elsewhere | keygen, sign, serve, publish, verify, verify-published | truncation, rewriting, dropped heads, replaced keys, several files read one after another | honest logs verify, rewritten published history is seen, serve catches up |
| content check (`content_check.rs`) | none | run an external scanner under the write lease | timeout, orphaned children, fail-open | what went in unscanned stays marked; the command ends |
| capture and native memory (`capture.rs`, `memory.rs`, `native.rs`, `eval_capture.rs`) | a queue, managed blocks in the user's files, a journal | capture, import, export, reconcile | the agent, the user and other captures edit the same files without a lock; crashes | no proposal is lost, user text is kept, import recovers what export wrote as far as a receipt can tell it |
| hooks, agent configuration, set-up (`hook*.rs`, `mcp_config.rs`, `setup.rs`) | config files shared with other tools, the `.dent8` directory | init, agent add, mcp install, the guard | partial failure, kills, files edited meanwhile | init is all or nothing, an installed guard blocks |
| doctor (`doctor.rs`, `status.rs`) | none | checks of env, servers, identity; write check with a probe | things change while it looks; servers hang | a green report is true |
| UI, evaluation corpora, export | none | presentation, measurement | none | not modelled |

Interaction. A CLI or MCP call goes through `enforce_write_authority` (registry, then
identity), `load_store` (log to snapshot), an `op_*` function (snapshot to batch, judged
by the predicate registry and the firewall) and `append_events` (batch to log). The
whole span runs inside `with_write_retry`, which holds a write lease (an OS file lock, or
a session lock of the database) and starts again on a conflict. What processes share is the
log, the allocator of event numbers, the lease, the registry file, the identity bundle and
grant log, the witness logs, the capture queue, and the memory and config files of the
agents; of these only the log has a lock.

## Modules

```
FactFold ─ FactReplay
   ├─ EventStore ─ EventReplay                         EventStoreProofs
   └─ PredicateRegistry ─ OpEvents
        ├─ ConcurrentWriters ─ (implements) BeliefBase OperationProofs
        ├─ FileLog
        └─ ReadOps ┬─ WriteOps                         OperationProofs
                   └─ NativeMemory                     NativeMemoryProofs
                        (ManagedBlock; a direct write is a step of WriteOps)

AuthorityRegistry                                      AuthorityRegistryProofs
GrantLog ─ IdentityBundle                              IdentityBundleProofs
ResourceSubscription ─ McpDaemon                       McpDaemonProofs
Witness                                                WitnessProofs
AgentConfig ─ Setup                                    SetupProofs
```

* **FactFold** – pure. `Event`, `FactState`, `Validates`, the transition `apply_event`
  for the first and for later events, arbitration, freshness, earned entrenchment,
  uniqueness of beliefs. A subject and predicate are one *shape*, an authority level is its
  rank 0..4, an evidence list is its length and the facts it derives from, blank text is a
  flag, an absent time is `NoTime`.
* **FactReplay** – pure. The stream of a fact in a log (`EventsAt`, `StreamOf`) and its fold
  (`FoldEvents`), `ReplayError` where the fold fails. Both recursions are recursive functions.
* **EventStore** – one committed view (`log`, `proj`, `edges`) and the view inside the
  open transaction (`tlog`, `tproj`, `tedges`). `AppendEventInTx` is one turn of
  `append_many`'s loop, `Commit` its policy recheck and commit, `Rollback` any refusal,
  error or crash. The in-memory store is the case of one event per transaction.
* **EventReplay** – reads of `EventStore`'s log: replay under epistemic policies (`admits`,
  `fold_fact`, `explain_with`), the difference of two states, as-of reads that select by
  recorded time, and the verification of a stored projection. `ReplaySubject` tells apart a
  replay that failed and the states of one that did not.
* **PredicateRegistry** – pure. Defaults, authority floor, retention ceilings with the
  conversions that bound a caller's ttl and validity window, the uniqueness gate.
* **OpEvents** – pure. What each operation decides on a snapshot: its incumbents, the batch
  of events with their numbers, whether the batch is admitted, which challenge was lost
  and the record of it, and whether a log loads.
* **ReadOps** – pure. What each read surface says of a projection at an instant: explain
  and its batch form, facts list, conflicts, context pack, reconcile of a reference, taint,
  verify, runtime status and snapshot.
* **WriteOps** – the operations one after another with a moving clock: `beliefs`, `derived`,
  `seq`, `now`, one action per operation and `Tick`; and the reads that record what they
  showed (`unaudited`, `RecordRetrievals`). A fact is named by the event that asserts it, so
  the facts cover the numbers of every workload (`EventsAreFacts`).
* **BeliefBase** – the abstract specification of a shared belief base: an operation takes
  effect at one instant, at most once, on the beliefs of that instant.
* **ConcurrentWriters** – processes that each run one operation through
  `with_write_retry`, step by step: `Acquire`, `Load`, `Reserve`, `Commit`, `Record` and
  `AppendRecord` (the lost challenge), `Return`; `Explain` is the read an MCP resource
  audit follows. `LeaseFails`, `LoadFails`, `ReserveFails`, `AppendFails`, `RecordFails`, `Busy`
  and `Crash` are the faults; an append that fails leaves nothing, the first lines of its batch (a
  file) or a whole transaction whose commit was not confirmed (a database). `Backend` chooses the file store (numbers from the snapshot, append without
  recheck) or a database (numbers from an allocator, re-arbitration at commit).
  `Unleased` processes call an operation outside the retry loop, as the MCP resource audit,
  the doctor's write check and programs linked to an adapter do.
* **FileLog** – the file as text: lines made of pieces of events, and whether the last
  line is ended. `Write` appends a batch, `TornWrite` any prefix of it, with the unended
  line continued by the next write; loading skips what does not parse.
* **AuthorityRegistry** – the registry file, editors that have loaded a copy and are
  about to save, and hand edits. Every command is `Begin` (load, validate, decide; a
  refused command does nothing) and `Save` or `SaveFails`. The loops that follow issuers
  are least closed sets (`Chain`): a loop that follows one issuer per name and stops at a
  repeated name visits exactly those, and it meets a repeated name exactly when none of
  them is an end (`GroundsOut`). The scopes `"*"` and absent are one value, as they are
  to `scope_covers` and to the validation.

* **GrantLog**, **IdentityBundle** – the grant log is a sequence of issuances and revocations
  that name the line before them; a signed grant is the record of what it says and of the
  key that signed it. The bundle is a set of files. A command (`op`) is a list of file
  operations, one per step, that may fail at any of them, after which the rollback guard
  undoes what it recorded, or be killed between two. `GrantIssue` takes a fresh key or the key of
  any grant on disk or in the log, and writes its grant into the bundle or elsewhere. `writer` is a write in flight: gated,
  stamped and attested at three moments. `CheckAttestation` is the judgement of `verify`.
* **ResourceSubscription**, **McpDaemon** – a connection has a handshake state, at most one
  request in flight, a subscription record and a notifier. `Hello`, `SignChallenge`, `Prove`
  are the handshake; `BeginWrite`, `Enforce`, `Commit`, `Reply` a write, whose append may conflict
  or fail (`CommitConflicts`, `CommitFails`); `PollCopy`,
  `PollLoad`, `PollSettle` a poll. `Revoke`, `RotateSource`, `Crash`, and the writes of other
  processes come in between.
* **Witness** – two lanes, each a log, a local sequence of heads and a published one. A head
  holds the prefix it commits to in place of its digest. `serve` and `sign` are processes of
  four steps; every reader first loads the log, then the heads. `Tamper`, `DropHead`,
  `RemoveKey` and failing appends are the faults.
* **ManagedBlock**, **NativeMemory** – a memory file is a sequence of lines abstracted to what
  the two parsers tell apart; a receipt comment is the words a reader splits it into, so that a
  source with a blank in its name makes words that may read as other hints. Captures, imports and exports (`job`) run step by step under
  the store's lease (`lease`), with a scanner that answers, hangs or leaves an orphan; the
  queue and the file are read and rewritten without a lock.
* **AgentConfig**, **Setup** – the config files as hooks and a server entry, the `.dent8`
  directory as named files. `init`, `agent add`, `mcp install` and `doctor` are lists of file
  operations and checks (`op`), which fail, are killed, or run beside an editor, a build, a
  daemon and a revocation. A doctor of several agents takes them in turn and skips, when its turn
  comes, one that is not installed.

`MC*` modules give the constants of the runs. Several instances hold a set of *workloads* (or
*plans*): the first state chooses one, so that a run explores several situations without
their product. Definitions whose comment begins with *Mutant* are deliberately wrong variants
of the definition that follows them, one for each checked property; the property fails when
the variant is put in its place.

## What is checked

| run | bounds | properties |
|---|---|---|
| `event_store` | 2 facts, 4 event ids, 2 sources, levels 1, 2, 4, two recorded times, logs of 4 events; 9 policies | `CommittedNoLaundering`, `CommittedClosedByRank`, `ReplayAgrees`, `DistrustOnlyWeakens`, `AsOfNeverInvents` |
| `write_ops` | four workloads: ranks on a predicate with a High floor, a volatile predicate over three instants, a dispute beside a settled belief, derivations across predicates; up to 6 events | `GateAgreesWithAudit`, `DissentIsPossible`, `WritesLeaveLoadable`, `DisputeIsShown`, `FreshBeliefIsPacked`, `PoisonIsReported` |
| `writers_file` | 3 leased writers, 5 operations each, file store, failing appends, crashes | `SnapshotIsCurrent`, `Linearizable` |
| `writers_database` | 2 leased writers (openings, closings, a dissent, an attack) and an unleased one that audits or asserts; contention, failing appends, 2 attempts | `ReplyMatchesLog`, `NoSilentDuplicates`, `EveryOperationEnds` |
| `file_torn` | 4 writes, 2 of them torn, 6 operations | `LossIsReported`, `OrphansAreRefused` |
| `authority_registry` | 2 editors, 2 overlapping commands, 3 sources, one of 4 hand edits | `NoGrantGroundsItself`, `AddAgreesWithGate`, `RevocationOnlyTightens` |
| `identity_bundle` | 2 sources, 2 keys, grants of 2 levels, 3 commands, 1 failure or kill, 1 write, 2 instants | `KeyNeverLost`, `RollbackRestores`, `ExclusionIsExplained`, `GreenStatusIsTrue` |
| `mcp_daemon` | 2 connections, 2 nonces, 2 keys, 2 events; or a subscriber of 2 streams | `ProofIsOwn`, `RevocationLatency`, `OutcomeIsTrue`, `NotifiesInTheEnd` |
| `native_memory` | seven plans: two captures and a crash, a replayed queue, failures dropped, a scanner under either policy, every file of two lines edited once with facts of three kinds of value and two kinds of source, every fenced file of three lines | `QueueAccounts`, `UnscannedIsFlagged`, `JournalTellsTruth`, `ExportRoundTrips`, `CommandsEnd` |
| `witness` | four workloads: tampering, a replaced key with failing writes, two signers, both lanes; 2 records, 2 heads, 2 errors | `HonestVerifies`, `PublishedCatches`, `ServeCatchesUp` |
| `setup` | 2 agents and a project without one, 3 commands of 13, 1 fault, 1 edit | `InitIsAtomic`, `GuardInstalledBlocks`, `GreenReportIsTrue` |
| `time_bricks_store` | as `write_ops` | `StoreStaysLoadable`, violated |

What they show, beyond the table of inventory:

* *The event store.* Whatever transactions commit or roll back, a supersession in the log
  has before it the assertion of its replacement at no less authority than the fact it
  closed; each closed fact has exactly one closing event, by rank, followed only by audit
  events; the projection that is maintained row by row equals the fold of the log, and the
  edge table says what the projection says.
* *Replay.* No set of distrusted sources and floors makes an admitted stream fail, closes or
  contests a fact that stands, or raises its standing. An as-of read shows no fact that was
  not asserted by then, whatever order the clocks put on the log.
* *Operations.* With the entrenchment gate on, the audit of the log finds no unearned
  supersession, although gate and audit count standing separately. A low source can always
  contradict a belief that is not canonical.
* *Reads.* Two live beliefs of a unique predicate are shown as contested by explain, batch
  explain, conflicts, reconcile and the snapshot, and the pack carries the contested belief that
  explain shows, except one that is not valid yet when the stale are left out; a fresh undisputed belief is
  packed whatever stale or future ones lie beside it; a belief that rests on a withdrawn one
  at any distance is among the tainted facts.
* *Concurrency.* Leased writers implement `BeliefBase` through crashes, timeouts, conflicts
  and retries, also beside a process that writes to a database without a lease: an audited
  read, or an assertion such as the doctor's write check. Beliefs stay
  unique whether or not the lease was taken. An accepted operation is in the log once, a refused one is
  not (but for the record of its challenge); a commit that failed is answered as such and never
  tried again, so the log holds all of it, the first lines of it or nothing.
* *The file.* After torn writes an accepted event is readable
  or a corrupt line is there for `verify_log` to report, and a log that holds half a
  revision as a belief does not load.
* *The authority registry.* Overlapping editors may lose an edit (the last save wins, as
  the code says) but never install a cycle. `authority add` and the gate, which walk chains in two
  separate loops, agree exactly. Revocation never loosens anyone, at any depth.
* *Identity.* A rotation, failed or killed anywhere, leaves a key with its grant, live or
  among the backups, and one that fails gives the source its files back. A write that met no
  identity command is excluded by verification only when its grant was revoked in the same
  millisecond, expired, or was revoked and revived by a repair, or when the log had issued another
  grant for the same key. A green `identity status` or `doctor` line means the gate lets that source
  write; verification counts the write too, with the same exception for a key issued again.
* *Daemon.* Whoever is authenticated answered a nonce issued to that connection, once. After a
  revocation a connection lands at most the one write whose check came before it. A client
  told accepted, refused or rejected is told the truth of the log, also when the re-read fails; a
  failed commit or a dead daemon leaves open whether the one event landed, and nothing lands twice. Every
  change a subscriber is owed is reported in the end, unless a poll was under way when it subscribed.
* *Native memory.* Proposals are kept, accepted or (without `--keep-failed`) attempted; whatever
  was not allowed by a configured scanner is flagged and reported while it stands; the journal
  claims no admission the store does not hold; export keeps the user's text and import
  proposes every fact of the block again, a text as it was, JSON as its text, and rank and source where
  the name of the source has no blank; captures and imports end although scanners do not.
* *Witness.* Honest logs verify in every state with one signer and one key; `publish` and
  `verify-published` accept no log that had lost a published head when they read it; a
  running `serve` signs the last event, unless it stops or the log shrinks.
* *Set-up.* Without a kill, an env names only files that exist and a failed init can be
  repeated; a guard reported installed blocks; a green doctor is true if nothing changed while it ran.

## Where the code disagrees with its comments

One run states what a comment of the repository says and ends in a counterexample;
`PROJECT.json` quotes the line.

* `time_bricks_store` – the uniqueness check on load drops expired facts before it collects
  the contests that explain several beliefs; when the contested fact expires first, accepted
  operations and the passing of time alone leave a log that no longer loads.

## Behaviours worth knowing

The models reproduce these; no property forbids them, because the code accepts them, no
document decides, or the property excludes the case by name.

* Supersession and contradiction stamp the caller's ttl without the retention ceiling an
  assertion is held to (`OpEvents`).
* The audit of an MCP resource read takes no file lock and can write the number a leased
  writer is writing (`ConcurrentWriters` with the file backend and an unleased process). On a
  database the recheck catches an unleased assertion, but an unleased retraction would pass
  re-arbitration and miss a belief added since; the one such retraction is the doctor's, of a
  probe subject of its own.
* Contention met while loading is not retried (`LoadFails`): `backend_load` has already turned
  it into a string.
* An append continues an unended line of the file, so the next accepted event is skipped with
  the torn one (`FileLog`).
* The last save of the authority registry wins; a revocation can be undone by an overlapping
  command.
* The subscriptions of a connection share one baseline. A poll that copied the uris before a
  second stream was added filters with that copy and still moves the baseline, so an append to
  the new stream beside its subscribe is never reported, although `mcp.rs:90` rules that out.
  `owed` leaves such a change out by name (`InPollWindow`).
* A connection of a rotated key goes on writing under the new one.
* `capture --consume` loses lines appended between its read and its rewrite, and the kept
  lines when it dies between truncating and writing (`overtaken`, `torn` in `NativeMemory`). A
  value that quotes a sentinel jams later exports.
* `witness verify` that overlaps a signer can report a rollback of an honest log, since it
  reads the events first.
* A bootstrap killed after its grant is later taken for a complete bundle. The doctor does not
  notice a store url of its own in an installed env.
* A commit that is not confirmed (`adapter.rs:213`, `main.rs:4634`, `main.rs:4809`) is answered with
  status `rejected` and the code of a failed commit although it may have landed; a failed file append
  leaves the first lines of its batch (`AppendFails`, `CommitFails`).
* `identity grant issue` accepts a key that already has a grant and any `--out`. The gate reads the
  grant on disk, verification the last one issued for the key: a re-issue at a lower ceiling leaves
  the status green and excludes later writes (`Reissued` in `GrantLog`).
* A receipt prints the source as it is and is read back word by word: a source with a blank in its
  name comes back as another one, or as another rank. JSON comes back as a text, as
  `docs/native-memory.md` says (`ManagedBlock`).
* A rotation that fails after its log append rolls its files back but not the log.

## Bounds

Every bound is a constant, or a field of a workload, that only a guard uses (`Max*`, `budget`,
`events`, `until`, `crashes`), or the set of numbers (`MaxNumber`).

* Two facts and four events cover an assertion of each, a contest or supersession between
  them and a close, contest or audit after it; every check of the kernel compares a fact
  with at most one other. The levels are one pair of ordered ranks and Canonical, the only
  level the code names.
* Two recorded times let a revision be recorded before the assertion it revises.
* Six event numbers allow three revisions or a contest, its resolution and a challenge; two
  units of time separate before, at and after an expiry.
* Three processes are a holder of the lease, one that waits and one that does not ask. Two
  attempts distinguish the last attempt from an earlier one; the code's 32 differ only in
  how often. `MaxNumber` is large enough never to limit a run.
* Four writes with two torn allow a torn write before, between and after whole ones, and a
  torn line glued to a torn line.
* Three sources make chains of one, two and three issuers. Two editors with a command each
  are the overlap in question; commands that need a deeper registry find it in one of
  four hand-edited files (a self-issued grant with delegates, a cycle of three, a
  delegate that exceeds its issuer's issuer, scopes that exclude each other). Each walk looks at a
  chain one link at a time; the theorems remove the bound.
* Three identity commands are a bootstrap and two that meet its result; one failure or kill at
  any file is what the rollback guards are written for. Two sources are needed because the
  active grants and the log are shared. Two keys and grants of two levels are a key that is issued
  again at a lower ceiling, and one that is not. The write in flight overlaps any of
  it; states that differ only in what an overlapped write asked for are merged (`Followed`), since no
  property speaks of such a write and no step depends on more of it than how far it is.
* Two connections and two nonces let a signature made for one be offered on the other; two keys
  are a rotation; two events are a write before and one after a revocation.
* Two records and two heads let a log shrink below a head and grow back otherwise; two faults
  let the witness log be shortened as well.
* Every file of two lines over six kinds of line, and one more line put anywhere, has each
  combination of an unclosed fence, a missing sentinel and a foreign fact around the block. The facts
  exported are a text, one that quotes a sentinel, a JSON value, and one whose source has a blank
  followed by a word that reads as a rank.
* Three commands are an init, a second command on its result and a doctor.


The runs stop where their bound is reached, so deadlock is not checked; what must happen
is stated as `EveryOperationEnds`, `NotifiesInTheEnd`, `CommandsEnd`, `ServeCatchesUp` and
`DissentIsPossible`.

## Fairness

`ConcurrentWriters` assumes `WF_pc(Moves(p))` for each process: the scheduler does not
leave forever a process that is not waiting for the lease. Faults count as moves, so a
process may crash rather than step, and nothing is assumed about which waiter gets a
lease next: each holder has one operation and a bounded number of attempts, so
even an unfair lock is eventually free for all. The operating system's scheduler and
its release of a dead process's locks justify both. 

`McpDaemon` assumes weak fairness of a notifier's copy and settling steps, since it is woken at
every poll interval, and strong fairness of its read of the store: an unreadable store is
another writer's lock, which comes and goes. Clients and operators owe nothing.
`NativeMemory` assumes that a command that can step does, and that a lock freed again and
again is granted (strong fairness of `EnterOp`, which an OS lock queue justifies); the scanner,
the agent and the user owe nothing, and `CommandsEnd` rests on the timeout. `Witness` assumes
that a running `serve` and a running reader take their next step; failing appends and giving up
are among these. The other modules have no fairness; their properties are safety.

## Proofs

Eight modules hold proofs; the theorems listed in `PROJECT.json` are the results. Every
invariant or action property that a theorem states is also checked by a run, unless the text says
otherwise; the theorem removes the bounds.

**EventStoreProofs** (any sets of facts, sources, values, ids and candidate events).
`IndInv` holds of both views, the committed one and the one inside the transaction, because
a commit makes the second the first: types; the log's closing events against the projection
(`ClosedByRank`); edges against projection; unique ids; for each fact, that its state comes
from an assertion at that level in the log; and that replacements named by edges are
facts of the log. The last two are what `CommittedNoLaundering` needs: a supersession is
judged against the *state* of the replacing fact, and the property speaks of its
*assertion*, so the invariant carries the level from one to the other. `ClosedUnmoved`
relates the two views: what is closed in the committed one is closed in the same way in the
transaction, which gives `TerminalIsForever` over commits of many events. Theorems:
`TypeCorrect`, `NeverLaunders`, `ClosesByRank`, `EdgesAgree`, `IdsUsedOnce`,
`ClosedForever`. The last three are stated by the theorems alone; no run repeats them.

The reads of the log (`EventReplay`) rest on `ReplayInv`, which holds of both views and is kept by
every append. The strict fold of each fact's stream is its stored state, and a replay
that keeps only some of the stream, those a policy admits or those recorded by an
instant, is `Thinned`: if the assertion is kept it is a `Weaker` state, the same belief, closed
only as the full one is, and contested and supported no more; if the assertion is not kept, nothing
is left or the replay fails. `ReplayIsTheProjection` (`ReplayAgrees`), `DistrustWeakens`
(`DistrustOnlyWeakens`) and `AsOfBearsOut` (`AsOfNeverInvents`) follow. A fold is a recursive
function, so its existence is shown first, by the least length that has none; then
`EventsAt` and `FoldEvents` of a longer log are related to those of the log before (`Keeps`,
`Folds`), and the induction over the log is the induction over the steps.
The same module holds `LossesAreReported` (`LossIsReported` of `FileLog`), for any number of torn
writes. `FileInv` says that every line holds at least one piece and that while
every line parses, each accepted event is the first of some line. A write after a torn one
lengthens the unended line, so that line is corrupt from then on, and no later write repairs it
(`ExtendedIs`); a write that meets an ended text adds whole lines and touches none.

**OperationProofs** is about the belief operations, run at once and run one after another.

`ConcurrentWriters` (any number of processes, jobs and attempts).
`AnswersAreTrue` rests on `Accounts`, which says for every label what the log holds of a
process and what its reply can be there, the leavings of a failed append included; it needs batches to be finite (`Finite`) since the
property counts entries. `DecisionsAreFresh` assumes that every process takes the lease and
rests on `Leases`: a process inside its cycle is the holder. `NumbersAreOwned` assumes a
database and rests on `Claims`: what a process has signed lies below the allocator, apart
from the log and from the other claims. `WritersAreLinearizable` is the refinement: if every
process takes the lease, the writers implement `BeliefBase`. Its invariant `Leased` adds to
`Leases` that what a process in its cycle decides from is the current projection (`Current`), and
that the batch or the lost challenge it is about to append is the one its operation decides there
(`Decisions`); then `Commit` and `AppendRecord` are the abstract `Serve` and every other step
stutters. It assumes that event numbers do not run out (`Facts = Nat`), as the abstract step
picks any number. `NoRaceDuplicates` assumes a database and nothing of the lease: a stale batch
may be appended, and the argument is that the recheck at the commit looks at every shape the batch
touches (`TouchedShapesSuffice`), so a shape it does not look at is as unique as it was.

`WriteOps` (any workloads, requests, sources, policies and bounds). The inductive invariant is
`OpsInv`: types (`OperationsAreTyped`) and `StoreOK`. That says that a fact is named by an event
of the log, was last updated no later than now and is backed by finitely many
sources; and that a fact that names an heir is superseded, by a later fact that outranks
it or, under the entrenchment gate, is of its rank and at least as entrenched. The second part is
what `GateAndAuditAgree` needs: the gate compares two facts when one replaces the other, the
lineage audit compares them whenever it is run, and in between only the heir can gain backing, as
the replaced fact is closed. `DisputesAreShown` and `FreshBeliefsAreShown` relate what a
context pack shows to the projection, for any that loads: what explain shows of a dispute is what the
pack takes from its shape. `DissentIsNeverShutOut` works out
that the batch of a contradiction is admitted whatever the rank of the dissenter.
`WritesLeaveAStoreThatLoads` goes through the operations: what each may
add to a shape that admits one belief (`AssertionIsUnique`, `ClosingIsUnique`, `ContestIsUnique`,
`BookkeepingIsUnique`), a shape it does not touch keeping what it has. `PoisonIsAlwaysReported`
assumes finitely many facts: the search for tainted facts takes as many rounds as there are facts, and
every round that is not the last finds one more (`AncestorsAreClosed`), so that it has found
all there are.

**AuthorityRegistryProofs** (any names, levels, subjects, editors, commands and hand
edits). The lemmas are about least closed sets:
`ChainOfIssuer` unfolds a chain, `ChainOfEqual` says registries that agree on a chain have
the same chain, `GroundsOutBelow` and `NoReturn` relate ends and cycles; each is proved by
exhibiting one closed set. `ChainsGroundOut` uses `AllSound`: the file *and every copy an
editor holds* ground out, which is why an overlapping save is harmless. The
property speaks of the file until it is first edited by hand, and the theorem assumes that
no signing operator has the name of a source: `agent add` records its grant without the
validation of `authority add`.
`NoSelfEscalation`, `AddingMatchesTheGate`, `RevocationTightens` and `SeedingIsSafe`
need only that the file is a registry.

**McpDaemonProofs** (any connections, streams, events, challenges, rotations and workloads).
`PossessionIsProven` needs, beside the property, that the challenge a session waits on was issued
to it and not yet answered, and that every proof on record names an issued challenge (`OwnInv`);
only then is the first answer the client's own. `RevocationReaches` rests on
`LateWriteIsSpent`: after a revocation a connection has either used the write whose check came
before, or still has it, never both. `ClientsAreToldTheTruth` counts what a request has left in
the log since it began: nothing up to its append, one event after it (`Counts`), so that a failed
commit leaves one at most and a re-read lists it. `NoPollPassesAnEvent` is the
safety half of `NotifiesInTheEnd`, stated by the theorem alone: at each of a poll's three steps, an
event owed to a subscriber lies ahead of the baseline, or in what this poll will report
(`Accounts`).

**WitnessProofs** (any records, lengths, heads, keys and faults). `PublishedLossIsCaught` rests on
`Watching`: a reader that will accept has seen no loss so far, and a loss present when the
log was read still shows against every longer sequence of published heads. `HonestLogsVerify` rests on
`Orderly`: while logs are honest and signers do not overlap there is one key, at most one
signer, whose copy covers the heads, and local and published heads fit the log. A head
covers a prefix, so the lemmas are about prefixes of logs that grow.

**IdentityBundleProofs** (any sources, keys, commands, failures, kills and writes). The heart is
`Balanced`, the ledger of a command under way: for each file of its source, the list of undo
entries (or, after a failure, what is left of it) says exactly how to get from the file on disk
back to the file before the command, and what it will restore is among the backups.
`KeyNeverLost` is not inductive without it: in the middle of a rotation the key on disk and the
grant on disk do not belong together. `Typed` and `KeysKnown` (whatever grant a file, the log or a command holds names a key that was
generated) say that a fresh key has no grant yet; a key that is issued again has several, and
`GreenKeepsItsPromise` names that case: a status looks for the issuance of the grant it read, the
attestation for the last one of its key. `BundleIsTyped` is the module's type invariant; it is stated by the theorem alone.
`ExclusionsAreExplained` needs the history of the grant log line by line (`Explained`). Between
commands the registry of active grants names no grant whose last word in the history is a
revocation, unless a repair revived it, and without a registry there is no such grant (`Sound`); during a command (`Careful`) the invariant says
what the command found, what it has yet to write, and that undoing it brings the registry back to a
sound one. Beside that stand the writers (a write no command overlapped still has what the gate
saw) and the events (a signed event lies within the grant that was on disk, and each earlier revocation
of that grant was followed by an issuance or undone by a repair). `RollbackIsComplete` and
`ExclusionsAreExplained` assume that the value of `Idle` is not a command.

**NativeMemoryProofs** (any plans, captures, lines, edits and crashes, whatever the
operations decide). `Tracked` says for each step of a running capture where the lines
it has read are: in its own copy, attempted, or about to be written back. Without it a rewritten
queue says nothing about the lines that are missing from it. The flagged facts and the journal are
carried by `Marked` and `JournalTellsTruth`. `ExportsComeBack` rests on what the two parsers make of
equal lines: each is a fold, which exists and agrees on equal stretches by a least counterexample, so
a block put where no fence is open, between lines without sentinels, is the block that is found
again (`BlockFound`), and every splice puts it at such a place (`SpliceKeeps`). Where fences are
plain the fence of the one parser is open exactly when the other's is (`FencesTogether`), which
carries the import to the block. Each fact of a pack has a line in it (`RenderedHasFacts`), and the receipt of a
source without a blank is read back as it was written (`ReceiptIsRead`). The invariant it adds (`FileInv`) says that the file, and what an
export holds between its steps, is a sequence of lines, and that finitely many facts are recorded,
without which a pack has no list of lines.

**SetupProofs** (any agents, urls, levels, arguments of every command, faults and edits). A plan
of a command is described by ranks: steps stand in order, and what is left is closed, in that a
step that relies on a later one has it ahead (`Plan`). That is in `Typed`, and the three
results add a layer each. `GuardStaysInstalled`: the copy of a config file that an install is about
to write back has the guard too (`Guarded`), since hooks and servers share a file for some agents.
`InitIsAllOrNothing`: files the rollback would keep are complete by themselves, and the files
written so far by a command are recorded for removal until its last one is there (`Sound`); it
assumes that `Idle` is not a command. `GreenReportHolds`: what a doctor has found so far is a
conjunction that grows with the steps done, for the agent in hand and for those before it
(`Checked` in `Honest`), and a checking install compares the file with the copy it read.

The assumptions on the constants are the named `ASSUME`s of the modules; TLC evaluates them
in every run.

## Only model-checked

Liveness (`EveryOperationEnds`, `NotifiesInTheEnd`, `CommandsEnd`, `ServeCatchesUp`) is outside
the prover. `OrphansAreRefused` of `FileLog`, which holds of shapes that admit one belief and of
beliefs that do not expire, has no theorem. `Linearizable` beside an unleased process, and with bounded event numbers,
is checked only on the instances of the runs.

## Not modelled

`PROJECT.json` lists every component with its status. Left out: presentation (status output,
the HTML surface, Parquet columns), the text of messages and of JSON frames, the argument
parser, row codecs and schema checks of the adapters, and the evaluation corpora, which are
tests of the parts modelled here. Memory files leave out redacted values, which no operation makes,
and sources whose name holds a line break, a sentinel or the head of a receipt comment. None of them keeps state another part reads. Cryptography is
not modelled: a signature is the pair of key and content, a digest is what it commits to.

Abstractions to keep in mind: values, subjects and predicates are model values; an operation
in `ConcurrentWriters` takes no time, so no belief expires within one; `WriteOps` sees the
authority registry as a table of granted levels, and `AuthorityRegistry` sees a write as
source, level and subject.

## Plan

Done: event kernel, store, replay and as-of reads, predicate registry, operations and read
surfaces, concurrent writers with their abstract specification, the file log, the authority
registry, signed identity, daemon and subscriptions, witness, content check, capture and
native memory, agent configuration, set-up and doctor; proofs of the store and its replays, the
operations (with the refinement of `BeliefBase`), the authority registry, the daemon, the
witness, the identity bundle, native memory and set-up. Left: the file log's `OrphansAreRefused`,
from an invariant that relates the events of a torn batch to the projection of what can be read.
