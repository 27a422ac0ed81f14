--------------------------- MODULE IdentityBundle ---------------------------
\* A signed-identity bundle on disk (crates/dent8-cli/src/identity.rs and
\* identity/bundle.rs, identity/status.rs): the commands that create, add to,
\* rotate, revoke, repair and back-fill it, the write gate that reads it, and
\* the attestation that reads it again.
\*
\* A command is a ceremony of file operations that can fail at any of them
\* (the rollback guard then undoes what was recorded) or be killed between any
\* two of them (nothing is undone).  Writers run beside it and take no lock
\* the commands take.
EXTENDS GrantLog, FiniteSets

CONSTANTS
  Source,        \* the sources of the bundle
  Subject,       \* the subjects written about
  Shape,         \* what grants may say: [max, scope, expires]
  Authority,     \* the authority levels writes claim
  Absent,        \* the value of a file that does not exist
  AllSources,    \* the "source" of the files the bundle shares
  Idle,          \* no command is running, no write is in flight
  MaxKeys,       \* bound: key pairs ever generated
  MaxNow,        \* bound: clock ticks
  MaxCommands,   \* bound: commands run
  MaxFaults,     \* bound: failed file operations and kills
  MaxWrites      \* bound: writes begun

ASSUME BundleAssumption ==
  /\ MaxKeys \in Nat /\ MaxNow \in Nat /\ MaxCommands \in Nat
  /\ MaxFaults \in Nat /\ MaxWrites \in Nat
  /\ \A sh \in Shape : DOMAIN sh = {"max", "scope", "expires"} /\ sh.max \in Nat \ {Absent}

VARIABLES
  disk,      \* every file of the bundle, and the issuer key outside it
  bak,       \* the backup files a rotation has moved aside
  log,       \* grant-log.jsonl
  op,        \* the command under way
  writer,    \* per source, the write in flight
  events,    \* the persisted events
  writes,    \* writes begun so far
  now,       \* the clock of this machine
  nextKey,   \* the next fresh key pair
  commands,  \* commands begun so far
  faults,    \* failures and kills so far
  stranded,  \* history: a command ended half-way: killed, failed without a guard,
             \* or failed after the history recorded it
  revived,   \* history: revoked grants that were made current again
  usable     \* history: sources that held a key matching their grant

vars == <<disk, bak, log, op, writer, events, writes, now, nextKey, commands, faults,
          stranded, revived, usable>>

file == <<disk, bak, log>>
history == <<stranded, revived, usable>>

AGENT_TIER == 1

KeyFile(s)   == <<"key", s>>
GrantFile(s) == <<"grant", s>>
EnvFile(s)   == <<"env", s>>
TrustFile    == <<"trust", AllSources>>
ActiveFile   == <<"active", AllSources>>
IssuerFile   == <<"issuer", AllSources>>

File == {TrustFile, ActiveFile, IssuerFile}
          \cup {KeyFile(s) : s \in Source} \cup {GrantFile(s) : s \in Source}
          \cup {EnvFile(s) : s \in Source}

Exists(f) == disk[f] # Absent

\* Issuer key pairs are numbered apart from the source key pairs.
IssuerKey == {101, 102}

Grant == [source : Source, key : 1..MaxKeys, max : {sh.max : sh \in Shape},
          scope : {sh.scope : sh \in Shape}, expires : {sh.expires : sh \in Shape},
          by : IssuerKey]

ASSUME FilesAssumption == Absent \notin Grant \cup 1..MaxKeys

\* A registry of current grants is not the absent file.
ASSUME RegistryAssumption == Absent \notin [Source -> Grant \cup {Absent}]

MakeGrant(s, k, sh, by) ==
  [source |-> s, key |-> k, max |-> sh.max, scope |-> sh.scope,
   expires |-> sh.expires, by |-> by]

\* The registry of current grants; a file that does not exist reads as empty.
NoActive == [s \in Source |-> Absent]

ActiveOrEmpty == IF Exists(ActiveFile) THEN disk[ActiveFile] ELSE NoActive

-----------------------------------------------------------------------------
\* What the checks of a grant say.

VerifyGrantSignature(g) == Exists(TrustFile) /\ g.by = disk[TrustFile]

VerifyGrant(g, at) == VerifyGrantSignature(g) /\ ~Expired(g, at)

VerifyGrantMatchesWrite(g, s, authority, subject, at) ==
  /\ g.source = s /\ authority =< g.max /\ ~Expired(g, at) /\ InScope(g, subject)

VerifyActiveGrant(g, active) == active[g.source] = g

\* A writer either loads the env file of the bundle ("env": the registry of
\* current grants is named and signed identity is required), or sets only the
\* grant and the key ("paths": the registry is used where it exists), or
\* configures nothing ("none").
Modes == {"env", "paths", "none"}

Configured(mode) == mode # "none" \/ Exists(TrustFile)

\* Mutant: a grant is good enough when its signature is.
SignatureIsEnough(g, mode) == TRUE

VerifyActiveGrantIfConfigured(g, mode) ==
  IF mode = "env" THEN Exists(ActiveFile) /\ VerifyActiveGrant(g, disk[ActiveFile])
  ELSE Exists(ActiveFile) => VerifyActiveGrant(g, disk[ActiveFile])

KeyMatchesGrant(s) ==
  /\ Exists(KeyFile(s)) /\ Exists(GrantFile(s))
  /\ disk[KeyFile(s)] = disk[GrantFile(s)].key

\* enforce_write: without a trust registry only the agent tier may write, and
\* unsigned; with one, grant, registry and key must all agree with the write.
EnforceWrite(s, mode, authority, subject) ==
  IF ~Exists(TrustFile) /\ ~Configured(mode)
  THEN authority =< AGENT_TIER
  ELSE /\ Exists(TrustFile) /\ mode # "none" /\ Exists(GrantFile(s))
       /\ VerifyGrant(disk[GrantFile(s)], now)
       /\ VerifyGrantMatchesWrite(disk[GrantFile(s)], s, authority, subject, now)
       /\ VerifyActiveGrantIfConfigured(disk[GrantFile(s)], mode)
       /\ KeyMatchesGrant(s)

-----------------------------------------------------------------------------
\* Commands.  A ceremony is what is left to do, what it signs, the registry as
\* it was read when the command began, and how to undo what has been done.

Ceremony(cmd, s, todo, grant, reg, guarded) ==
  [cmd |-> cmd, src |-> s, todo |-> todo, grant |-> grant, reg |-> reg,
   undo |-> <<>>, guarded |-> guarded, before |-> disk, log |-> log, failed |-> FALSE]

\* A command that begins disturbs every write in flight.
Begin(ceremony) ==
  /\ op = Idle /\ commands < MaxCommands
  /\ op' = ceremony /\ commands' = commands + 1
  /\ writer' = [s \in Source |-> IF writer[s] = Idle THEN Idle ELSE [writer[s] EXCEPT !.quiet = FALSE]]
  /\ usable' = IF /\ ceremony.src \in Source /\ ceremony.cmd # "grant_issue"
                  /\ KeyMatchesGrant(ceremony.src)
               THEN usable \cup {ceremony.src} ELSE usable \ {ceremony.src}
  /\ UNCHANGED <<file, events, writes, now, faults, stranded, revived>>

IssuerMatchesTrust == Exists(IssuerFile) /\ disk[IssuerFile] = disk[TrustFile]

NewKey == nextKey =< MaxKeys /\ nextKey' = nextKey + 1

\* The issuer key is reused where it exists and generated where it does not.
LoadOrCreateIssuerKey == IF Exists(IssuerFile) THEN disk[IssuerFile] ELSE 101

\* preflight_bootstrap_plan: nothing the bootstrap writes may exist.
IdentityOutputsAbsent(s) ==
  \A f \in {KeyFile(s), TrustFile, ActiveFile, GrantFile(s), EnvFile(s)} : ~Exists(f)

\* bootstrap_bundle: a new bundle, its issuer key outside it.
Bootstrap(s, sh) ==
  LET g == MakeGrant(s, nextKey, sh, LoadOrCreateIssuerKey)
  IN  /\ IdentityOutputsAbsent(s)
      /\ NewKey
      /\ Begin(Ceremony("bootstrap", s,
           (IF Exists(IssuerFile) THEN <<>> ELSE <<"issuer">>)
             \o <<"key", "trust", "grant", "active", "issued", "env">>, g, NoActive, TRUE))

\* add_source_to_bundle for a source without any material.
AgentAdd(s, sh) ==
  /\ \A f \in {KeyFile(s), GrantFile(s), EnvFile(s)} : ~Exists(f)
  /\ Exists(TrustFile) /\ IssuerMatchesTrust
  /\ ActiveOrEmpty[s] = Absent
  /\ NewKey
  /\ Begin(Ceremony("agent_add", s, <<"key", "grant", "env", "active", "issued">>,
       MakeGrant(s, nextKey, sh, disk[TrustFile]), ActiveOrEmpty, TRUE))

\* repair_env_bundle: the grant on disk becomes the current one if there is
\* none.  add_source_to_bundle takes the same path when both files exist, so
\* the command is either `identity repair-env` or `agent add`.
RepairEnv(s) ==
  LET g == disk[GrantFile(s)]
  IN  /\ Exists(TrustFile) /\ Exists(GrantFile(s)) /\ VerifyGrant(g, now)
      /\ Exists(KeyFile(s)) => KeyMatchesGrant(s)
      /\ ActiveOrEmpty[s] \in {Absent, g}
      /\ Begin(Ceremony("repair", s,
           (IF ActiveOrEmpty[s] = g THEN <<>> ELSE <<"active">>)
             \o (IF Exists(KeyFile(s)) THEN <<"env">> ELSE <<>>), g, ActiveOrEmpty, FALSE))
      /\ UNCHANGED nextKey

\* Mutant: the old private key is removed before the new one is written.
RotateDropsKeyFirst(s, sh) ==
  /\ Exists(TrustFile) /\ Exists(GrantFile(s)) /\ VerifyGrantSignature(disk[GrantFile(s)])
  /\ IssuerMatchesTrust
  /\ NewKey
  /\ Begin(Ceremony("rotate", s,
       <<"movekey", "movegrant", "moveactive", "moveenv", "dropkey",
         "key", "grant", "active", "env", "rotated">>,
       MakeGrant(s, nextKey, sh, disk[TrustFile]), ActiveOrEmpty, TRUE))

\* rotate_source_bundle: the old files are moved aside, the new ones written,
\* the history records both, and the old private key is removed last.
RotateSource(s, sh) ==
  LET old == disk[GrantFile(s)]
  IN  /\ Exists(TrustFile) /\ Exists(GrantFile(s)) /\ VerifyGrantSignature(old)
      /\ IssuerMatchesTrust
      /\ ActiveOrEmpty[s] # Absent => VerifyActiveGrant(old, ActiveOrEmpty)
      /\ NewKey
      /\ Begin(Ceremony("rotate", s,
           <<"movekey", "movegrant", "moveactive", "moveenv",
             "key", "grant", "active", "env", "rotated", "dropkey">>,
           MakeGrant(s, nextKey, sh, old.by), ActiveOrEmpty, TRUE))

\* revoke_bundle: the history first, then the registry; the material stays.
Revoke(s) ==
  /\ Exists(TrustFile) /\ Exists(GrantFile(s)) /\ VerifyGrantSignature(disk[GrantFile(s)])
  /\ IssuerMatchesTrust
  /\ Begin(Ceremony("revoke", s, <<"revoked", "deactivate">>, disk[GrantFile(s)],
                    NoActive, FALSE))
  /\ UNCHANGED nextKey

\* backfill_grant_log_inner: an issuance now for every grant that has none.
BackfillGrantLog ==
  LET held == {s \in Source : Exists(GrantFile(s))}
  IN  /\ Exists(TrustFile) /\ held # {} /\ Exists(IssuerFile)
      /\ \A s \in held : VerifyGrantSignature(disk[GrantFile(s)])
      /\ Begin(Ceremony("backfill", AllSources, <<"backfill">>, Absent, NoActive, FALSE))
      /\ UNCHANGED nextKey

\* grant_issue for whatever public key the file it is given holds, one that was
\* granted before included, into the grant file of the bundle or to a path
\* outside it; the issuance is recorded only when a log is configured.
GrantIssue(s, k, sh, logged, inBundle) ==
  /\ Exists(IssuerFile) /\ (logged \/ inBundle)
  /\ k =< nextKey /\ nextKey' = IF k = nextKey THEN nextKey + 1 ELSE nextKey
  /\ Begin(Ceremony("grant_issue", s,
       (IF logged THEN <<"issued">> ELSE <<>>) \o (IF inBundle THEN <<"grant">> ELSE <<>>),
       MakeGrant(s, k, sh, disk[IssuerFile]), NoActive, FALSE))

\* keygen_outcome: a key that exists is never overwritten.
AgentKeygen(s) ==
  /\ ~Exists(KeyFile(s)) /\ NewKey
  /\ Begin(Ceremony("keygen", s, <<"key">>,
       [key |-> nextKey], NoActive, FALSE))

\* issuer_keygen, under the same rule, for the key outside the bundle.
IssuerKeygen ==
  /\ ~Exists(IssuerFile)
  /\ Begin(Ceremony("keygen", AllSources, <<"issuer">>, [by |-> 102], NoActive, FALSE))
  /\ UNCHANGED nextKey

\* trust_add: the issuer's name now stands for another public key.
TrustAdd(k) ==
  /\ disk[TrustFile] # k
  /\ Begin(Ceremony("trust_add", AllSources, <<"trust">>, [by |-> k], NoActive, FALSE))
  /\ UNCHANGED nextKey

-----------------------------------------------------------------------------
\* The file operations of a ceremony.

KindFile(step) ==
  CASE step \in {"key", "movekey"} -> KeyFile(op.src)
    [] step \in {"grant", "movegrant"} -> GrantFile(op.src)
    [] step \in {"env", "moveenv"} -> EnvFile(op.src)
    [] step \in {"active", "moveactive"} -> ActiveFile
    [] step = "trust" -> TrustFile
    [] step = "issuer" -> IssuerFile

Contents(step) ==
  CASE step = "key" -> op.grant.key
    [] step = "grant" -> op.grant
    [] step = "env" -> TRUE
    [] step = "active" -> [op.reg EXCEPT ![op.src] = op.grant]
    [] step \in {"trust", "issuer"} -> op.grant.by

Done(undo) ==
  op' = IF Tail(op.todo) = <<>> THEN Idle
        ELSE [op EXCEPT !.todo = Tail(op.todo), !.undo = undo \o op.undo]

Step == op # Idle /\ op.todo # <<>> /\ ~op.failed

\* A file is written whole (write_atomic, or create_new for a key).  The guard
\* of `agent add` does not record a registry that existed before it.
WriteFile ==
  /\ Step
  /\ LET step == Head(op.todo) f == KindFile(step)
         recorded == ~(op.cmd = "agent_add" /\ step = "active" /\ Exists(ActiveFile))
     IN /\ step \in {"key", "grant", "env", "active", "trust", "issuer"}
        /\ step = "key" => ~Exists(f)
        /\ disk' = [disk EXCEPT ![f] = Contents(step)]
        /\ Done(IF recorded THEN <<<<"remove", f, Absent>>>> ELSE <<>>)
        /\ revived' = IF step = "active" /\ op.cmd = "repair"
                         /\ ~IssuedAndNotRevoked(log, op.grant)
                         /\ \E i \in 1..Len(log) : log[i].grant = op.grant
                      THEN revived \cup {op.grant} ELSE revived
  /\ UNCHANGED <<bak, log, writer, events, writes, now, nextKey, commands, faults, stranded, usable>>

\* Mutant: the guard forgets what it moved aside.
MoveWithoutRecord ==
  /\ Step
  /\ LET f == KindFile(Head(op.todo))
     IN /\ Head(op.todo) \in {"movekey", "movegrant", "moveactive", "moveenv"}
        /\ Exists(f) \/ f = ActiveFile
        /\ disk' = [disk EXCEPT ![f] = Absent]
        /\ bak' = IF Exists(f) THEN bak \cup {<<f, disk[f]>>} ELSE bak
        /\ Done(<<>>)
  /\ UNCHANGED <<log, writer, events, writes, now, nextKey, commands, faults, history>>

\* RotationRollback::backup_required and backup_optional.
MoveAside ==
  /\ Step
  /\ LET step == Head(op.todo) f == KindFile(step)
     IN /\ step \in {"movekey", "movegrant", "moveactive", "moveenv"}
        /\ Exists(f) \/ step = "moveactive"
        /\ disk' = [disk EXCEPT ![f] = Absent]
        /\ bak' = IF Exists(f) THEN bak \cup {<<f, disk[f]>>} ELSE bak
        /\ Done(IF Exists(f) THEN <<<<"restore", f, disk[f]>>>> ELSE <<>>)
  /\ UNCHANGED <<log, writer, events, writes, now, nextKey, commands, faults, history>>

\* append_grant_records: refuses a log whose chain is broken.  Only bootstrap
\* records a log it created.
AppendLog ==
  /\ Step /\ ChainOK(log)
  /\ LET step == Head(op.todo)
     IN /\ step \in {"issued", "revoked", "rotated"}
        /\ log' = CASE step = "rotated" -> AppendPair(log, op.before[GrantFile(op.src)],
                                                      op.grant, now)
                    [] OTHER -> AppendOne(log, step, op.grant, now)
        /\ Done(IF op.cmd = "bootstrap" /\ log = <<>>
                THEN <<<<"removelog", ActiveFile, Absent>>>> ELSE <<>>)
  /\ UNCHANGED <<disk, bak, writer, events, writes, now, nextKey, commands, faults, history>>

\* One grant of the backfill's loop, in the directory's order.
BackfillStep ==
  /\ Step /\ Head(op.todo) = "backfill"
  /\ LET missing == {s \in Source : /\ Exists(GrantFile(s))
                                    /\ ~HasIssuedRecord(log, disk[GrantFile(s)])}
     IN IF missing = {} THEN op' = Idle /\ UNCHANGED log
        ELSE /\ disk[IssuerFile] = disk[TrustFile] /\ UNCHANGED op
             /\ \E s \in missing : log' = AppendOne(log, "issued", disk[GrantFile(s)], now)
  /\ UNCHANGED <<disk, bak, writer, events, writes, now, nextKey, commands, faults, history>>

\* The second half of revoke reads the registry again and saves it.
Deactivate ==
  /\ Step /\ Head(op.todo) = "deactivate"
  /\ disk' = [disk EXCEPT ![ActiveFile] = [ActiveOrEmpty EXCEPT ![op.src] = Absent]]
  /\ Done(<<>>)
  /\ UNCHANGED <<bak, log, writer, events, writes, now, nextKey, commands, faults, history>>

\* remove_rotated_private_key_backup.
DropOldKey ==
  /\ Step /\ Head(op.todo) = "dropkey"
  /\ bak' = bak \ {<<KeyFile(op.src), op.before[KeyFile(op.src)]>>}
  /\ Done(<<>>)
  /\ UNCHANGED <<disk, log, writer, events, writes, now, nextKey, commands, faults, history>>

\* A repair that finds everything in place ends at once.
NothingToDo ==
  /\ op # Idle /\ op.todo = <<>>
  /\ op' = Idle
  /\ UNCHANGED <<file, writer, events, writes, now, nextKey, commands, faults, history>>

\* A file operation of the ceremony fails: a required file is not there, a key
\* exists already, the chain is broken, or the disk says no.  A guarded
\* command starts to undo, the others just stop.
Fails ==
  /\ Step
  /\ LET step == Head(op.todo)
         forced == \/ step \in {"movekey", "movegrant", "moveenv"} /\ ~Exists(KindFile(step))
                   \/ step = "key" /\ Exists(KindFile(step))
                   \/ step \in {"issued", "revoked", "rotated"} /\ ~ChainOK(log)
                   \/ step = "backfill" /\ disk[IssuerFile] # disk[TrustFile]
     IN IF forced THEN UNCHANGED faults
        ELSE faults < MaxFaults /\ faults' = faults + 1
  /\ op' = IF op.guarded /\ op.undo # <<>>
           THEN [op EXCEPT !.todo = op.undo, !.failed = TRUE] ELSE Idle
  /\ stranded' = (stranded \/ ~op.guarded \/ log # op.log)
  /\ UNCHANGED <<file, writer, events, writes, now, nextKey, commands, revived, usable>>

\* RotationRollback::drop and BootstrapRollback::drop, one file at a time.
Rollback ==
  /\ op # Idle /\ op.failed
  /\ LET step == Head(op.todo) f == step[2]
     IN /\ disk' = CASE step[1] = "remove" -> [disk EXCEPT ![f] = Absent]
                     [] step[1] = "restore" -> [disk EXCEPT ![f] = step[3]]
                     [] step[1] = "removelog" -> disk
        /\ bak' = IF step[1] = "restore" THEN bak \ {<<f, step[3]>>} ELSE bak
        /\ log' = IF step[1] = "removelog" THEN <<>> ELSE log
  /\ op' = IF Tail(op.todo) = <<>> THEN Idle ELSE [op EXCEPT !.todo = Tail(op.todo)]
  /\ UNCHANGED <<writer, events, writes, now, nextKey, commands, faults, history>>

\* The process is killed between two file operations.
Killed ==
  /\ op # Idle /\ faults < MaxFaults
  /\ faults' = faults + 1 /\ op' = Idle /\ stranded' = TRUE
  /\ UNCHANGED <<file, writer, events, writes, now, nextKey, commands, revived, usable>>

-----------------------------------------------------------------------------
\* Writers: the gate, the time stamp after the store is loaded, and the
\* attestation at the append, which reads grant and key again.

\* No command is under way, and none has ended half-way.
Quiet == op = Idle /\ ~stranded

Gate(s, mode, authority, subject) ==
  /\ writer[s] = Idle /\ writes < MaxWrites /\ writes' = writes + 1
  /\ EnforceWrite(s, mode, authority, subject)
  /\ writer' = [writer EXCEPT ![s] =
       [mode |-> mode, authority |-> authority, subject |-> subject, at |-> -1, quiet |-> Quiet]]
  /\ UNCHANGED <<file, op, events, now, nextKey, commands, faults, history>>

Stamp(s) ==
  /\ writer[s] # Idle /\ writer[s].at = -1
  /\ writer' = [writer EXCEPT ![s].at = now]
  /\ UNCHANGED <<file, op, events, writes, now, nextKey, commands, faults, history>>

\* attest_events: unsigned where nothing is configured; otherwise signed with
\* the key on disk, which must be the key of the grant on disk.
Attest(s) ==
  /\ writer[s] # Idle /\ writer[s].at # -1
  /\ LET w == writer[s]
         event(k, g) == [source |-> s, key |-> k, grant |-> g, authority |-> w.authority,
                         subject |-> w.subject, at |-> w.at, quiet |-> w.quiet]
     IN events' = IF ~Configured(w.mode) THEN events \cup {event(Absent, Absent)}
                  ELSE IF w.mode # "none" /\ KeyMatchesGrant(s)
                  THEN events \cup {event(disk[KeyFile(s)], disk[GrantFile(s)])}
                  ELSE events
  /\ writer' = [writer EXCEPT ![s] = Idle]
  /\ UNCHANGED <<file, op, writes, now, nextKey, commands, faults, history>>

Tick ==
  /\ now < MaxNow /\ now' = now + 1
  /\ UNCHANGED <<file, op, writer, events, writes, nextKey, commands, faults, history>>

-----------------------------------------------------------------------------
Init ==
  /\ disk = [f \in File |-> Absent] /\ bak = {} /\ log = <<>> /\ op = Idle
  /\ writer = [s \in Source |-> Idle] /\ events = {} /\ writes = 0 /\ now = 0 /\ nextKey = 1
  /\ commands = 0 /\ faults = 0 /\ stranded = FALSE /\ revived = {} /\ usable = {}

Command ==
  \/ \E s \in Source, sh \in Shape : \/ Bootstrap(s, sh)
                                     \/ AgentAdd(s, sh)
                                     \/ RotateSource(s, sh)
                                     \/ \E k \in 1..MaxKeys, logged, inBundle \in BOOLEAN :
                                          GrantIssue(s, k, sh, logged, inBundle)
  \/ \E s \in Source : RepairEnv(s) \/ Revoke(s) \/ AgentKeygen(s)
  \/ BackfillGrantLog \/ IssuerKeygen
  \/ \E k \in IssuerKey : TrustAdd(k)

CeremonyStep ==
  \/ WriteFile \/ MoveAside \/ AppendLog \/ BackfillStep \/ Deactivate \/ DropOldKey
  \/ NothingToDo \/ Fails \/ Rollback \/ Killed

Write ==
  \E s \in Source : \/ \E mode \in Modes, authority \in Authority, subject \in Subject :
                         Gate(s, mode, authority, subject)
                    \/ Stamp(s)
                    \/ Attest(s)

Next == Command \/ CeremonyStep \/ Write \/ Tick

Spec == Init /\ [][Next]_vars

-----------------------------------------------------------------------------
\* Diagnostics.  The issuer key of this machine, where there is one, is the
\* trusted issuer's; an absent one is only a warning.
IssuerKeyStatus == Exists(IssuerFile) => IssuerMatchesTrust

\* The expiry line fails once the grant is past its date.
ExpirationLine(g) == ~Expired(g, now)

\* Where there is a history it covers the current grant.
GrantLogStatus(g) == log # <<>> => ChainOK(log) /\ IssuedAndNotRevoked(log, g)

\* Mutant: the status does not look at the registry of current grants.
StatusIgnoresRegistry(s) ==
  LET g == disk[GrantFile(s)]
  IN  /\ Exists(TrustFile) /\ Exists(GrantFile(s)) /\ VerifyGrant(g, now)
      /\ GrantLogStatus(g) /\ ExpirationLine(g) /\ KeyMatchesGrant(s) /\ IssuerKeyStatus

\* Every line of `dent8 identity status` is ok for this source.
IdentityStatusOK(s) ==
  LET g == disk[GrantFile(s)]
  IN  /\ Exists(TrustFile) /\ Exists(GrantFile(s)) /\ VerifyGrant(g, now)
      /\ Exists(ActiveFile) /\ VerifyActiveGrant(g, disk[ActiveFile])
      /\ GrantLogStatus(g) /\ ExpirationLine(g) /\ KeyMatchesGrant(s) /\ IssuerKeyStatus

\* The identity lines of `dent8 doctor`, run in a writer's own environment.
DoctorTrust == Exists(TrustFile)

DoctorGrant(s, mode) ==
  mode # "none" /\ Exists(GrantFile(s)) /\ VerifyGrant(disk[GrantFile(s)], now)

DoctorActiveGrant(s, mode) == VerifyActiveGrantIfConfigured(disk[GrantFile(s)], mode)

DoctorKey(s, mode) == mode # "none" /\ KeyMatchesGrant(s)

\* doctor_status: "unconfigured" is the warning that identity is optional.
DoctorStatus(s, mode) ==
  IF ~Configured(mode) THEN "unconfigured"
  ELSE IF /\ DoctorTrust /\ DoctorGrant(s, mode)
          /\ DoctorActiveGrant(s, mode) /\ DoctorKey(s, mode)
  THEN "ok" ELSE "failed"

\* resolve_write_meta: the authority a tool call that names none is given, which
\* is what the grant file says, unverified; Absent where there is no grant.
ResolveWriteMeta(s, mode) ==
  IF mode # "none" /\ Exists(GrantFile(s)) THEN disk[GrantFile(s)].max ELSE Absent

\* runtime_identity_status: only that defaults can be read; a revoked or expired
\* grant is still "ok" here.
RuntimeIdentityStatus(s, mode) ==
  IF ~Configured(mode) THEN "unconfigured"
  ELSE IF ResolveWriteMeta(s, mode) = Absent THEN "failed" ELSE "ok"

\* load_grant_history_for_verify: none, refused, or the records.
GrantHistory ==
  IF log = <<>> THEN "none"
  ELSE IF ~ChainOK(log) \/ ~Exists(TrustFile) \/ ~RecordsVerify(log, disk[TrustFile])
  THEN "error" ELSE "records"

\* An attestation is there and verifies: events are not altered once persisted.
VerifyEventAttestation(e) == e.key # Absent

\* check_attestations: what `dent8 verify` concludes about the event e, an error
\* being reported for the history as a whole.
CheckAttestation(e) ==
  CASE ~VerifyEventAttestation(e) \/ GrantHistory = "none" -> "unknown"
    [] VerifyEventAttestation(e) /\ GrantHistory = "error" -> "error"
    [] OTHER -> EntitlementAt(log, e.source, e.key, e.authority, e.subject, e.at)

-----------------------------------------------------------------------------
\* The shape of the state.
TypeOK ==
  /\ DOMAIN disk = File
  /\ \A s \in Source : /\ disk[KeyFile(s)] \in 1..MaxKeys \cup {Absent}
                       /\ disk[GrantFile(s)] \in Grant \cup {Absent}
                       /\ disk[EnvFile(s)] \in {TRUE, Absent}
  /\ disk[TrustFile] \in IssuerKey \cup {Absent}
  /\ disk[IssuerFile] \in IssuerKey \cup {Absent}
  /\ disk[ActiveFile] \in [Source -> Grant \cup {Absent}] \cup {Absent}
  /\ \A i \in 1..Len(log) : log[i].grant \in Grant /\ log[i].at \in 0..MaxNow
  /\ now \in 0..MaxNow /\ nextKey \in 1..MaxKeys + 1 /\ commands \in 0..MaxCommands
  /\ faults \in 0..MaxFaults /\ writes \in 0..MaxWrites /\ stranded \in BOOLEAN /\ revived \subseteq Grant
  /\ usable \subseteq Source

\* A rotation that fails or is killed at any file operation leaves a private
\* key whose grant is still there: live, or among the backups it moved aside
\* (rotate_source_bundle removes the old key only once everything else,
\* the history included, has landed).
KeyNeverLost ==
  \A s \in usable :
    \E k \in {disk[KeyFile(s)]} \cup {b[2] : b \in {b \in bak : b[1] = KeyFile(s)}},
       g \in {disk[GrantFile(s)]} \cup {b[2] : b \in {b \in bak : b[1] = GrantFile(s)}} :
      k # Absent /\ g # Absent /\ g.key = k

\* A ceremony that fails hands the source back its own key, grant and env file
\* exactly as they were, whatever the operation that failed (the rollback
\* guards remove what was created and then move the backups back).
RollbackRestores ==
  [][op # Idle /\ op.failed /\ op' = Idle /\ ~stranded'
       => \A f \in {KeyFile(op.src), GrantFile(op.src), EnvFile(op.src)} :
            disk'[f] = op.before[f]]_vars

\* Verification does not accuse a write the gate let through: an event whose
\* gate, stamp and attestation overlapped no identity command is unentitled
\* only if its grant was revoked and then made current again by a repair, was
\* revoked in the very millisecond of the write, or had expired at the stamp,
\* or if the history had by then issued another grant for its very key: the
\* gate reads the grant on disk, verification the last one issued for the key.
ExclusionIsExplained ==
  \A e \in events :
    e.quiet /\ CheckAttestation(e) = "unentitled"
      => \/ e.grant \in revived
         \/ \E i \in 1..Len(log) :
              log[i].action = "revoked" /\ log[i].grant = e.grant /\ log[i].at = e.at
         \/ Expired(e.grant, e.at)
         \/ Reissued(log, e.grant, e.at)

\* A green report is a promise: after `identity status` the source can write at
\* its ceiling right now with the env file loaded, and verification of that
\* write with the history as it stands would not exclude it, unless the history
\* has issued another grant for the same key since, which no line of the status
\* looks for; and the identity lines of `doctor` are green in an environment
\* exactly when the gate would let that environment write at the authority its
\* tools default to; an MCP runtime_status that fails on identity is a gate
\* that refuses everything.
GreenStatusIsTrue ==
  /\ \A s \in Source : IdentityStatusOK(s) =>
    LET g == disk[GrantFile(s)]
    IN \A subject \in Subject : InScope(g, subject) =>
         /\ EnforceWrite(s, "env", g.max, subject)
         /\ \/ CheckAttestation([source |-> s, key |-> g.key, authority |-> g.max,
                                  subject |-> subject, at |-> now]) # "unentitled"
            \/ Reissued(log, g, now)
  /\ \A s \in Source, mode \in Modes :
       LET g == disk[GrantFile(s)]
           doctor == DoctorStatus(s, mode)
       IN /\ Exists(GrantFile(s)) /\ doctor # "unconfigured" =>
               \A subject \in Subject : InScope(g, subject) =>
                 (EnforceWrite(s, mode, g.max, subject) <=> doctor = "ok")
          /\ doctor = "ok" => ResolveWriteMeta(s, mode) = g.max
          /\ RuntimeIdentityStatus(s, mode) = "failed" =>
               \A authority \in Authority, subject \in Subject :
                 ~EnforceWrite(s, mode, authority, subject)

=============================================================================
