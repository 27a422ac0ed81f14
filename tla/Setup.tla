------------------------------- MODULE Setup -------------------------------
\* Setting a project up for agents and checking the result: `dent8 init`,
\* `agent add`, `mcp install` (crates/dent8-cli/src/setup.rs, mcp_config.rs,
\* hook_config.rs) and `dent8 doctor` with its repair and its write check
\* (doctor.rs).
\*
\* A command is a list of file steps.  Each may fail, the process may be killed
\* between any two of them, and the user edits the agents' config files in
\* between: no lock guards them.  The identity files are written as in
\* IdentityBundle; a rollback guard removes them when that part fails.
EXTENDS AgentConfig, FiniteSets

CONSTANTS
  Agent,          \* the agents of the project; "local" is a project without one
  Level,          \* authority levels, naturals
  InitArgs,       \* what init is run with: [a, url, level, force, guard, mcp, ident]
  AddArgs,        \* what agent add is run with: [a, level], level Absent if not given
  InstallArgs,    \* what mcp install is run with: [a, local, proxy, mode]
  DoctorArgs,     \* what doctor is run with: [agents, write, repair]
  Idle,           \* no command is running
  MaxCommands,    \* bound: commands run
  MaxFaults,      \* bound: failed steps, kills and servers that hang
  MaxEdits        \* bound: changes by the user, the daemon and other commands

ASSUME SetupAssumption ==
  /\ Level \subseteq Nat /\ MaxCommands \in Nat /\ MaxFaults \in Nat /\ MaxEdits \in Nat
  /\ Agent \subseteq AgentName /\ "elsewhere" \in Url
  /\ Absent \notin Nat /\ Absent \notin BOOLEAN /\ (\A S \in SUBSET Agent : Absent # S)
  /\ Absent \notin [Agent -> Nat \cup {Absent}]

\* Without an agent there is no server to install; all agents are not repaired
\* together.
ASSUME ArgsAssumption ==
  /\ InitArgs \subseteq [a : Agent, url : Url \cup {Absent}, level : Level, force : BOOLEAN,
                         guard : BOOLEAN, mcp : BOOLEAN, ident : BOOLEAN]
  /\ \A arg \in InitArgs : arg.a = "local" => ~arg.mcp
  /\ AddArgs \subseteq [a : Agent \ {"local"}, level : Level \cup {Absent}]
  /\ InstallArgs \subseteq [a : Agent \ {"local"}, local : BOOLEAN, proxy : BOOLEAN,
                            mode : {"write", "check"}]
  /\ DoctorArgs \subseteq [agents : Seq(Agent \ {"local"}), write : BOOLEAN, repair : BOOLEAN]
  /\ \A arg \in DoctorArgs : arg.agents # <<>> /\ (arg.repair => Len(arg.agents) = 1)

VARIABLES
  disk,      \* the .dent8 directory
  conf,      \* the config files of the agents
  target,    \* the local build is an executable file
  daemon,    \* the store the daemon serves, or Absent
  believed,  \* the sources whose write-check probe is believed
  op,        \* the command under way
  report,    \* what the last check said: [agents, depth, green, raced]
  failed,    \* the arguments of the init that just failed, or Absent
  guarded,   \* history: agents whose guard was reported installed, unedited since
  killed,    \* history: a command was killed
  commands, faults, edits

vars == <<disk, conf, target, daemon, believed, op, report, failed, guarded, killed,
          commands, faults, edits>>

world == <<disk, conf, target, daemon, believed>>
bounds == <<commands, faults, edits>>

KeyFile(s)   == <<"key", s>>
GrantFile(s) == <<"grant", s>>
IdEnvFile(s) == <<"idenv", s>>
EnvFile      == <<"env", "shared">>
TrustFile    == <<"trust", "shared">>
ActiveFile   == <<"active", "shared">>
RegistryFile == <<"registry", "shared">>
WrapperFile  == <<"wrapper", "shared">>

File == {EnvFile, TrustFile, ActiveFile, RegistryFile, WrapperFile}
          \cup {KeyFile(s) : s \in Agent} \cup {GrantFile(s) : s \in Agent}
          \cup {IdEnvFile(s) : s \in Agent}

Exists(f) == disk[f] # Absent

NoRegistry == [s \in Agent |-> Absent]

Registry == IF Exists(RegistryFile) THEN disk[RegistryFile] ELSE NoRegistry

Active == IF Exists(ActiveFile) THEN disk[ActiveFile] ELSE {}

Init ==
  /\ disk = [f \in File |-> Absent]
  /\ conf \in [ConfigFile -> {Absent}]
  /\ target = FALSE /\ daemon = Absent /\ believed = {}
  /\ op = Idle /\ report = Absent /\ failed = Absent
  /\ guarded = {} /\ killed = FALSE
  /\ commands = 0 /\ faults = 0 /\ edits = 0

-----------------------------------------------------------------------------
\* Commands.

Command(cmd, a, todo) ==
  [cmd |-> cmd, a |-> a, todo |-> todo, undo |-> {}, arg |-> Absent, reg |-> Registry,
   act |-> Active, copy |-> Absent, env |-> Absent, server |-> Absent, ok |-> TRUE, raced |-> FALSE,
   hung |-> FALSE, rest |-> <<>>, agents |-> {}]

Begin(command) ==
  /\ op = Idle /\ commands < MaxCommands
  /\ op' = command /\ commands' = commands + 1
  /\ report' = Absent /\ failed' = Absent
  /\ UNCHANGED <<world, guarded, killed, faults, edits>>

\* existing_bundle: a grant file is all that shows a bundle.
ExistingBundle(s) == Exists(GrantFile(s))

\* preflight_bootstrap_plan: nothing it writes may exist.
BootstrapAdmits(s) ==
  \A f \in {KeyFile(s), TrustFile, ActiveFile, GrantFile(s), IdEnvFile(s)} : ~Exists(f)

InitAdmits(s, ident, force) ==
  /\ force \/ ~Exists(EnvFile)
  /\ ident => ExistingBundle(s) \/ BootstrapAdmits(s)

\* init_identity: an identity that is there is reused, else one is bootstrapped.
InitIdentity(arg) ==
  IF arg.ident /\ ~ExistingBundle(arg.a)
  THEN <<"key", "trust", "grant", "active", "history", "idenv", "commit">> ELSE <<>>

\* init_store_output and init_file_log_path: a database URL, or a file log of
\* the agent's own.
InitStore(arg) ==
  [url |-> arg.url, log |-> IF arg.url = Absent THEN arg.a ELSE Absent]

\* The steps of init_project after its checks: the env is the last file of the
\* bundle, the agent's own config files come after it.
InitSteps(arg) ==
  <<"registry">>
    \o InitIdentity(arg)
    \o <<"env">>
    \o (IF arg.guard /\ HookFile(arg.a) # Absent THEN <<"hookread", "hookwrite">> ELSE <<>>)
    \o (IF arg.mcp THEN <<"wrapper", "mcpread", "mcpwrite">> ELSE <<>>)

InitProject(arg) ==
  /\ InitAdmits(arg.a, arg.ident, arg.force)
  /\ Begin([Command("init", arg.a, InitSteps(arg)) EXCEPT !.arg = arg])

\* load_agent_add_bundle: only a store that agents can share.
SharedStore == Exists(EnvFile) /\ disk[EnvFile].url # Absent

\* add_source_to_bundle reuses a complete identity (through repair_env_bundle),
\* refuses a partial one, and issues a new one from the bundle's issuer.
AddSteps(s) ==
  IF Exists(GrantFile(s)) /\ Exists(KeyFile(s))
  THEN (IF s \in Active THEN <<>> ELSE <<"active">>) \o <<"idenv">>
  ELSE <<"key", "grant", "idenv", "active", "history", "commit">>

AddAdmits(s) ==
  \/ Exists(GrantFile(s)) /\ Exists(KeyFile(s)) /\ Exists(TrustFile)
  \/ /\ \A f \in {KeyFile(s), GrantFile(s), IdEnvFile(s)} : ~Exists(f)
     /\ Exists(TrustFile) /\ s \notin Active

AgentAdd(arg) ==
  /\ SharedStore /\ AddAdmits(arg.a)
  /\ Begin([Command("add", arg.a, AddSteps(arg.a)
              \o <<"ceiling", "registry", "wrapper", "mcpread", "mcpwrite">>)
            EXCEPT !.arg = arg])

McpInstall(arg) ==
  Begin([Command("install", arg.a, <<"wrapper", "mcpread", "mcpwrite">>) EXCEPT !.arg = arg])

\* doctor_agent_report, for one agent or for the rest of them in turn, and the
\* plain doctor of a source, which checks its own process.
DoctorSteps == <<"agentenv", "server", "self", "smoke", "assert", "retract">>

\* doctor_all_agent_run asks first whether the agent is set up at all.
AgentSteps(arg) == (IF Len(arg.agents) > 1 THEN <<"config">> ELSE <<>>) \o DoctorSteps

SourceSteps == <<"self", "probe", "verify", "unprobe">>

\* repair_agent_setup: repair_env_bundle, then the MCP install.
RepairSteps(s) == (IF s \in Active THEN <<>> ELSE <<"active">>)
                    \o (IF Exists(KeyFile(s)) THEN <<"idenv">> ELSE <<>>)
                    \o <<"wrapper", "mcpread", "mcpwrite">>

\* doctor_agent_report of one agent, doctor_all_agents_report of all of them.
Doctor(arg) ==
  LET a == Head(arg.agents)
  IN  /\ arg.repair => Exists(TrustFile) /\ Exists(GrantFile(a))
      /\ Begin([Command("doctor", a, (IF arg.repair THEN RepairSteps(a) ELSE <<>>) \o AgentSteps(arg))
                EXCEPT !.arg = arg, !.rest = Tail(arg.agents)])

\* doctor_report for the source of the project's env.
DoctorSource(write) ==
  /\ Exists(EnvFile) /\ "local" \in Agent
  /\ Begin([Command("source", "local", SourceSteps)
            EXCEPT !.arg = [write |-> write]])

-----------------------------------------------------------------------------
\* The steps.

At(steps) == op # Idle /\ ~op.hung /\ op.todo # <<>> /\ Head(op.todo) \in steps

Advance(o) == IF Tail(o.todo) = <<>> THEN Idle ELSE [o EXCEPT !.todo = Tail(@)]

\* Goes on after the next n steps, which did not succeed.
GiveUp(n) ==
  IF Len(op.todo) =< n THEN Idle
  ELSE [op EXCEPT !.ok = FALSE, !.todo = SubSeq(@, n + 1, Len(@))]

FileOf(step) ==
  CASE step \in {"key", "grant", "idenv"} -> <<step, op.a>>
    [] step \in {"trust", "active", "env", "registry"} -> <<step, "shared">>

High == 2

\* The ceiling agent add saves: the one asked for, the one there is, or the
\* identity's own.
Ceiling ==
  CASE op.arg.level # Absent -> op.arg.level
    [] op.arg.level = Absent /\ op.reg[op.a] # Absent -> op.reg[op.a]
    [] OTHER -> disk[GrantFile(op.a)]

\* init inserts its source into the registry as it stands; agent add saves the
\* one it read when it began.
Contents(step) ==
  CASE step = "registry" -> IF op.cmd = "init" THEN [Registry EXCEPT ![op.a] = op.arg.level]
                            ELSE [op.reg EXCEPT ![op.a] = Ceiling]
    [] step = "grant" -> IF op.arg.level = Absent THEN High ELSE op.arg.level
    [] step = "active" -> op.act \cup {op.a}
    [] step = "env" -> [url |-> InitStore(op.arg).url, log |-> InitStore(op.arg).log,
                        ident |-> IF op.a = "local" /\ op.arg.ident THEN op.a ELSE Absent]
    [] OTHER -> TRUE

\* A file is written whole.  The guard of the identity part records what it
\* creates; agent add does not record a registry of grants that was there.
WriteFile ==
  /\ At({"registry", "key", "trust", "grant", "active", "idenv", "env"})
  /\ LET step == Head(op.todo)
         recorded == /\ step # "registry" /\ "commit" \in ToSet(op.todo)
                     /\ ~Exists(FileOf(step))
     IN /\ disk' = [disk EXCEPT ![FileOf(step)] = Contents(step)]
        /\ op' = Advance([op EXCEPT !.undo = IF recorded THEN @ \cup {FileOf(step)} ELSE @])
  /\ UNCHANGED <<conf, target, daemon, believed, report, failed, guarded, killed, bounds>>

\* append_grant_records, the rollback guard's commit, and agent add's check
\* that the ceiling is within the identity's.
Record ==
  /\ At({"history", "commit", "ceiling"})
  /\ Head(op.todo) = "ceiling" => Ceiling =< disk[GrantFile(op.a)]
  /\ op' = Advance(IF Head(op.todo) = "commit" THEN [op EXCEPT !.undo = {}] ELSE op)
  /\ UNCHANGED <<world, report, failed, guarded, killed, bounds>>

\* init_native_memory_guard reads the file; one it cannot read or parse is left
\* alone, and the init goes on with a warning.
HookRead ==
  /\ At({"hookread"})
  /\ LET c == conf[HookFile(op.a)]
     IN op' = IF c = Broken THEN GiveUp(2) ELSE Advance([op EXCEPT !.copy = c])
  /\ UNCHANGED <<world, report, failed, guarded, killed, bounds>>

\* It writes back the merge of what it read.
HookWrite ==
  /\ At({"hookwrite"})
  /\ conf' = [conf EXCEPT ![HookFile(op.a)] = MergeGuard(op.copy, op.a)]
  /\ guarded' = guarded \cup {op.a}
  /\ op' = Advance(op)
  /\ UNCHANGED <<disk, target, daemon, believed, report, failed, killed, bounds>>

\* A repair keeps the local build it finds installed.
LocalBin ==
  \/ op.cmd = "install" /\ op.arg.local
  \/ /\ op.cmd = "doctor"
     /\ LET server == InstalledServer(conf[McpFile(op.a)])
        IN server # Absent /\ server.cmd = "wrapper"

WriteMode == op.cmd = "install" => op.arg.mode = "write"

\* prepare_mcp_command: the wrapper of a local build is written only when the
\* build is there.
PrepareCommand ==
  /\ At({"wrapper"})
  /\ LocalBin /\ WriteMode => target
  /\ disk' = IF LocalBin /\ WriteMode THEN [disk EXCEPT ![WrapperFile] = "current"] ELSE disk
  /\ op' = Advance(op)
  /\ UNCHANGED <<conf, target, daemon, believed, report, failed, guarded, killed, bounds>>

\* load_agent_env: the env of the project and the agent's identity env; a file
\* log must be the agent's own.
AgentEnvOK(a) ==
  /\ Exists(EnvFile) /\ Exists(IdEnvFile(a))
  /\ disk[EnvFile].url # Absent \/ disk[EnvFile].log = a

AgentEnv(a) == [disk[EnvFile] EXCEPT !.ident = a]

\* What the install renders; a repair keeps the command and the transport.
ServerFor(a) ==
  LET old == InstalledServer(conf[McpFile(a)])
  IN  [env |-> AgentEnv(a),
       cmd |-> IF op.cmd = "doctor" /\ old # Absent THEN old.cmd
               ELSE IF LocalBin THEN "wrapper" ELSE "dent8",
       proxy |-> IF op.cmd = "doctor" THEN old # Absent /\ old.proxy
                 ELSE op.cmd = "install" /\ op.arg.proxy]

\* mcp_config::install, up to the patch.  Where it cannot go on, init and agent
\* add keep what they have done and say so; a repair ends without a green report.
McpRead ==
  /\ At({"mcpread"})
  /\ LET c == conf[McpFile(op.a)]
     IN op' = IF AgentEnvOK(op.a) /\ c # Broken
              THEN Advance([op EXCEPT !.copy = c, !.server = ServerFor(op.a)])
              ELSE IF op.cmd = "doctor" THEN Idle ELSE GiveUp(2)
  /\ UNCHANGED <<world, report, failed, guarded, killed, bounds>>

\* The patched file is written unless it is unchanged or only to be checked.
McpWrite ==
  /\ At({"mcpwrite"})
  /\ conf' = IF WriteMode THEN [conf EXCEPT ![McpFile(op.a)] = PatchServer(op.copy, op.server)]
             ELSE conf
  /\ report' = IF WriteMode THEN report
               ELSE [agents |-> {op.a}, depth |-> "config", raced |-> op.raced,
                     green |-> op.copy = PatchServer(op.copy, op.server)]
  /\ op' = Advance(op)
  /\ UNCHANGED <<disk, target, daemon, believed, failed, guarded, killed, bounds>>

-----------------------------------------------------------------------------
\* The doctor.

\* The report of one agent; the next one is checked in its turn, and the whole
\* is green only when every one was.  seen: the agent's setup was really checked.
Finish(green, seen) ==
  LET agents == IF seen THEN op.agents \cup {op.a} ELSE op.agents
  IN  IF op.rest = <<>>
      THEN /\ op' = Idle
           /\ report' = [agents |-> agents, green |-> green, raced |-> op.raced,
                         depth |-> IF op.arg.write THEN "write" ELSE "run"]
      ELSE /\ op' = [op EXCEPT !.a = Head(op.rest), !.rest = Tail(op.rest),
                               !.todo = AgentSteps(op.arg), !.ok = green, !.agents = agents,
                               !.hung = FALSE]
           /\ UNCHANGED report

Checking == UNCHANGED <<disk, conf, target, daemon, failed, guarded, killed, bounds>>

\* doctor_all_agent_config_path: of all the agents, one without an identity env
\* or a config file is skipped when its turn comes.
Installed(a) == Exists(IdEnvFile(a)) /\ conf[McpFile(a)] # Absent

DoctorConfig ==
  /\ At({"config"})
  /\ IF Installed(op.a) THEN op' = Advance(op) /\ UNCHANGED report
     ELSE Finish(op.ok, FALSE)
  /\ Checking /\ UNCHANGED believed

\* A missing agent env is a warning, unless a write check was asked for.
DoctorEnv ==
  /\ At({"agentenv"})
  /\ IF AgentEnvOK(op.a)
     THEN op' = Advance([op EXCEPT !.env = AgentEnv(op.a)]) /\ UNCHANGED report
     ELSE Finish(op.ok /\ ~op.arg.write, FALSE)
  /\ Checking /\ UNCHANGED believed

\* doctor_identity: trust, grant, current grant and key of the source.
IdentityOK(s) == Exists(TrustFile) /\ Exists(GrantFile(s)) /\ Exists(KeyFile(s)) /\ s \in Active

\* Mutant: the doctor does not look the grant up among the current ones.
SelfCheckAnyGrant(s, ident) ==
  /\ Exists(RegistryFile) /\ ident = s
  /\ Exists(TrustFile) /\ Exists(GrantFile(s)) /\ Exists(KeyFile(s))

\* The child doctor: a registry of authority is required; a source it does not
\* list is only a warning.
SelfCheckOK(s, ident) == Exists(RegistryFile) /\ ident = s /\ IdentityOK(s)

\* doctor_local_mcp_binary, when the installed command is the wrapper.
LocalBinaryOK(s, server) ==
  server.cmd = "wrapper" => /\ disk[WrapperFile] = "current" /\ target
                            /\ SelfCheckOK(s, server.env.ident)

DoctorServer ==
  /\ At({"server"})
  /\ LET server == InstalledServer(conf[McpFile(op.a)])
     IN IF server = Absent THEN Finish(FALSE, FALSE)
        ELSE /\ op' = Advance([op EXCEPT !.server = server,
                        !.ok = @ /\ EnvMatches(op.env, server.env) /\ LocalBinaryOK(op.a, server)])
             /\ UNCHANGED report
  /\ Checking /\ UNCHANGED believed

DoctorSelf ==
  /\ At({"self"})
  /\ LET ident == IF op.cmd = "source" THEN disk[EnvFile].ident ELSE op.server.env.ident
         ok == op.ok /\ SelfCheckOK(op.a, ident)
     IN IF op.cmd = "source" /\ ~op.arg.write THEN Finish(ok, TRUE)
        ELSE op' = Advance([op EXCEPT !.ok = ok]) /\ UNCHANGED report
  /\ Checking /\ UNCHANGED believed

\* The store the writes of the installed server go to.
Lands(server) == IF server.proxy THEN daemon ELSE StoreOf(server.env)

ServerStarts(server) == server.cmd = "wrapper" => disk[WrapperFile] # Absent /\ target

\* doctor_agent_mcp_proxy_preflight: behind a proxy the daemon must be up and
\* take the installed env's key for the agent's source.
ProxyPreflight(s, server) ==
  server.proxy => daemon # Absent /\ server.env.ident = s /\ IdentityOK(s)

\* mcp_smoke_with_server: the server (or the daemon behind the proxy) answers,
\* on the store of the installed env, as the agent's source.
SmokeOK(s, server) ==
  /\ ProxyPreflight(s, server) /\ ServerStarts(server) /\ Lands(server) = StoreOf(server.env)
  /\ server.env.ident = s /\ IdentityOK(s)

DoctorSmoke ==
  /\ At({"smoke"})
  /\ LET smoke == SmokeOK(op.a, op.server)
     IN IF smoke /\ op.arg.write THEN op' = Advance(op) /\ UNCHANGED report
        ELSE Finish(op.ok /\ smoke, TRUE)
  /\ Checking /\ UNCHANGED believed

\* The probe is written at the registry's ceiling for the source, else at the
\* identity's; both gates decide on it.
ProbeCeiling(s) == IF Registry[s] # Absent THEN Registry[s]
                   ELSE IF Exists(GrantFile(s)) THEN disk[GrantFile(s)] ELSE High

ProbeAccepted(s) ==
  /\ Registry[s] # Absent /\ ProbeCeiling(s) =< Registry[s]
  /\ IdentityOK(s) /\ ProbeCeiling(s) =< disk[GrantFile(s)]

\* doctor_write_check and the assert of the MCP write check.
DoctorAssert ==
  /\ At({"assert", "probe"})
  /\ IF ProbeAccepted(op.a)
     THEN /\ believed' = believed \cup {op.a}
          /\ op' = Advance(op) /\ UNCHANGED report
     ELSE Finish(FALSE, TRUE) /\ UNCHANGED believed
  /\ Checking

\* The plain doctor verifies the whole log before it retracts its probe, and
\* stops at what it finds.
DoctorVerify ==
  /\ At({"verify"})
  /\ \/ op' = Advance(op) /\ UNCHANGED <<report, faults>>
     \/ faults < MaxFaults /\ faults' = faults + 1 /\ Finish(FALSE, TRUE)
  /\ UNCHANGED <<world, failed, guarded, killed, commands, edits>>

DoctorRetract ==
  /\ At({"retract", "unprobe"})
  /\ believed' = believed \ {op.a}
  /\ Finish(op.ok, TRUE)
  /\ Checking

\* A server that does not answer.
ServerHangs ==
  /\ At({"smoke", "assert", "retract"})
  /\ faults < MaxFaults /\ faults' = faults + 1
  /\ op' = [op EXCEPT !.hung = TRUE]
  /\ UNCHANGED <<world, report, failed, guarded, killed, commands, edits>>

\* wait_with_output_timeout kills it at the deadline.
WaitWithTimeout ==
  /\ op # Idle /\ op.hung
  /\ Finish(FALSE, TRUE)
  /\ Checking /\ UNCHANGED believed

-----------------------------------------------------------------------------
\* Faults, and what happens beside a command.

\* Mutant: the rollback guard forgets the trust registry.
RolledBackButTrust ==
  [f \in File |-> IF f \in op.undo \ {TrustFile} THEN Absent ELSE disk[f]]

\* BootstrapRollback::drop
RolledBack == [f \in File |-> IF f \in op.undo THEN Absent ELSE disk[f]]

\* A step of the bundle fails: the command ends, and a guard not yet committed
\* removes what it recorded.
BundleStepFails ==
  /\ faults < MaxFaults /\ faults' = faults + 1
  /\ At({"registry", "key", "trust", "grant", "active", "idenv", "env", "history"})
  /\ disk' = RolledBack
  /\ op' = Idle
  /\ failed' = IF op.cmd = "init" THEN [a |-> op.a, ident |-> op.arg.ident] ELSE Absent
  /\ UNCHANGED <<conf, target, daemon, believed, report, guarded, killed, commands, edits>>

\* A step on a config file fails: the guard of init is given up, an MCP install
\* ends the command, and the bundle stays.
ConfigStepFails ==
  /\ faults < MaxFaults /\ faults' = faults + 1
  /\ \/ At({"hookread"}) /\ op' = GiveUp(2)
     \/ At({"hookwrite"}) /\ op' = GiveUp(1)
     \/ At({"wrapper", "mcpread", "mcpwrite"}) /\ op' = Idle
  /\ UNCHANGED <<world, report, failed, guarded, killed, commands, edits>>

\* The ceiling is above the identity's, or the local build is missing.
Refused ==
  /\ \/ At({"ceiling"}) /\ Ceiling > disk[GrantFile(op.a)]
     \/ At({"wrapper"}) /\ LocalBin /\ WriteMode /\ ~target
  /\ op' = Idle
  /\ UNCHANGED <<world, report, failed, guarded, killed, bounds>>

Kill ==
  /\ op # Idle /\ faults < MaxFaults /\ faults' = faults + 1
  /\ op' = Idle /\ killed' = TRUE
  /\ UNCHANGED <<world, report, failed, guarded, commands, edits>>

Beside ==
  /\ edits < MaxEdits /\ edits' = edits + 1
  /\ op' = IF op = Idle THEN Idle ELSE [op EXCEPT !.raced = TRUE]
  /\ report' = Absent
  /\ UNCHANGED <<believed, failed, killed, commands, faults>>

OwnHook   == [dent8 |-> FALSE, write |-> FALSE, enforce |-> FALSE, tools |-> Tool]
Advisory  == [dent8 |-> TRUE, write |-> TRUE, enforce |-> FALSE, tools |-> Tool]
AuditHook == [dent8 |-> TRUE, write |-> FALSE, enforce |-> TRUE, tools |-> Tool]

WithUrl(c, url) == [c EXCEPT !.server.env.url = url]

\* What an editor or another tool leaves in a config file.
Edited(c) ==
  LET base == IF c = Broken THEN EmptyConfig ELSE ParsesAs(c)
  IN  {Broken, [base EXCEPT !.pre = <<OwnHook>> \o @], [base EXCEPT !.pre = <<Advisory>>],
       [base EXCEPT !.other = <<AuditHook>>], [base EXCEPT !.server = Absent]}
      \cup (IF base.server = Absent THEN {}
            ELSE {WithUrl(base, url) : url \in {Absent, "elsewhere"}})

EditConfig(f) ==
  /\ Beside
  /\ conf' \in {[conf EXCEPT ![f] = c] : c \in Edited(conf[f]) \ {conf[f]}}
  /\ guarded' = {a \in guarded : HookFile(a) # f}
  /\ UNCHANGED <<disk, target, daemon>>

\* cargo builds or cleans the local binary, or the wrapper is edited.
Build ==
  /\ Beside
  /\ \/ target' = ~target /\ UNCHANGED disk
     \/ disk[WrapperFile] = "current" /\ disk' = [disk EXCEPT ![WrapperFile] = "stale"]
        /\ UNCHANGED target
  /\ UNCHANGED <<conf, daemon, guarded>>

\* A daemon is started with the env of the project, or stopped.
Daemon ==
  /\ Beside
  /\ daemon' \in (IF Exists(EnvFile) THEN {StoreOf(disk[EnvFile])} ELSE {}) \cup {Absent}
  /\ daemon' # daemon
  /\ UNCHANGED <<disk, conf, target, guarded>>

\* identity revoke takes the source out of the current grants (IdentityBundle).
RevokeSource(s) ==
  /\ Beside /\ s \in Active
  /\ disk' = [disk EXCEPT ![ActiveFile] = @ \ {s}]
  /\ UNCHANGED <<conf, target, daemon, guarded>>

-----------------------------------------------------------------------------
Start ==
  \/ \E arg \in InitArgs : InitProject(arg)
  \/ \E arg \in AddArgs : AgentAdd(arg)
  \/ \E arg \in InstallArgs : McpInstall(arg)
  \/ \E arg \in DoctorArgs : Doctor(arg)
  \/ \E write \in BOOLEAN : DoctorSource(write)

Step ==
  \/ WriteFile \/ Record \/ HookRead \/ HookWrite \/ PrepareCommand \/ McpRead \/ McpWrite
  \/ DoctorConfig \/ DoctorEnv \/ DoctorServer \/ DoctorSelf \/ DoctorSmoke \/ DoctorAssert \/ DoctorVerify
  \/ DoctorRetract \/ WaitWithTimeout \/ Refused

Outside ==
  \/ \E f \in ConfigFile : EditConfig(f)
  \/ Build \/ Daemon
  \/ \E s \in Agent : RevokeSource(s)

Next == Start \/ Step \/ BundleStepFails \/ ConfigStepFails \/ ServerHangs \/ Kill \/ Outside

Spec == Init /\ [][Next]_vars

-----------------------------------------------------------------------------
\* Init is all or nothing. The env of a project is its commit point: unless a
\* command was killed, an env that exists names a registry and identity files
\* that exist, and so does the identity env of every agent between commands; and
\* an init that failed at any file can be run again, since it left no identity
\* file that its own checks would refuse.
InitIsAtomic ==
  /\ Exists(EnvFile) /\ ~killed =>
       /\ Exists(RegistryFile)
       /\ LET s == disk[EnvFile].ident
          IN s # Absent => \A f \in {TrustFile, ActiveFile, GrantFile(s), KeyFile(s)} : Exists(f)
  /\ op = Idle /\ ~killed =>
       \A a \in Agent : Exists(IdEnvFile(a)) =>
         \A f \in {TrustFile, ActiveFile, GrantFile(a), KeyFile(a)} : Exists(f)
  /\ failed # Absent /\ ~killed => InitAdmits(failed.a, failed.ident, TRUE)

\* Once the guard is reported installed and until somebody edits the file, a
\* write to native memory by the tools of every agent is blocked, whatever
\* hooks and advisory guards were there before, an unreadable payload is
\* blocked even with the bypass set, and the doctor does not warn of either the
\* guard or the native files it protects.
GuardInstalledBlocks ==
  \A a \in guarded :
    LET c == conf[HookFile(a)]
    IN  /\ WriteBlocked(c, "edit", "native", TRUE, FALSE)
        /\ WriteBlocked(c, "edit", "unreadable", TRUE, TRUE)
        /\ BypassGuardLine(c) = "OK" /\ NativeScanLine(c, TRUE) = "OK"

\* A green check is true when it is given, if nothing changed while it ran:
\* every agent it looked at has an installed server whose writes go to the
\* store of the project's env, under that agent's identity (checked by running
\* it), are admitted (by the write check), and no probe stays believed.  An
\* installed env with a store of its own beside the bundle's is not noticed.
GreenReportIsTrue ==
  report # Absent /\ report.green /\ ~report.raced =>
    \A a \in report.agents :
      /\ a # "local" =>
           LET server == InstalledServer(conf[McpFile(a)])
           IN  /\ server # Absent /\ AgentEnvOK(a)
               /\ StrayKeys(AgentEnv(a), server.env) = {} =>
                    StoreOf(server.env) = StoreOf(AgentEnv(a))
               /\ report.depth # "config" => Lands(server) = StoreOf(server.env)
      /\ report.depth # "config" => IdentityOK(a)
      /\ report.depth = "write" => ProbeAccepted(a) /\ a \notin believed

=============================================================================
