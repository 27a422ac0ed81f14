---------------------------- MODULE AgentConfig ----------------------------
\* The project files that make an agent use dent8: the hook config that guards
\* native memory (crates/dent8-cli/src/hook_config.rs, hook.rs, native.rs) and
\* the MCP config that starts the server (mcp_config.rs), each a file of the
\* agent's that other tools write as well.
\*
\* A file is Absent, Broken (it does not parse), or [pre, other, server]: the
\* hooks that run before a tool, the hooks of the other events, and the dent8
\* entry among the MCP servers.  A hook is [dent8, write, enforce, tools]: it
\* runs the guard, in write mode, enforced, for those tools.
EXTENDS Naturals, Sequences, SequencesExt

CONSTANTS
  Absent,    \* no such file, entry or value
  Broken,    \* a file that does not parse
  Url        \* the store URLs that commands and files name

AgentName == {"codex", "gemini", "hecate", "local"}

Tool == {"edit", "shell"}

\* What the files hold.
Hook == [dent8 : BOOLEAN, write : BOOLEAN, enforce : BOOLEAN, tools : SUBSET Tool]
ServerEnv ==
  [url : Url \cup {Absent}, log : AgentName \cup {Absent}, ident : AgentName \cup {Absent}]
Server == [cmd : {"wrapper", "dent8"}, proxy : BOOLEAN, env : ServerEnv]
Config == [pre : Seq(Hook), other : Seq(Hook), server : Server \cup {Absent}]

ASSUME ConfigAssumption ==
  /\ Absent \notin Config /\ Broken \notin Config
  /\ Absent \notin Server /\ Absent \notin ServerEnv
  /\ Absent \notin Url /\ Absent \notin AgentName

\* agent_hook_config_path and default_config_path: Gemini keeps hooks and
\* servers in one file, Hecate has no hook file and needs a path for its task;
\* without an agent the guard goes to Claude Code and no server is installed.
HookFile(a) == CASE a = "codex" -> "codex-hooks"
                 [] a = "gemini" -> "gemini-settings"
                 [] a = "local" -> "claude-hooks"
                 [] a = "hecate" -> Absent

McpFile(a) == CASE a = "codex" -> "codex-config"
                [] a = "gemini" -> "gemini-settings"
                [] a = "hecate" -> "hecate-task"

ConfigFile == {"gemini-settings", "claude-hooks", "codex-hooks", "codex-config", "hecate-task"}

EmptyConfig == [pre |-> <<>>, other |-> <<>>, server |-> Absent]

ParsesAs(c) == IF c = Absent THEN EmptyConfig ELSE c

\* The tools the matcher of the agent's guard entry names.
GuardedTools(a) == IF a = "codex" THEN Tool ELSE {"edit"}

GuardEntry(a) ==
  [dent8 |-> TRUE, write |-> TRUE, enforce |-> TRUE, tools |-> GuardedTools(a)]

\* Mutant: an entry that already runs the guard is left as it is.
MergeGuardOnce(c, a) ==
  LET base == ParsesAs(c)
  IN  IF \E h \in ToSet(base.pre) : h.dent8 THEN base
      ELSE [base EXCEPT !.pre = Append(@, GuardEntry(a))]

\* install_native_memory_guard: the first entry that runs the guard before a
\* tool is replaced, or one is added; everything else in the file is kept.
MergeGuard(c, a) ==
  LET base == ParsesAs(c)
      mine == SelectInSeq(base.pre, LAMBDA h : h.dent8)
  IN  [base EXCEPT !.pre = IF mine = 0 THEN Append(@, GuardEntry(a))
                           ELSE [@ EXCEPT ![mine] = GuardEntry(a)]]

\* inspect_agent_bypass_guard: the strings of the whole file, wherever they are.
InspectGuard(c) ==
  LET hooks == IF c \in {Absent, Broken} THEN {} ELSE ToSet(c.pre) \cup ToSet(c.other)
      Some(P(_)) == \E h \in hooks : P(h)
  IN  CASE c = Broken -> "unreadable"
        [] ~Some(LAMBDA h : h.dent8) -> "missing"
        [] Some(LAMBDA h : h.write) /\ Some(LAMBDA h : h.enforce) -> "enforced"
        [] OTHER -> "advisory"

\* guard_summary: only an enforced guard counts as protection.
Protected(c) == InspectGuard(c) = "enforced"

\* doctor_agent_bypass_guard and doctor_agent_native_scan: the two lines the
\* doctor prints of an agent's native memory, given whether it has any.
BypassGuardLine(c) == IF Protected(c) THEN "OK" ELSE "WARN"

NativeScanLine(c, has_files) == IF has_files /\ ~Protected(c) THEN "WARN" ELSE "OK"

\* One run of the hook: GUARD_COMMAND lets everything pass without the binary,
\* a payload that does not parse is blocked when enforced, and the bypass is
\* asked for only when a native memory file is touched.
HookBlocks(h, tool, payload, binary, bypass) ==
  /\ binary /\ tool \in h.tools /\ h.dent8 /\ h.write /\ h.enforce
  /\ \/ payload = "unreadable"
     \/ payload = "native" /\ ~bypass

\* The agent runs the hooks of the event before the tool; one that exits 2 stops it.
WriteBlocked(c, tool, payload, binary, bypass) ==
  /\ c \notin {Absent, Broken}
  /\ \E h \in ToSet(c.pre) : HookBlocks(h, tool, payload, binary, bypass)

-----------------------------------------------------------------------------
\* The MCP server entry is [cmd, proxy, env]; an env is [url, log, ident]: the
\* store URL, the file log, and the source whose grant and key it names.

\* patch_mcp_servers_toml, patch_mcp_servers_json, patch_hecate_task_json: the
\* dent8 entry is replaced whole, and nothing else is.
PatchServer(c, server) == [ParsesAs(c) EXCEPT !.server = server]

\* load_installed_server
InstalledServer(c) == IF c \in {Absent, Broken} THEN Absent ELSE c.server

\* connect_backend: a URL wins over a file log.
StoreOf(env) == IF env.url # Absent THEN env.url ELSE env.log

\* validate_installed_agent_config: every variable of the bundle is installed
\* with its value; the installed env may have more.
EnvMatches(bundle, installed) ==
  \A k \in {"url", "log", "ident"} : bundle[k] # Absent => installed[k] = bundle[k]

\* What the installed env has that the bundle does not.
StrayKeys(bundle, installed) ==
  {k \in {"url", "log", "ident"} : bundle[k] = Absent /\ installed[k] # Absent}

=============================================================================
