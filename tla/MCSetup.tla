------------------------------ MODULE MCSetup ------------------------------
\* A project with one agent whose hooks and servers are two files, one whose
\* are one file, and the source of a project without agents.
EXTENDS Setup

AllAgents == {"codex", "gemini", "local"}
Levels == {1, 2}
Urls == {"db", "elsewhere"}

Inits ==
  {[a |-> "local", url |-> Absent, level |-> 2, force |-> FALSE, guard |-> TRUE,
    mcp |-> FALSE, ident |-> TRUE],
   [a |-> "codex", url |-> "db", level |-> 1, force |-> FALSE, guard |-> TRUE,
    mcp |-> TRUE, ident |-> TRUE],
   [a |-> "codex", url |-> Absent, level |-> 2, force |-> TRUE, guard |-> FALSE,
    mcp |-> FALSE, ident |-> TRUE],
   [a |-> "gemini", url |-> Absent, level |-> 1, force |-> FALSE, guard |-> TRUE,
    mcp |-> TRUE, ident |-> TRUE],
   [a |-> "codex", url |-> Absent, level |-> 1, force |-> TRUE, guard |-> FALSE,
    mcp |-> TRUE, ident |-> FALSE]}

Adds == {[a |-> "gemini", level |-> Absent], [a |-> "codex", level |-> 2]}

Installs ==
  {[a |-> "codex", local |-> TRUE, proxy |-> FALSE, mode |-> "write"],
   [a |-> "codex", local |-> FALSE, proxy |-> TRUE, mode |-> "write"],
   [a |-> "codex", local |-> FALSE, proxy |-> FALSE, mode |-> "check"]}

Doctors ==
  {[agents |-> <<"codex">>, write |-> TRUE, repair |-> FALSE],
   [agents |-> <<"codex">>, write |-> FALSE, repair |-> TRUE],
   [agents |-> <<"codex", "gemini">>, write |-> TRUE, repair |-> FALSE]}

=============================================================================
