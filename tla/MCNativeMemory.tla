--------------------------- MODULE MCNativeMemory ---------------------------
(* Model-checking instance of NativeMemory.                                *)
EXTENDS NativeMemory

CONSTANTS agent, owner, bot, v1, v2, endText, object, objectText, repoDatabase, note, c1, c2

MCFacts == 0..4
MCSources == {agent, owner, bot}
MCValues == {v1, v2, endText, object, objectText}
MCShapes == {repoDatabase, note}
MCUniqueShapes == {repoDatabase}
MCProcs == {c1, c2}
MCSentinelValues == {endText}
MCJsonText == [v \in {object} |-> objectText]

\* The bot's name is the agent's, a blank, and a word that reads as a rank.
MCSourceWords ==
  [ s \in MCSources |->
      IF s = bot THEN <<Word("source", agent), Word("authority", 2)>> ELSE <<Word("source", s)>> ]

MCPolicy ==
  [ s \in MCShapes |->
      [ registered |-> s # note, authority_floor |-> 1, default_ttl |-> NeverTtl,
        volatile |-> FALSE, max_ttl |-> Unset ] ]

MCGrants == [ s \in MCSources |-> [ sh \in MCShapes |-> IF s = agent THEN 1 ELSE 4 ] ]

Ask(shape, value) ==
  [ source |-> owner, level |-> 1, shape |-> shape, value |-> value, ttl |-> NeverTtl,
    valid_from |-> NoTime, valid_to |-> NoTime, from |-> shape ]

Writes(requests, ops, events) == [requests |-> requests, ops |-> ops, events |-> events, until |-> 0]

\* A proposal that says nothing of its author.
Line(op, shape, value) ==
  [op |-> op, shape |-> shape, value |-> value, level |-> NoLevel, source |-> NoSource]

NoMeta == [level |-> NoLevel, source |-> NoSource]
Quiet ==
  [ work |-> Writes({}, {}, 0), procs |-> {c1}, lines |-> <<>>, commands |-> {}, flags |-> NoMeta, grant |-> NoMeta,
    keep_failed |-> TRUE, scanner |-> "none", files |-> {<<>>}, edits |-> {}, max_edits |-> 0, crashes |-> 0 ]

\* Two captures of one queue, a crash, and the owner taking a belief back.
Session ==
  [Quiet EXCEPT !.work = Writes({Ask(repoDatabase, v1)}, {"retract"}, 3),
     !.lines = <<Line("assert", repoDatabase, v1)>>,
     !.commands = {"capture"}, !.procs = {c1, c2}, !.crashes = 1]

\* A queue replayed after a crash.
Replayed ==
  [Session EXCEPT !.procs = {c1}, !.work.events = 4,
     !.lines = <<Line("assert", repoDatabase, v1), Line("supersede", repoDatabase, v2)>>]

\* The same, failures not kept, the flags naming the owner.
Truncating ==
  [Session EXCEPT !.keep_failed = FALSE, !.flags = [level |-> 2, source |-> owner], !.crashes = 0,
     !.procs = {c1}, !.lines = <<Line("assert", repoDatabase, v1), Malformed,
                                    Line("supersede", repoDatabase, v2)>>]

\* A scanner, under either failure policy.
Scanned(policy) ==
  [Quiet EXCEPT !.work = Writes({}, {}, 2), !.grant = [level |-> 1, source |-> agent],
     !.lines = <<Line("assert", note, v1), Line("assert", repoDatabase, v2)>>,
     !.commands = {"capture"}, !.scanner = policy, !.crashes = 1]

FileLines ==
  {Plain("begin"), Plain("end"), Fence("tick", 3, ""), Fence("tick", 3, "sh"),
   Fence("tilde", 3, ""), FactLine(note, v2, <<>>)}

FilesOf(lines, n) == UNION {[1..k -> lines] : k \in 0..n}

\* Any memory file of two lines, edited once more and exported to: a text, one
\* with the sentinel in it, JSON, and a fact of a source with a blank in its name.
Editing ==
  [Quiet EXCEPT !.work = Writes({Ask(repoDatabase, v1), Ask(note, endText), Ask(note, object),
                                 [Ask(repoDatabase, v1) EXCEPT !.source = bot]}, {"assert"}, 1),
     !.commands = {"export"}, !.files = FilesOf(FileLines, 2), !.max_edits = 1, !.edits = FileLines]

\* Files with fenced proposals, imported.
Proposing ==
  [Quiet EXCEPT !.work = Writes({Ask(note, v1)}, {"assert"}, 3), !.commands = {"import"},
     !.files = FilesOf({Fence("tick", 3, "dent8"), Fence("tick", 4, ""), Plain("prose"),
                        JsonLine(Line("assert", note, v2))}, 3)]

MCPlans ==
  {Session, Replayed, Truncating, Scanned("fail_closed"), Scanned("fail_open"), Editing, Proposing}
MCWorkloads == {p.work : p \in MCPlans}
=============================================================================
