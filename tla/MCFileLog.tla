----------------------------- MODULE MCFileLog -----------------------------
(* Model-checking instance of FileLog.                                     *)
EXTENDS FileLog

CONSTANTS MaxNumber, agent, owner, v1, repoDatabase

MCFacts == 0..MaxNumber
MCSources == {agent, owner}
MCValues == {v1}
MCShapes == {repoDatabase}

\* repo.database: High floor, no expiry, unique.
MCPolicy ==
  [ s \in MCShapes |-> [ registered |-> TRUE, authority_floor |-> 3, default_ttl |-> NeverTtl,
                         volatile |-> FALSE, max_ttl |-> Unset ] ]

Ask(op, source, level) ==
  [ op |-> op,
    r |-> [ source |-> source, level |-> level, shape |-> repoDatabase, value |-> v1,
            ttl |-> NeverTtl, valid_from |-> NoTime, valid_to |-> NoTime,
            from |-> repoDatabase ] ]

\* Batches of one line and of several, a dissent, and an attack that is recorded.
MCCommands ==
  {Ask("assert", owner, 3), Ask("supersede", owner, 3), Ask("retract", owner, 3),
   Ask("contradict", agent, 1), Ask("reinforce", agent, 1), Ask("retract", agent, 1)}
=============================================================================
