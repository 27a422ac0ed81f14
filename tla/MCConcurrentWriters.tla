------------------------ MODULE MCConcurrentWriters ------------------------
(* Model-checking instance of ConcurrentWriters.                           *)
EXTENDS ConcurrentWriters

CONSTANTS MaxNumber, p1, p2, p3, agent, owner, v1, repoDatabase

MCFacts == 0..MaxNumber
MCProcs == {p1, p2, p3}
MCSources == {agent, owner}
MCValues == {v1}
MCShapes == {repoDatabase}

\* repo.database: High floor, no expiry, unique.
MCPolicy ==
  [ s \in MCShapes |-> [ registered |-> TRUE, authority_floor |-> 3, default_ttl |-> NeverTtl,
                         volatile |-> FALSE, max_ttl |-> Unset ] ]

Ask(op, source, level) ==
  [ op |-> op,
    r |-> [ source |-> source, level |-> level, shape |-> repoDatabase, value |-> v1,
            ttl |-> NeverTtl, valid_from |-> NoTime, valid_to |-> NoTime,
            from |-> repoDatabase ] ]

\* Openings and closings of the same belief, a dissent, and an attack that is
\* refused and recorded.
Writes ==
  {Ask("assert", owner, 3), Ask("supersede", owner, 3), Ask("retract", owner, 3),
   Ask("contradict", agent, 1), Ask("retract", agent, 1)}

AllWrite == [p \in Procs |-> Writes]

\* p3, without a lease, audits what it reads.
Audit == {Ask("retrieve", agent, 1)}
\* ... or also asserts: p1 attacks, dissents and revises, p2 opens and closes.
Race ==
  [p \in Procs |->
     CASE p = p1 -> {Ask("supersede", owner, 3), Ask("contradict", agent, 1),
                     Ask("retract", agent, 1)}
       [] p = p2 -> {Ask("assert", owner, 3), Ask("retract", owner, 3)}
       [] p = p3 -> Audit \cup {Ask("assert", owner, 3)}]
=============================================================================
