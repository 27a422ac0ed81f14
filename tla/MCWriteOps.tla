----------------------------- MODULE MCWriteOps -----------------------------
(* Model-checking instance of WriteOps.                                    *)
EXTENDS WriteOps

CONSTANTS agent, owner, v1, repoDatabase, branchStatus, note

MCFacts == 0..5
MCSources == {agent, owner}
MCValues == {v1}
MCShapes == {repoDatabase, branchStatus, note}
MCUniqueShapes == {repoDatabase, branchStatus}

Duration(ms) == [kind |-> "Duration", millis |-> ms]

\* repo.database: High floor, Never; branch.status: Low floor, one unit of
\* time, volatile; note: not registered.
MCPolicy ==
  [ s \in MCShapes |->
      [ registered |-> s # note,
        authority_floor |-> IF s = repoDatabase THEN 3 ELSE 1,
        default_ttl |-> IF s = branchStatus THEN Duration(2) ELSE NeverTtl,
        volatile |-> s = branchStatus, max_ttl |-> Unset ] ]

\* The owner may write anything; the agent up to Low.
MCGrants == [ s \in MCSources |-> [ sh \in MCShapes |-> IF s = owner THEN 4 ELSE 1 ] ]

Ask(source, level, shape) ==
  [ source |-> source, level |-> level, shape |-> shape, value |-> v1,
    ttl |-> NeverTtl, valid_from |-> NoTime, valid_to |-> NoTime, from |-> shape ]

\* A stable predicate with a floor: the owner at two ranks, a weak agent.
Ranks ==
  [ requests |-> {Ask(owner, 3, repoDatabase), Ask(owner, 4, repoDatabase),
                  Ask(agent, 1, repoDatabase), Ask(agent, 3, repoDatabase)},
    ops |-> Operations \ {"derive", "used_in_decision"}, events |-> 6, until |-> 0 ]

\* A short-lived predicate, with a chosen ttl and a validity window.
Times ==
  [ requests |-> {Ask(owner, 2, branchStatus),
                  [Ask(agent, 1, branchStatus) EXCEPT !.ttl = Duration(1)],
                  [Ask(agent, 1, branchStatus) EXCEPT !.valid_from = 1, !.valid_to = 2]},
    ops |-> Operations \ {"derive", "used_in_decision"}, events |-> 5, until |-> 2 ]

\* A dispute on one predicate beside a settled belief on another.
Disputes ==
  [ requests |-> {Ask(owner, 3, repoDatabase), Ask(owner, 2, note)},
    ops |-> {"assert", "contradict", "supersede"}, events |-> 4, until |-> 0 ]

\* Facts that rest on one another, across two predicates.
Derivations ==
  [ requests |-> {Ask(owner, 2, note), [Ask(owner, 2, branchStatus) EXCEPT !.from = note],
                  [Ask(owner, 2, note) EXCEPT !.from = branchStatus]},
    ops |-> {"assert", "derive", "retract", "used_in_decision"}, events |-> 5, until |-> 0 ]

MCWorkloads == {Ranks, Times, Disputes, Derivations}
=============================================================================
