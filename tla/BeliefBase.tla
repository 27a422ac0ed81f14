----------------------------- MODULE BeliefBase -----------------------------
(***************************************************************************)
(* What concurrent writers are promised: a shared belief base on which     *)
(* every operation takes effect at one instant, at most once, decided on   *)
(* the beliefs of that very instant. There are no snapshots, leases, event *)
(* numbers, retries or crashes here.                                       *)
(***************************************************************************)
CONSTANTS
  Procs,           \* the writers, each with one operation to run
  Jobs,            \* Procs -> the operations a writer may be asked to run
  InitialBeliefs,  \* the beliefs the base may start from
  Effect(_, _, _)  \* Effect(j, p, q): operation j, run on p, may leave q

VARIABLES
  job,             \* the operation of each writer
  proj,            \* the beliefs
  served           \* the writers whose operation has taken effect

vars == <<job, proj, served>>

Init ==
  /\ job \in {js \in [Procs -> UNION {Jobs[p] : p \in Procs}] : \A p \in Procs : js[p] \in Jobs[p]}
  /\ proj \in InitialBeliefs
  /\ served = {}

Serve(p) ==
  /\ p \notin served
  /\ served' = served \cup {p}
  /\ UNCHANGED job
  /\ Effect(job[p], proj, proj')

Next == \E p \in Procs : Serve(p)

Spec == Init /\ [][Next]_vars
=============================================================================
