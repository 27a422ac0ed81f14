------------------------------ MODULE MCWitness ------------------------------
(***************************************************************************)
(* Four workloads: a cadence signer and a publisher on one lane under       *)
(* tampering; the same with the key replaced and write errors; two signers  *)
(* at once; and both lanes with the published grant heads.                  *)
(***************************************************************************)
EXTENDS Witness

CONSTANTS r1, r2

MCRecord == {r1, r2}

OneLane == [l \in Lanes |-> IF l = "events" THEN 2 ELSE 0]
TwoLanes == [l \in Lanes |-> IF l = "events" THEN 1 ELSE 2]

Tampered == [signers |-> {"serve"}, kinds |-> {"publish", "published"},
             size |-> OneLane, records |-> {r1, r2},
             budget |-> 2, faults |-> {"rewrite", "truncate", "drop"}]
Faulty == [signers |-> {"serve"}, kinds |-> {"verify", "publish"},
           size |-> OneLane, records |-> {r1, r2}, budget |-> 1,
           faults |-> {"rekey", "io"}]
TwoSigners == [signers |-> {"serve", "sign"}, kinds |-> {"doctor"},
               size |-> OneLane, records |-> {r1}, budget |-> 1,
               faults |-> {"truncate"}]
BothLanes == [signers |-> {"serve"}, kinds |-> {"verify", "publish", "published"},
              size |-> TwoLanes, records |-> {r1}, budget |-> 1,
               faults |-> {"truncate"}]

MCWorkloads == {Tampered, Faulty, TwoSigners, BothLanes}
=============================================================================
