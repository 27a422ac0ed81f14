----------------------------- MODULE MCMcpDaemon -----------------------------
(***************************************************************************)
(* Two workloads.  Writers: two clients authenticate, write and read one    *)
(* stream, with two challenges, a revocation and a rotation.  Subscriber:   *)
(* one client subscribes to two streams while another process writes them.  *)
(***************************************************************************)
EXTENDS McpDaemon

CONSTANTS c1, c2, u1, u2

MCConn == {c1, c2}
MCStream == {u1, u2}

Kinds(f, local) == [c \in MCConn \cup {Local} |-> IF c = Local THEN local ELSE f[c]]

Writers ==
    [kinds |-> Kinds([c \in MCConn |-> {"hello", "prove", "write"}
                                    \cup IF c = c1 THEN {"read"} ELSE {}], {}),
     streams |-> {u1}, backend |-> "database"]
Subscriber ==
    [kinds |-> Kinds([c \in MCConn |-> IF c = c1 THEN {"subscribe", "unsubscribe"} ELSE {}],
                     {"write"}),
     streams |-> {u1, u2}, backend |-> "file"]

MCWorkloads == {Writers, Subscriber}
=============================================================================
