---------------------------- MODULE SetupProofs ----------------------------
(***************************************************************************)
(* Proofs about Setup, for any agents, arguments, faults, kills and edits. *)
(***************************************************************************)
EXTENDS Setup, SequenceTheorems, WellFoundedInduction, TLAPS

(***************************************************************************)
(* What a command still has to do. The steps of a command come in an order *)
(* of ranks, which is all the proofs need to know of its plan.             *)
(***************************************************************************)
BundleStep == {"key", "trust", "grant", "active", "idenv", "history"}
RepairStep == {"active", "idenv", "wrapper", "mcpread", "mcpwrite"}
DoctorStep == {"agentenv", "server", "self", "smoke", "assert", "retract"}
SourceStep == {"self", "probe", "verify", "unprobe"}

StepsOf(cmd) ==
  CASE cmd = "init" -> BundleStep \cup {"registry", "commit", "env", "hookread", "hookwrite",
                                        "wrapper", "mcpread", "mcpwrite"}
    [] cmd = "add" -> (BundleStep \ {"trust"})
                        \cup {"commit", "ceiling", "registry", "wrapper", "mcpread", "mcpwrite"}
    [] cmd = "install" -> {"wrapper", "mcpread", "mcpwrite"}
    [] cmd = "doctor" -> RepairStep \cup {"config"} \cup DoctorStep
    [] cmd = "source" -> SourceStep

Steps == BundleStep \cup DoctorStep \cup SourceStep
           \cup {"registry", "commit", "ceiling", "env", "hookread", "hookwrite",
                 "wrapper", "mcpread", "mcpwrite", "config"}

RankOf(cmd, x) ==
  CASE x = "registry" -> (IF cmd = "init" THEN 1 ELSE 4)
    [] x \in BundleStep -> 2
    [] x = "commit" -> 3
    [] x \in {"env", "ceiling"} -> 4
    [] x = "hookread" -> 5
    [] x = "hookwrite" -> 6
    [] x = "wrapper" -> 7
    [] x = "mcpread" -> 8
    [] x = "mcpwrite" -> 9
    [] x = "config" -> 10
    [] x = "agentenv" -> 11
    [] x = "server" -> 12
    [] x = "self" -> 13
    [] x \in {"smoke", "probe"} -> 14
    [] x \in {"assert", "verify"} -> 15
    [] x \in {"retract", "unprobe"} -> 16

Sorted(cmd, s) ==
  \A i, j \in DOMAIN s : i < j => s[i] # s[j] /\ RankOf(cmd, s[i]) <= RankOf(cmd, s[j])

\* What is left to do is closed: a step that relies on a later one, or on one
\* between, has it ahead.
Closed(cmd, a, S) ==
  /\ S \subseteq StepsOf(cmd)
  /\ a = "local" => "mcpread" \notin S /\ "mcpwrite" \notin S
  /\ a = "hecate" => "hookread" \notin S /\ "hookwrite" \notin S
  /\ "hookread" \in S => "hookwrite" \in S
  /\ "mcpread" \in S => "mcpwrite" \in S
  /\ "hookwrite" \in S /\ "mcpwrite" \in S => "mcpread" \in S
  /\ "commit" \notin S => S \cap {"key", "trust", "grant"} = {}
  /\ cmd = "init" /\ "commit" \notin S => S \cap BundleStep = {}
  /\ cmd = "doctor" => \A x \in S, y \in DoctorStep : RankOf(cmd, x) < RankOf(cmd, y) => y \in S

Plan(cmd, a, s) ==
  /\ s \in Seq(Steps) /\ s # <<>>
  /\ Sorted(cmd, s) /\ Closed(cmd, a, ToSet(s))
-----------------------------------------------------------------------------
(* Plans.                                                                  *)

LEMMA RankIsNat ==
  ASSUME NEW cmd, NEW x \in Steps
  PROVE  RankOf(cmd, x) \in Nat
BY DEF Steps, RankOf, BundleStep, DoctorStep, SourceStep

\* The head of a plan comes first, and the rest is without it.
LEMMA HeadIsFirst ==
  ASSUME NEW cmd, NEW s \in Seq(Steps), s # <<>>, Sorted(cmd, s)
  PROVE  /\ Head(s) \in ToSet(s) /\ Head(s) \in Steps /\ Tail(s) \in Seq(Steps)
         /\ \A x \in ToSet(s) : x \in Steps /\ RankOf(cmd, Head(s)) <= RankOf(cmd, x)
         /\ ToSet(Tail(s)) = ToSet(s) \ {Head(s)}
         /\ Sorted(cmd, Tail(s))
<1>1. /\ Len(s) \in Nat /\ Len(s) >= 1 /\ DOMAIN s = 1..Len(s) /\ Head(s) = s[1]
      /\ Tail(s) \in Seq(Steps) /\ DOMAIN Tail(s) = 1..(Len(s) - 1)
      /\ \A i \in 1..(Len(s) - 1) : Tail(s)[i] = s[i + 1]
      /\ \A i \in 1..Len(s) : s[i] \in Steps
  BY HeadTailProperties, LenProperties, EmptySeq, ElementOfSeq
<1>2. Head(s) \in ToSet(s) /\ Head(s) \in Steps
  BY <1>1 DEF ToSet
<1>3. ASSUME NEW x \in ToSet(s) PROVE x \in Steps /\ RankOf(cmd, Head(s)) <= RankOf(cmd, x)
  <2>1. PICK i \in 1..Len(s) : x = s[i]
    BY <1>1 DEF ToSet
  <2>2. x \in Steps /\ RankOf(cmd, x) \in Nat
    BY <1>1, <2>1, RankIsNat
  <2>3. CASE i = 1
    BY <1>1, <2>1, <2>2, <2>3
  <2>4. CASE i # 1
    BY <1>1, <2>1, <2>2, <2>4 DEF Sorted
  <2> QED BY <2>3, <2>4
<1>4. ToSet(Tail(s)) = ToSet(s) \ {Head(s)}
  <2>1. ASSUME NEW x \in ToSet(Tail(s)) PROVE x \in ToSet(s) /\ x # Head(s)
    <3>1. PICK i \in 1..(Len(s) - 1) : x = s[i + 1]
      BY <1>1 DEF ToSet
    <3>2. i + 1 \in 1..Len(s) /\ 1 \in 1..Len(s) /\ 1 < i + 1
      BY <1>1
    <3> QED BY <1>1, <3>1, <3>2 DEF ToSet, Sorted
  <2>2. ASSUME NEW x \in ToSet(s), x # Head(s) PROVE x \in ToSet(Tail(s))
    <3>1. PICK i \in 1..Len(s) : x = s[i]
      BY <1>1 DEF ToSet
    <3>2. i - 1 \in 1..(Len(s) - 1) /\ (i - 1) + 1 = i
      BY <1>1, <2>2, <3>1
    <3> QED BY <1>1, <3>1, <3>2 DEF ToSet
  <2> QED BY <2>1, <2>2
<1>5. Sorted(cmd, Tail(s))
  <2> SUFFICES ASSUME NEW i \in 1..(Len(s) - 1), NEW j \in 1..(Len(s) - 1), i < j
               PROVE  /\ Tail(s)[i] # Tail(s)[j]
                      /\ RankOf(cmd, Tail(s)[i]) <= RankOf(cmd, Tail(s)[j])
    BY <1>1 DEF Sorted
  <2>1. i + 1 \in DOMAIN s /\ j + 1 \in DOMAIN s /\ i + 1 < j + 1
    BY <1>1
  <2> QED BY <1>1, <2>1 DEF Sorted
<1> QED BY <1>1, <1>2, <1>3, <1>4, <1>5

\* Taking the first step off what is left keeps it closed.
LEMMA ClosedWithout ==
  ASSUME NEW cmd, NEW a, NEW S \in SUBSET Steps, Closed(cmd, a, S), NEW h \in S,
         \A x \in S : RankOf(cmd, h) <= RankOf(cmd, x)
  PROVE  Closed(cmd, a, S \ {h})
<1> DEFINE T == S \ {h}
<1>1. "hookread" \in T => "hookwrite" \in T
  <2>1. RankOf(cmd, "hookread") = 5 /\ RankOf(cmd, "hookwrite") = 6
    BY DEF RankOf, BundleStep
  <2> QED BY <2>1 DEF Closed
<1>2. "mcpread" \in T => "mcpwrite" \in T
  <2>1. RankOf(cmd, "mcpread") = 8 /\ RankOf(cmd, "mcpwrite") = 9
    BY DEF RankOf, BundleStep
  <2> QED BY <2>1 DEF Closed
<1>3. "hookwrite" \in T /\ "mcpwrite" \in T => "mcpread" \in T
  <2>1. RankOf(cmd, "hookwrite") = 6 /\ RankOf(cmd, "mcpread") = 8
    BY DEF RankOf, BundleStep
  <2> QED BY <2>1 DEF Closed
<1>4. "commit" \notin T => T \cap {"key", "trust", "grant"} = {}
  <2>1. /\ RankOf(cmd, "commit") = 3
        /\ \A x \in {"key", "trust", "grant"} : RankOf(cmd, x) = 2
    BY DEF RankOf, BundleStep
  <2>2. CASE h = "commit"
    BY <2>1, <2>2
  <2>3. CASE h # "commit"
    BY <2>3 DEF Closed
  <2> QED BY <2>2, <2>3
<1>5. cmd = "init" /\ "commit" \notin T => T \cap BundleStep = {}
  <2>1. RankOf(cmd, "commit") = 3 /\ \A x \in BundleStep : RankOf(cmd, x) = 2
    BY DEF RankOf, BundleStep
  <2>2. CASE h = "commit"
    <3>1. \A x \in T : x \notin BundleStep
      BY <2>1, <2>2
    <3> QED BY <3>1
  <2>3. CASE h # "commit"
    BY <2>3 DEF Closed
  <2> QED BY <2>2, <2>3
<1>6. ASSUME cmd = "doctor", NEW x \in T, NEW y \in DoctorStep, RankOf(cmd, x) < RankOf(cmd, y)
      PROVE  y \in T
  <2>1. y \in S /\ x \in Steps /\ y \in Steps /\ h \in Steps
    BY <1>6 DEF Closed, Steps
  <2>2. RankOf(cmd, h) \in Nat /\ RankOf(cmd, x) \in Nat /\ RankOf(cmd, y) \in Nat
    BY <2>1, RankIsNat
  <2> QED BY <1>6, <2>1, <2>2
<1> HIDE DEF T
<1>7. T \subseteq S
  BY DEF T
<1>8. Closed(cmd, a, T)
  BY <1>1, <1>2, <1>3, <1>4, <1>5, <1>6, <1>7 DEF Closed
<1> QED BY <1>8 DEF T

\* So the rest of a plan is a plan.
LEMMA RestIsPlan ==
  ASSUME NEW cmd, NEW a, NEW s, Plan(cmd, a, s), Tail(s) # <<>>
  PROVE  Plan(cmd, a, Tail(s))
<1>1. ToSet(s) \subseteq Steps
  BY HeadIsFirst DEF Plan
<1>2. Closed(cmd, a, ToSet(s) \ {Head(s)})
  BY <1>1, HeadIsFirst, ClosedWithout DEF Plan
<1> QED BY <1>2, HeadIsFirst DEF Plan

\* A plan put together of two.
LEMMA JoinedIsSorted ==
  ASSUME NEW cmd, NEW s \in Seq(Steps), NEW t \in Seq(Steps), Sorted(cmd, s), Sorted(cmd, t),
         \A x \in ToSet(s), y \in ToSet(t) : x # y /\ RankOf(cmd, x) <= RankOf(cmd, y)
  PROVE  s \o t \in Seq(Steps) /\ Sorted(cmd, s \o t) /\ ToSet(s \o t) = ToSet(s) \cup ToSet(t)
<1> DEFINE c == s \o t
<1>1. /\ c \in Seq(Steps) /\ Len(s) \in Nat /\ Len(t) \in Nat
      /\ DOMAIN s = 1..Len(s) /\ DOMAIN t = 1..Len(t) /\ DOMAIN c = 1..(Len(s) + Len(t))
      /\ \A i \in DOMAIN c : c[i] = IF i <= Len(s) THEN s[i] ELSE t[i - Len(s)]
  BY ConcatProperties, LenProperties
<1> HIDE DEF c
<1>2. \A i \in DOMAIN c : \/ i \in DOMAIN s /\ c[i] = s[i]
                          \/ i > Len(s) /\ i - Len(s) \in DOMAIN t /\ c[i] = t[i - Len(s)]
  BY <1>1
<1>3. ToSet(c) = ToSet(s) \cup ToSet(t)
  <2>1. \A i \in DOMAIN s : i \in DOMAIN c /\ c[i] = s[i]
    BY <1>1
  <2>2. \A i \in DOMAIN t : i + Len(s) \in DOMAIN c /\ c[i + Len(s)] = t[i]
    BY <1>1
  <2>3. ToSet(c) \subseteq ToSet(s) \cup ToSet(t)
    BY <1>2 DEF ToSet
  <2>4. ToSet(s) \subseteq ToSet(c)
    BY <2>1 DEF ToSet
  <2>5. ToSet(t) \subseteq ToSet(c)
    BY <2>2 DEF ToSet
  <2> QED BY <2>3, <2>4, <2>5
<1>4. Sorted(cmd, c)
  <2> SUFFICES ASSUME NEW i \in DOMAIN c, NEW j \in DOMAIN c, i < j
               PROVE  c[i] # c[j] /\ RankOf(cmd, c[i]) <= RankOf(cmd, c[j])
    BY DEF Sorted
  <2>1. CASE j \in DOMAIN s
    <3>1. i \in DOMAIN s /\ c[i] = s[i] /\ c[j] = s[j]
      BY <1>1, <2>1
    <3> QED BY <2>1, <3>1 DEF Sorted
  <2>2. CASE i \notin DOMAIN s
    <3>1. /\ i - Len(s) \in DOMAIN t /\ j - Len(s) \in DOMAIN t /\ i - Len(s) < j - Len(s)
          /\ c[i] = t[i - Len(s)] /\ c[j] = t[j - Len(s)]
      BY <1>1, <2>2
    <3> QED BY <3>1 DEF Sorted
  <2>3. CASE i \in DOMAIN s /\ j \notin DOMAIN s
    <3>1. c[i] = s[i] /\ j - Len(s) \in DOMAIN t /\ c[j] = t[j - Len(s)]
      BY <1>1, <2>3
    <3>2. c[i] \in ToSet(s) /\ c[j] \in ToSet(t)
      BY <2>3, <3>1 DEF ToSet
    <3> QED BY <3>2
  <2> QED BY <2>1, <2>2, <2>3
<1> QED BY <1>1, <1>3, <1>4 DEF c

Piece(cmd, s, S) == s \in Seq(Steps) /\ Sorted(cmd, s) /\ ToSet(s) = S

LEMMA NoSteps == ASSUME NEW cmd PROVE Piece(cmd, <<>>, {})
BY DEF Piece, Sorted, ToSet

LEMMA OneStep ==
  ASSUME NEW cmd, NEW x \in Steps
  PROVE  Piece(cmd, <<x>>, {x})
BY DEF Piece, Sorted, ToSet

LEMMA HookSteps == ASSUME NEW cmd PROVE Piece(cmd, <<"hookread", "hookwrite">>, {"hookread", "hookwrite"})
BY DEF Piece, Sorted, ToSet, RankOf, Steps, BundleStep, DoctorStep, SourceStep

LEMMA McpSteps ==
  ASSUME NEW cmd
  PROVE  Piece(cmd, <<"wrapper", "mcpread", "mcpwrite">>, {"wrapper", "mcpread", "mcpwrite"})
BY DEF Piece, Sorted, ToSet, RankOf, Steps, BundleStep, DoctorStep, SourceStep

LEMMA BootstrapSteps ==
  ASSUME NEW cmd
  PROVE  Piece(cmd, <<"key", "trust", "grant", "active", "history", "idenv", "commit">>,
               BundleStep \cup {"commit"})
BY DEF Piece, Sorted, ToSet, RankOf, Steps, BundleStep, DoctorStep, SourceStep

LEMMA IssueSteps ==
  ASSUME NEW cmd
  PROVE  Piece(cmd, <<"key", "grant", "idenv", "active", "history", "commit">>,
               (BundleStep \ {"trust"}) \cup {"commit"})
BY DEF Piece, Sorted, ToSet, RankOf, Steps, BundleStep, DoctorStep, SourceStep

LEMMA DoctorPiece == Piece("doctor", DoctorSteps, DoctorStep)
BY DEF DoctorSteps, Piece, Sorted, ToSet, RankOf, Steps, BundleStep, DoctorStep, SourceStep

LEMMA AddTailSteps ==
  Piece("add", <<"ceiling", "registry", "wrapper", "mcpread", "mcpwrite">>,
        {"ceiling", "registry", "wrapper", "mcpread", "mcpwrite"})
BY DEF Piece, Sorted, ToSet, RankOf, Steps, BundleStep, DoctorStep, SourceStep

LEMMA SourcePiece == Piece("source", SourceSteps, SourceStep)
BY DEF SourceSteps, Piece, Sorted, ToSet, RankOf, Steps, BundleStep, DoctorStep, SourceStep

\* Every step of S comes before every step of T.
Before(cmd, S, T) == \A x \in S, y \in T : x # y /\ RankOf(cmd, x) <= RankOf(cmd, y)

LEMMA JoinPieces ==
  ASSUME NEW cmd, NEW s, NEW t, NEW S, NEW T, Piece(cmd, s, S), Piece(cmd, t, T), Before(cmd, S, T)
  PROVE  Piece(cmd, s \o t, S \cup T)
BY JoinedIsSorted DEF Piece, Before

LEMMA PlanOfPiece ==
  ASSUME NEW cmd, NEW a, NEW s, NEW S, Piece(cmd, s, S), S # {}, Closed(cmd, a, S)
  PROVE  Plan(cmd, a, s)
<1>1. s # <<>>
  BY DEF Piece, ToSet
<1> QED BY <1>1 DEF Piece, Plan

\* init_project.
LEMMA InitPlan ==
  ASSUME NEW arg \in InitArgs
  PROVE  /\ Plan("init", arg.a, InitSteps(arg)) /\ "registry" \in ToSet(InitSteps(arg))
         /\ "commit" \in ToSet(InitSteps(arg)) <=> arg.ident /\ ~ExistingBundle(arg.a)
         /\ "commit" \in ToSet(InitSteps(arg)) => BundleStep \subseteq ToSet(InitSteps(arg))
         /\ "mcpwrite" \in ToSet(InitSteps(arg)) => "mcpread" \in ToSet(InitSteps(arg))
<1> DEFINE ident == arg.ident /\ ~ExistingBundle(arg.a)
           guard == arg.guard /\ HookFile(arg.a) # Absent
           I == IF ident THEN BundleStep \cup {"commit"} ELSE {}
           H == IF guard THEN {"hookread", "hookwrite"} ELSE {}
           M == IF arg.mcp THEN {"wrapper", "mcpread", "mcpwrite"} ELSE {}
           ss == IF guard THEN <<"hookread", "hookwrite">> ELSE <<>>
           mm == IF arg.mcp THEN <<"wrapper", "mcpread", "mcpwrite">> ELSE <<>>
<1>1. Piece("init", InitIdentity(arg), I)
  BY NoSteps, BootstrapSteps DEF InitIdentity
<1>2. Piece("init", ss, H)
  BY NoSteps, HookSteps
<1>3. Piece("init", mm, M)
  BY NoSteps, McpSteps
<1>4. Piece("init", <<"registry">>, {"registry"}) /\ Piece("init", <<"env">>, {"env"})
  BY OneStep DEF Steps
<1>5. InitSteps(arg) = <<"registry">> \o InitIdentity(arg) \o <<"env">> \o ss \o mm
  BY DEF InitSteps
<1>6. I \subseteq BundleStep \cup {"commit"} /\ H \subseteq {"hookread", "hookwrite"}
      /\ M \subseteq {"wrapper", "mcpread", "mcpwrite"}
  OBVIOUS
<1>7. ident <=> I # {}
  BY DEF BundleStep
<1>a. guard => arg.a # "hecate"
  BY DEF HookFile
<1>b. arg.mcp => arg.a # "local"
  BY ArgsAssumption
<1>c. I # {} => I = BundleStep \cup {"commit"}
  OBVIOUS
<1>d. H # {} => H = {"hookread", "hookwrite"} /\ guard
  OBVIOUS
<1>e. M # {} => M = {"wrapper", "mcpread", "mcpwrite"} /\ arg.mcp
  OBVIOUS
<1> HIDE DEF I, H, M, ss, mm, guard
<1>8. /\ Before("init", {"registry"}, I)
      /\ Before("init", {"registry"} \cup I, {"env"})
      /\ Before("init", {"registry"} \cup I \cup {"env"}, H)
      /\ Before("init", {"registry"} \cup I \cup {"env"} \cup H, M)
  BY <1>6 DEF Before, RankOf, BundleStep
<1>9. Piece("init", InitSteps(arg), {"registry"} \cup I \cup {"env"} \cup H \cup M)
  <2>1. Piece("init", <<"registry">> \o InitIdentity(arg), {"registry"} \cup I)
    BY <1>1, <1>4, <1>8, JoinPieces
  <2>2. Piece("init", <<"registry">> \o InitIdentity(arg) \o <<"env">>, {"registry"} \cup I \cup {"env"})
    BY <2>1, <1>4, <1>8, JoinPieces
  <2>3. Piece("init", <<"registry">> \o InitIdentity(arg) \o <<"env">> \o ss,
              {"registry"} \cup I \cup {"env"} \cup H)
    BY <2>2, <1>2, <1>8, JoinPieces
  <2> QED BY <2>3, <1>3, <1>5, <1>8, JoinPieces
<1> DEFINE S == {"registry"} \cup I \cup {"env"} \cup H \cup M
<1>10. Closed("init", arg.a, S)
  BY <1>6, <1>a, <1>b, <1>c, <1>d, <1>e DEF Closed, StepsOf, BundleStep
<1>11. "commit" \in S <=> ident
  BY <1>6, <1>7, <1>c DEF BundleStep
<1>12. "commit" \in S => BundleStep \subseteq S
  BY <1>11, <1>7, <1>c
<1>13. ToSet(InitSteps(arg)) = S
  BY <1>9 DEF Piece
<1>15. "mcpwrite" \in S => "mcpread" \in S
  BY <1>6, <1>e DEF BundleStep
<1>14. Plan("init", arg.a, InitSteps(arg))
  BY <1>9, <1>10, PlanOfPiece
<1> QED BY <1>11, <1>12, <1>13, <1>14, <1>15

\* cmd_agent_add.
AddPlanOf(s) == AddSteps(s) \o <<"ceiling", "registry", "wrapper", "mcpread", "mcpwrite">>

LEMMA AddPlan ==
  ASSUME NEW a \in Agent \ {"local"}, AddAdmits(a)
  PROVE  /\ Plan("add", a, AddPlanOf(a))
         /\ "commit" \in ToSet(AddPlanOf(a)) => BundleStep \ {"trust"} \subseteq ToSet(AddPlanOf(a))
         /\ "commit" \notin ToSet(AddPlanOf(a)) => Exists(GrantFile(a)) /\ Exists(KeyFile(a))
         /\ "mcpread" \in ToSet(AddPlanOf(a))
<1> DEFINE reuse == Exists(GrantFile(a)) /\ Exists(KeyFile(a))
           aa == IF a \in Active THEN <<>> ELSE <<"active">>
           A == IF a \in Active THEN {} ELSE {"active"}
           I == IF reuse THEN A \cup {"idenv"} ELSE (BundleStep \ {"trust"}) \cup {"commit"}
           R == {"ceiling", "registry", "wrapper", "mcpread", "mcpwrite"}
<1>1. Piece("add", aa, A)
  BY NoSteps, OneStep DEF Steps, BundleStep
<1>2. Before("add", A, {"idenv"})
  BY DEF Before, RankOf, BundleStep
<1>3. Piece("add", <<"idenv">>, {"idenv"})
  BY OneStep DEF Steps, BundleStep
<1>4. Piece("add", aa \o <<"idenv">>, A \cup {"idenv"})
  BY <1>1, <1>2, <1>3, JoinPieces
<1>5. AddSteps(a) = IF reuse THEN aa \o <<"idenv">>
                    ELSE <<"key", "grant", "idenv", "active", "history", "commit">>
  BY DEF AddSteps
<1>6. Piece("add", AddSteps(a), I)
  BY <1>4, <1>5, IssueSteps
<1>7. I \subseteq (BundleStep \ {"trust"}) \cup {"commit"}
  BY DEF BundleStep
<1>8. /\ "commit" \in I => BundleStep \ {"trust"} \subseteq I
      /\ "commit" \notin I => reuse /\ I \cap {"key", "trust", "grant"} = {}
  BY DEF BundleStep
<1> HIDE DEF aa, A, I, reuse
<1>9. Before("add", I, R)
  BY <1>7 DEF Before, RankOf, BundleStep
<1>10. Piece("add", AddPlanOf(a), I \cup R)
  BY <1>6, <1>9, AddTailSteps, JoinPieces DEF AddPlanOf
<1>11. Closed("add", a, I \cup R)
  BY <1>7, <1>8 DEF Closed, StepsOf, BundleStep
<1>12. Plan("add", a, AddPlanOf(a)) /\ ToSet(AddPlanOf(a)) = I \cup R
  BY <1>10, <1>11, PlanOfPiece DEF Piece
<1> QED BY <1>8, <1>12 DEF reuse

\* mcp install, doctor of a source.
LEMMA InstallPlan ==
  ASSUME NEW a \in Agent \ {"local"}
  PROVE  /\ Plan("install", a, <<"wrapper", "mcpread", "mcpwrite">>)
         /\ ToSet(<<"wrapper", "mcpread", "mcpwrite">>) = {"wrapper", "mcpread", "mcpwrite"}
<1>1. Closed("install", a, {"wrapper", "mcpread", "mcpwrite"})
  BY DEF Closed, StepsOf, BundleStep
<1> QED BY <1>1, McpSteps, PlanOfPiece DEF Piece

LEMMA SourcePlan == Plan("source", "local", SourceSteps) /\ ToSet(SourceSteps) = SourceStep
<1>1. Closed("source", "local", SourceStep)
  BY DEF Closed, StepsOf, BundleStep, SourceStep
<1> QED BY <1>1, SourcePiece, PlanOfPiece DEF Piece, SourceStep

\* doctor_agent_report and doctor_all_agents_report.
LEMMA DoctorClosed ==
  ASSUME NEW a, NEW R \in SUBSET RepairStep, NEW C \in SUBSET {"config"}, a # "local",
         "mcpread" \in R => "mcpwrite" \in R
  PROVE  Closed("doctor", a, R \cup (C \cup DoctorStep))
BY DEF Closed, StepsOf, RepairStep, DoctorStep, BundleStep

LEMMA DoctorBefore ==
  ASSUME NEW R \in SUBSET RepairStep, NEW C \in SUBSET {"config"}
  PROVE  Before("doctor", R, C \cup DoctorStep) /\ Before("doctor", C, DoctorStep)
<1>1. \A x \in RepairStep : RankOf("doctor", x) \in Nat /\ RankOf("doctor", x) <= 9
  <2>1. /\ RankOf("doctor", "active") = 2 /\ RankOf("doctor", "idenv") = 2
        /\ RankOf("doctor", "wrapper") = 7 /\ RankOf("doctor", "mcpread") = 8
        /\ RankOf("doctor", "mcpwrite") = 9
    BY DEF RankOf, BundleStep
  <2> QED BY <2>1 DEF RepairStep
<1>2. \A x \in DoctorStep : RankOf("doctor", x) \in Nat /\ RankOf("doctor", x) >= 11
  <2>1. /\ RankOf("doctor", "agentenv") = 11 /\ RankOf("doctor", "server") = 12
        /\ RankOf("doctor", "self") = 13 /\ RankOf("doctor", "smoke") = 14
        /\ RankOf("doctor", "assert") = 15 /\ RankOf("doctor", "retract") = 16
    BY DEF RankOf, BundleStep
  <2> QED BY <2>1 DEF DoctorStep
<1>3. RankOf("doctor", "config") = 10
  BY DEF RankOf, BundleStep
<1> QED BY <1>1, <1>2, <1>3 DEF Before

LEMMA AgentPlan ==
  ASSUME NEW arg \in DoctorArgs, NEW a \in Agent \ {"local"}
  PROVE  /\ Plan("doctor", a, AgentSteps(arg))
         /\ DoctorStep \subseteq ToSet(AgentSteps(arg))
         /\ ToSet(AgentSteps(arg)) \subseteq {"config"} \cup DoctorStep
         /\ \E C \in SUBSET {"config"} : Piece("doctor", AgentSteps(arg), C \cup DoctorStep)
<1> DEFINE cc == IF Len(arg.agents) > 1 THEN <<"config">> ELSE <<>>
           C == IF Len(arg.agents) > 1 THEN {"config"} ELSE {}
<1>1. Piece("doctor", cc, C)
  BY NoSteps, OneStep DEF Steps
<1>2. C \subseteq {"config"} /\ AgentSteps(arg) = cc \o DoctorSteps
  BY DEF AgentSteps
<1> HIDE DEF cc, C
<1>3. Closed("doctor", a, {} \cup (C \cup DoctorStep)) /\ Before("doctor", C, DoctorStep)
  <2> DEFINE R == {}
  <2>1. R \in SUBSET RepairStep /\ ("mcpread" \in R => "mcpwrite" \in R)
    OBVIOUS
  <2> HIDE DEF R
  <2>2. Closed("doctor", a, R \cup (C \cup DoctorStep))
    BY <1>2, <2>1, DoctorClosed
  <2>3. Before("doctor", C, DoctorStep)
    BY <1>2, <2>1, DoctorBefore
  <2> QED BY <2>2, <2>3 DEF R
<1>4. {} \cup (C \cup DoctorStep) = C \cup DoctorStep
  OBVIOUS
<1>5. Piece("doctor", AgentSteps(arg), C \cup DoctorStep)
  BY <1>1, <1>2, <1>3, DoctorPiece, JoinPieces
<1>6. C \cup DoctorStep # {}
  BY DEF DoctorStep
<1>7. Plan("doctor", a, AgentSteps(arg)) /\ ToSet(AgentSteps(arg)) = C \cup DoctorStep
  BY <1>3, <1>4, <1>5, <1>6, PlanOfPiece DEF Piece
<1> QED BY <1>2, <1>5, <1>7

DoctorPlanOf(arg) ==
  (IF arg.repair THEN RepairSteps(Head(arg.agents)) ELSE <<>>) \o AgentSteps(arg)

LEMMA DoctorPlan ==
  ASSUME NEW arg \in DoctorArgs, NEW a \in Agent \ {"local"}, a = Head(arg.agents)
  PROVE  /\ Plan("doctor", a, DoctorPlanOf(arg))
         /\ DoctorStep \subseteq ToSet(DoctorPlanOf(arg))
         /\ "idenv" \in ToSet(DoctorPlanOf(arg)) => arg.repair /\ Exists(KeyFile(a))
         /\ "mcpwrite" \in ToSet(DoctorPlanOf(arg)) => "mcpread" \in ToSet(DoctorPlanOf(arg))
<1> DEFINE aa == IF a \in Active THEN <<>> ELSE <<"active">>
           A == IF a \in Active THEN {} ELSE {"active"}
           ii == IF Exists(KeyFile(a)) THEN <<"idenv">> ELSE <<>>
           I == IF Exists(KeyFile(a)) THEN {"idenv"} ELSE {}
           mm == <<"wrapper", "mcpread", "mcpwrite">>
           M == {"wrapper", "mcpread", "mcpwrite"}
           R == IF arg.repair THEN A \cup I \cup M ELSE {}
           rr == IF arg.repair THEN RepairSteps(a) ELSE <<>>
<1>1. Piece("doctor", aa, A) /\ Piece("doctor", ii, I) /\ Piece("doctor", mm, M)
  BY NoSteps, OneStep, McpSteps DEF Steps, BundleStep
<1>2. A \subseteq {"active"} /\ I \subseteq {"idenv"} /\ RepairSteps(a) = aa \o ii \o mm
  BY DEF RepairSteps
<1>3. "idenv" \in R => arg.repair /\ Exists(KeyFile(a))
  OBVIOUS
<1>4. R \subseteq RepairStep /\ ("mcpread" \in R <=> "mcpwrite" \in R)
  BY DEF RepairStep
<1> HIDE DEF aa, A, ii, I, mm, M
<1>5. Before("doctor", A, I) /\ Before("doctor", A \cup I, M)
  <2>1. /\ RankOf("doctor", "active") = 2 /\ RankOf("doctor", "idenv") = 2
        /\ \A x \in M : RankOf("doctor", x) \in Nat /\ RankOf("doctor", x) >= 7
    BY DEF RankOf, BundleStep, M
  <2> QED BY <1>2, <2>1 DEF Before, M
<1>6. Piece("doctor", aa \o ii, A \cup I)
  BY <1>1, <1>5, JoinPieces
<1>7. Piece("doctor", RepairSteps(a), A \cup I \cup M)
  <2>1. Piece("doctor", (aa \o ii) \o mm, (A \cup I) \cup M)
    BY <1>1, <1>5, <1>6, JoinPieces
  <2> QED BY <1>2, <2>1
<1>8. Piece("doctor", rr, R)
  BY <1>7, NoSteps
<1>9. DoctorPlanOf(arg) = rr \o AgentSteps(arg)
  BY DEF DoctorPlanOf
<1> HIDE DEF rr, R
<1>10. PICK C \in SUBSET {"config"} : Piece("doctor", AgentSteps(arg), C \cup DoctorStep)
  BY AgentPlan
<1>11. Closed("doctor", a, R \cup (C \cup DoctorStep)) /\ Before("doctor", R, C \cup DoctorStep)
  BY <1>4, DoctorClosed, DoctorBefore
<1>12. Piece("doctor", DoctorPlanOf(arg), R \cup (C \cup DoctorStep))
  BY <1>8, <1>9, <1>10, <1>11, JoinPieces
<1>13. R \cup (C \cup DoctorStep) # {}
  BY DEF DoctorStep
<1>14. Plan("doctor", a, DoctorPlanOf(arg)) /\ ToSet(DoctorPlanOf(arg)) = R \cup (C \cup DoctorStep)
  BY <1>11, <1>12, <1>13, PlanOfPiece DEF Piece
<1>15. "idenv" \notin DoctorStep /\ "mcpwrite" \notin DoctorStep
  BY DEF DoctorStep
<1> QED BY <1>3, <1>4, <1>14, <1>15
-----------------------------------------------------------------------------
(* Config files.                                                           *)

\* A config with an enforced guard before the edit tool.
Guards(c) ==
  /\ c \in Config
  /\ \E h \in ToSet(c.pre) : h.dent8 /\ h.write /\ h.enforce /\ "edit" \in h.tools

LEMMA LeastExists ==
  ASSUME NEW S \in SUBSET Nat, S # {}
  PROVE  Min(S) \in S
<1> DEFINE Less == OpToRel(<, Nat)
<1>1. \A i, j \in Nat : i < j => <<i, j>> \in Less
  BY DEF OpToRel
<1>2. IsWellFoundedOn(Less, Nat)
  BY NatLessThanWellFounded
<1> HIDE DEF Less
<1>3. PICK m \in S : \A n \in S : ~(<<n, m>> \in Less)
  BY <1>2, WFMin
<1>4. \A n \in S : ~(n < m)
  BY <1>1, <1>3, Zenon
<1>5. \A n \in S : m =< n
  BY <1>4
<1> QED BY <1>5 DEF Min

LEMMA GuardEntryIsHook ==
  ASSUME NEW a
  PROVE  /\ GuardEntry(a) \in Hook /\ GuardEntry(a).dent8 /\ GuardEntry(a).write
         /\ GuardEntry(a).enforce /\ "edit" \in GuardEntry(a).tools
BY DEF GuardEntry, GuardedTools, Hook, Tool

\* install_native_memory_guard writes a config that guards.
LEMMA MergeGuards ==
  ASSUME NEW c \in Config \cup {Absent}, NEW a
  PROVE  Guards(MergeGuard(c, a))
<1> DEFINE base == ParsesAs(c)
           I == {i \in 1..Len(base.pre) : base.pre[i].dent8}
           mine == IF I # {} THEN Min(I) ELSE 0
           pre == IF mine = 0 THEN Append(base.pre, GuardEntry(a))
                  ELSE [base.pre EXCEPT ![mine] = GuardEntry(a)]
<1>1. base \in Config
  BY ConfigAssumption DEF ParsesAs, EmptyConfig, Config
<1>2. MergeGuard(c, a) = [base EXCEPT !.pre = pre]
  BY DEF MergeGuard, SelectInSeq
<1>3. base.pre \in Seq(Hook) /\ Len(base.pre) \in Nat
  BY <1>1 DEF Config
<1>4. I \in SUBSET Nat /\ (I # {} => Min(I) \in I)
  <2>1. I \in SUBSET Nat
    BY <1>3
  <2> HIDE DEF I
  <2> QED BY <2>1, LeastExists
<1>5. mine = 0 \/ mine \in 1..Len(base.pre)
  BY <1>4
<1> HIDE DEF base, I, mine
<1>6. pre \in Seq(Hook) /\ \E i \in DOMAIN pre : pre[i] = GuardEntry(a)
  <2>1. CASE mine = 0
    <3>1. pre = Append(base.pre, GuardEntry(a))
      BY <2>1
    <3> QED BY <1>3, <3>1, GuardEntryIsHook, AppendProperties, LenProperties
  <2>2. CASE mine # 0
    <3>1. pre = [base.pre EXCEPT ![mine] = GuardEntry(a)] /\ mine \in DOMAIN base.pre
      BY <1>3, <1>5, <2>2, LenProperties
    <3> QED BY <1>3, <3>1, GuardEntryIsHook, ExceptSeq
  <2> QED BY <2>1, <2>2
<1> HIDE DEF pre
<1>7. [base EXCEPT !.pre = pre] \in Config /\ [base EXCEPT !.pre = pre].pre = pre
  BY <1>1, <1>6 DEF Config
<1>8. GuardEntry(a) \in ToSet(pre)
  BY <1>6 DEF ToSet
<1> QED BY <1>2, <1>7, <1>8, GuardEntryIsHook DEF Guards

\* Installing a server keeps the hooks.
LEMMA PatchKeeps ==
  ASSUME NEW c \in Config \cup {Absent}, NEW server \in Server \cup {Absent}
  PROVE  /\ PatchServer(c, server) \in Config /\ PatchServer(c, server).server = server
         /\ Guards(c) => Guards(PatchServer(c, server))
<1>1. ParsesAs(c) \in Config /\ (c # Absent => ParsesAs(c) = c)
  BY ConfigAssumption DEF ParsesAs, EmptyConfig, Config
<1>2. PatchServer(c, server) \in Config /\ PatchServer(c, server).server = server
      /\ PatchServer(c, server).pre = ParsesAs(c).pre
  BY <1>1 DEF PatchServer, Config
<1>3. Guards(c) => c # Absent
  BY ConfigAssumption DEF Guards
<1> QED BY <1>1, <1>2, <1>3 DEF Guards

\* What an editor leaves is a config, or broken.
LEMMA EditedIsConfig ==
  ASSUME NEW c \in Config \cup {Absent, Broken}, NEW d \in Edited(c)
  PROVE  d \in Config \cup {Broken}
<1> DEFINE base == IF c = Broken THEN EmptyConfig ELSE ParsesAs(c)
<1>1. base \in Config
  BY ConfigAssumption DEF ParsesAs, EmptyConfig, Config
<1>2. base.pre \in Seq(Hook) /\ OwnHook \in Hook /\ Advisory \in Hook /\ AuditHook \in Hook
  BY <1>1 DEF Config, Hook, OwnHook, Advisory, AuditHook, Tool
<1>3. <<OwnHook>> \o base.pre \in Seq(Hook) /\ <<Advisory>> \in Seq(Hook) /\ <<AuditHook>> \in Seq(Hook)
  BY <1>2, ConcatProperties
<1> DEFINE D == {Broken, [base EXCEPT !.pre = <<OwnHook>> \o @], [base EXCEPT !.pre = <<Advisory>>],
                 [base EXCEPT !.other = <<AuditHook>>], [base EXCEPT !.server = Absent]}
           U == IF base.server = Absent THEN {} ELSE {WithUrl(base, url) : url \in {Absent, "elsewhere"}}
<1>a. d \in D \cup U
  BY Zenon DEF Edited
<1> HIDE DEF base
<1>b. d \in U => base.server # Absent /\ \E u \in {Absent, "elsewhere"} : d = WithUrl(base, u)
  BY DEF U
<1>4. d \in D \/ (base.server # Absent /\ \E u \in {Absent, "elsewhere"} : d = WithUrl(base, u))
  <2> HIDE DEF D, U
  <2> QED BY <1>a, <1>b
<1>5. ASSUME base.server # Absent, NEW u \in {Absent, "elsewhere"}
      PROVE  WithUrl(base, u) \in Config
  <2>1. base.server \in Server
    BY <1>1, <1>5 DEF Config
  <2>2. [base.server.env EXCEPT !.url = u] \in ServerEnv
    <3>1. base.server.env \in ServerEnv
      BY <2>1 DEF Server
    <3>2. u \in Url \cup {Absent}
      BY SetupAssumption
    <3> QED BY <3>1, <3>2 DEF ServerEnv
  <2>3. [base.server EXCEPT !.env = [base.server.env EXCEPT !.url = u]] \in Server
    BY <2>1, <2>2 DEF Server
  <2>4. [base EXCEPT !.server = [base.server EXCEPT !.env = [base.server.env EXCEPT !.url = u]]] \in Config
    BY <1>1, <2>3 DEF Config
  <2>5. WithUrl(base, u)
          = [base EXCEPT !.server = [base.server EXCEPT !.env = [base.server.env EXCEPT !.url = u]]]
    BY DEF WithUrl
  <2> QED BY <2>4, <2>5
<1>6. CASE d = Broken
  BY <1>6
<1>7. CASE d = [base EXCEPT !.pre = <<OwnHook>> \o base.pre]
  BY <1>1, <1>3, <1>7 DEF Config
<1>8. CASE d = [base EXCEPT !.pre = <<Advisory>>]
  BY <1>1, <1>3, <1>8 DEF Config
<1>9. CASE d = [base EXCEPT !.other = <<AuditHook>>]
  BY <1>1, <1>3, <1>9 DEF Config
<1>10. CASE d = [base EXCEPT !.server = Absent]
  BY <1>1, <1>10 DEF Config
<1>c. d \in D => \/ d = Broken \/ d = [base EXCEPT !.pre = <<OwnHook>> \o @]
                 \/ d = [base EXCEPT !.pre = <<Advisory>>] \/ d = [base EXCEPT !.other = <<AuditHook>>]
                 \/ d = [base EXCEPT !.server = Absent]
  BY Zenon DEF D
<1> QED
  <2> HIDE DEF D
  <2> QED BY <1>4, <1>c, <1>5, <1>6, <1>7, <1>8, <1>9, <1>10, Zenon
-----------------------------------------------------------------------------
(* What the variables hold.                                                *)

OptLevel == Nat \cup {Absent}
Grants == [Agent -> OptLevel]

DiskTyped(d) ==
  /\ d = [f \in File |-> d[f]]
  /\ d[ActiveFile] # Absent => d[ActiveFile] \subseteq Agent
  /\ d[RegistryFile] # Absent => d[RegistryFile] \in Grants
  /\ \A a \in Agent : d[GrantFile(a)] \in OptLevel
  /\ d[EnvFile] # Absent => d[EnvFile] \in ServerEnv

ConfTyped(c) == c \in [ConfigFile -> Config \cup {Absent, Broken}]

OpFields == {"cmd", "a", "todo", "undo", "arg", "reg", "act", "copy", "env", "server", "ok",
             "raced", "hung", "rest", "agents"}
Shaped(o) == o = [x \in OpFields |-> o[x]]

ArgOK(cmd, arg) ==
  /\ cmd = "init" => arg \in InitArgs
  /\ cmd = "add" => arg \in AddArgs
  /\ cmd = "install" => arg \in InstallArgs
  /\ cmd = "doctor" => arg \in DoctorArgs
  /\ cmd = "source" => arg \in [write : BOOLEAN]

OpTyped(o) ==
  /\ Shaped(o)
  /\ o.cmd \in {"init", "add", "install", "doctor", "source"} /\ o.a \in Agent
  /\ ArgOK(o.cmd, o.arg)
  /\ o.cmd = "source" => o.a = "local"
  /\ o.cmd \in {"add", "install", "doctor"} => o.a # "local"
  /\ o.undo \subseteq File /\ o.reg \in Grants /\ o.act \subseteq Agent
  /\ o.copy \in Config \cup {Absent} /\ o.server \in Server \cup {Absent}
  /\ o.env \in ServerEnv \cup {Absent}
  /\ o.rest \in Seq(Agent \ {"local"}) /\ (o.cmd # "doctor" => o.rest = <<>>)
  /\ o.hung => o.cmd = "doctor"

Planned(o) == Plan(o.cmd, o.a, o.todo)

Typed ==
  /\ DiskTyped(disk) /\ ConfTyped(conf)
  /\ op # Idle => OpTyped(op) /\ Planned(op)

Left(o) == ToSet(o.todo)

\* The same command, further on.
Same(n, o) == Shaped(n) /\ \A x \in OpFields \ {"todo"} : n[x] = o[x]

LEMMA AdvanceIs ==
  ASSUME NEW o, Shaped(o)
  PROVE  \/ Tail(o.todo) = <<>> /\ Advance(o) = Idle
         \/ Tail(o.todo) # <<>> /\ Same(Advance(o), o) /\ Advance(o).todo = Tail(o.todo)
<1>1. CASE Tail(o.todo) = <<>>
  BY <1>1 DEF Advance
<1>2. CASE Tail(o.todo) # <<>>
  <2>1. Advance(o) = [o EXCEPT !.todo = Tail(o.todo)]
    BY <1>2 DEF Advance
  <2> QED BY <1>2, <2>1 DEF Same, Shaped, OpFields
<1> QED BY <1>1, <1>2

LEMMA SameTyped ==
  ASSUME NEW o, NEW n, OpTyped(o), Same(n, o)
  PROVE  OpTyped(n)
<1>1. /\ n.cmd = o.cmd /\ n.a = o.a /\ n.arg = o.arg /\ n.undo = o.undo /\ n.reg = o.reg
      /\ n.act = o.act /\ n.copy = o.copy /\ n.env = o.env /\ n.server = o.server
      /\ n.rest = o.rest /\ n.hung = o.hung /\ Shaped(n)
  BY DEF Same, OpFields
<1> QED BY <1>1 DEF OpTyped

LEMMA AdvanceTyped ==
  ASSUME NEW o, OpTyped(o), Planned(o), Advance(o) # Idle
  PROVE  OpTyped(Advance(o)) /\ Planned(Advance(o))
<1>1. Tail(o.todo) # <<>> /\ Same(Advance(o), o) /\ Advance(o).todo = Tail(o.todo)
  BY AdvanceIs DEF OpTyped
<1>2. Advance(o).cmd = o.cmd /\ Advance(o).a = o.a
  BY <1>1 DEF Same, OpFields
<1> QED BY <1>1, <1>2, SameTyped, RestIsPlan DEF Planned

LEMMA AdvanceLeft ==
  ASSUME NEW o, OpTyped(o), Planned(o)
  PROVE  /\ Advance(o) # Idle => Same(Advance(o), o) /\ Left(Advance(o)) = Left(o) \ {Head(o.todo)}
         /\ Advance(o) = Idle => Left(o) \ {Head(o.todo)} = {} \/ Shaped(Idle)
<1>1. ToSet(Tail(o.todo)) = Left(o) \ {Head(o.todo)} /\ Tail(o.todo) \in Seq(Steps)
  BY HeadIsFirst DEF Planned, Plan, Left
<1>2. Tail(o.todo) # <<>> <=> ToSet(Tail(o.todo)) # {}
  <2> DEFINE t == Tail(o.todo)
  <2>1. t \in Seq(Steps)
    BY <1>1
  <2> HIDE DEF t
  <2>2. t # <<>> => 1 \in DOMAIN t
    BY <2>1, EmptySeq, LenProperties
  <2>3. t # <<>> => ToSet(t) # {}
    BY <2>2 DEF ToSet
  <2>4. ToSet(<<>>) = {}
    BY DEF ToSet
  <2> QED BY <2>3, <2>4 DEF t
<1>3. \/ Tail(o.todo) = <<>> /\ Advance(o) = Idle
      \/ Tail(o.todo) # <<>> /\ Same(Advance(o), o) /\ Advance(o).todo = Tail(o.todo)
  BY AdvanceIs DEF OpTyped
<1>4. Same(Advance(o), o) => Shaped(Advance(o))
  BY DEF Same
<1> QED BY <1>1, <1>2, <1>3, <1>4 DEF Left

LEMMA SameFields ==
  ASSUME NEW n, NEW o, Same(n, o)
  PROVE  /\ n.cmd = o.cmd /\ n.a = o.a /\ n.arg = o.arg /\ n.undo = o.undo /\ n.reg = o.reg
         /\ n.act = o.act /\ n.copy = o.copy /\ n.env = o.env /\ n.server = o.server /\ n.ok = o.ok
         /\ n.raced = o.raced /\ n.hung = o.hung /\ n.rest = o.rest /\ n.agents = o.agents
BY DEF Same, OpFields

\* The command goes on with o: itself, or itself revised.
Forward(o) ==
  /\ op' = Advance(o) /\ OpTyped(o) /\ Planned(o)
  /\ o.cmd = op.cmd /\ o.a = op.a /\ o.todo = op.todo /\ o.arg = op.arg /\ o.rest = op.rest
  /\ o.raced = op.raced /\ o.agents = op.agents

LEMMA ForwardIs ==
  ASSUME NEW o, Forward(o)
  PROVE  \/ op' = Idle /\ (Left(op) = {Head(op.todo)} \/ Shaped(Idle))
         \/ /\ op' # Idle /\ OpTyped(op') /\ Planned(op') /\ Same(op', o)
            /\ op'.cmd = op.cmd /\ op'.a = op.a /\ op'.arg = op.arg /\ op'.rest = op.rest
            /\ op'.raced = op.raced /\ op'.agents = op.agents
            /\ op'.undo = o.undo /\ op'.copy = o.copy /\ op'.server = o.server /\ op'.env = o.env
            /\ op'.ok = o.ok
            /\ Left(op)' = Left(op) \ {Head(op.todo)}
<1>1. Left(o) = Left(op) /\ Head(o.todo) = Head(op.todo) /\ Head(o.todo) \in Left(o)
  BY HeadIsFirst DEF Forward, Left, Planned, Plan
<1>2. CASE op' = Idle
  <2>1. Left(o) \ {Head(o.todo)} = {} \/ Shaped(Idle)
    BY <1>2, AdvanceLeft DEF Forward
  <2> QED BY <1>1, <1>2, <2>1
<1>3. CASE op' # Idle
  <2>1. Same(op', o) /\ OpTyped(op') /\ Planned(op') /\ Left(op') = Left(o) \ {Head(o.todo)}
    BY <1>3, AdvanceLeft, AdvanceTyped DEF Forward
  <2>2. Left(op)' = Left(op')
    BY DEF Left
  <2> QED BY <1>1, <1>3, <2>1, <2>2, SameFields DEF Forward
<1> QED BY <1>2, <1>3

LEMMA ForwardTyped ==
  ASSUME NEW o, Forward(o), DiskTyped(disk'), ConfTyped(conf')
  PROVE  Typed'
BY ForwardIs DEF Typed

LEMMA ForwardSelf ==
  ASSUME OpTyped(op), Planned(op), op' = Advance(op)
  PROVE  Forward(op)
BY DEF Forward

\* Giving up skips a step or two.
LEMMA GiveUpIs ==
  ASSUME NEW n \in {1, 2}, OpTyped(op), Planned(op), GiveUp(n) # Idle
  PROVE  /\ OpTyped(GiveUp(n)) /\ Planned(GiveUp(n)) /\ GiveUp(n).undo = op.undo
         /\ GiveUp(n).cmd = op.cmd /\ GiveUp(n).a = op.a /\ GiveUp(n).arg = op.arg
         /\ GiveUp(n).copy = op.copy
         /\ Left(GiveUp(n)) \subseteq Left(op)
         /\ n = 1 => Left(GiveUp(n)) = Left(op) \ {Head(op.todo)}
         /\ n = 2 => /\ Left(GiveUp(n)) = Left(op) \ {Head(op.todo), Head(Tail(op.todo))}
                     /\ Plan(op.cmd, op.a, Tail(op.todo))
<1> DEFINE s == op.todo
           t == SubSeq(s, n + 1, Len(s))
<1>1. s \in Seq(Steps) /\ s # <<>> /\ Len(s) \in Nat
  BY DEF Planned, Plan
<1>2. Len(s) > n /\ GiveUp(n) = [op EXCEPT !.ok = FALSE, !.todo = t]
  BY <1>1 DEF GiveUp
<1> HIDE DEF t
<1>3. /\ Shaped(GiveUp(n)) /\ GiveUp(n).todo = t
      /\ \A x \in OpFields \ {"todo", "ok"} : GiveUp(n)[x] = op[x]
  <2>1. Shaped(op)
    BY DEF OpTyped
  <2> QED BY <1>2, <2>1 DEF Shaped, OpFields
<1>4. /\ GiveUp(n).cmd = op.cmd /\ GiveUp(n).a = op.a /\ GiveUp(n).arg = op.arg
      /\ GiveUp(n).undo = op.undo /\ GiveUp(n).reg = op.reg /\ GiveUp(n).act = op.act
      /\ GiveUp(n).copy = op.copy /\ GiveUp(n).env = op.env /\ GiveUp(n).server = op.server
      /\ GiveUp(n).rest = op.rest /\ GiveUp(n).hung = op.hung
  BY <1>3 DEF OpFields
<1>5. OpTyped(GiveUp(n))
  BY <1>3, <1>4 DEF OpTyped
<1>6. Tail(s) \in Seq(Steps) /\ Len(Tail(s)) = Len(s) - 1
      /\ \A i \in 1..(Len(s) - 1) : Tail(s)[i] = s[i + 1]
  BY <1>1, HeadTailProperties
<1>7. CASE n = 1
  <2>1. t = Tail(s)
    <3>1. t \in Seq(Steps) /\ Len(t) = Len(s) - 1 /\ \A i \in 1..(Len(s) - 1) : t[i] = s[i + 1]
      BY <1>1, <1>2, <1>7, SubSeqProperties DEF t
    <3>2. Len(t) = Len(Tail(s)) /\ \A i \in 1..Len(t) : t[i] = Tail(s)[i]
      BY <1>6, <3>1
    <3>3. t \in Seq(Steps) /\ Tail(s) \in Seq(Steps)
      BY <1>6, <3>1
    <3> HIDE DEF s
    <3> QED BY <3>2, <3>3, SeqEqual
  <2>2. Tail(s) # <<>>
    BY <1>2, <1>6, <1>7
  <2>3. Planned(GiveUp(n))
    BY <1>3, <1>4, <2>1, <2>2, RestIsPlan DEF Planned
  <2>4. Left(GiveUp(n)) = Left(op) \ {Head(op.todo)}
    BY <1>3, <2>1, HeadIsFirst DEF Left, Planned, Plan
  <2> QED BY <1>4, <1>5, <1>7, <2>3, <2>4
<1>8. CASE n = 2
  <2> DEFINE u == Tail(s)
             v == Tail(u)
  <2>a. u \in Seq(Steps) /\ Len(u) = Len(s) - 1 /\ Len(s) > 2
        /\ \A i \in 1..(Len(s) - 1) : u[i] = s[i + 1]
    BY <1>2, <1>6, <1>8
  <2> HIDE DEF u
  <2>1. u # <<>>
    BY <1>1, <2>a
  <2>b. /\ v \in Seq(Steps) /\ Len(v) = Len(u) - 1 /\ \A i \in 1..(Len(u) - 1) : v[i] = u[i + 1]
    BY <2>a, <2>1, HeadTailProperties
  <2> HIDE DEF v
  <2>2. Len(v) = Len(s) - 2 /\ \A i \in 1..(Len(s) - 2) : v[i] = s[i + 2]
    BY <1>1, <2>a, <2>b
  <2>3. t = v
    <3>1. t \in Seq(Steps) /\ Len(t) = Len(s) - 2 /\ \A i \in 1..(Len(s) - 2) : t[i] = s[i + 2]
      BY <1>1, <1>2, <1>8, SubSeqProperties DEF t
    <3>2. Len(t) = Len(v) /\ \A i \in 1..Len(t) : t[i] = v[i]
      BY <1>1, <2>2, <3>1
    <3> QED BY <2>b, <3>1, <3>2, SeqEqual
  <2>4. v # <<>>
    BY <1>1, <2>a, <2>2
  <2>5. Plan(op.cmd, op.a, u)
    BY <2>1, RestIsPlan DEF Planned, u
  <2>6. Plan(op.cmd, op.a, v)
    BY <2>4, <2>5, RestIsPlan DEF v
  <2>7. ToSet(u) = ToSet(s) \ {Head(s)} /\ ToSet(v) = ToSet(u) \ {Head(u)}
    BY <2>5, HeadIsFirst DEF Planned, Plan, u, v
  <2>8. Left(GiveUp(n)) = Left(op) \ {Head(s), Head(u)}
    BY <1>3, <2>3, <2>7 DEF Left
  <2>9. Planned(GiveUp(n))
    BY <1>3, <1>4, <2>3, <2>6 DEF Planned
  <2>10. Left(GiveUp(n)) \subseteq Left(op)
    BY <2>8
  <2>11. Plan(op.cmd, op.a, Tail(op.todo)) /\ Left(GiveUp(n)) = Left(op) \ {Head(op.todo), Head(Tail(op.todo))}
    BY <2>5, <2>8 DEF u
  <2>12. n # 1
    BY <1>8
  <2> QED BY <1>4, <1>5, <2>9, <2>10, <2>11, <2>12, Zenon
<1> QED BY <1>7, <1>8
-----------------------------------------------------------------------------
(* Commands begin well formed.                                             *)

Started(c, cmd, a, todo, arg, rest) ==
  /\ Shaped(c)
  /\ c.cmd = cmd /\ c.a = a /\ c.todo = todo /\ c.undo = {} /\ c.arg = arg /\ c.reg = Registry
  /\ c.act = Active /\ c.copy = Absent /\ c.env = Absent /\ c.server = Absent /\ c.ok = TRUE
  /\ c.raced = FALSE /\ c.hung = FALSE /\ c.rest = rest /\ c.agents = {}

LEMMA CommandIs ==
  ASSUME NEW cmd, NEW a, NEW todo, NEW arg, NEW rest
  PROVE  /\ Started([Command(cmd, a, todo) EXCEPT !.arg = arg], cmd, a, todo, arg, <<>>)
         /\ Started([Command(cmd, a, todo) EXCEPT !.arg = arg, !.rest = rest], cmd, a, todo, arg, rest)
BY DEF Command, Started, Shaped, OpFields

LEMMA RegistryTyped ==
  ASSUME DiskTyped(disk)
  PROVE  Registry \in Grants /\ Active \in SUBSET Agent
BY DEF DiskTyped, Registry, NoRegistry, Active, Exists, Grants, OptLevel

LEMMA StartedTyped ==
  ASSUME Typed, NEW c, NEW cmd \in {"init", "add", "install", "doctor", "source"},
         NEW a \in Agent, NEW todo, NEW arg, NEW rest \in Seq(Agent \ {"local"}),
         Started(c, cmd, a, todo, arg, rest), ArgOK(cmd, arg), Plan(cmd, a, todo),
         cmd # "doctor" => rest = <<>>, cmd = "source" => a = "local",
         cmd \in {"add", "install", "doctor"} => a # "local"
  PROVE  OpTyped(c) /\ Planned(c)
<1>1. Registry \in Grants /\ Active \in SUBSET Agent
  BY RegistryTyped DEF Typed
<1> QED BY <1>1 DEF Started, OpTyped, Planned

\* The command of each way to start.
Starts(c) ==
  \/ \E arg \in InitArgs : /\ InitAdmits(arg.a, arg.ident, arg.force)
                           /\ Started(c, "init", arg.a, InitSteps(arg), arg, <<>>)
  \/ \E arg \in AddArgs : /\ SharedStore /\ AddAdmits(arg.a)
                          /\ Started(c, "add", arg.a, AddPlanOf(arg.a), arg, <<>>)
  \/ \E arg \in InstallArgs :
       Started(c, "install", arg.a, <<"wrapper", "mcpread", "mcpwrite">>, arg, <<>>)
  \/ \E arg \in DoctorArgs :
       /\ arg.repair => Exists(TrustFile) /\ Exists(GrantFile(Head(arg.agents)))
       /\ Started(c, "doctor", Head(arg.agents), DoctorPlanOf(arg), arg, Tail(arg.agents))
  \/ \E write \in BOOLEAN : /\ "local" \in Agent
                           /\ Started(c, "source", "local", SourceSteps, [write |-> write], <<>>)

LEMMA StartIs ==
  ASSUME Start
  PROVE  Begin(op') /\ Starts(op') /\ op = Idle
<1>1. ASSUME NEW arg \in InitArgs, InitProject(arg) PROVE Begin(op') /\ Starts(op') /\ op = Idle
  BY <1>1, CommandIs DEF InitProject, Begin, Starts
<1>2. ASSUME NEW arg \in AddArgs, AgentAdd(arg) PROVE Begin(op') /\ Starts(op') /\ op = Idle
  BY <1>2, CommandIs DEF AgentAdd, Begin, Starts, AddPlanOf
<1>3. ASSUME NEW arg \in InstallArgs, McpInstall(arg) PROVE Begin(op') /\ Starts(op') /\ op = Idle
  BY <1>3, CommandIs DEF McpInstall, Begin, Starts
<1>4. ASSUME NEW arg \in DoctorArgs, Doctor(arg) PROVE Begin(op') /\ Starts(op') /\ op = Idle
  BY <1>4, CommandIs DEF Doctor, Begin, Starts, DoctorPlanOf
<1>5. ASSUME NEW write \in BOOLEAN, DoctorSource(write) PROVE Begin(op') /\ Starts(op') /\ op = Idle
  BY <1>5, CommandIs DEF DoctorSource, Begin, Starts
<1> QED BY <1>1, <1>2, <1>3, <1>4, <1>5 DEF Start

LEMMA StartTyped ==
  ASSUME Typed, Start
  PROVE  Typed'
<1>1. Begin(op') /\ Starts(op')
  BY StartIs
<1>2. UNCHANGED <<disk, conf>>
  BY <1>1 DEF Begin, world
<1>3. ASSUME NEW arg \in InitArgs, Started(op', "init", arg.a, InitSteps(arg), arg, <<>>)
      PROVE  OpTyped(op') /\ Planned(op')
  <2>1. arg.a \in Agent /\ ArgOK("init", arg) /\ <<>> \in Seq(Agent \ {"local"})
    BY ArgsAssumption DEF ArgOK
  <2> QED BY <1>3, <2>1, InitPlan, StartedTyped
<1>4. ASSUME NEW arg \in AddArgs, AddAdmits(arg.a),
             Started(op', "add", arg.a, AddPlanOf(arg.a), arg, <<>>)
      PROVE  OpTyped(op') /\ Planned(op')
  <2>1. arg.a \in Agent \ {"local"} /\ ArgOK("add", arg) /\ <<>> \in Seq(Agent \ {"local"})
    BY ArgsAssumption DEF ArgOK
  <2> QED BY <1>4, <2>1, AddPlan, StartedTyped
<1>5. ASSUME NEW arg \in InstallArgs,
             Started(op', "install", arg.a, <<"wrapper", "mcpread", "mcpwrite">>, arg, <<>>)
      PROVE  OpTyped(op') /\ Planned(op')
  <2>1. arg.a \in Agent \ {"local"} /\ ArgOK("install", arg) /\ <<>> \in Seq(Agent \ {"local"})
    BY ArgsAssumption DEF ArgOK
  <2>2. Plan("install", arg.a, <<"wrapper", "mcpread", "mcpwrite">>)
    BY <2>1, InstallPlan
  <2> QED BY <1>5, <2>1, <2>2, StartedTyped
<1>6. ASSUME NEW arg \in DoctorArgs,
             Started(op', "doctor", Head(arg.agents), DoctorPlanOf(arg), arg, Tail(arg.agents))
      PROVE  OpTyped(op') /\ Planned(op')
  <2>1. arg.agents \in Seq(Agent \ {"local"}) /\ arg.agents # <<>> /\ ArgOK("doctor", arg)
    BY ArgsAssumption DEF ArgOK
  <2>2. Head(arg.agents) \in Agent \ {"local"} /\ Tail(arg.agents) \in Seq(Agent \ {"local"})
    BY <2>1, HeadTailProperties
  <2>3. Plan("doctor", Head(arg.agents), DoctorPlanOf(arg))
    BY <2>2, DoctorPlan
  <2> QED BY <1>6, <2>1, <2>2, <2>3, StartedTyped
<1>7. ASSUME NEW write \in BOOLEAN,
             Started(op', "source", "local", SourceSteps, [write |-> write], <<>>), "local" \in Agent
      PROVE  OpTyped(op') /\ Planned(op')
  <2>1. ArgOK("source", [write |-> write]) /\ <<>> \in Seq(Agent \ {"local"})
    BY DEF ArgOK
  <2>2. Plan("source", "local", SourceSteps)
    BY SourcePlan
  <2> QED BY <1>7, <2>1, <2>2, StartedTyped
<1>8. OpTyped(op') /\ Planned(op')
  BY <1>1, <1>3, <1>4, <1>5, <1>6, <1>7 DEF Starts
<1> QED BY <1>2, <1>8 DEF Typed
-----------------------------------------------------------------------------
(* Every step keeps the types.                                             *)

WrittenSteps == {"registry", "key", "trust", "grant", "active", "idenv", "env"}

\* A step under way is one of its command's.
LEMMA AtIs ==
  ASSUME Typed, NEW steps, At(steps)
  PROVE  /\ op # Idle /\ OpTyped(op) /\ Planned(op) /\ Head(op.todo) \in steps
         /\ Head(op.todo) \in Left(op) /\ Left(op) \subseteq StepsOf(op.cmd)
         /\ Head(op.todo) \in StepsOf(op.cmd)
         /\ \A x \in Left(op) : x \in Steps /\ RankOf(op.cmd, Head(op.todo)) <= RankOf(op.cmd, x)
         /\ Closed(op.cmd, op.a, Left(op))
<1>1. op # Idle /\ OpTyped(op) /\ Planned(op) /\ Head(op.todo) \in steps
  BY DEF At, Typed
<1>2. /\ Head(op.todo) \in Left(op)
      /\ \A x \in Left(op) : x \in Steps /\ RankOf(op.cmd, Head(op.todo)) <= RankOf(op.cmd, x)
  BY <1>1, HeadIsFirst DEF Planned, Plan, Left
<1> QED BY <1>1, <1>2 DEF Planned, Plan, Closed, Left

LEMMA FilesTyped ==
  ASSUME NEW a \in Agent
  PROVE  {EnvFile, TrustFile, ActiveFile, RegistryFile, WrapperFile, KeyFile(a), GrantFile(a),
          IdEnvFile(a)} \subseteq File
BY DEF File

\* A file written with what it may hold.
LEMMA DiskWrite ==
  ASSUME NEW d, DiskTyped(d), NEW f \in File, NEW v,
         f = ActiveFile => v \in SUBSET Agent,
         f = RegistryFile => v \in Grants,
         \A a \in Agent : f = GrantFile(a) => v \in OptLevel,
         f = EnvFile => v \in ServerEnv
  PROVE  DiskTyped([d EXCEPT ![f] = v])
<1> DEFINE e == [d EXCEPT ![f] = v]
<1>1. e = [g \in File |-> e[g]] /\ \A g \in File : e[g] = IF g = f THEN v ELSE d[g]
  BY DEF DiskTyped
<1> HIDE DEF e
<1>2. ActiveFile \in File /\ RegistryFile \in File /\ EnvFile \in File
      /\ \A a \in Agent : GrantFile(a) \in File
  BY DEF File
<1>3. DiskTyped(e)
  BY <1>1, <1>2 DEF DiskTyped
<1> QED BY <1>3 DEF e

LEMMA FilesDiffer ==
  ASSUME NEW a, NEW b
  PROVE  /\ KeyFile(a) \notin {EnvFile, TrustFile, ActiveFile, RegistryFile, WrapperFile, GrantFile(b), IdEnvFile(b)}
         /\ GrantFile(a) \notin {EnvFile, TrustFile, ActiveFile, RegistryFile, WrapperFile, IdEnvFile(b)}
         /\ IdEnvFile(a) \notin {EnvFile, TrustFile, ActiveFile, RegistryFile, WrapperFile}
         /\ EnvFile \notin {TrustFile, ActiveFile, RegistryFile, WrapperFile}
         /\ TrustFile \notin {ActiveFile, RegistryFile, WrapperFile}
         /\ ActiveFile \notin {RegistryFile, WrapperFile} /\ RegistryFile # WrapperFile
         /\ a # b => KeyFile(a) # KeyFile(b) /\ GrantFile(a) # GrantFile(b) /\ IdEnvFile(a) # IdEnvFile(b)
BY DEF KeyFile, GrantFile, IdEnvFile, EnvFile, TrustFile, ActiveFile, RegistryFile, WrapperFile

LEMMA FileOfIs ==
  ASSUME NEW step \in WrittenSteps
  PROVE  /\ step = "key" => FileOf(step) = KeyFile(op.a)
         /\ step = "grant" => FileOf(step) = GrantFile(op.a)
         /\ step = "idenv" => FileOf(step) = IdEnvFile(op.a)
         /\ step = "trust" => FileOf(step) = TrustFile
         /\ step = "active" => FileOf(step) = ActiveFile
         /\ step = "env" => FileOf(step) = EnvFile
         /\ step = "registry" => FileOf(step) = RegistryFile
BY DEF FileOf, KeyFile, GrantFile, IdEnvFile, TrustFile, ActiveFile, EnvFile, RegistryFile

\* The ceiling agent add saves is a level.
LEMMA CeilingTyped ==
  ASSUME Typed, OpTyped(op), op.cmd = "add"
  PROVE  Ceiling \in OptLevel
<1>1. op.arg.level \in Level \cup {Absent} /\ op.reg[op.a] \in OptLevel /\ disk[GrantFile(op.a)] \in OptLevel
  BY ArgsAssumption DEF OpTyped, ArgOK, Typed, DiskTyped, Grants
<1>2. Level \subseteq Nat
  BY SetupAssumption
<1> QED BY <1>1, <1>2 DEF Ceiling, OptLevel

\* What a step writes is what its file may hold, and is something.
LEMMA ContentsTyped ==
  ASSUME Typed, OpTyped(op), NEW step \in WrittenSteps, step \in StepsOf(op.cmd)
  PROVE  /\ step = "registry" => Contents(step) \in Grants
         /\ step = "grant" => Contents(step) \in Nat
         /\ step = "active" => Contents(step) \in SUBSET Agent
         /\ step = "env" => Contents(step) \in ServerEnv /\ Contents(step).ident \in {Absent, op.a}
                            /\ (Contents(step).ident # Absent => op.arg.ident /\ op.cmd = "init")
         /\ step \in {"key", "trust", "idenv"} => Contents(step) = TRUE
<1>1. CASE step = "registry"
  <2>1. op.cmd \in {"init", "add"}
    BY <1>1 DEF OpTyped, StepsOf, BundleStep, RepairStep, DoctorStep, SourceStep
  <2>2. Registry \in Grants /\ op.reg \in Grants /\ op.a \in Agent
    BY RegistryTyped DEF Typed, OpTyped
  <2>3. CASE op.cmd = "init"
    <3>1. Contents(step) = [Registry EXCEPT ![op.a] = op.arg.level]
      BY <1>1, <2>3 DEF Contents
    <3>2. op.arg.level \in OptLevel
      BY <2>3, ArgsAssumption, SetupAssumption DEF OpTyped, ArgOK, OptLevel
    <3> QED BY <1>1, <2>2, <3>1, <3>2 DEF Grants
  <2>4. CASE op.cmd # "init"
    <3>1. Contents(step) = [op.reg EXCEPT ![op.a] = Ceiling]
      BY <1>1, <2>4 DEF Contents
    <3>2. Ceiling \in OptLevel
      BY <2>1, <2>4, CeilingTyped
    <3> QED BY <1>1, <2>2, <3>1, <3>2 DEF Grants
  <2> QED BY <2>3, <2>4
<1>2. CASE step = "grant"
  <2>1. op.cmd \in {"init", "add"}
    BY <1>2 DEF OpTyped, StepsOf, BundleStep, RepairStep, DoctorStep, SourceStep
  <2>2. op.arg.level \in Level \cup {Absent}
    BY <2>1, ArgsAssumption DEF OpTyped, ArgOK
  <2>3. Contents(step) = IF op.arg.level = Absent THEN High ELSE op.arg.level
    BY <1>2 DEF Contents
  <2>4. Level \subseteq Nat /\ High \in Nat
    BY SetupAssumption DEF High
  <2> QED BY <1>2, <2>2, <2>3, <2>4
<1>3. CASE step = "active"
  BY <1>3 DEF Contents, OpTyped
<1>4. CASE step = "env"
  <2>1. op.cmd = "init"
    BY <1>4 DEF OpTyped, StepsOf, BundleStep, RepairStep, DoctorStep, SourceStep
  <2>2. op.arg.url \in Url \cup {Absent} /\ op.arg.a \in AgentName /\ op.a \in AgentName
    BY <2>1, ArgsAssumption, SetupAssumption DEF OpTyped, ArgOK
  <2>3. Contents(step) = [url |-> InitStore(op.arg).url, log |-> InitStore(op.arg).log,
                          ident |-> IF op.a = "local" /\ op.arg.ident THEN op.a ELSE Absent]
    BY <1>4 DEF Contents
  <2>4. InitStore(op.arg).url = op.arg.url /\ InitStore(op.arg).log \in AgentName \cup {Absent}
    BY <2>2 DEF InitStore
  <2>5. Contents(step) \in ServerEnv
    BY <2>2, <2>3, <2>4 DEF ServerEnv
  <2>6. Contents(step).ident = IF op.a = "local" /\ op.arg.ident THEN op.a ELSE Absent
    BY <2>3
  <2> QED BY <1>4, <2>1, <2>5, <2>6
<1>5. CASE step \in {"key", "trust", "idenv"}
  BY <1>5 DEF Contents
<1> QED BY <1>1, <1>2, <1>3, <1>4, <1>5 DEF WrittenSteps

LEMMA WriteFileIs ==
  ASSUME Typed, WriteFile
  PROVE  /\ Head(op.todo) \in WrittenSteps /\ FileOf(Head(op.todo)) \in File /\ Typed'
         /\ \E o : /\ Forward(o) /\ o.copy = op.copy /\ o.server = op.server /\ o.ok = op.ok
                   /\ o.undo = IF /\ Head(op.todo) # "registry" /\ "commit" \in Left(op)
                                  /\ disk[FileOf(Head(op.todo))] = Absent
                               THEN op.undo \cup {FileOf(Head(op.todo))} ELSE op.undo
<1> DEFINE step == Head(op.todo)
           recorded == /\ step # "registry" /\ "commit" \in ToSet(op.todo) /\ ~Exists(FileOf(step))
           undo == IF recorded THEN op.undo \cup {FileOf(step)} ELSE op.undo
           o == [op EXCEPT !.undo = undo]
<1>1. At(WrittenSteps) /\ step \in WrittenSteps
  BY DEF WriteFile, At, WrittenSteps
<1>2. OpTyped(op) /\ Planned(op) /\ step \in StepsOf(op.cmd)
  BY <1>1, AtIs
<1>3. disk' = [disk EXCEPT ![FileOf(step)] = Contents(step)] /\ op' = Advance(o) /\ UNCHANGED conf
  BY DEF WriteFile
<1> HIDE DEF step
<1>4. FileOf(step) \in File
  <2>1. op.a \in Agent
    BY <1>2 DEF OpTyped
  <2> QED BY <1>1, <2>1, FileOfIs, FilesTyped DEF WrittenSteps
<1>5. DiskTyped(disk')
  <2>1. FileOf(step) = ActiveFile => step = "active"
    BY <1>1, FileOfIs, FilesDiffer DEF WrittenSteps
  <2>2. FileOf(step) = RegistryFile => step = "registry"
    BY <1>1, FileOfIs, FilesDiffer DEF WrittenSteps
  <2>3. FileOf(step) = EnvFile => step = "env"
    BY <1>1, FileOfIs, FilesDiffer DEF WrittenSteps
  <2>4. \A a \in Agent : FileOf(step) = GrantFile(a) => step = "grant"
    BY <1>1, FileOfIs, FilesDiffer DEF WrittenSteps
  <2>5. /\ FileOf(step) = ActiveFile => Contents(step) \in SUBSET Agent
        /\ FileOf(step) = RegistryFile => Contents(step) \in Grants
        /\ \A a \in Agent : FileOf(step) = GrantFile(a) => Contents(step) \in OptLevel
        /\ FileOf(step) = EnvFile => Contents(step) \in ServerEnv
    BY <1>1, <1>2, <2>1, <2>2, <2>3, <2>4, ContentsTyped DEF OptLevel
  <2> QED BY <1>3, <1>4, <2>5, DiskWrite DEF Typed
<1>6. Forward(o) /\ o.undo = undo /\ o.copy = op.copy /\ o.server = op.server /\ o.ok = op.ok
  <2>1. undo \subseteq File
    BY <1>2, <1>4 DEF OpTyped
  <2> HIDE DEF undo
  <2>2. Shaped(o) /\ o.undo = undo /\ \A x \in OpFields \ {"undo"} : o[x] = op[x]
    BY <1>2 DEF OpTyped, Shaped, OpFields
  <2> HIDE DEF o
  <2>3. /\ o.cmd = op.cmd /\ o.a = op.a /\ o.todo = op.todo /\ o.arg = op.arg /\ o.reg = op.reg
        /\ o.act = op.act /\ o.copy = op.copy /\ o.env = op.env /\ o.server = op.server
        /\ o.rest = op.rest /\ o.ok = op.ok /\ o.raced = op.raced /\ o.agents = op.agents
        /\ o.hung = op.hung
    BY <2>2 DEF OpFields
  <2>4. OpTyped(o) /\ Planned(o)
    BY <1>2, <2>1, <2>2, <2>3 DEF OpTyped, Planned
  <2>5. op' = Advance(o)
    BY <1>3 DEF o
  <2> QED BY <2>2, <2>3, <2>4, <2>5 DEF Forward
<1>7. Typed'
  BY <1>3, <1>5, <1>6, ForwardTyped DEF Typed
<1>8. undo = IF /\ step # "registry" /\ "commit" \in Left(op) /\ disk[FileOf(step)] = Absent
             THEN op.undo \cup {FileOf(step)} ELSE op.undo
  BY DEF Left, Exists
<1> QED BY <1>1, <1>4, <1>6, <1>7, <1>8 DEF step

\* A command with another copy, server, env or verdict is the same command.
Revised(o, p) ==
  /\ Shaped(o)
  /\ o.cmd = p.cmd /\ o.a = p.a /\ o.todo = p.todo /\ o.arg = p.arg /\ o.undo = p.undo
  /\ o.reg = p.reg /\ o.act = p.act /\ o.rest = p.rest /\ o.agents = p.agents

LEMMA RevisedTyped ==
  ASSUME NEW o, NEW p, OpTyped(p), Planned(p), Revised(o, p), o.hung => o.cmd = "doctor", o.copy \in Config \cup {Absent},
         o.server \in Server \cup {Absent}, o.env \in ServerEnv \cup {Absent}
  PROVE  OpTyped(o) /\ Planned(o)
BY DEF OpTyped, Planned, Revised

LEMMA RecordIs ==
  ASSUME Typed, Record
  PROVE  /\ Typed'
         /\ \E o : /\ Forward(o) /\ o.copy = op.copy /\ o.server = op.server /\ o.ok = op.ok
                   /\ o.undo = IF Head(op.todo) = "commit" THEN {} ELSE op.undo
<1>1. OpTyped(op) /\ Planned(op)
  BY AtIs DEF Record
<1>2. op' = Advance(IF Head(op.todo) = "commit" THEN [op EXCEPT !.undo = {}] ELSE op)
      /\ UNCHANGED <<disk, conf>>
  BY DEF Record, world
<1>3. CASE Head(op.todo) = "commit"
  <2> DEFINE o == [op EXCEPT !.undo = {}]
  <2>1. Shaped(o) /\ o.undo = {} /\ \A x \in OpFields \ {"undo"} : o[x] = op[x]
    BY <1>1 DEF OpTyped, Shaped, OpFields
  <2>2. op' = Advance(o)
    BY <1>2, <1>3
  <2> HIDE DEF o
  <2>3. /\ o.cmd = op.cmd /\ o.a = op.a /\ o.todo = op.todo /\ o.arg = op.arg /\ o.reg = op.reg
        /\ o.act = op.act /\ o.copy = op.copy /\ o.env = op.env /\ o.server = op.server
        /\ o.rest = op.rest /\ o.ok = op.ok /\ o.raced = op.raced /\ o.agents = op.agents
        /\ o.hung = op.hung
    BY <2>1 DEF OpFields
  <2>4. OpTyped(o) /\ Planned(o)
    BY <1>1, <2>1, <2>3 DEF OpTyped, Planned
  <2>5. Forward(o)
    BY <2>2, <2>3, <2>4 DEF Forward
  <2> QED BY <1>2, <1>3, <2>1, <2>3, <2>5, ForwardTyped DEF Typed
<1>4. CASE Head(op.todo) # "commit"
  <2>1. Forward(op)
    BY <1>1, <1>2, <1>4, ForwardSelf
  <2> QED BY <1>2, <1>4, <2>1, ForwardTyped DEF Typed
<1> QED BY <1>3, <1>4

LEMMA ConfigFiles ==
  ASSUME NEW a \in Agent
  PROVE  /\ a # "hecate" => HookFile(a) \in ConfigFile
         /\ a # "local" => McpFile(a) \in ConfigFile
<1>1. a \in {"codex", "gemini", "hecate", "local"}
  BY SetupAssumption DEF AgentName
<1>2. a # "hecate" => HookFile(a) \in ConfigFile
  BY <1>1 DEF HookFile, ConfigFile
<1>3. a # "local" => McpFile(a) \in ConfigFile
  BY <1>1 DEF McpFile, ConfigFile
<1> QED BY <1>2, <1>3

LEMMA HookReadIs ==
  ASSUME Typed, HookRead
  PROVE  /\ Typed'
         /\ \/ op' = GiveUp(2)
            \/ \E o : /\ Forward(o) /\ o.copy = conf[HookFile(op.a)] /\ o.server = op.server
                      /\ o.ok = op.ok /\ o.undo = op.undo
<1> DEFINE c == conf[HookFile(op.a)]
           o == [op EXCEPT !.copy = c]
<1>1. OpTyped(op) /\ Planned(op) /\ "hookread" \in Left(op) /\ Closed(op.cmd, op.a, Left(op))
  BY AtIs DEF HookRead
<1>2. op' = (IF c = Broken THEN GiveUp(2) ELSE Advance(o)) /\ UNCHANGED <<disk, conf>>
  BY DEF HookRead, world
<1>3. c \in Config \cup {Absent, Broken}
  BY <1>1, ConfigFiles DEF Closed, OpTyped, Typed, ConfTyped
<1>4. CASE c = Broken
  BY <1>1, <1>2, <1>4, GiveUpIs DEF Typed
<1>5. CASE c # Broken
  <2> HIDE DEF c
  <2>1. /\ Revised(o, op) /\ o.copy = c /\ o.server = op.server /\ o.env = op.env /\ o.ok = op.ok
        /\ o.raced = op.raced /\ o.hung = op.hung
    BY <1>1 DEF OpTyped, Revised, Shaped, OpFields
  <2>2. OpTyped(o) /\ Planned(o)
    BY <1>1, <1>3, <1>5, <2>1, RevisedTyped DEF OpTyped, Revised
  <2>3. Forward(o) /\ o.copy = c /\ o.server = op.server /\ o.ok = op.ok /\ o.undo = op.undo
    BY <1>2, <1>5, <2>1, <2>2 DEF Forward, Revised
  <2>4. Typed'
    BY <1>2, <2>3, ForwardTyped DEF Typed
  <2> QED BY <2>3, <2>4 DEF c
<1> QED BY <1>4, <1>5

LEMMA HookWriteTyped ==
  ASSUME Typed, HookWrite
  PROVE  Typed'
<1>1. OpTyped(op) /\ Planned(op) /\ "hookwrite" \in Left(op) /\ Closed(op.cmd, op.a, Left(op))
  BY AtIs DEF HookWrite
<1>2. op' = Advance(op) /\ UNCHANGED disk /\ conf' = [conf EXCEPT ![HookFile(op.a)] = MergeGuard(op.copy, op.a)]
  BY DEF HookWrite
<1>3. MergeGuard(op.copy, op.a) \in Config
  BY <1>1, MergeGuards DEF OpTyped, Guards
<1>4. ConfTyped(conf')
  BY <1>2, <1>3 DEF Typed, ConfTyped
<1> QED BY <1>1, <1>2, <1>4, AdvanceTyped DEF Typed

LEMMA PrepareTyped ==
  ASSUME Typed, PrepareCommand
  PROVE  Typed'
<1>1. OpTyped(op) /\ Planned(op)
  BY AtIs DEF PrepareCommand
<1>2. /\ op' = Advance(op) /\ UNCHANGED conf
      /\ disk' = disk \/ disk' = [disk EXCEPT ![WrapperFile] = "current"]
  BY DEF PrepareCommand
<1>3. DiskTyped([disk EXCEPT ![WrapperFile] = "current"])
  <2>1. WrapperFile \in File
    BY DEF File
  <2>2. WrapperFile \notin {ActiveFile, RegistryFile, EnvFile} /\ \A a \in Agent : WrapperFile # GrantFile(a)
    BY FilesDiffer
  <2> QED BY <2>1, <2>2, DiskWrite DEF Typed
<1> QED BY <1>1, <1>2, <1>3, AdvanceTyped DEF Typed

LEMMA InstalledServerTyped ==
  ASSUME Typed, NEW a \in Agent, a # "local"
  PROVE  InstalledServer(conf[McpFile(a)]) \in Server \cup {Absent}
<1>1. conf[McpFile(a)] \in Config \cup {Absent, Broken}
  BY ConfigFiles DEF Typed, ConfTyped
<1> QED BY <1>1 DEF InstalledServer, Config

LEMMA AgentEnvTyped ==
  ASSUME Typed, NEW a \in Agent, Exists(EnvFile)
  PROVE  /\ AgentEnv(a) \in ServerEnv /\ AgentEnv(a).ident = a
         /\ AgentEnv(a).url = disk[EnvFile].url /\ AgentEnv(a).log = disk[EnvFile].log
<1>1. disk[EnvFile] \in ServerEnv /\ a \in AgentName
  BY SetupAssumption DEF Typed, DiskTyped, Exists
<1> QED BY <1>1 DEF AgentEnv, ServerEnv

LEMMA ServerForTyped ==
  ASSUME Typed, OpTyped(op), op.a # "local", Exists(EnvFile)
  PROVE  ServerFor(op.a) \in Server /\ ServerFor(op.a).env = AgentEnv(op.a)
<1> DEFINE old == InstalledServer(conf[McpFile(op.a)])
           cmd == IF op.cmd = "doctor" /\ old # Absent THEN old.cmd
                  ELSE IF LocalBin THEN "wrapper" ELSE "dent8"
           proxy == IF op.cmd = "doctor" THEN old # Absent /\ old.proxy
                    ELSE op.cmd = "install" /\ op.arg.proxy
<1>1. old \in Server \cup {Absent}
  BY InstalledServerTyped DEF OpTyped
<1>2. ServerFor(op.a) = [env |-> AgentEnv(op.a), cmd |-> cmd, proxy |-> proxy]
  BY DEF ServerFor
<1>3. AgentEnv(op.a) \in ServerEnv
  BY AgentEnvTyped DEF OpTyped
<1>4. cmd \in {"wrapper", "dent8"}
  BY <1>1 DEF Server
<1>5. proxy \in BOOLEAN
  OBVIOUS
<1> HIDE DEF cmd, proxy
<1> QED BY <1>2, <1>3, <1>4, <1>5 DEF Server

LEMMA McpReadIs ==
  ASSUME Typed, McpRead
  PROVE  /\ Typed' /\ op.a \in Agent \ {"local"}
         /\ \/ op' = Idle
            \/ op.cmd # "doctor" /\ op' = GiveUp(2)
            \/ \E o : /\ Forward(o) /\ o.copy = conf[McpFile(op.a)] /\ o.server = ServerFor(op.a)
                      /\ o.ok = op.ok /\ o.undo = op.undo /\ AgentEnvOK(op.a)
<1> DEFINE c == conf[McpFile(op.a)]
           o == [op EXCEPT !.copy = c, !.server = ServerFor(op.a)]
<1>1. OpTyped(op) /\ Planned(op) /\ "mcpread" \in Left(op) /\ Closed(op.cmd, op.a, Left(op))
  BY AtIs DEF McpRead
<1>2. op.a \in Agent /\ op.a # "local"
  BY <1>1 DEF Closed, OpTyped
<1>3. /\ UNCHANGED <<disk, conf>>
      /\ op' = IF AgentEnvOK(op.a) /\ c # Broken THEN Advance(o)
               ELSE IF op.cmd = "doctor" THEN Idle ELSE GiveUp(2)
  BY DEF McpRead, world
<1>4. c \in Config \cup {Absent, Broken}
  BY <1>2, ConfigFiles DEF Typed, ConfTyped
<1>5. CASE AgentEnvOK(op.a) /\ c # Broken
  <2>1. ServerFor(op.a) \in Server
    BY <1>1, <1>2, <1>5, ServerForTyped DEF AgentEnvOK
  <2> HIDE DEF c
  <2>2. /\ Revised(o, op) /\ o.copy = c /\ o.server = ServerFor(op.a) /\ o.env = op.env
        /\ o.ok = op.ok /\ o.raced = op.raced /\ o.hung = op.hung
    BY <1>1 DEF OpTyped, Revised, Shaped, OpFields
  <2>3. OpTyped(o) /\ Planned(o)
    BY <1>1, <1>4, <1>5, <2>1, <2>2, RevisedTyped DEF OpTyped, Revised
  <2>4. Forward(o) /\ o.undo = op.undo
    BY <1>3, <1>5, <2>2, <2>3 DEF Forward, Revised
  <2>5. Typed'
    BY <1>3, <2>4, ForwardTyped DEF Typed
  <2> QED BY <1>2, <1>5, <2>2, <2>4, <2>5 DEF c
<1>6. CASE ~(AgentEnvOK(op.a) /\ c # Broken)
  BY <1>1, <1>2, <1>3, <1>6, GiveUpIs DEF Typed
<1> QED BY <1>5, <1>6

LEMMA McpWriteTyped ==
  ASSUME Typed, McpWrite
  PROVE  Typed'
<1>1. OpTyped(op) /\ Planned(op)
  BY AtIs DEF McpWrite
<1>2. /\ op' = Advance(op) /\ UNCHANGED disk
      /\ conf' = conf \/ conf' = [conf EXCEPT ![McpFile(op.a)] = PatchServer(op.copy, op.server)]
  BY DEF McpWrite
<1>3. PatchServer(op.copy, op.server) \in Config
  BY <1>1, PatchKeeps DEF OpTyped
<1>4. ConfTyped(conf')
  BY <1>2, <1>3 DEF Typed, ConfTyped
<1> QED BY <1>1, <1>2, <1>4, AdvanceTyped DEF Typed

\* The agents a report counts: this one too if its setup was really checked.
Looked(seen) == IF seen THEN op.agents \cup {op.a} ELSE op.agents

\* The doctor goes on to the next agent.
LEMMA FinishNext ==
  ASSUME NEW green, NEW seen, Finish(green, seen), OpTyped(op), op.rest # <<>>
  PROVE  /\ UNCHANGED report /\ OpTyped(op') /\ Planned(op')
         /\ op.cmd = "doctor" /\ op'.cmd = op.cmd /\ op'.a = Head(op.rest)
         /\ op'.todo = AgentSteps(op.arg) /\ op'.ok = green
         /\ op'.agents = Looked(seen)
         /\ op'.undo = op.undo /\ op'.arg = op.arg /\ op'.raced = op.raced
<1> DEFINE agents == IF seen THEN op.agents \cup {op.a} ELSE op.agents
<1>1. /\ op' = [op EXCEPT !.a = Head(op.rest), !.rest = Tail(op.rest), !.todo = AgentSteps(op.arg),
                          !.ok = green, !.agents = agents, !.hung = FALSE]
      /\ UNCHANGED report
  BY DEF Finish
<1>2. op.cmd = "doctor" /\ op.rest \in Seq(Agent \ {"local"}) /\ op.arg \in DoctorArgs
  BY DEF OpTyped, ArgOK
<1>3. Head(op.rest) \in Agent \ {"local"} /\ Tail(op.rest) \in Seq(Agent \ {"local"})
  BY <1>2, HeadTailProperties
<1> HIDE DEF agents
<1>4. /\ Shaped(op') /\ op'.a = Head(op.rest) /\ op'.rest = Tail(op.rest)
      /\ op'.todo = AgentSteps(op.arg) /\ op'.ok = green /\ op'.agents = agents /\ op'.hung = FALSE
      /\ \A x \in OpFields \ {"a", "rest", "todo", "ok", "agents", "hung"} : op'[x] = op[x]
  BY <1>1 DEF OpTyped, Shaped, OpFields
<1>5. /\ op'.cmd = op.cmd /\ op'.arg = op.arg /\ op'.undo = op.undo /\ op'.reg = op.reg
      /\ op'.act = op.act /\ op'.copy = op.copy /\ op'.env = op.env /\ op'.server = op.server
      /\ op'.raced = op.raced
  BY <1>4 DEF OpFields
<1>6. OpTyped(op')
  BY <1>2, <1>3, <1>4, <1>5 DEF OpTyped
<1>7. Planned(op')
  BY <1>2, <1>3, <1>4, <1>5, AgentPlan DEF Planned
<1> QED BY <1>1, <1>2, <1>4, <1>5, <1>6, <1>7 DEF agents, Looked

\* Or it reports.
LEMMA FinishReport ==
  ASSUME NEW green, NEW seen, Finish(green, seen), op.rest = <<>>
  PROVE  /\ op' = Idle
         /\ report'.agents = Looked(seen)
         /\ report'.green = green /\ report'.raced = op.raced
         /\ report'.depth = IF op.arg.write THEN "write" ELSE "run"
BY DEF Finish, Looked

LEMMA FinishTyped ==
  ASSUME NEW green, NEW seen, Finish(green, seen), Typed, OpTyped(op), UNCHANGED <<disk, conf>>
  PROVE  Typed'
BY FinishNext, FinishReport DEF Typed

\* What the doctor's steps leave alone, and how they go on.
LEMMA DoctorConfigTyped ==
  ASSUME Typed, DoctorConfig
  PROVE  Typed'
<1>1. OpTyped(op) /\ Planned(op) /\ UNCHANGED <<disk, conf>>
  BY AtIs DEF DoctorConfig, Checking
<1>2. op' = Advance(op) \/ Finish(op.ok, FALSE)
  BY DEF DoctorConfig
<1> QED BY <1>1, <1>2, FinishTyped, AdvanceTyped DEF Typed

LEMMA DoctorEnvIs ==
  ASSUME Typed, DoctorEnv
  PROVE  /\ Typed' /\ UNCHANGED believed
         /\ \/ Finish(op.ok /\ ~op.arg.write, FALSE)
            \/ \E o : /\ Forward(o) /\ o.copy = op.copy /\ o.server = op.server /\ o.ok = op.ok
                      /\ o.undo = op.undo /\ AgentEnvOK(op.a) /\ o.env = AgentEnv(op.a)
                      /\ UNCHANGED report
<1> DEFINE o == [op EXCEPT !.env = AgentEnv(op.a)]
<1>1. OpTyped(op) /\ Planned(op) /\ UNCHANGED <<disk, conf, believed>>
  BY AtIs DEF DoctorEnv, Checking
<1>2. (AgentEnvOK(op.a) /\ op' = Advance(o) /\ UNCHANGED report) \/ Finish(op.ok /\ ~op.arg.write, FALSE)
  BY DEF DoctorEnv
<1>3. ASSUME AgentEnvOK(op.a), op' = Advance(o), UNCHANGED report
      PROVE  /\ Typed' /\ Forward(o) /\ o.copy = op.copy /\ o.server = op.server /\ o.ok = op.ok
             /\ o.undo = op.undo /\ o.env = AgentEnv(op.a)
  <2>1. AgentEnv(op.a) \in ServerEnv
    BY <1>1, <1>3, AgentEnvTyped DEF AgentEnvOK, OpTyped
  <2>2. /\ Revised(o, op) /\ o.env = AgentEnv(op.a) /\ o.copy = op.copy /\ o.server = op.server
        /\ o.ok = op.ok /\ o.raced = op.raced /\ o.hung = op.hung
    BY <1>1 DEF OpTyped, Revised, Shaped, OpFields
  <2>3. OpTyped(o) /\ Planned(o)
    BY <1>1, <2>1, <2>2, RevisedTyped DEF OpTyped, Revised
  <2>4. Forward(o) /\ o.undo = op.undo
    BY <1>3, <2>2, <2>3 DEF Forward, Revised
  <2> QED BY <1>1, <2>2, <2>4, ForwardTyped DEF Typed
<1>4. CASE AgentEnvOK(op.a) /\ op' = Advance(o) /\ UNCHANGED report
  BY <1>1, <1>3, <1>4
<1>5. CASE Finish(op.ok /\ ~op.arg.write, FALSE)
  <2> DEFINE green == op.ok /\ ~op.arg.write
  <2>1. Finish(green, FALSE)
    BY <1>5
  <2> HIDE DEF green
  <2>2. Typed'
    BY <1>1, <2>1, FinishTyped
  <2> QED BY <1>1, <1>5, <2>2
<1> QED BY <1>2, <1>4, <1>5

LEMMA DoctorServerIs ==
  ASSUME Typed, DoctorServer
  PROVE  /\ Typed' /\ op.cmd = "doctor" /\ UNCHANGED believed
         /\ \/ Finish(FALSE, FALSE)
            \/ LET server == InstalledServer(conf[McpFile(op.a)])
               IN \E o : /\ Forward(o) /\ o.copy = op.copy /\ o.server = server /\ server # Absent
                         /\ o.undo = op.undo /\ o.env = op.env /\ UNCHANGED report
                         /\ o.ok = (op.ok /\ EnvMatches(op.env, server.env) /\ LocalBinaryOK(op.a, server))
<1> DEFINE server == InstalledServer(conf[McpFile(op.a)])
           ok == op.ok /\ EnvMatches(op.env, server.env) /\ LocalBinaryOK(op.a, server)
           o == [op EXCEPT !.server = server, !.ok = ok]
<1>1. OpTyped(op) /\ Planned(op) /\ UNCHANGED <<disk, conf, believed>> /\ "server" \in StepsOf(op.cmd)
  BY AtIs DEF DoctorServer, Checking
<1>2. (server # Absent /\ op' = Advance(o) /\ UNCHANGED report) \/ Finish(FALSE, FALSE)
  BY DEF DoctorServer
<1>3. op.cmd = "doctor"
  BY <1>1 DEF OpTyped, StepsOf, BundleStep, SourceStep
<1>4. server \in Server \cup {Absent}
  BY <1>1, <1>3, InstalledServerTyped DEF OpTyped
<1> HIDE DEF server, ok
<1>5. /\ Revised(o, op) /\ o.env = op.env /\ o.copy = op.copy /\ o.server = server /\ o.ok = ok
      /\ o.raced = op.raced /\ o.hung = op.hung
  BY <1>1 DEF OpTyped, Revised, Shaped, OpFields
<1>6. OpTyped(o) /\ Planned(o)
  BY <1>1, <1>4, <1>5, RevisedTyped DEF OpTyped, Revised
<1>7. CASE Finish(FALSE, FALSE)
  <2>1. Typed'
    BY <1>1, <1>7, FinishTyped
  <2> QED BY <1>1, <1>3, <1>7, <2>1
<1>8. CASE server # Absent /\ op' = Advance(o) /\ UNCHANGED report
  <2>1. Forward(o) /\ o.undo = op.undo
    BY <1>5, <1>6, <1>8 DEF Forward, Revised
  <2>2. Typed'
    BY <1>1, <2>1, ForwardTyped DEF Typed
  <2> HIDE DEF o
  <2> QED BY <1>1, <1>3, <1>5, <1>8, <2>1, <2>2 DEF server, ok
<1> QED BY <1>2, <1>7, <1>8

LEMMA DoctorSelfIs ==
  ASSUME Typed, DoctorSelf
  PROVE  LET ident == IF op.cmd = "source" THEN disk[EnvFile].ident ELSE op.server.env.ident
             ok == op.ok /\ SelfCheckOK(op.a, ident)
         IN /\ Typed' /\ UNCHANGED believed
            /\ \/ op.cmd = "source" /\ ~op.arg.write /\ Finish(ok, TRUE)
               \/ \E o : /\ Forward(o) /\ o.copy = op.copy /\ o.server = op.server /\ o.ok = ok
                         /\ o.undo = op.undo /\ o.env = op.env /\ UNCHANGED report
<1> DEFINE ident == IF op.cmd = "source" THEN disk[EnvFile].ident ELSE op.server.env.ident
           ok == op.ok /\ SelfCheckOK(op.a, ident)
           o == [op EXCEPT !.ok = ok]
<1>1. OpTyped(op) /\ Planned(op) /\ UNCHANGED <<disk, conf, believed>>
  BY AtIs DEF DoctorSelf, Checking
<1>2. (op' = Advance(o) /\ UNCHANGED report) \/ (op.cmd = "source" /\ ~op.arg.write /\ Finish(ok, TRUE))
  BY DEF DoctorSelf
<1> HIDE DEF ok
<1>3. /\ Revised(o, op) /\ o.env = op.env /\ o.copy = op.copy /\ o.server = op.server /\ o.ok = ok
      /\ o.raced = op.raced /\ o.hung = op.hung
  BY <1>1 DEF OpTyped, Revised, Shaped, OpFields
<1>4. OpTyped(o) /\ Planned(o)
  BY <1>1, <1>3, RevisedTyped DEF OpTyped, Revised
<1>5. CASE op.cmd = "source" /\ ~op.arg.write /\ Finish(ok, TRUE)
  <2>1. Typed'
    BY <1>1, <1>5, FinishTyped
  <2> QED BY <1>1, <1>5, <2>1 DEF ok
<1>6. CASE op' = Advance(o) /\ UNCHANGED report
  <2>1. Forward(o) /\ o.undo = op.undo
    BY <1>3, <1>4, <1>6 DEF Forward, Revised
  <2>2. Typed'
    BY <1>1, <2>1, ForwardTyped DEF Typed
  <2> HIDE DEF o
  <2> QED BY <1>1, <1>3, <1>6, <2>1, <2>2 DEF ok
<1> QED BY <1>2, <1>5, <1>6

LEMMA DoctorSmokeTyped ==
  ASSUME Typed, DoctorSmoke
  PROVE  Typed'
<1> DEFINE green == op.ok /\ SmokeOK(op.a, op.server)
<1>1. OpTyped(op) /\ Planned(op) /\ UNCHANGED <<disk, conf>>
  BY AtIs DEF DoctorSmoke, Checking
<1>2. op' = Advance(op) \/ Finish(green, TRUE)
  BY DEF DoctorSmoke
<1> HIDE DEF green
<1> QED BY <1>1, <1>2, FinishTyped, AdvanceTyped DEF Typed

LEMMA ProbingTyped ==
  ASSUME Typed, DoctorAssert \/ DoctorVerify \/ DoctorRetract \/ WaitWithTimeout
  PROVE  Typed'
<1>1. OpTyped(op) /\ Planned(op) /\ UNCHANGED <<disk, conf>>
  BY AtIs DEF DoctorAssert, DoctorVerify, DoctorRetract, WaitWithTimeout, Checking, world, Typed
<1>2. op' = Advance(op) \/ Finish(FALSE, TRUE) \/ Finish(op.ok, TRUE)
  BY DEF DoctorAssert, DoctorVerify, DoctorRetract, WaitWithTimeout
<1> QED BY <1>1, <1>2, FinishTyped, AdvanceTyped DEF Typed

LEMMA RolledBackTyped ==
  ASSUME Typed, NEW undo, NEW d, d = [f \in File |-> IF f \in undo THEN Absent ELSE disk[f]]
  PROVE  DiskTyped(d)
<1>1. d = [f \in File |-> d[f]] /\ \A f \in File : d[f] = Absent \/ d[f] = disk[f]
  OBVIOUS
<1>2. ActiveFile \in File /\ RegistryFile \in File /\ EnvFile \in File
      /\ \A a \in Agent : GrantFile(a) \in File
  BY DEF File
<1>3. \A a \in Agent : d[GrantFile(a)] \in OptLevel
  BY <1>1, <1>2 DEF Typed, DiskTyped, OptLevel
<1>4. d[ActiveFile] # Absent => d[ActiveFile] \subseteq Agent
  BY <1>1, <1>2 DEF Typed, DiskTyped
<1>5. d[RegistryFile] # Absent => d[RegistryFile] \in Grants
  BY <1>1, <1>2 DEF Typed, DiskTyped
<1>6. d[EnvFile] # Absent => d[EnvFile] \in ServerEnv
  BY <1>1, <1>2 DEF Typed, DiskTyped
<1> QED BY <1>1, <1>3, <1>4, <1>5, <1>6 DEF DiskTyped

LEMMA FailureTyped ==
  ASSUME Typed, BundleStepFails \/ ConfigStepFails \/ Refused \/ Kill \/ ServerHangs
  PROVE  Typed'
<1>1. CASE BundleStepFails
  BY <1>1, RolledBackTyped DEF BundleStepFails, RolledBack, Typed
<1>2. CASE ConfigStepFails
  <2>1. UNCHANGED <<disk, conf>> /\ OpTyped(op) /\ Planned(op)
    BY <1>2, AtIs DEF ConfigStepFails, world
  <2>2. op' = Idle \/ op' = GiveUp(1) \/ op' = GiveUp(2)
    BY <1>2 DEF ConfigStepFails
  <2> QED BY <2>1, <2>2, GiveUpIs DEF Typed
<1>3. CASE Refused \/ Kill
  BY <1>3 DEF Refused, Kill, world, Typed
<1>4. CASE ServerHangs
  <2>1. OpTyped(op) /\ Planned(op) /\ op' = [op EXCEPT !.hung = TRUE] /\ UNCHANGED <<disk, conf>>
    BY <1>4, AtIs DEF ServerHangs, world
  <2>2. Revised(op', op) /\ op'.env = op.env /\ op'.copy = op.copy /\ op'.server = op.server
    BY <2>1 DEF OpTyped, Revised, Shaped, OpFields
  <2>3. op.cmd = "doctor"
    <3>1. Head(op.todo) \in {"smoke", "assert", "retract"} /\ Head(op.todo) \in StepsOf(op.cmd)
      BY <1>4, AtIs DEF ServerHangs
    <3> QED BY <2>1, <3>1 DEF StepsOf, BundleStep, SourceStep, OpTyped
  <2> QED BY <2>1, <2>2, <2>3, RevisedTyped DEF OpTyped, Revised, Typed
<1> QED BY <1>1, <1>2, <1>3, <1>4

\* A step beside a command leaves it as it is, but raced.
LEMMA BesideIs ==
  ASSUME Typed, Beside
  PROVE  /\ op = Idle => op' = Idle
         /\ op # Idle => /\ OpTyped(op') /\ Planned(op') /\ Revised(op', op) /\ op'.raced = TRUE
                         /\ op'.copy = op.copy /\ op'.server = op.server
<1>1. CASE op = Idle
  BY <1>1 DEF Beside
<1>2. CASE op # Idle
  <2>1. OpTyped(op) /\ Planned(op) /\ op' = [op EXCEPT !.raced = TRUE]
    BY <1>2 DEF Beside, Typed
  <2>2. Shaped(op)
    BY <2>1 DEF OpTyped
  <2>3. Shaped(op') /\ op'.raced = TRUE /\ \A x \in OpFields \ {"raced"} : op'[x] = op[x]
    BY <2>1, <2>2 DEF Shaped, OpFields
  <2>4. /\ Revised(op', op) /\ op'.env = op.env /\ op'.copy = op.copy /\ op'.server = op.server
        /\ op'.raced = TRUE /\ op'.hung = op.hung
    BY <2>3 DEF Revised, OpFields
  <2>5. /\ op'.hung => op'.cmd = "doctor"
        /\ op'.copy \in Config \cup {Absent} /\ op'.server \in Server \cup {Absent}
        /\ op'.env \in ServerEnv \cup {Absent}
    BY <2>1, <2>4 DEF OpTyped, Revised
  <2> QED BY <1>2, <2>1, <2>4, <2>5, RevisedTyped
<1> QED BY <1>1, <1>2

LEMMA OutsideTyped ==
  ASSUME Typed, Outside
  PROVE  Typed'
<1>1. Beside
  BY DEF Outside, EditConfig, Build, Daemon, RevokeSource
<1>2. op' # Idle => OpTyped(op') /\ Planned(op')
  BY <1>1, BesideIs
<1>3. ASSUME NEW f \in ConfigFile, EditConfig(f) PROVE DiskTyped(disk') /\ ConfTyped(conf')
  <2>1. PICK c \in Edited(conf[f]) : conf' = [conf EXCEPT ![f] = c]
    BY <1>3 DEF EditConfig
  <2>2. conf[f] \in Config \cup {Absent, Broken}
    BY DEF Typed, ConfTyped
  <2>3. c \in Config \cup {Broken}
    BY <2>2, EditedIsConfig
  <2> QED BY <1>3, <2>1, <2>3 DEF EditConfig, Typed, ConfTyped
<1>4. ASSUME Build PROVE DiskTyped(disk') /\ ConfTyped(conf')
  <2>1. WrapperFile \in File
    BY DEF File
  <2>2. WrapperFile \notin {ActiveFile, RegistryFile, EnvFile} /\ \A a \in Agent : WrapperFile # GrantFile(a)
    BY FilesDiffer
  <2>3. DiskTyped([disk EXCEPT ![WrapperFile] = "stale"])
    BY <2>1, <2>2, DiskWrite DEF Typed
  <2> QED BY <1>4, <2>3 DEF Build, Typed
<1>5. ASSUME Daemon PROVE DiskTyped(disk') /\ ConfTyped(conf')
  BY <1>5 DEF Daemon, Typed
<1>6. ASSUME NEW s \in Agent, RevokeSource(s) PROVE DiskTyped(disk') /\ ConfTyped(conf')
  <2>1. disk' = [disk EXCEPT ![ActiveFile] = disk[ActiveFile] \ {s}] /\ s \in Active /\ UNCHANGED conf
    BY <1>6 DEF RevokeSource
  <2>2. disk[ActiveFile] \subseteq Agent
    BY <2>1 DEF Active, Exists, Typed, DiskTyped
  <2>3. ActiveFile \in File /\ ActiveFile # RegistryFile /\ ActiveFile # EnvFile
        /\ \A a \in Agent : ActiveFile # GrantFile(a)
    BY FilesDiffer DEF File
  <2>4. disk[ActiveFile] \ {s} \in SUBSET Agent
    BY <2>2
  <2> QED BY <2>1, <2>3, <2>4, DiskWrite DEF Typed
<1> QED BY <1>2, <1>3, <1>4, <1>5, <1>6 DEF Outside, Typed

LEMMA TypedKept ==
  ASSUME Typed, [Next]_vars
  PROVE  Typed'
<1>1. CASE Start
  BY <1>1, StartTyped
<1>2. CASE Step
  BY <1>2, WriteFileIs, RecordIs, HookReadIs, HookWriteTyped, PrepareTyped, McpReadIs,
     McpWriteTyped, DoctorConfigTyped, DoctorEnvIs, DoctorServerIs, DoctorSelfIs,
     DoctorSmokeTyped, ProbingTyped, FailureTyped DEF Step
<1>3. CASE BundleStepFails \/ ConfigStepFails \/ ServerHangs \/ Kill
  BY <1>3, FailureTyped
<1>4. CASE Outside
  BY <1>4, OutsideTyped
<1>5. CASE UNCHANGED vars
  BY <1>5 DEF vars, Typed
<1> QED BY <1>1, <1>2, <1>3, <1>4, <1>5 DEF Next

LEMMA TypedAtFirst == Init => Typed
<1> SUFFICES ASSUME Init PROVE Typed
  OBVIOUS
<1>1. ActiveFile \in File /\ RegistryFile \in File /\ EnvFile \in File
      /\ \A a \in Agent : GrantFile(a) \in File
  BY DEF File
<1>2. DiskTyped(disk)
  BY <1>1 DEF Init, DiskTyped, OptLevel
<1>3. ConfTyped(conf)
  BY DEF Init, ConfTyped
<1> QED BY <1>2, <1>3 DEF Init, Typed
-----------------------------------------------------------------------------
(* An installed guard.                                                     *)

\* While the guard of an agent is reported installed its file guards, and so
\* does the copy of that file an install is about to write back.
Guarded ==
  /\ guarded \subseteq Agent \ {"hecate"}
  /\ \A a \in guarded : Guards(conf[HookFile(a)])
  /\ op # Idle /\ "mcpwrite" \in Left(op) /\ "mcpread" \notin Left(op) =>
       \A a \in guarded : HookFile(a) = McpFile(op.a) => Guards(op.copy)

\* A command that neither reads a config nor forgets that it has to.
Calm(n, o) ==
  /\ n.copy = o.copy /\ n.a = o.a /\ Left(n) \subseteq Left(o)
  /\ "mcpread" \in Left(o) => "mcpread" \in Left(n) \/ "mcpwrite" \notin Left(n)

LEMMA CalmKeeps ==
  ASSUME Guarded, UNCHANGED <<conf, guarded>>,
         op' = Idle \/ "mcpwrite" \notin Left(op)' \/ (op # Idle /\ Calm(op', op))
  PROVE  Guarded'
BY DEF Guarded, Calm, Left

LEMMA GiveUpIsCalm ==
  ASSUME OpTyped(op), Planned(op), Closed(op.cmd, op.a, Left(op)), NEW n \in {1, 2}, GiveUp(n) # Idle,
         \/ Head(op.todo) = "hookread" /\ n = 2
         \/ Head(op.todo) = "hookwrite" /\ n = 1
         \/ Head(op.todo) = "mcpread" /\ n = 2,
         Head(op.todo) \in Left(op)
  PROVE  Calm(GiveUp(n), op)
<1> DEFINE g == GiveUp(n)
           x == Head(Tail(op.todo))
<1>1. /\ g.copy = op.copy /\ g.a = op.a /\ g.cmd = op.cmd /\ Left(g) \subseteq Left(op) /\ Planned(g)
      /\ n = 1 => Left(g) = Left(op) \ {Head(op.todo)}
      /\ n = 2 => Left(g) = Left(op) \ {Head(op.todo), x} /\ Plan(op.cmd, op.a, Tail(op.todo))
  BY GiveUpIs
<1>2. Closed(op.cmd, op.a, Left(g))
  BY <1>1 DEF Planned, Plan, Left
<1> HIDE DEF g, x
<1>3. CASE Head(op.todo) = "hookwrite" /\ n = 1
  BY <1>1, <1>3 DEF Calm, g
<1>4. CASE Head(op.todo) = "hookread" /\ n = 2
  <2>1. "hookwrite" \in Left(op)
    BY <1>4 DEF Closed
  <2>2. x = "mcpread" => "hookwrite" \in Left(g)
    BY <1>1, <1>4, <2>1
  <2> QED BY <1>1, <1>2, <1>4, <2>2 DEF Calm, Closed, g
<1>5. CASE Head(op.todo) = "mcpread" /\ n = 2
  <2>1. "mcpwrite" \in Left(op)
    BY <1>5 DEF Closed
  <2> DEFINE t == Tail(op.todo)
  <2>2. t \in Seq(Steps) /\ t # <<>> /\ Sorted(op.cmd, t) /\ x = Head(t)
    BY <1>1, <1>5 DEF Plan, x
  <2>3. ToSet(t) = Left(op) \ {"mcpread"}
    BY <1>5, HeadIsFirst DEF Planned, Plan, Left
  <2> HIDE DEF t
  <2>4. "mcpwrite" \in ToSet(t)
    BY <2>1, <2>3
  <2>5. x \in ToSet(t) /\ RankOf(op.cmd, x) <= RankOf(op.cmd, "mcpwrite")
    BY <2>2, <2>4, HeadIsFirst
  <2>6. x \in Steps /\ RankOf(op.cmd, "mcpread") <= RankOf(op.cmd, x)
    BY <1>5, <2>3, <2>5, HeadIsFirst DEF Planned, Plan, Left
  <2>7. RankOf(op.cmd, "mcpread") = 8 /\ RankOf(op.cmd, "mcpwrite") = 9 /\ x # "mcpread"
    BY <2>3, <2>5 DEF RankOf, BundleStep
  <2>8. ASSUME RankOf(op.cmd, x) \in {8, 9} PROVE x \in {"mcpread", "mcpwrite"}
    BY <2>6, <2>8 DEF RankOf, Steps, BundleStep, DoctorStep, SourceStep
  <2>9. x = "mcpwrite"
    <3>1. RankOf(op.cmd, x) \in Nat
      BY <2>6, RankIsNat
    <3> QED BY <2>5, <2>6, <2>7, <2>8, <3>1
  <2> QED BY <1>1, <1>5, <2>9 DEF Calm, g
<1> QED BY <1>3, <1>4, <1>5

LEMMA ForwardIsCalm ==
  ASSUME NEW o, Forward(o), o.copy = op.copy, Head(op.todo) # "mcpread"
  PROVE  op' = Idle \/ Calm(op', op)
<1>1. Left(op)' = Left(op')
  BY DEF Left
<1> QED BY <1>1, ForwardIs DEF Calm

LEMMA FinishIsCalm ==
  ASSUME NEW green, NEW seen, Finish(green, seen), OpTyped(op)
  PROVE  op' = Idle \/ "mcpwrite" \notin Left(op)'
<1>1. CASE op.rest = <<>>
  BY <1>1, FinishReport
<1>2. CASE op.rest # <<>>
  <2>1. op'.todo = AgentSteps(op.arg) /\ op.arg \in DoctorArgs /\ op.rest \in Seq(Agent \ {"local"})
    BY <1>2, FinishNext DEF OpTyped, ArgOK
  <2>2. Head(op.rest) \in Agent \ {"local"}
    BY <1>2, <2>1, HeadTailProperties
  <2>3. ToSet(AgentSteps(op.arg)) \subseteq {"config"} \cup DoctorStep
    BY <2>1, <2>2, AgentPlan
  <2> QED BY <2>1, <2>3 DEF Left, DoctorStep
<1> QED BY <1>1, <1>2

\* A command that will install a server begins with reading its config.
LEMMA StartReads ==
  ASSUME Start
  PROVE  "mcpwrite" \in Left(op)' => "mcpread" \in Left(op)'
<1>1. Starts(op')
  BY StartIs
<1>2. ASSUME NEW arg \in InitArgs, Started(op', "init", arg.a, InitSteps(arg), arg, <<>>)
      PROVE  "mcpwrite" \in Left(op)' => "mcpread" \in Left(op)'
  BY <1>2, InitPlan DEF Started, Left
<1>3. ASSUME NEW arg \in AddArgs, AddAdmits(arg.a),
             Started(op', "add", arg.a, AddPlanOf(arg.a), arg, <<>>)
      PROVE  "mcpread" \in Left(op)'
  <2>1. arg.a \in Agent \ {"local"}
    BY ArgsAssumption
  <2> QED BY <1>3, <2>1, AddPlan DEF Started, Left
<1>4. ASSUME NEW arg \in InstallArgs,
             Started(op', "install", arg.a, <<"wrapper", "mcpread", "mcpwrite">>, arg, <<>>)
      PROVE  "mcpread" \in Left(op)'
  <2>1. arg.a \in Agent \ {"local"}
    BY ArgsAssumption
  <2> QED BY <1>4, <2>1, InstallPlan DEF Started, Left
<1>5. ASSUME NEW arg \in DoctorArgs,
             Started(op', "doctor", Head(arg.agents), DoctorPlanOf(arg), arg, Tail(arg.agents))
      PROVE  "mcpwrite" \in Left(op)' => "mcpread" \in Left(op)'
  <2>1. arg.agents \in Seq(Agent \ {"local"}) /\ arg.agents # <<>>
    BY ArgsAssumption
  <2>2. Head(arg.agents) \in Agent \ {"local"}
    BY <2>1, HeadTailProperties
  <2> QED BY <1>5, <2>2, DoctorPlan DEF Started, Left
<1>6. ASSUME NEW write \in BOOLEAN,
             Started(op', "source", "local", SourceSteps, [write |-> write], <<>>)
      PROVE  "mcpwrite" \notin Left(op)'
  BY <1>6, SourcePlan DEF Started, Left, SourceStep
<1> QED BY <1>1, <1>2, <1>3, <1>4, <1>5, <1>6 DEF Starts

LEMMA GuardedStep ==
  ASSUME Typed, Guarded, Step
  PROVE  Guarded'
<1>1. CASE WriteFile \/ Record \/ PrepareCommand
  <2>1. UNCHANGED <<conf, guarded>> /\ op # Idle /\ Head(op.todo) # "mcpread"
    BY <1>1 DEF WriteFile, Record, PrepareCommand, At, world
  <2>2. \E o : Forward(o) /\ o.copy = op.copy
    <3>1. CASE PrepareCommand
      <4>1. Forward(op)
        BY <3>1, AtIs, ForwardSelf DEF PrepareCommand
      <4> QED BY <4>1
    <3> QED BY <1>1, <3>1, WriteFileIs, RecordIs
  <2> QED BY <2>1, <2>2, ForwardIsCalm, CalmKeeps
<1>2. CASE HookRead
  <2>1. /\ OpTyped(op) /\ Planned(op) /\ Head(op.todo) = "hookread" /\ "hookread" \in Left(op)
        /\ Closed(op.cmd, op.a, Left(op)) /\ UNCHANGED <<conf, guarded>> /\ op # Idle
    BY <1>2, AtIs DEF HookRead, world
  <2>2. CASE op' = GiveUp(2)
    BY <2>1, <2>2, GiveUpIsCalm, CalmKeeps
  <2>3. ASSUME NEW o, Forward(o) PROVE Guarded'
    <3>1. "mcpwrite" \in Left(op) => "mcpread" \in Left(op)
      BY <2>1 DEF Closed
    <3>2. op' # Idle => Left(op)' = Left(op) \ {"hookread"}
      BY <2>1, <2>3, ForwardIs
    <3> QED BY <2>1, <3>1, <3>2 DEF Guarded
  <2> QED BY <1>2, <2>2, <2>3, HookReadIs
<1>3. CASE HookWrite
  <2>1. /\ OpTyped(op) /\ Planned(op) /\ Head(op.todo) = "hookwrite" /\ "hookwrite" \in Left(op)
        /\ Closed(op.cmd, op.a, Left(op)) /\ guarded' = guarded \cup {op.a}
        /\ conf' = [conf EXCEPT ![HookFile(op.a)] = MergeGuard(op.copy, op.a)]
    BY <1>3, AtIs DEF HookWrite
  <2>2. Forward(op)
    BY <1>3, <2>1, ForwardSelf DEF HookWrite
  <2>3. "mcpwrite" \in Left(op) => "mcpread" \in Left(op)
    BY <2>1 DEF Closed
  <2>4. op' # Idle => Left(op)' = Left(op) \ {"hookwrite"}
    BY <2>1, <2>2, ForwardIs
  <2>5. Guards(MergeGuard(op.copy, op.a))
    BY <2>1, MergeGuards DEF OpTyped
  <2>6. op.a \in Agent \ {"hecate"}
    BY <2>1 DEF Closed, OpTyped
  <2>7. \A a \in guarded' : a \in Agent \ {"hecate"} /\ HookFile(a) \in ConfigFile
    BY <2>1, <2>6, ConfigFiles DEF Guarded
  <2>8. \A a \in guarded' : Guards(conf'[HookFile(a)])
    BY <2>1, <2>5, <2>7 DEF Guarded, Typed, ConfTyped
  <2> QED BY <2>3, <2>4, <2>7, <2>8 DEF Guarded
<1>4. CASE McpRead
  <2>1. /\ OpTyped(op) /\ Planned(op) /\ Head(op.todo) = "mcpread" /\ "mcpread" \in Left(op)
        /\ Closed(op.cmd, op.a, Left(op)) /\ UNCHANGED <<conf, guarded>> /\ op # Idle
    BY <1>4, AtIs DEF McpRead, world
  <2>2. CASE op' = Idle
    BY <2>1, <2>2, CalmKeeps
  <2>3. CASE op' = GiveUp(2)
    BY <2>1, <2>3, GiveUpIsCalm, CalmKeeps
  <2>4. ASSUME NEW o, Forward(o), o.copy = conf[McpFile(op.a)] PROVE Guarded'
    <3>1. op' # Idle => op'.copy = conf[McpFile(op.a)] /\ op'.a = op.a
      BY <2>4, ForwardIs
    <3> QED BY <2>1, <3>1 DEF Guarded
  <2> QED BY <1>4, <2>2, <2>3, <2>4, McpReadIs
<1>5. CASE McpWrite
  <2>1. /\ OpTyped(op) /\ Planned(op) /\ Head(op.todo) = "mcpwrite" /\ "mcpwrite" \in Left(op)
        /\ UNCHANGED guarded /\ op # Idle
        /\ \A x \in Left(op) : RankOf(op.cmd, "mcpwrite") <= RankOf(op.cmd, x)
        /\ conf' = conf \/ conf' = [conf EXCEPT ![McpFile(op.a)] = PatchServer(op.copy, op.server)]
    BY <1>5, AtIs DEF McpWrite
  <2>2. RankOf(op.cmd, "mcpwrite") = 9 /\ RankOf(op.cmd, "mcpread") = 8
    BY DEF RankOf, BundleStep
  <2>3. "mcpread" \notin Left(op)
    BY <2>1, <2>2
  <2>4. Forward(op)
    BY <1>5, <2>1, ForwardSelf DEF McpWrite
  <2>5. op' = Idle \/ "mcpwrite" \notin Left(op)'
    BY <2>1, <2>4, ForwardIs
  <2>6. Guards(op.copy) => Guards(PatchServer(op.copy, op.server))
    BY <2>1, PatchKeeps DEF OpTyped
  <2>7. \A a \in guarded : HookFile(a) \in ConfigFile
    BY ConfigFiles DEF Guarded
  <2>8. \A a \in guarded : HookFile(a) = McpFile(op.a) => Guards(op.copy)
    BY <2>1, <2>3 DEF Guarded
  <2>9. \A a \in guarded : Guards(conf'[HookFile(a)])
    BY <2>1, <2>6, <2>7, <2>8 DEF Guarded, Typed, ConfTyped
  <2> QED BY <2>1, <2>5, <2>9 DEF Guarded
<1>6. ASSUME DoctorConfig \/ DoctorEnv \/ DoctorServer \/ DoctorSelf \/ DoctorSmoke \/ DoctorAssert
             \/ DoctorVerify \/ DoctorRetract \/ WaitWithTimeout
      PROVE  Guarded'
  <2>1. UNCHANGED <<conf, guarded>> /\ op # Idle
    BY <1>6 DEF DoctorConfig, DoctorEnv, DoctorServer, DoctorSelf, DoctorSmoke, DoctorAssert,
                DoctorVerify, DoctorRetract, WaitWithTimeout, Checking, world, At
  <2>2. OpTyped(op) /\ Planned(op)
    BY <2>1 DEF Typed
  <2>3. (\E green, seen : Finish(green, seen))
        \/ (Head(op.todo) # "mcpread" /\ \E o : Forward(o) /\ o.copy = op.copy)
    <3>1. CASE DoctorEnv \/ DoctorServer \/ DoctorSelf
      <4>1. Head(op.todo) # "mcpread"
        BY <3>1 DEF DoctorEnv, DoctorServer, DoctorSelf, At
      <4> QED BY <3>1, <4>1, DoctorEnvIs, DoctorServerIs, DoctorSelfIs
    <3>2. CASE op' = Advance(op) /\ Head(op.todo) # "mcpread"
      <4>1. Forward(op)
        BY <2>2, <3>2, ForwardSelf
      <4> QED BY <3>2, <4>1
    <3>3. CASE DoctorConfig \/ DoctorSmoke
      <4>1. Head(op.todo) # "mcpread" /\ (op' = Advance(op) \/ \E green, seen : Finish(green, seen))
        BY <3>3 DEF DoctorConfig, DoctorSmoke, At
      <4> QED BY <3>2, <4>1
    <3>4. CASE DoctorAssert \/ DoctorVerify \/ DoctorRetract \/ WaitWithTimeout
      <4>1. \/ Head(op.todo) # "mcpread" /\ op' = Advance(op)
            \/ \E green, seen : Finish(green, seen)
        BY <3>4 DEF DoctorAssert, DoctorVerify, DoctorRetract, WaitWithTimeout, At
      <4> QED BY <3>2, <4>1
    <3> QED BY <1>6, <3>1, <3>3, <3>4
  <2>4. op' = Idle \/ "mcpwrite" \notin Left(op)' \/ Calm(op', op)
    BY <2>2, <2>3, FinishIsCalm, ForwardIsCalm
  <2> QED BY <2>1, <2>4, CalmKeeps
<1>7. CASE Refused
  BY <1>7, CalmKeeps DEF Refused, world
<1> QED BY <1>1, <1>2, <1>3, <1>4, <1>5, <1>6, <1>7 DEF Step

LEMMA GuardedOutside ==
  ASSUME Typed, Guarded, Outside
  PROVE  Guarded'
<1>1. Beside
  BY DEF Outside, EditConfig, Build, Daemon, RevokeSource
<1>2. op # Idle => op' = Idle \/ Calm(op', op)
  BY <1>1, BesideIs DEF Calm, Revised, Left
<1>3. op = Idle => op' = Idle
  BY <1>1 DEF Beside
<1>4. ASSUME NEW f \in ConfigFile, EditConfig(f) PROVE Guarded'
  <2>1. PICK c : conf' = [conf EXCEPT ![f] = c]
    BY <1>4 DEF EditConfig
  <2>2. guarded' = {a \in guarded : HookFile(a) # f}
    BY <1>4 DEF EditConfig
  <2>3. \A a \in guarded' : a \in guarded /\ conf'[HookFile(a)] = conf[HookFile(a)]
    BY <2>1, <2>2, ConfigFiles DEF Guarded, Typed, ConfTyped
  <2>4. guarded' \subseteq Agent \ {"hecate"} /\ \A a \in guarded' : Guards(conf'[HookFile(a)])
    BY <2>2, <2>3 DEF Guarded
  <2>5. op' # Idle => op # Idle /\ Calm(op', op)
    BY <1>2, <1>3
  <2> QED BY <2>3, <2>4, <2>5 DEF Guarded, Calm, Left
<1>5. CASE Build \/ Daemon \/ \E s \in Agent : RevokeSource(s)
  <2>1. UNCHANGED <<conf, guarded>>
    BY <1>5 DEF Build, Daemon, RevokeSource
  <2> QED BY <1>2, <1>3, <2>1, CalmKeeps
<1> QED BY <1>4, <1>5 DEF Outside

LEMMA GuardedKept ==
  ASSUME Typed, Guarded, [Next]_vars
  PROVE  Guarded'
<1>1. CASE Start
  <2>1. UNCHANGED <<conf, guarded>>
    BY <1>1, StartIs DEF Begin, world
  <2> QED BY <1>1, <2>1, StartReads DEF Guarded
<1>2. CASE Step
  BY <1>2, GuardedStep
<1>3. CASE BundleStepFails \/ Kill
  BY <1>3, CalmKeeps DEF BundleStepFails, Kill, world
<1>4. CASE ConfigStepFails
  <2>1. UNCHANGED <<conf, guarded>> /\ op # Idle
    BY <1>4 DEF ConfigStepFails, world, At
  <2>2. /\ OpTyped(op) /\ Planned(op) /\ Head(op.todo) \in Left(op) /\ Closed(op.cmd, op.a, Left(op))
        /\ \/ op' = Idle
           \/ Head(op.todo) = "hookread" /\ op' = GiveUp(2)
           \/ Head(op.todo) = "hookwrite" /\ op' = GiveUp(1)
    BY <1>4, AtIs DEF ConfigStepFails
  <2> QED BY <2>1, <2>2, GiveUpIsCalm, CalmKeeps
<1>5. CASE ServerHangs
  <2>1. /\ OpTyped(op) /\ op' = [op EXCEPT !.hung = TRUE] /\ UNCHANGED <<conf, guarded>>
        /\ op # Idle
    BY <1>5, AtIs DEF ServerHangs, world
  <2>2. op'.copy = op.copy /\ op'.a = op.a /\ op'.todo = op.todo
    BY <2>1 DEF OpTyped, Shaped, OpFields
  <2> QED BY <2>1, <2>2, CalmKeeps DEF Calm, Left
<1>6. CASE Outside
  BY <1>6, GuardedOutside
<1>7. CASE UNCHANGED vars
  BY <1>7 DEF vars, Guarded, Left
<1> QED BY <1>1, <1>2, <1>3, <1>4, <1>5, <1>6, <1>7 DEF Next

\* A config that guards blocks what it must, and the doctor sees it.
LEMMA GuardsBlock ==
  ASSUME NEW c, Guards(c)
  PROVE  /\ WriteBlocked(c, "edit", "native", TRUE, FALSE)
         /\ WriteBlocked(c, "edit", "unreadable", TRUE, TRUE)
         /\ BypassGuardLine(c) = "OK" /\ NativeScanLine(c, TRUE) = "OK"
<1>1. c \in Config /\ c \notin {Absent, Broken}
  BY ConfigAssumption DEF Guards
<1>2. PICK h \in ToSet(c.pre) : h.dent8 /\ h.write /\ h.enforce /\ "edit" \in h.tools
  BY DEF Guards
<1>3. InspectGuard(c) = "enforced"
  BY <1>1, <1>2, Zenon DEF InspectGuard
<1>4. WriteBlocked(c, "edit", "native", TRUE, FALSE) /\ WriteBlocked(c, "edit", "unreadable", TRUE, TRUE)
  BY <1>1, <1>2 DEF WriteBlocked, HookBlocks
<1> QED BY <1>3, <1>4 DEF BypassGuardLine, NativeScanLine, Protected

\* Once init has reported the guard installed (install_native_memory_guard in
\* hook_config.rs), it blocks a write to native memory until somebody edits that
\* file: no later install of the MCP server into the same file, no repair, failure
\* or kill of any command takes it out.
THEOREM GuardStaysInstalled == Spec => []GuardInstalledBlocks
<1>1. Init => Typed /\ Guarded
  BY TypedAtFirst DEF Init, Guarded
<1>2. Typed /\ Guarded /\ [Next]_vars => Typed' /\ Guarded'
  BY TypedKept, GuardedKept
<1>3. Guarded => GuardInstalledBlocks
  BY GuardsBlock DEF Guarded, GuardInstalledBlocks
<1> QED BY <1>1, <1>2, <1>3, PTL DEF Spec
-----------------------------------------------------------------------------
(* Init is all or nothing.                                                 *)

IdentityStep == {"key", "trust", "grant", "active", "idenv"}

FileFor(x, a) == IF x \in {"trust", "active"} THEN <<x, "shared">> ELSE <<x, a>>

\* The files there are, and those that would be if the command failed now. The
\* wrapper belongs to no bundle.
Existing(d) == {f \in File \ {WrapperFile} : d[f] # Absent}
Undone(o) == IF o = Idle THEN {} ELSE o.undo
Standing(d, o) == Existing(d) \ Undone(o)

Needed(a) == {TrustFile, ActiveFile, GrantFile(a), KeyFile(a)}
Fresh(a) == Needed(a) \cup {IdEnvFile(a)}

\* A bundle without loose ends: no identity without its key, nor an env that
\* names what is not there.
Settled(S, env) ==
  /\ TrustFile \in S => ActiveFile \in S
  /\ \A a \in Agent : GrantFile(a) \in S \/ IdEnvFile(a) \in S => Needed(a) \subseteq S
  /\ env # Absent => RegistryFile \in S /\ (env.ident # Absent => Needed(env.ident) \subseteq S)

\* A command that writes the bundle: what is there already (E), what would stay
\* (S), and what a failure would take away again.
Bundles(o, L, S, E) ==
  /\ o.undo \subseteq Fresh(o.a)
  /\ "commit" \notin L => o.undo = {}
  /\ "commit" \in L => \A x \in IdentityStep : x \in L \/ FileFor(x, o.a) \in E
  /\ o.cmd = "init" /\ "commit" \in L => Fresh(o.a) \cap S = {}
  /\ o.cmd = "init" /\ o.arg.ident /\ "commit" \notin L => GrantFile(o.a) \in S
  /\ o.cmd = "init" /\ "registry" \notin L => RegistryFile \in S
  /\ o.cmd \in {"add", "doctor"} /\ "idenv" \in L /\ "commit" \notin L =>
       {TrustFile, GrantFile(o.a), KeyFile(o.a)} \subseteq S

Retried == failed # Absent => op = Idle /\ failed.a \in Agent
                              /\ (~killed => InitAdmits(failed.a, failed.ident, TRUE))

Sound ==
  /\ ~killed => Settled(Standing(disk, op), disk[EnvFile])
  /\ op # Idle => Bundles(op, Left(op), Standing(disk, op), Existing(disk))
  /\ Retried

\* A step that writes no file of the bundle.
SameFiles(e, d) ==
  /\ \A f \in File \ {WrapperFile} : e[f] = Absent <=> d[f] = Absent
  /\ e[EnvFile] = d[EnvFile]

LEMMA ExistingSame ==
  ASSUME NEW d, NEW e, SameFiles(e, d)
  PROVE  Existing(e) = Existing(d)
BY DEF SameFiles, Existing

\* A command that goes on after such a step.
Onward(n, o) ==
  /\ n.cmd = o.cmd /\ n.a = o.a /\ n.arg = o.arg /\ n.undo = o.undo
  /\ Left(n) \subseteq Left(o)
  /\ \A x \in IdentityStep \cup {"commit", "registry"} : x \in Left(o) => x \in Left(n)

LEMMA OnwardBundles ==
  ASSUME NEW n, NEW o, NEW S, NEW E, Onward(n, o), Bundles(o, Left(o), S, E)
  PROVE  Bundles(n, Left(n), S, E)
BY DEF Onward, Bundles, IdentityStep

LEMMA OnwardSound ==
  ASSUME Sound, op # Idle, op' # Idle, Onward(op', op), SameFiles(disk', disk),
         UNCHANGED <<killed, failed>>
  PROVE  Sound'
<1>1. Existing(disk') = Existing(disk) /\ disk'[EnvFile] = disk[EnvFile]
  BY ExistingSame DEF SameFiles
<1>2. Standing(disk', op') = Standing(disk, op)
  BY <1>1 DEF Standing, Undone, Onward
<1>3. Bundles(op', Left(op'), Standing(disk', op'), Existing(disk'))
  BY <1>1, <1>2, OnwardBundles DEF Sound
<1>4. failed' = Absent
  BY DEF Sound, Retried
<1> QED BY <1>1, <1>2, <1>3, <1>4 DEF Sound, Retried, Left, Standing, Existing, Undone

\* A command that ends with nothing to undo.
LEMMA EndSound ==
  ASSUME Sound, op # Idle, op' = Idle, op.undo = {}, SameFiles(disk', disk),
         UNCHANGED <<killed, failed>>
  PROVE  Sound'
<1>1. Existing(disk') = Existing(disk) /\ disk'[EnvFile] = disk[EnvFile]
  BY ExistingSame DEF SameFiles
<1>2. Standing(disk', op') = Standing(disk, op)
  BY <1>1 DEF Standing, Undone
<1>3. failed' = Absent
  BY DEF Sound, Retried
<1> QED BY <1>1, <1>2, <1>3 DEF Sound, Retried, Standing, Existing, Undone

\* Where the bundle is written and committed the first steps are over.
LEMMA PastCommit ==
  ASSUME Typed, NEW steps, At(steps),
         Head(op.todo) \notin BundleStep \cup {"commit"},
         Head(op.todo) = "registry" => op.cmd # "init"
  PROVE  /\ "commit" \notin Left(op) /\ Left(op) \cap BundleStep = {}
         /\ op.cmd = "init" => "registry" \notin Left(op)
<1> DEFINE h == Head(op.todo)
<1>1. /\ h \in Steps /\ h \in StepsOf(op.cmd)
      /\ \A x \in Left(op) : x \in Steps /\ RankOf(op.cmd, h) <= RankOf(op.cmd, x)
  BY AtIs
<1> HIDE DEF h
<1>2. RankOf(op.cmd, h) >= 4
  BY <1>1 DEF h, RankOf, Steps, BundleStep, DoctorStep, SourceStep
<1>3. RankOf(op.cmd, "commit") = 3
  BY DEF RankOf, BundleStep
<1>4. \A x \in BundleStep : RankOf(op.cmd, x) = 2
  BY DEF RankOf, BundleStep
<1>5. op.cmd = "init" => RankOf(op.cmd, "registry") = 1
  BY DEF RankOf, BundleStep
<1>6. RankOf(op.cmd, h) \in Nat
  BY <1>1, RankIsNat
<1>7. "commit" \notin Left(op)
  BY <1>1, <1>2, <1>3, <1>6
<1>8. \A x \in BundleStep : x \notin Left(op)
  BY <1>1, <1>2, <1>4, <1>6
<1>9. op.cmd = "init" => "registry" \notin Left(op)
  BY <1>1, <1>2, <1>5, <1>6
<1> QED BY <1>7, <1>8, <1>9

LEMMA ForwardOnward ==
  ASSUME NEW o, Forward(o), o.undo = op.undo, op' # Idle,
         Head(op.todo) \notin IdentityStep \cup {"commit", "registry"}
  PROVE  Onward(op', op)
<1>1. Left(op)' = Left(op')
  BY DEF Left
<1> QED BY <1>1, ForwardIs DEF Onward

\* The steps that write nothing of the bundle.
LEMMA QuietSound ==
  ASSUME Typed, Sound, NEW steps, At(steps), SameFiles(disk', disk), UNCHANGED <<killed, failed>>,
         Head(op.todo) \notin BundleStep \cup {"commit", "registry"},
         \/ op' = Idle
         \/ \E o : Forward(o) /\ o.undo = op.undo
         \/ \E n \in {1, 2} : op' = GiveUp(n)
  PROVE  Sound'
<1>1. /\ op # Idle /\ OpTyped(op) /\ Planned(op) /\ "commit" \notin Left(op)
      /\ Left(op) \cap BundleStep = {} /\ (op.cmd = "init" => "registry" \notin Left(op))
      /\ op.undo = {}
  BY AtIs, PastCommit DEF Sound, Bundles
<1>2. CASE op' = Idle
  BY <1>1, <1>2, EndSound
<1>3. ASSUME NEW o, Forward(o), o.undo = op.undo, op' # Idle PROVE Sound'
  <2>1. Onward(op', op)
    BY <1>3, ForwardOnward DEF IdentityStep, BundleStep
  <2> QED BY <1>1, <1>3, <2>1, OnwardSound
<1>4. ASSUME NEW n \in {1, 2}, op' = GiveUp(n), op' # Idle PROVE Sound'
  <2>1. /\ op'.undo = op.undo /\ op'.cmd = op.cmd /\ op'.a = op.a /\ op'.arg = op.arg
        /\ Left(op') \subseteq Left(op)
    BY <1>1, <1>4, GiveUpIs
  <2>2. Existing(disk') = Existing(disk) /\ disk'[EnvFile] = disk[EnvFile]
    BY ExistingSame DEF SameFiles
  <2>3. Standing(disk', op') = Standing(disk, op)
    BY <1>1, <1>4, <2>1, <2>2 DEF Standing, Undone
  <2>4. Bundles(op', Left(op'), Standing(disk', op'), Existing(disk'))
    <3>1. "commit" \notin Left(op') /\ "idenv" \notin Left(op')
      BY <1>1, <2>1 DEF BundleStep
    <3>2. Bundles(op, Left(op), Standing(disk, op), Existing(disk))
      BY <1>1 DEF Sound
    <3> QED BY <1>1, <2>1, <2>3, <3>1, <3>2 DEF Bundles
  <2>5. failed' = Absent
    BY <1>1 DEF Sound, Retried
  <2> QED BY <1>1, <2>2, <2>3, <2>4, <2>5 DEF Sound, Retried, Left, Standing, Existing, Undone
<1> QED BY <1>2, <1>3, <1>4

LEMMA DiskSame ==
  ASSUME Typed, NEW v, v # Absent
  PROVE  SameFiles(disk, disk) /\ SameFiles([disk EXCEPT ![WrapperFile] = v], disk)
<1>1. EnvFile \in File /\ EnvFile # WrapperFile
  BY FilesDiffer DEF File
<1> QED BY <1>1 DEF SameFiles, Typed, DiskTyped

\* What a step of the bundle writes is there afterwards.
LEMMA ContentsThere ==
  ASSUME Typed, OpTyped(op), NEW step \in WrittenSteps, step \in StepsOf(op.cmd)
  PROVE  Contents(step) # Absent
<1>1. Absent \notin Nat /\ Absent # TRUE /\ (\A S \in SUBSET Agent : Absent # S) /\ Absent \notin ServerEnv
      /\ Absent \notin Grants
  BY SetupAssumption, ConfigAssumption DEF Grants, OptLevel
<1> QED BY <1>1, ContentsTyped DEF WrittenSteps

LEMMA FileForIs ==
  ASSUME NEW step \in IdentityStep
  PROVE  FileFor(step, op.a) = FileOf(step) /\ FileOf(step) \in Fresh(op.a)
<1>1. /\ step = "key" => FileFor(step, op.a) = KeyFile(op.a)
      /\ step = "grant" => FileFor(step, op.a) = GrantFile(op.a)
      /\ step = "idenv" => FileFor(step, op.a) = IdEnvFile(op.a)
      /\ step = "trust" => FileFor(step, op.a) = TrustFile
      /\ step = "active" => FileFor(step, op.a) = ActiveFile
  BY DEF FileFor, KeyFile, GrantFile, IdEnvFile, TrustFile, ActiveFile
<1>2. step \in WrittenSteps
  BY DEF WrittenSteps, IdentityStep
<1> QED BY <1>1, <1>2, FileOfIs DEF IdentityStep, Fresh, Needed

\* A file of the bundle that is written joins what is there, and what stays
\* unless the guard records it.
LEMMA WriteFileSound ==
  ASSUME Typed, Sound, WriteFile, ~Shaped(Idle)
  PROVE  Sound'
<1> DEFINE h == Head(op.todo)
           f == FileOf(h)
           S == Standing(disk, op)
           E == Existing(disk)
           T == Standing(disk', op')
<1>1. /\ op # Idle /\ OpTyped(op) /\ Planned(op) /\ h \in WrittenSteps /\ h \in Left(op)
      /\ h \in StepsOf(op.cmd) /\ Closed(op.cmd, op.a, Left(op)) /\ f \in File
      /\ UNCHANGED <<killed, failed>> /\ disk' = [disk EXCEPT ![f] = Contents(h)]
      /\ Typed'
  BY AtIs, WriteFileIs DEF WriteFile, WrittenSteps
<1>2. PICK o : /\ Forward(o)
               /\ o.undo = IF h # "registry" /\ "commit" \in Left(op) /\ disk[f] = Absent
                           THEN op.undo \cup {f} ELSE op.undo
  BY WriteFileIs
<1>3. /\ Bundles(op, Left(op), S, E) /\ failed = Absent
      /\ ~killed => Settled(S, disk[EnvFile])
  BY <1>1 DEF Sound, Retried
<1>4. \/ op' = Idle /\ Left(op) = {h}
      \/ /\ op' # Idle /\ op'.cmd = op.cmd /\ op'.a = op.a /\ op'.arg = op.arg /\ op'.undo = o.undo
         /\ Left(op') = Left(op) \ {h}
  <2>1. Left(op)' = Left(op')
    BY DEF Left
  <2> QED BY <1>2, <2>1, ForwardIs
<1>5. Contents(h) # Absent
  BY <1>1, ContentsThere
<1>6. f # WrapperFile /\ f \in File
  BY <1>1, FileOfIs, FilesDiffer DEF WrittenSteps
<1>7. Existing(disk') = E \cup {f}
  <2>1. \A g \in File : disk'[g] = IF g = f THEN Contents(h) ELSE disk[g]
    BY <1>1 DEF Typed, DiskTyped
  <2> QED BY <1>5, <1>6, <2>1 DEF Existing
<1>8. h # "commit" /\ (h \in IdentityStep \/ h \in {"registry", "env"})
  BY <1>1 DEF WrittenSteps, IdentityStep
<1>9. h \in IdentityStep => f \in Fresh(op.a)
  BY FileForIs
<1>10. h \in {"registry", "env"} => f \notin Fresh(op.a) /\ f = IF h = "env" THEN EnvFile ELSE RegistryFile
  BY <1>1, FileOfIs, FilesDiffer DEF Fresh, Needed
<1>11. op.undo \subseteq Fresh(op.a) /\ ("commit" \notin Left(op) => op.undo = {})
  BY <1>3 DEF Bundles
<1>12. h = "env" => "commit" \notin Left(op) /\ "registry" \notin Left(op) /\ op.cmd = "init"
  <2>1. h = "env" => op.cmd = "init"
    BY <1>1 DEF OpTyped, StepsOf, BundleStep, RepairStep, DoctorStep, SourceStep
  <2> QED BY <1>1, <2>1, PastCommit DEF WriteFile, BundleStep
\* What stays: the same, or the file as well.
<1>13. Undone(op) = op.undo
  BY <1>1 DEF Undone
<1>14. CASE "commit" \in Left(op) /\ h # "registry"
  <2>1. h \in IdentityStep /\ op' # Idle /\ "commit" \in Left(op')
    BY <1>4, <1>8, <1>12, <1>14
  <2>2. Undone(op') = IF disk[f] = Absent THEN op.undo \cup {f} ELSE op.undo
    BY <1>2, <1>4, <1>14, <2>1 DEF Undone
  <2>3. f \in E <=> disk[f] # Absent
    BY <1>6 DEF Existing
  <2>4. T = S
    BY <1>7, <1>13, <2>2, <2>3 DEF Standing
  <2>5. disk'[EnvFile] = disk[EnvFile]
    <3>1. f # EnvFile /\ EnvFile \in File
      BY <1>9, <2>1, FilesDiffer DEF Fresh, Needed, File
    <3> QED BY <1>1, <3>1 DEF Typed, DiskTyped
  <2>6. op'.undo \subseteq Fresh(op.a)
    BY <1>2, <1>4, <1>9, <1>11, <2>1
  <2>7. \A x \in IdentityStep : x \in Left(op') \/ FileFor(x, op.a) \in Existing(disk')
    <3>1. FileFor(h, op.a) = f
      BY <2>1, FileForIs
    <3> QED BY <1>3, <1>4, <1>7, <1>14, <2>1, <3>1 DEF Bundles
  <2>8. Bundles(op', Left(op'), T, Existing(disk'))
    <3>1. "registry" \in Left(op) => "registry" \in Left(op')
      BY <1>4, <1>14, <2>1
    <3> HIDE DEF S, E, T, f
    <3> QED BY <1>3, <1>4, <1>14, <2>1, <2>4, <2>6, <2>7, <3>1 DEF Bundles
  <2> QED BY <1>1, <1>3, <2>4, <2>5, <2>8 DEF Sound, Retried, Left, Standing, Existing, Undone
<1>15. CASE "commit" \notin Left(op) \/ h = "registry"
  <2>1. Undone(op') = op.undo
    BY <1>2, <1>4, <1>11, <1>15 DEF Undone
  <2>2. f \notin op.undo
    BY <1>10, <1>11, <1>15
  <2>3. T = S \cup {f}
    BY <1>7, <1>13, <2>1, <2>2 DEF Standing
  <2>4. h \notin {"key", "trust", "grant"}
    BY <1>1, <1>15 DEF Closed
  <2>5. h = "idenv" => op.cmd \in {"add", "doctor"}
    <3>1. h = "idenv" /\ op.cmd = "init" => FALSE
      BY <1>1, <1>15 DEF Closed, BundleStep
    <3> QED BY <1>1, <3>1 DEF OpTyped, StepsOf, BundleStep, RepairStep, DoctorStep, SourceStep
  <2>6. h = "idenv" => {TrustFile, GrantFile(op.a), KeyFile(op.a)} \subseteq S
    BY <1>1, <1>3, <1>15, <2>5 DEF Bundles
  <2>7. h \in {"registry", "active", "idenv", "env"}
    BY <1>1, <2>4 DEF WrittenSteps
  <2>8. /\ h = "registry" => f = RegistryFile
        /\ h = "active" => f = ActiveFile
        /\ h = "idenv" => f = IdEnvFile(op.a)
        /\ h = "env" => f = EnvFile
    BY <1>1, FileOfIs
  <2>9. ASSUME ~killed PROVE Settled(T, disk'[EnvFile])
    <3> HIDE DEF S, T, E, f, h
    <3>1. Settled(S, disk[EnvFile])
      BY <1>3, <2>9
    <3>2. TrustFile \in T => ActiveFile \in T
      BY <2>3, <2>7, <2>8, <3>1, FilesDiffer DEF Settled
    <3>3. ASSUME NEW a \in Agent, GrantFile(a) \in T \/ IdEnvFile(a) \in T PROVE Needed(a) \subseteq T
      <4>1. CASE GrantFile(a) \in S \/ IdEnvFile(a) \in S
        BY <2>3, <3>1, <4>1 DEF Settled
      <4>2. CASE h = "idenv" /\ a = op.a
        BY <2>3, <2>6, <3>1, <4>2 DEF Settled, Needed
      <4>3. GrantFile(a) # f /\ (IdEnvFile(a) = f => h = "idenv" /\ a = op.a)
        BY <2>7, <2>8, FilesDiffer
      <4> QED BY <2>3, <3>3, <4>1, <4>2, <4>3
    <3>4. CASE h # "env"
      <4>1. f # EnvFile /\ EnvFile \in File
        BY <2>7, <2>8, <3>4, FilesDiffer DEF File
      <4>2. disk'[EnvFile] = disk[EnvFile]
        BY <1>1, <4>1 DEF Typed, DiskTyped
      <4> QED BY <2>3, <3>1, <3>2, <3>3, <4>2 DEF Settled
    <3>5. CASE h = "env"
      <4>1. disk'[EnvFile] = Contents("env") /\ op.cmd = "init" /\ "registry" \notin Left(op)
            /\ "commit" \notin Left(op)
        BY <1>1, <1>12, <2>8, <3>5 DEF Typed, DiskTyped
      <4>2. /\ Contents("env").ident \in {Absent, op.a}
            /\ Contents("env").ident # Absent => op.arg.ident
        BY <1>1, <3>5, ContentsTyped
      <4>3. RegistryFile \in S /\ (op.arg.ident => GrantFile(op.a) \in S)
        BY <1>3, <4>1 DEF Bundles
      <4>4. op.arg.ident => Needed(op.a) \subseteq S
        BY <1>1, <3>1, <4>3 DEF Settled, OpTyped
      <4> QED BY <2>3, <3>2, <3>3, <4>1, <4>2, <4>3, <4>4 DEF Settled
    <3> QED BY <3>4, <3>5
  <2>10. op' # Idle => Bundles(op', Left(op'), T, Existing(disk'))
    <3>1. op' # Idle => op'.undo = op.undo
      BY <1>2, <1>4, <1>15
    <3>2. h = "registry" => RegistryFile \in T
      BY <2>3, <2>8
    <3>3. op.cmd = "init" /\ "commit" \in Left(op) => Fresh(op.a) \cap T = {}
      BY <1>3, <1>10, <1>15, <2>3 DEF Bundles
    <3>4. "commit" \in Left(op) => \A x \in IdentityStep : x \in Left(op) \ {h} \/ FileFor(x, op.a) \in Existing(disk')
      <4>1. "commit" \in Left(op) => h \notin IdentityStep
        BY <1>15 DEF IdentityStep
      <4> QED BY <1>3, <1>7, <4>1 DEF Bundles
    <3>5. S \subseteq T
      BY <2>3
    <3> HIDE DEF S, E, T, f, h
    <3> QED BY <1>3, <1>4, <1>8, <3>1, <3>2, <3>3, <3>4, <3>5 DEF Bundles
  <2> QED BY <1>1, <1>3, <2>9, <2>10 DEF Sound, Retried, Left, Standing, Existing, Undone
<1> QED BY <1>14, <1>15

\* The commit: everything the guard recorded stays.
LEMMA RecordSound ==
  ASSUME Typed, Sound, Record, ~Shaped(Idle)
  PROVE  Sound'
<1> DEFINE h == Head(op.todo)
           S == Standing(disk, op)
           E == Existing(disk)
<1>1. /\ op # Idle /\ OpTyped(op) /\ Planned(op) /\ h \in Left(op) /\ h \in {"history", "commit", "ceiling"}
      /\ \A x \in Left(op) : RankOf(op.cmd, h) <= RankOf(op.cmd, x)
      /\ UNCHANGED <<disk, killed, failed>>
  BY AtIs DEF Record, world
<1>2. PICK o : Forward(o) /\ o.undo = IF h = "commit" THEN {} ELSE op.undo
  BY RecordIs
<1>3. /\ Bundles(op, Left(op), S, E) /\ failed = Absent
      /\ ~killed => Settled(S, disk[EnvFile])
  BY <1>1 DEF Sound, Retried
<1>4. \/ op' = Idle /\ Left(op) = {h}
      \/ /\ op' # Idle /\ op'.cmd = op.cmd /\ op'.a = op.a /\ op'.arg = op.arg /\ op'.undo = o.undo
         /\ Left(op') = Left(op) \ {h}
  <2>1. Left(op)' = Left(op')
    BY DEF Left
  <2> QED BY <1>2, <2>1, ForwardIs
<1>5. SameFiles(disk', disk)
  BY <1>1 DEF SameFiles
<1>6. CASE h # "commit"
  <2>1. CASE op' = Idle
    <3>1. op.undo = {}
      BY <1>3, <1>4, <1>6, <2>1 DEF Bundles
    <3> QED BY <1>1, <1>5, <2>1, <3>1, EndSound
  <2>2. CASE op' # Idle
    <3>1. Onward(op', op)
      BY <1>1, <1>2, <1>4, <1>6, <2>2 DEF Onward, IdentityStep
    <3> QED BY <1>1, <1>5, <2>2, <3>1, OnwardSound
  <2> QED BY <2>1, <2>2
<1>7. CASE h = "commit"
  <2>1. RankOf(op.cmd, "commit") = 3 /\ \A x \in IdentityStep : RankOf(op.cmd, x) = 2
    BY DEF RankOf, BundleStep, IdentityStep
  <2>2. \A x \in IdentityStep : x \notin Left(op)
    BY <1>1, <1>7, <2>1
  <2>3. Fresh(op.a) \subseteq E
    <3>1. \A x \in IdentityStep : FileFor(x, op.a) \in E
      BY <1>1, <1>3, <1>7, <2>2 DEF Bundles
    <3>2. {"key", "trust", "grant", "active", "idenv"} = IdentityStep
      BY DEF IdentityStep
    <3>3. /\ FileFor("key", op.a) = KeyFile(op.a) /\ FileFor("grant", op.a) = GrantFile(op.a)
          /\ FileFor("idenv", op.a) = IdEnvFile(op.a) /\ FileFor("trust", op.a) = TrustFile
          /\ FileFor("active", op.a) = ActiveFile
      BY DEF FileFor, KeyFile, GrantFile, IdEnvFile, TrustFile, ActiveFile
    <3> HIDE DEF E
    <3>4. KeyFile(op.a) \in E /\ GrantFile(op.a) \in E /\ IdEnvFile(op.a) \in E /\ TrustFile \in E /\ ActiveFile \in E
      BY <3>1, <3>2, <3>3
    <3> QED BY <3>4 DEF Fresh, Needed
  <2>4. Undone(op') = {} /\ Undone(op) = op.undo
    BY <1>1, <1>2, <1>4, <1>7 DEF Undone
  <2>5. Standing(disk', op') = E /\ Existing(disk') = E
    BY <1>1, <2>4 DEF Standing
  <2>6. S \subseteq E /\ E \subseteq S \cup Fresh(op.a)
    BY <1>3, <2>4 DEF Bundles, Standing
  <2> HIDE DEF S, E, h
  <2>7. ASSUME ~killed PROVE Settled(E, disk[EnvFile])
    <3>1. Settled(S, disk[EnvFile])
      BY <1>3, <2>7
    <3>2. TrustFile \in E => ActiveFile \in E
      BY <2>3 DEF Fresh, Needed
    <3>3. ASSUME NEW a \in Agent, GrantFile(a) \in E \/ IdEnvFile(a) \in E PROVE Needed(a) \subseteq E
      <4>1. CASE a = op.a
        BY <2>3, <4>1 DEF Fresh
      <4>2. CASE a # op.a
        <5>1. GrantFile(a) \notin Fresh(op.a) /\ IdEnvFile(a) \notin Fresh(op.a)
          BY <4>2, FilesDiffer DEF Fresh, Needed
        <5> QED BY <2>6, <3>1, <3>3, <5>1 DEF Settled
      <4> QED BY <4>1, <4>2
    <3> QED BY <2>6, <3>1, <3>2, <3>3 DEF Settled
  <2>8. op' # Idle => Bundles(op', Left(op'), E, E)
    <3>1. op' # Idle => "commit" \notin Left(op') /\ "idenv" \notin Left(op') /\ op'.undo = {}
      BY <1>2, <1>4, <1>7, <2>2 DEF IdentityStep
    <3>2. GrantFile(op.a) \in E
      BY <2>3 DEF Fresh, Needed
    <3> QED BY <1>3, <1>4, <1>7, <2>6, <3>1, <3>2 DEF Bundles
  <2> QED BY <1>1, <1>3, <2>5, <2>7, <2>8 DEF Sound, Retried, Left, Standing, Existing, Undone
<1> QED BY <1>6, <1>7

\* A new command has nothing to undo.
LEMMA StartSound ==
  ASSUME Typed, Sound, Start
  PROVE  Sound'
<1> DEFINE E == Existing(disk)
<1>1. Begin(op') /\ Starts(op') /\ op = Idle /\ UNCHANGED <<disk, killed>> /\ failed' = Absent
  BY StartIs DEF Begin, world
<1>2. op'.undo = {}
  BY <1>1 DEF Starts, Started
<1>3. Standing(disk', op') = E /\ Standing(disk, op) = E /\ Existing(disk') = E
  BY <1>1, <1>2 DEF Standing, Undone
<1>4. \A f \in File : f # WrapperFile => (f \in E <=> Exists(f))
  BY DEF Existing, Exists
<1> HIDE DEF E
<1>5. ASSUME NEW arg \in InitArgs, InitAdmits(arg.a, arg.ident, arg.force),
             Started(op', "init", arg.a, InitSteps(arg), arg, <<>>)
      PROVE  Bundles(op', Left(op'), E, E)
  <2>1. /\ "registry" \in Left(op')
        /\ "commit" \in Left(op') <=> arg.ident /\ ~ExistingBundle(arg.a)
        /\ "commit" \in Left(op') => BundleStep \subseteq Left(op')
    BY <1>5, InitPlan DEF Started, Left
  <2>2. op'.cmd = "init" /\ op'.a = arg.a /\ op'.arg = arg
    BY <1>5 DEF Started
  <2>3. arg.a \in Agent
    BY ArgsAssumption
  <2>4. arg.ident => Exists(GrantFile(arg.a)) \/ \A f \in Fresh(arg.a) : ~Exists(f)
    BY <1>5 DEF InitAdmits, ExistingBundle, BootstrapAdmits, Fresh, Needed
  <2>5. "commit" \in Left(op') => Fresh(arg.a) \cap E = {}
    <3>1. Fresh(arg.a) \subseteq File \ {WrapperFile}
      BY <2>3, FilesTyped, FilesDiffer DEF Fresh, Needed
    <3> QED BY <1>4, <2>1, <2>4, <3>1 DEF ExistingBundle
  <2>6. arg.ident /\ "commit" \notin Left(op') => GrantFile(arg.a) \in E
    <3>1. GrantFile(arg.a) \in File \ {WrapperFile}
      BY <2>3, FilesTyped, FilesDiffer
    <3> QED BY <1>4, <2>1, <3>1 DEF ExistingBundle
  <2>7. "commit" \in Left(op') => \A x \in IdentityStep : x \in Left(op')
    BY <2>1 DEF BundleStep, IdentityStep
  <2> QED BY <1>2, <2>1, <2>2, <2>5, <2>6, <2>7 DEF Bundles
<1>6. ASSUME NEW arg \in AddArgs, AddAdmits(arg.a),
             Started(op', "add", arg.a, AddPlanOf(arg.a), arg, <<>>)
      PROVE  Bundles(op', Left(op'), E, E)
  <2>1. arg.a \in Agent \ {"local"}
    BY ArgsAssumption
  <2>2. /\ "commit" \in Left(op') => BundleStep \ {"trust"} \subseteq Left(op')
        /\ "commit" \notin Left(op') => Exists(GrantFile(arg.a)) /\ Exists(KeyFile(arg.a))
    BY <1>6, <2>1, AddPlan DEF Started, Left
  <2>3. op'.cmd = "add" /\ op'.a = arg.a
    BY <1>6 DEF Started
  <2>4. {TrustFile, GrantFile(arg.a), KeyFile(arg.a)} \subseteq File \ {WrapperFile} /\ Exists(TrustFile)
    BY <1>6, <2>1, FilesTyped, FilesDiffer DEF AddAdmits
  <2>5. "commit" \in Left(op') => \A x \in IdentityStep : x \in Left(op') \/ FileFor(x, arg.a) \in E
    <3>1. FileFor("trust", arg.a) = TrustFile
      BY DEF FileFor, TrustFile
    <3> QED BY <1>4, <2>2, <2>4, <3>1 DEF BundleStep, IdentityStep
  <2>6. "commit" \notin Left(op') => {TrustFile, GrantFile(arg.a), KeyFile(arg.a)} \subseteq E
    BY <1>4, <2>2, <2>4
  <2> QED BY <1>2, <2>3, <2>5, <2>6 DEF Bundles
<1>7. ASSUME NEW arg \in InstallArgs,
             Started(op', "install", arg.a, <<"wrapper", "mcpread", "mcpwrite">>, arg, <<>>)
      PROVE  Bundles(op', Left(op'), E, E)
  <2>1. arg.a \in Agent \ {"local"}
    BY ArgsAssumption
  <2>2. "commit" \notin Left(op') /\ op'.cmd = "install"
    BY <1>7, <2>1, InstallPlan DEF Started, Left
  <2> QED BY <1>2, <2>2 DEF Bundles
<1>8. ASSUME NEW arg \in DoctorArgs,
             arg.repair => Exists(TrustFile) /\ Exists(GrantFile(Head(arg.agents))),
             Started(op', "doctor", Head(arg.agents), DoctorPlanOf(arg), arg, Tail(arg.agents))
      PROVE  Bundles(op', Left(op'), E, E)
  <2> DEFINE a == Head(arg.agents)
  <2>1. arg.agents \in Seq(Agent \ {"local"}) /\ arg.agents # <<>>
    BY ArgsAssumption
  <2>2. a \in Agent \ {"local"}
    BY <2>1, HeadTailProperties
  <2>3. op'.cmd = "doctor" /\ op'.a = a /\ op'.todo = DoctorPlanOf(arg)
    BY <1>8 DEF Started
  <2>4. /\ "idenv" \in Left(op') => arg.repair /\ Exists(KeyFile(a))
        /\ Plan("doctor", a, op'.todo)
    BY <2>2, <2>3, DoctorPlan DEF Left
  <2>5. "commit" \notin Left(op')
    BY <2>4 DEF Plan, Closed, Left, StepsOf, RepairStep, DoctorStep
  <2> HIDE DEF a
  <2>6. {TrustFile, GrantFile(a), KeyFile(a)} \subseteq File \ {WrapperFile}
    BY <2>2, FilesTyped, FilesDiffer
  <2>7. "idenv" \in Left(op') => {TrustFile, GrantFile(a), KeyFile(a)} \subseteq E
    BY <1>4, <1>8, <2>4, <2>6 DEF a
  <2> QED BY <1>2, <2>3, <2>5, <2>7 DEF Bundles
<1>9. ASSUME NEW write \in BOOLEAN,
             Started(op', "source", "local", SourceSteps, [write |-> write], <<>>)
      PROVE  Bundles(op', Left(op'), E, E)
  <2>1. "commit" \notin Left(op') /\ op'.cmd = "source"
    BY <1>9, SourcePlan DEF Started, Left, SourceStep
  <2> QED BY <1>2, <2>1 DEF Bundles
<1>10. Bundles(op', Left(op'), E, E)
  BY <1>1, <1>5, <1>6, <1>7, <1>8, <1>9 DEF Starts
<1> QED BY <1>1, <1>3, <1>10 DEF Sound, Retried, Left, Standing, Existing, Undone, E

LEMMA FinishSound ==
  ASSUME Typed, Sound, op # Idle, op.cmd \in {"doctor", "source"}, NEW green, NEW seen,
         Finish(green, seen), UNCHANGED <<disk, killed, failed>>
  PROVE  Sound'
<1>1. OpTyped(op) /\ Planned(op) /\ Bundles(op, Left(op), Standing(disk, op), Existing(disk))
  BY DEF Typed, Sound
<1>2. "commit" \notin Left(op) /\ op.undo = {}
  BY <1>1 DEF Planned, Plan, Closed, Left, StepsOf, RepairStep, DoctorStep, SourceStep, Bundles
<1>3. SameFiles(disk', disk)
  BY DEF SameFiles
<1>4. CASE op.rest = <<>>
  <2>1. op' = Idle
    BY <1>1, <1>4, FinishReport
  <2> QED BY <1>2, <1>3, <2>1, EndSound
<1>5. CASE op.rest # <<>>
  <2>1. op'.todo = AgentSteps(op.arg) /\ op'.undo = {} /\ op'.cmd = "doctor"
        /\ op.arg \in DoctorArgs /\ op.rest \in Seq(Agent \ {"local"})
    BY <1>1, <1>2, <1>5, FinishNext DEF OpTyped, ArgOK
  <2>2. Head(op.rest) \in Agent \ {"local"}
    BY <1>5, <2>1, HeadTailProperties
  <2>3. Left(op') \subseteq {"config"} \cup DoctorStep
    BY <2>1, <2>2, AgentPlan DEF Left
  <2>4. Standing(disk', op') = Standing(disk, op)
    BY <1>2, <2>1 DEF Standing, Undone
  <2>5. "commit" \notin Left(op') /\ "idenv" \notin Left(op')
    BY <2>3 DEF DoctorStep
  <2>6. Bundles(op', Left(op'), Standing(disk', op'), Existing(disk'))
    BY <2>1, <2>5 DEF Bundles
  <2>7. failed' = Absent
    BY DEF Sound, Retried
  <2> QED BY <2>4, <2>6, <2>7 DEF Sound, Retried, Left, Standing, Existing, Undone
<1> QED BY <1>4, <1>5

\* A command that fails while it writes the bundle: what stays is what the
\* guard did not record.
LEMMA FailSound ==
  ASSUME Typed, Sound, BundleStepFails
  PROVE  Sound'
<1> DEFINE S == Standing(disk, op)
<1>1. op # Idle /\ OpTyped(op) /\ op' = Idle /\ disk' = RolledBack /\ UNCHANGED killed
      /\ failed' = (IF op.cmd = "init" THEN [a |-> op.a, ident |-> op.arg.ident] ELSE Absent)
  BY AtIs DEF BundleStepFails
<1>2. /\ Bundles(op, Left(op), S, Existing(disk))
      /\ ~killed => Settled(S, disk[EnvFile])
  BY <1>1 DEF Sound
<1>3. \A f \in File : disk'[f] = IF f \in op.undo THEN Absent ELSE disk[f]
  BY <1>1 DEF RolledBack
<1>4. Existing(disk') = S /\ Standing(disk', op') = S
  BY <1>1, <1>3 DEF Existing, Standing, Undone
<1>5. disk'[EnvFile] = disk[EnvFile]
  <2>1. EnvFile \in File /\ EnvFile \notin Fresh(op.a)
    BY FilesDiffer DEF File, Fresh, Needed
  <2> QED BY <1>2, <1>3, <2>1 DEF Bundles
<1>6. ASSUME op.cmd = "init", op.arg.ident
      PROVE  disk'[GrantFile(op.a)] # Absent \/ \A f \in Fresh(op.a) : disk'[f] = Absent
  <2>1. Fresh(op.a) \subseteq File \ {WrapperFile}
    BY <1>1, FilesTyped, FilesDiffer DEF Fresh, Needed, OpTyped
  <2>2. \A f \in Fresh(op.a) : f \in S <=> disk'[f] # Absent
    BY <1>4, <2>1 DEF Existing
  <2>3. GrantFile(op.a) \in S \/ Fresh(op.a) \cap S = {}
    BY <1>2, <1>6 DEF Bundles
  <2> QED BY <2>2, <2>3 DEF Fresh, Needed
<1>7. Retried'
  <2>1. CASE op.cmd = "init"
    <3>1. failed'.a = op.a /\ failed'.ident = op.arg.ident /\ op.a \in Agent
      BY <1>1, <2>1 DEF OpTyped
    <3>2. failed'.ident => \/ disk'[GrantFile(failed'.a)] # Absent
                           \/ \A f \in Fresh(failed'.a) : disk'[f] = Absent
      BY <1>6, <2>1, <3>1
    <3> QED BY <1>1, <3>1, <3>2 DEF Retried, InitAdmits, ExistingBundle, BootstrapAdmits, Exists, Fresh, Needed
  <2>2. CASE op.cmd # "init"
    BY <1>1, <2>2 DEF Retried
  <2> QED BY <2>1, <2>2
<1> QED BY <1>1, <1>2, <1>4, <1>5, <1>7 DEF Sound, Standing, Existing, Undone

\* What happens beside a command adds and removes no file of the bundle.
LEMMA OutsideFiles ==
  ASSUME Typed, Outside
  PROVE  SameFiles(disk', disk) /\ Beside
<1>1. SameFiles(disk, disk) /\ SameFiles([disk EXCEPT ![WrapperFile] = "stale"], disk)
  <2>1. CASE "stale" # Absent
    BY <2>1, DiskSame
  <2>2. CASE "stale" = Absent
    <3>1. EnvFile \in File /\ EnvFile # WrapperFile
      BY FilesDiffer DEF File
    <3> QED BY <3>1 DEF SameFiles, Typed, DiskTyped
  <2> QED BY <2>1, <2>2
<1>2. CASE (\E f \in ConfigFile : EditConfig(f)) \/ Build \/ Daemon
  BY <1>1, <1>2 DEF EditConfig, Build, Daemon
<1>3. ASSUME NEW s \in Agent, RevokeSource(s) PROVE SameFiles(disk', disk) /\ Beside
  <2>1. disk' = [disk EXCEPT ![ActiveFile] = disk[ActiveFile] \ {s}] /\ s \in Active /\ Beside
    BY <1>3 DEF RevokeSource
  <2>2. disk[ActiveFile] \subseteq Agent /\ disk[ActiveFile] # Absent
    BY <2>1 DEF Active, Exists, Typed, DiskTyped
  <2>3. disk[ActiveFile] \ {s} # Absent
    BY <2>2, SetupAssumption
  <2>4. ActiveFile # EnvFile /\ EnvFile \in File
    BY FilesDiffer DEF File
  <2> QED BY <2>1, <2>2, <2>3, <2>4 DEF SameFiles, Typed, DiskTyped
<1> QED BY <1>2, <1>3 DEF Outside

LEMMA OutsideSound ==
  ASSUME Typed, Sound, Outside, ~Shaped(Idle)
  PROVE  Sound'
<1>1. SameFiles(disk', disk) /\ Beside /\ UNCHANGED <<killed, failed>>
  BY OutsideFiles DEF Beside
<1>2. CASE op # Idle
  <2>1. Revised(op', op)
    BY <1>1, <1>2, BesideIs
  <2>2. op' # Idle /\ Onward(op', op)
    BY <2>1 DEF Revised, Onward, Left
  <2> QED BY <1>1, <1>2, <2>2, OnwardSound
<1>3. CASE op = Idle
  <2>1. op' = Idle
    BY <1>1, <1>3 DEF Beside
  <2>2. Existing(disk') = Existing(disk) /\ disk'[EnvFile] = disk[EnvFile]
    BY <1>1, ExistingSame DEF SameFiles
  <2>3. Standing(disk', op') = Standing(disk, op)
    BY <1>3, <2>1, <2>2 DEF Standing
  <2>4. Retried'
    <3>1. ASSUME failed # Absent, ~killed
          PROVE  failed.ident => \/ disk'[GrantFile(failed.a)] # Absent
                                 \/ \A f \in Fresh(failed.a) : disk'[f] = Absent
      <4>1. failed.a \in Agent /\ InitAdmits(failed.a, failed.ident, TRUE)
        BY <3>1 DEF Sound, Retried
      <4>2. failed.ident => \/ disk[GrantFile(failed.a)] # Absent
                            \/ \A f \in Fresh(failed.a) : disk[f] = Absent
        BY <4>1 DEF InitAdmits, ExistingBundle, BootstrapAdmits, Exists, Fresh, Needed
      <4>3. Fresh(failed.a) \subseteq File \ {WrapperFile} /\ GrantFile(failed.a) \in Fresh(failed.a)
        BY <4>1, FilesTyped, FilesDiffer DEF Fresh, Needed
      <4> QED BY <1>1, <4>2, <4>3 DEF SameFiles
    <3>2. failed # Absent => failed.a \in Agent
      BY DEF Sound, Retried
    <3> QED BY <1>1, <2>1, <3>1, <3>2
            DEF Retried, InitAdmits, ExistingBundle, BootstrapAdmits, Exists, Fresh, Needed
  <2> QED BY <1>1, <2>1, <2>2, <2>3, <2>4 DEF Sound, Standing, Existing, Undone
<1> QED BY <1>2, <1>3

LEMMA StepSound ==
  ASSUME Typed, Sound, Step, ~Shaped(Idle)
  PROVE  Sound'
<1>1. CASE WriteFile
  BY <1>1, WriteFileSound
<1>2. CASE Record
  BY <1>2, RecordSound
<1>3. CASE HookRead \/ McpRead \/ HookWrite \/ McpWrite \/ PrepareCommand
  <2>1. At({"hookread", "hookwrite", "wrapper", "mcpread", "mcpwrite"}) /\ UNCHANGED <<killed, failed>>
    BY <1>3 DEF HookRead, McpRead, HookWrite, McpWrite, PrepareCommand, At, world
  <2>2. SameFiles(disk', disk)
    <3>1. disk' = disk \/ disk' = [disk EXCEPT ![WrapperFile] = "current"]
      BY <1>3 DEF HookRead, McpRead, HookWrite, McpWrite, PrepareCommand, world
    <3>2. EnvFile \in File /\ EnvFile # WrapperFile
      BY FilesDiffer DEF File
    <3> QED BY <3>1, <3>2 DEF SameFiles, Typed, DiskTyped
  <2>3. \/ op' = Idle
        \/ \E o : Forward(o) /\ o.undo = op.undo
        \/ \E n \in {1, 2} : op' = GiveUp(n)
    <3>1. CASE HookWrite \/ McpWrite \/ PrepareCommand
      <4>1. Forward(op)
        BY <2>1, <3>1, AtIs, ForwardSelf DEF HookWrite, McpWrite, PrepareCommand
      <4> QED BY <4>1
    <3>2. CASE HookRead
      BY <3>2, HookReadIs
    <3>3. CASE McpRead
      BY <3>3, McpReadIs
    <3> QED BY <1>3, <3>1, <3>2, <3>3
  <2>4. Head(op.todo) \notin BundleStep \cup {"commit", "registry"}
    BY <2>1 DEF At, BundleStep
  <2> QED BY <2>1, <2>2, <2>3, <2>4, QuietSound
<1>4. CASE DoctorConfig \/ DoctorEnv \/ DoctorServer \/ DoctorSelf \/ DoctorSmoke \/ DoctorAssert
           \/ DoctorVerify \/ DoctorRetract \/ WaitWithTimeout
  <2>1. op # Idle /\ UNCHANGED <<disk, killed, failed>>
    BY <1>4 DEF DoctorConfig, DoctorEnv, DoctorServer, DoctorSelf, DoctorSmoke, DoctorAssert,
                DoctorVerify, DoctorRetract, WaitWithTimeout, Checking, world, At
  <2>2. SameFiles(disk', disk) /\ OpTyped(op) /\ Planned(op)
    BY <2>1 DEF SameFiles, Typed
  <2>3. \/ \E green, seen : Finish(green, seen)
        \/ /\ At({"config", "agentenv", "server", "self", "smoke", "assert", "probe", "verify"})
           /\ \E o : Forward(o) /\ o.undo = op.undo
    <3>1. CASE DoctorEnv \/ DoctorServer \/ DoctorSelf
      <4>1. At({"config", "agentenv", "server", "self", "smoke", "assert", "probe", "verify"})
        BY <3>1 DEF DoctorEnv, DoctorServer, DoctorSelf, At
      <4> QED BY <3>1, <4>1, DoctorEnvIs, DoctorServerIs, DoctorSelfIs
    <3>2. CASE DoctorConfig \/ DoctorSmoke \/ DoctorAssert \/ DoctorVerify \/ DoctorRetract \/ WaitWithTimeout
      <4>1. \/ \E green, seen : Finish(green, seen)
            \/ /\ At({"config", "agentenv", "server", "self", "smoke", "assert", "probe", "verify"})
               /\ op' = Advance(op)
        BY <3>2 DEF DoctorConfig, DoctorSmoke, DoctorAssert, DoctorVerify, DoctorRetract, WaitWithTimeout, At
      <4>2. op' = Advance(op) => Forward(op)
        BY <2>2, ForwardSelf
      <4> QED BY <4>1, <4>2
    <3> QED BY <1>4, <3>1, <3>2
  <2>4. CASE \E green, seen : Finish(green, seen)
    <3>1. op.cmd \in {"doctor", "source"}
      <4>1. CASE WaitWithTimeout
        BY <2>2, <4>1 DEF WaitWithTimeout, OpTyped
      <4>2. CASE ~WaitWithTimeout
        <5>1. /\ Head(op.todo) \in {"config", "agentenv", "server", "self", "smoke", "assert", "probe",
                                    "verify", "retract", "unprobe"}
              /\ Head(op.todo) \in StepsOf(op.cmd)
          BY <1>4, <4>2, AtIs DEF DoctorConfig, DoctorEnv, DoctorServer, DoctorSelf, DoctorSmoke,
                       DoctorAssert, DoctorVerify, DoctorRetract, At
        <5> QED BY <2>2, <5>1 DEF StepsOf, BundleStep, OpTyped
      <4> QED BY <4>1, <4>2
    <3> QED BY <2>1, <2>4, <3>1, FinishSound
  <2>5. CASE /\ At({"config", "agentenv", "server", "self", "smoke", "assert", "probe", "verify"})
             /\ \E o : Forward(o) /\ o.undo = op.undo
    <3>1. Head(op.todo) \notin BundleStep \cup {"commit", "registry"}
      BY <2>5 DEF At, BundleStep
    <3> QED BY <2>1, <2>2, <2>5, <3>1, QuietSound
  <2> QED BY <2>3, <2>4, <2>5
<1>5. CASE Refused
  <2>1. At({"ceiling", "wrapper"}) /\ op' = Idle /\ UNCHANGED <<disk, killed, failed>>
    BY <1>5 DEF Refused, At, world
  <2>2. Head(op.todo) \notin BundleStep \cup {"commit", "registry"} /\ SameFiles(disk', disk)
    BY <2>1 DEF At, BundleStep, SameFiles
  <2> QED BY <2>1, <2>2, QuietSound
<1> QED BY <1>1, <1>2, <1>3, <1>4, <1>5 DEF Step

LEMMA SoundKept ==
  ASSUME Typed, Sound, [Next]_vars, ~Shaped(Idle)
  PROVE  Sound'
<1>1. CASE Start
  BY <1>1, StartSound
<1>2. CASE Step
  BY <1>2, StepSound
<1>3. CASE BundleStepFails
  BY <1>3, FailSound
<1>4. CASE ConfigStepFails
  <2>1. /\ At({"hookread", "hookwrite", "wrapper", "mcpread", "mcpwrite"})
        /\ UNCHANGED <<disk, killed, failed>>
        /\ op' = Idle \/ \E n \in {1, 2} : op' = GiveUp(n)
    BY <1>4 DEF ConfigStepFails, At, world
  <2>2. Head(op.todo) \notin BundleStep \cup {"commit", "registry"} /\ SameFiles(disk', disk)
    BY <2>1 DEF At, BundleStep, SameFiles
  <2> QED BY <2>1, <2>2, QuietSound
<1>5. CASE ServerHangs
  <2>1. /\ OpTyped(op) /\ op' = [op EXCEPT !.hung = TRUE] /\ UNCHANGED <<disk, killed, failed>>
        /\ op # Idle
    BY <1>5, AtIs DEF ServerHangs, world
  <2>2. /\ Shaped(op') /\ op'.cmd = op.cmd /\ op'.a = op.a /\ op'.arg = op.arg /\ op'.undo = op.undo
        /\ op'.todo = op.todo
    BY <2>1 DEF OpTyped, Shaped, OpFields
  <2>3. op' # Idle /\ Onward(op', op) /\ SameFiles(disk', disk)
    BY <2>1, <2>2 DEF Onward, Left, SameFiles
  <2> QED BY <2>1, <2>3, OnwardSound
<1>6. CASE Kill
  BY <1>6 DEF Kill, world, Sound, Retried
<1>7. CASE Outside
  BY <1>7, OutsideSound
<1>8. CASE UNCHANGED vars
  <2>1. UNCHANGED <<disk, op, killed, failed>>
    BY <1>8 DEF vars
  <2>2. InitAdmits(failed.a, failed.ident, TRUE)' <=> InitAdmits(failed.a, failed.ident, TRUE)
    BY <2>1 DEF InitAdmits, ExistingBundle, BootstrapAdmits, Exists
  <2> QED BY <2>1, <2>2 DEF Sound, Retried, Left, Standing, Existing, Undone
<1> QED BY <1>1, <1>2, <1>3, <1>4, <1>5, <1>6, <1>7, <1>8 DEF Next

\* init_project, add_source_to_bundle and the repair of the doctor never leave a
\* project half set up (setup.rs, identity.rs): wherever a step fails, the env and
\* the identity envs that exist name files that exist, and a failed init can be run
\* again. Only a kill between two files can part them. Idle must not look like a
\* command.
THEOREM InitIsAllOrNothing ==
  ASSUME ~Shaped(Idle)
  PROVE  Spec => []InitIsAtomic
<1>1. Init => Typed /\ Sound
  <2> SUFFICES ASSUME Init PROVE Typed /\ Sound
    OBVIOUS
  <2>1. \A f \in File : disk[f] = Absent
    BY DEF Init
  <2>2. EnvFile \in File
    BY DEF File
  <2>3. op = Idle /\ failed = Absent
    BY DEF Init
  <2>4. Standing(disk, op) = {}
    BY <2>1 DEF Standing, Existing
  <2>5. Settled({}, disk[EnvFile])
    BY <2>1, <2>2 DEF Settled
  <2> QED BY <2>3, <2>4, <2>5, TypedAtFirst DEF Sound, Retried
<1>2. Typed /\ Sound /\ [Next]_vars => Typed' /\ Sound'
  BY TypedKept, SoundKept
<1>3. Typed /\ Sound => InitIsAtomic
  <2> SUFFICES ASSUME Typed, Sound PROVE InitIsAtomic
    OBVIOUS
  <2> DEFINE S == Standing(disk, op)
  <2>1. \A f \in S : Exists(f)
    BY DEF Standing, Existing, Exists
  <2>2. op = Idle => \A a \in Agent : Exists(IdEnvFile(a)) => IdEnvFile(a) \in S
    <3>1. \A a \in Agent : IdEnvFile(a) \in File \ {WrapperFile}
      BY FilesTyped, FilesDiffer
    <3> QED BY <3>1 DEF Standing, Existing, Exists, Undone
  <2> HIDE DEF S
  <2>3. ~killed => Settled(S, disk[EnvFile])
    BY DEF Sound, S
  <2>4. ASSUME Exists(EnvFile), ~killed
        PROVE  /\ Exists(RegistryFile)
               /\ LET s == disk[EnvFile].ident
                  IN s # Absent => \A f \in {TrustFile, ActiveFile, GrantFile(s), KeyFile(s)} : Exists(f)
    BY <2>1, <2>3, <2>4 DEF Settled, Needed, Exists
  <2>5. ASSUME op = Idle, ~killed, NEW a \in Agent, Exists(IdEnvFile(a)),
               NEW f \in {TrustFile, ActiveFile, GrantFile(a), KeyFile(a)}
        PROVE  Exists(f)
    BY <2>1, <2>2, <2>3, <2>5 DEF Settled, Needed
  <2>6. failed # Absent /\ ~killed => InitAdmits(failed.a, failed.ident, TRUE)
    BY DEF Sound, Retried
  <2> QED BY <2>4, <2>5, <2>6 DEF InitIsAtomic
<1> QED BY <1>1, <1>2, <1>3, PTL DEF Spec
-----------------------------------------------------------------------------
(* A green report.                                                         *)

\* What a green report says of an agent after a check of its config, a run of
\* its server, and a write.
ServesProject(a) ==
  a # "local" =>
    LET server == InstalledServer(conf[McpFile(a)])
    IN  /\ server # Absent /\ AgentEnvOK(a)
        /\ StrayKeys(AgentEnv(a), server.env) = {} => StoreOf(server.env) = StoreOf(AgentEnv(a))

Runs(a) ==
  /\ a # "local" => Lands(InstalledServer(conf[McpFile(a)])) = StoreOf(InstalledServer(conf[McpFile(a)]).env)
  /\ IdentityOK(a)

\* What a doctor under way with the steps L left has made sure of, if all was
\* well and nobody interfered; b are the probes that are believed.
Checked(o, L, b) ==
  /\ o.agents # {} => L \subseteq DoctorStep \cup {"config"} /\ o.cmd = "doctor"
  /\ \A a \in o.agents :
       /\ ServesProject(a) /\ Runs(a)
       /\ o.arg.write => ProbeAccepted(a) /\ (a \in b => a = o.a /\ "assert" \notin L)
  /\ o.cmd = "doctor" /\ "agentenv" \notin L => AgentEnvOK(o.a) /\ o.env = AgentEnv(o.a)
  /\ o.cmd = "doctor" /\ "server" \notin L =>
       /\ o.server = InstalledServer(conf[McpFile(o.a)]) /\ o.server # Absent
       /\ EnvMatches(o.env, o.server.env)
  /\ "self" \notin L => IdentityOK(o.a)
  /\ o.cmd = "doctor" /\ "smoke" \notin L => SmokeOK(o.a, o.server)
  /\ "assert" \notin L /\ "probe" \notin L => ProbeAccepted(o.a)

\* And what an install is about to write back.
Patching(L) == "mcpwrite" \in L /\ "mcpread" \notin L
AfterRead == {"mcpwrite", "config"} \cup DoctorStep \cup SourceStep

Copied(o) ==
  /\ o.copy = conf[McpFile(o.a)] /\ AgentEnvOK(o.a)
  /\ o.server # Absent /\ o.server.env = AgentEnv(o.a)

Honest ==
  /\ report # Absent => op = Idle
  /\ GreenReportIsTrue
  /\ op # Idle /\ Patching(Left(op)) => Left(op) \subseteq AfterRead /\ (~op.raced => Copied(op))
  /\ op # Idle /\ ~op.raced /\ op.ok /\ op.cmd \in {"doctor", "source"} => Checked(op, Left(op), believed)

LEMMA SameWorld ==
  ASSUME UNCHANGED <<disk, conf, target, daemon>>, NEW a, NEW server
  PROVE  /\ AgentEnvOK(a)' <=> AgentEnvOK(a)
         /\ AgentEnv(a)' = AgentEnv(a)
         /\ IdentityOK(a)' <=> IdentityOK(a)
         /\ ProbeAccepted(a)' <=> ProbeAccepted(a)
         /\ SmokeOK(a, server)' <=> SmokeOK(a, server)
         /\ Lands(server)' = Lands(server)
<1>1. AgentEnvOK(a)' <=> AgentEnvOK(a)
  BY DEF AgentEnvOK, Exists
<1>2. AgentEnv(a)' = AgentEnv(a)
  BY DEF AgentEnv
<1>3. IdentityOK(a)' <=> IdentityOK(a)
  BY DEF IdentityOK, Exists, Active
<1>4. Registry' = Registry /\ ProbeCeiling(a)' = ProbeCeiling(a)
  BY DEF Registry, ProbeCeiling, Exists, NoRegistry
<1>5. ProbeAccepted(a)' <=> ProbeAccepted(a)
  BY <1>3, <1>4 DEF ProbeAccepted
<1>6. Lands(server)' = Lands(server)
  BY DEF Lands
<1>7. SmokeOK(a, server)' <=> SmokeOK(a, server)
  BY <1>3, <1>6 DEF SmokeOK, ProxyPreflight, ServerStarts
<1> QED BY <1>1, <1>2, <1>3, <1>5, <1>6, <1>7

LEMMA SameVerdicts ==
  ASSUME UNCHANGED <<disk, conf, target, daemon>>, NEW a
  PROVE  /\ ServesProject(a)' <=> ServesProject(a)
         /\ Runs(a)' <=> Runs(a)
<1>1. InstalledServer(conf[McpFile(a)])' = InstalledServer(conf[McpFile(a)])
  OBVIOUS
<1>2. ServesProject(a)' <=> ServesProject(a)
  BY <1>1, SameWorld DEF ServesProject
<1>3. Runs(a)' <=> Runs(a)
  <2>1. \A server : Lands(server)' = Lands(server)
    BY SameWorld
  <2> QED BY <1>1, <2>1, SameWorld DEF Runs
<1> QED BY <1>2, <1>3

\* An installed env that agrees with the bundle's on all it has, and has
\* nothing else, names the same store.
LEMMA MatchingStores ==
  ASSUME NEW bundle \in ServerEnv, NEW installed \in ServerEnv, EnvMatches(bundle, installed),
         StrayKeys(bundle, installed) = {}
  PROVE  StoreOf(installed) = StoreOf(bundle)
<1>1. \A k \in {"url", "log", "ident"} : installed[k] = bundle[k]
  BY DEF EnvMatches, StrayKeys
<1>2. installed["url"] = bundle["url"] /\ installed["log"] = bundle["log"]
  BY <1>1
<1> QED BY <1>2 DEF StoreOf, ServerEnv

\* No report while a command runs; a command that ends without one.
LEMMA EndHonest ==
  ASSUME op' = Idle, report' = Absent
  PROVE  Honest'
BY DEF Honest, GreenReportIsTrue

LEMMA PatchingHead ==
  ASSUME Typed, Honest, op # Idle, Patching(Left(op))
  PROVE  Head(op.todo) = "mcpwrite"
<1> DEFINE h == Head(op.todo)
<1>1. /\ h \in Left(op) /\ h \in Steps
      /\ \A x \in Left(op) : RankOf(op.cmd, h) <= RankOf(op.cmd, x)
  BY HeadIsFirst DEF Typed, Planned, Plan, Left
<1> HIDE DEF h
<1>2. h \in AfterRead /\ RankOf(op.cmd, h) <= RankOf(op.cmd, "mcpwrite")
  BY <1>1 DEF Honest, Patching
<1>3. RankOf(op.cmd, "mcpwrite") = 9
  BY DEF RankOf, BundleStep
<1>4. h # "mcpwrite" => RankOf(op.cmd, h) > 9
  BY <1>2 DEF AfterRead, RankOf, BundleStep, DoctorStep, SourceStep
<1>5. RankOf(op.cmd, h) \in Nat
  BY <1>1, RankIsNat
<1>6. h = "mcpwrite"
  BY <1>2, <1>3, <1>4, <1>5
<1> QED BY <1>6 DEF h

\* A repair has checked nobody yet, and has all its checks ahead.
LEMMA RepairLeft ==
  ASSUME Typed, Honest, op # Idle, op.cmd = "doctor", Head(op.todo) \in RepairStep, op.ok, ~op.raced
  PROVE  op.agents = {} /\ DoctorStep \subseteq Left(op)
<1> DEFINE h == Head(op.todo)
<1>1. h \in Left(op) /\ h \in RepairStep /\ Closed("doctor", op.a, Left(op))
  BY HeadIsFirst DEF Typed, Planned, Plan, Left
<1> HIDE DEF h
<1>2. Checked(op, Left(op), believed)
  BY DEF Honest
<1>3. op.agents = {}
  BY <1>1, <1>2 DEF Checked, DoctorStep, RepairStep
<1>4. \A y \in DoctorStep : RankOf("doctor", h) < RankOf("doctor", y)
  BY <1>1 DEF RankOf, RepairStep, BundleStep, DoctorStep
<1> QED BY <1>1, <1>3, <1>4 DEF Closed

\* Before a command installs a server there is nothing to be honest about.
LEMMA BuildHonest ==
  ASSUME Typed, Honest, op # Idle, op' # Idle, UNCHANGED report,
         Head(op.todo) \notin DoctorStep \cup SourceStep \cup {"config", "mcpread"},
         op'.cmd = op.cmd, Left(op') = Left(op) \ {Head(op.todo)},
         op.cmd = "doctor" => op'.agents = op.agents /\ op'.ok = op.ok /\ op'.raced = op.raced
  PROVE  Honest'
<1> DEFINE h == Head(op.todo)
<1>1. /\ h \in Left(op) /\ h \in Steps /\ OpTyped(op) /\ Closed(op.cmd, op.a, Left(op))
  BY HeadIsFirst DEF Typed, Planned, Plan, Left
<1>2. report' = Absent
  BY DEF Honest
<1>3. ~Patching(Left(op'))
  <2>1. CASE Patching(Left(op))
    BY <2>1, PatchingHead DEF Patching
  <2>2. CASE ~Patching(Left(op))
    BY <2>2 DEF Patching
  <2> QED BY <2>1, <2>2
<1>4. op.cmd # "source"
  BY <1>1 DEF Closed, StepsOf
<1>5. ASSUME op.cmd = "doctor", ~op'.raced, op'.ok
      PROVE  op'.agents = {} /\ DoctorStep \subseteq Left(op')
  <2>1. h \in RepairStep
    BY <1>1, <1>5 DEF Closed, StepsOf
  <2>2. op.agents = {} /\ DoctorStep \subseteq Left(op)
    BY <1>5, <2>1, RepairLeft
  <2> QED BY <1>5, <2>2
<1>6. ASSUME op.cmd = "doctor", ~op'.raced, op'.ok
      PROVE  Checked(op, Left(op), believed)'
  <2>1. Left(op)' = Left(op')
    BY DEF Left
  <2> QED BY <1>5, <1>6, <2>1 DEF Checked, DoctorStep
<1>7. Left(op)' = Left(op')
  BY DEF Left
<1> QED BY <1>2, <1>3, <1>4, <1>6, <1>7 DEF Honest, GreenReportIsTrue

\* A report, or the next agent, when the verdict on those seen is true.
LEMMA FinishHonest ==
  ASSUME Typed, Honest, op # Idle, UNCHANGED <<disk, conf, target, daemon>>, NEW green, NEW seen,
         Finish(green, seen),
         ASSUME green, ~op.raced, NEW a, a \in op.agents \/ (seen /\ a = op.a)
         PROVE  /\ ServesProject(a) /\ Runs(a)
                /\ op.arg.write => ProbeAccepted(a) /\ a \notin believed'
  PROVE  Honest'
<1>1. OpTyped(op) /\ report = Absent
  BY DEF Typed, Honest
<1>2. \A a : /\ ServesProject(a)' <=> ServesProject(a)
             /\ Runs(a)' <=> Runs(a)
             /\ ProbeAccepted(a)' <=> ProbeAccepted(a)
  BY SameWorld, SameVerdicts
<1>a. \A a \in Looked(seen) : a \in op.agents \/ (seen /\ a = op.a)
  BY DEF Looked
<1>3. CASE op.rest = <<>>
  <2>1. /\ op' = Idle /\ report'.green = green /\ report'.raced = op.raced
        /\ report'.agents = Looked(seen)
        /\ report'.depth = IF op.arg.write THEN "write" ELSE "run"
    BY <1>3, FinishReport, Zenon
  <2>2. report'.green => green
    BY <2>1, Zenon
  <2>3. ASSUME report'.green, ~report'.raced, NEW a \in report'.agents
        PROVE  /\ ServesProject(a)' /\ Runs(a)'
               /\ report'.depth = "write" => ProbeAccepted(a)' /\ a \notin believed'
    <3>1. a \in op.agents \/ (seen /\ a = op.a)
      BY <1>a, <2>1, <2>3
    <3>2. /\ ServesProject(a) /\ Runs(a)
          /\ op.arg.write => ProbeAccepted(a) /\ a \notin believed'
      BY <2>1, <2>2, <2>3, <3>1
    <3>3. report'.depth = "write" => op.arg.write
      BY <2>1
    <3> QED BY <1>2, <3>2, <3>3
  <2>4. GreenReportIsTrue'
    BY <2>3 DEF GreenReportIsTrue, ServesProject, Runs
  <2> QED BY <2>1, <2>4 DEF Honest
<1>4. CASE op.rest # <<>>
  <2>1. /\ OpTyped(op') /\ op.cmd = "doctor" /\ op'.cmd = op.cmd /\ op'.todo = AgentSteps(op.arg)
        /\ op'.ok = green /\ op'.arg = op.arg /\ op'.raced = op.raced /\ UNCHANGED report
        /\ op'.agents = Looked(seen)
    BY <1>1, <1>4, FinishNext, Zenon
  <2>2. op.arg \in DoctorArgs /\ op.rest \in Seq(Agent \ {"local"})
    BY <1>1, <2>1 DEF OpTyped, ArgOK
  <2>3. Head(op.rest) \in Agent \ {"local"}
    BY <1>4, <2>2, HeadTailProperties
  <2>4. DoctorStep \subseteq Left(op)' /\ Left(op)' \subseteq {"config"} \cup DoctorStep
    BY <2>1, <2>2, <2>3, AgentPlan DEF Left
  <2>5. op'.ok => green
    BY <2>1, Zenon
  <2>6. ASSUME op'.ok, ~op'.raced PROVE Checked(op, Left(op), believed)'
    <3>1. ASSUME NEW a \in op'.agents
          PROVE  /\ ServesProject(a)' /\ Runs(a)'
                 /\ op'.arg.write => ProbeAccepted(a)' /\ a \notin believed'
      <4>1. a \in op.agents \/ (seen /\ a = op.a)
        BY <1>a, <2>1, <3>1
      <4> QED BY <1>2, <2>1, <2>5, <2>6, <4>1
    <3> QED BY <2>1, <2>4, <3>1 DEF Checked, DoctorStep
  <2>7. "mcpwrite" \notin Left(op)'
    BY <2>4 DEF DoctorStep
  <2> QED BY <1>1, <2>1, <2>6, <2>7 DEF Honest, GreenReportIsTrue, Patching
<1> QED BY <1>3, <1>4

\* The doctor goes on with o; what it has made sure of is what it had, and what
\* the step just done adds.
LEMMA CheckHonest ==
  ASSUME Typed, Honest, op # Idle, UNCHANGED <<disk, conf, target, daemon, report>>,
         op.cmd \in {"doctor", "source"}, Head(op.todo) \in DoctorStep \cup SourceStep \cup {"config"},
         NEW o, Forward(o),
         ASSUME op' # Idle, o.ok, ~op.raced
         PROVE  Checked(o, Left(op) \ {Head(op.todo)}, believed')
  PROVE  Honest'
<1>1. report = Absent
  BY DEF Honest
<1>2. CASE op' = Idle
  BY <1>1, <1>2, EndHonest
<1>3. CASE op' # Idle
  <2>1. /\ op'.cmd = op.cmd /\ op'.a = op.a /\ op'.arg = op.arg /\ op'.raced = op.raced
        /\ op'.agents = op.agents /\ op'.server = o.server /\ op'.env = o.env /\ op'.ok = o.ok
        /\ Left(op)' = Left(op) \ {Head(op.todo)}
    BY <1>3, ForwardIs
  <2>2. o.cmd = op.cmd /\ o.a = op.a /\ o.arg = op.arg /\ o.agents = op.agents
    BY DEF Forward
  <2>3. ~Patching(Left(op)')
    <3>1. CASE Patching(Left(op))
      BY <3>1, PatchingHead DEF DoctorStep, SourceStep
    <3>2. CASE ~Patching(Left(op))
      BY <2>1, <3>2 DEF Patching, DoctorStep, SourceStep
    <3> QED BY <3>1, <3>2
  <2>4. ASSUME op'.ok, ~op'.raced PROVE Checked(op, Left(op), believed)'
    <3>1. Checked(o, Left(op)', believed')
      BY <1>3, <2>1, <2>4
    <3>2. \A a : /\ ServesProject(a)' <=> ServesProject(a)
                 /\ Runs(a)' <=> Runs(a)
                 /\ ProbeAccepted(a)' <=> ProbeAccepted(a)
                 /\ AgentEnvOK(a)' <=> AgentEnvOK(a)
                 /\ AgentEnv(a)' = AgentEnv(a)
                 /\ IdentityOK(a)' <=> IdentityOK(a)
      BY SameWorld, SameVerdicts
    <3>3. \A a, server : SmokeOK(a, server)' <=> SmokeOK(a, server)
      BY SameWorld
    <3> QED BY <2>1, <2>2, <3>1, <3>2, <3>3 DEF Checked
  <2> QED BY <1>1, <1>3, <2>3, <2>4 DEF Honest, GreenReportIsTrue, Patching
<1> QED BY <1>2, <1>3

\* What is left to a doctor of an agent at one of its checks.
LEMMA DoctorLeft ==
  ASSUME Typed, op # Idle, op.cmd = "doctor"
  PROVE  /\ Head(op.todo) = "config" => DoctorStep \subseteq Left(op)
         /\ Head(op.todo) = "agentenv" => DoctorStep \subseteq Left(op)
         /\ Head(op.todo) = "server" => {"self", "smoke", "assert"} \subseteq Left(op)
         /\ Head(op.todo) = "self" => {"smoke", "assert"} \subseteq Left(op)
         /\ Head(op.todo) = "smoke" => {"assert"} \subseteq Left(op)
         /\ Head(op.todo) = "smoke" => "agentenv" \notin Left(op) /\ "server" \notin Left(op)
         /\ Head(op.todo) = "retract" => Left(op) \cap {"agentenv", "server", "self", "smoke", "assert"} = {}
         /\ "probe" \notin Left(op) /\ Head(op.todo) \in Left(op)
<1> DEFINE h == Head(op.todo)
<1>1. /\ h \in Left(op) /\ Closed("doctor", op.a, Left(op))
      /\ \A x \in Left(op) : RankOf("doctor", h) <= RankOf("doctor", x)
  BY HeadIsFirst DEF Typed, Planned, Plan, Left
<1> HIDE DEF h
<1>2. /\ RankOf("doctor", "config") = 10 /\ RankOf("doctor", "agentenv") = 11
      /\ RankOf("doctor", "server") = 12 /\ RankOf("doctor", "self") = 13
      /\ RankOf("doctor", "smoke") = 14 /\ RankOf("doctor", "assert") = 15
      /\ RankOf("doctor", "retract") = 16
  BY DEF RankOf, BundleStep
<1>3. \A y \in DoctorStep : RankOf("doctor", h) < RankOf("doctor", y) => y \in Left(op)
  BY <1>1 DEF Closed
<1>4. h \in {"config", "agentenv"} => DoctorStep \subseteq Left(op)
  BY <1>1, <1>2, <1>3 DEF DoctorStep
<1>5. /\ h = "server" => {"self", "smoke", "assert"} \subseteq Left(op)
      /\ h = "self" => {"smoke", "assert"} \subseteq Left(op)
      /\ h = "smoke" => {"assert"} \subseteq Left(op)
  BY <1>2, <1>3 DEF DoctorStep
<1>6. h = "smoke" => "agentenv" \notin Left(op) /\ "server" \notin Left(op)
  BY <1>1, <1>2
<1>7. h = "retract" => \A x \in {"agentenv", "server", "self", "smoke", "assert"} : x \notin Left(op)
  BY <1>1, <1>2
<1>8. "probe" \notin Left(op)
  BY <1>1 DEF Closed, StepsOf, RepairStep, DoctorStep
<1> QED BY <1>1, <1>4, <1>5, <1>6, <1>7, <1>8 DEF h

\* A step of the doctor belongs to a doctor.
LEMMA DoctorAt ==
  ASSUME Typed, NEW steps, At(steps),
         Head(op.todo) \in DoctorStep \cup SourceStep \cup {"config"}
  PROVE  /\ op # Idle /\ OpTyped(op) /\ op.cmd \in {"doctor", "source"}
         /\ Head(op.todo) \in (DoctorStep \cup {"config"}) \ {"self"} => op.cmd = "doctor"
         /\ Head(op.todo) \in {"probe", "verify", "unprobe"} => op.cmd = "source"
<1>1. op # Idle /\ OpTyped(op) /\ Head(op.todo) \in StepsOf(op.cmd)
  BY AtIs
<1> QED BY <1>1 DEF StepsOf, OpTyped, DoctorStep, SourceStep, BundleStep, RepairStep

LEMMA ConfigHonest ==
  ASSUME Typed, Honest, DoctorConfig
  PROVE  Honest'
<1>1. /\ Head(op.todo) = "config" /\ op # Idle /\ OpTyped(op) /\ op.cmd = "doctor"
      /\ UNCHANGED <<disk, conf, target, daemon, believed>> /\ DoctorStep \subseteq Left(op)
  BY DoctorAt, DoctorLeft DEF DoctorConfig, At, Checking
<1>2. op.ok /\ ~op.raced => Checked(op, Left(op), believed)
  BY <1>1 DEF Honest
<1>3. CASE op' = Advance(op) /\ UNCHANGED report
  <2>1. Forward(op)
    BY <1>1, <1>3, ForwardSelf DEF Typed
  <2>2. ASSUME op.ok, ~op.raced PROVE Checked(op, Left(op) \ {Head(op.todo)}, believed')
    BY <1>1, <1>2, <2>2 DEF Checked, DoctorStep
  <2> QED BY <1>1, <1>3, <2>1, <2>2, CheckHonest
<1>4. CASE Finish(op.ok, FALSE)
  <2>1. ASSUME op.ok, ~op.raced
        PROVE  \A a \in op.agents : /\ ServesProject(a) /\ Runs(a)
                                    /\ op.arg.write => ProbeAccepted(a) /\ a \notin believed'
    BY <1>1, <1>2, <2>1 DEF Checked, DoctorStep
  <2> QED BY <1>1, <1>4, <2>1, FinishHonest
<1> QED BY <1>3, <1>4 DEF DoctorConfig

LEMMA EnvHonest ==
  ASSUME Typed, Honest, DoctorEnv
  PROVE  Honest'
<1>1. /\ Head(op.todo) = "agentenv" /\ op # Idle /\ OpTyped(op) /\ op.cmd = "doctor"
      /\ UNCHANGED <<disk, conf, target, daemon, believed>> /\ DoctorStep \subseteq Left(op)
      /\ "probe" \notin Left(op)
  BY DoctorAt, DoctorLeft DEF DoctorEnv, At, Checking, DoctorStep
<1>2. op.ok /\ ~op.raced => Checked(op, Left(op), believed)
  BY <1>1 DEF Honest
<1>3. ASSUME NEW o, Forward(o), o.server = op.server, o.ok = op.ok, AgentEnvOK(op.a),
             o.env = AgentEnv(op.a), UNCHANGED report
      PROVE  Honest'
  <2>1. ASSUME o.ok, ~op.raced PROVE Checked(o, Left(op) \ {Head(op.todo)}, believed')
    BY <1>1, <1>2, <1>3, <2>1 DEF Checked, DoctorStep, Forward
  <2> QED BY <1>1, <1>3, <2>1, CheckHonest DEF DoctorStep
<1>4. CASE Finish(op.ok /\ ~op.arg.write, FALSE)
  <2> DEFINE green == op.ok /\ ~op.arg.write
  <2>1. ASSUME green, ~op.raced
        PROVE  \A a \in op.agents : /\ ServesProject(a) /\ Runs(a)
                                    /\ op.arg.write => ProbeAccepted(a) /\ a \notin believed'
    BY <1>2, <2>1 DEF Checked
  <2>2. Finish(green, FALSE)
    BY <1>4
  <2> HIDE DEF green
  <2> QED BY <1>1, <2>1, <2>2, FinishHonest
<1> QED BY <1>3, <1>4, DoctorEnvIs

LEMMA ServerHonest ==
  ASSUME Typed, Honest, DoctorServer
  PROVE  Honest'
<1> DEFINE server == InstalledServer(conf[McpFile(op.a)])
<1>1. /\ Head(op.todo) = "server" /\ op # Idle /\ OpTyped(op) /\ op.cmd = "doctor"
      /\ UNCHANGED <<disk, conf, target, daemon, believed>> /\ {"self", "smoke", "assert"} \subseteq Left(op)
      /\ "probe" \notin Left(op)
  BY DoctorAt, DoctorLeft DEF DoctorServer, At, Checking, DoctorStep
<1>2. op.ok /\ ~op.raced => Checked(op, Left(op), believed)
  BY <1>1 DEF Honest
<1>3. ASSUME NEW o, Forward(o), o.server = server, server # Absent, o.env = op.env,
             o.ok = (op.ok /\ EnvMatches(op.env, server.env) /\ LocalBinaryOK(op.a, server)),
             UNCHANGED report
      PROVE  Honest'
  <2>1. o.ok => op.ok /\ EnvMatches(op.env, server.env)
    BY <1>3, Zenon
  <2> HIDE DEF server
  <2>2. server = InstalledServer(conf[McpFile(op.a)])
    BY DEF server
  <2>3. ASSUME o.ok, ~op.raced PROVE Checked(o, Left(op) \ {Head(op.todo)}, believed')
    BY <1>1, <1>2, <1>3, <2>1, <2>2, <2>3 DEF Checked, DoctorStep, Forward
  <2> QED BY <1>1, <1>3, <2>3, CheckHonest DEF DoctorStep
<1>4. CASE Finish(FALSE, FALSE)
  BY <1>1, <1>4, FinishHonest
<1> QED BY <1>3, <1>4, DoctorServerIs

LEMMA SelfHonest ==
  ASSUME Typed, Honest, DoctorSelf
  PROVE  Honest'
<1> DEFINE ident == IF op.cmd = "source" THEN disk[EnvFile].ident ELSE op.server.env.ident
           ok == op.ok /\ SelfCheckOK(op.a, ident)
<1>1. /\ Head(op.todo) = "self" /\ op # Idle /\ OpTyped(op) /\ op.cmd \in {"doctor", "source"}
      /\ UNCHANGED <<disk, conf, target, daemon, believed>>
      /\ op.cmd = "doctor" => {"smoke", "assert"} \subseteq Left(op)
  BY DoctorAt, DoctorLeft DEF DoctorSelf, At, Checking, DoctorStep
<1>2. op.ok /\ ~op.raced => Checked(op, Left(op), believed)
  BY <1>1 DEF Honest
<1>3. ok => op.ok /\ IdentityOK(op.a)
  BY DEF SelfCheckOK
<1>4. \/ op.cmd = "source" /\ ~op.arg.write /\ Finish(ok, TRUE)
      \/ \E o : Forward(o) /\ o.server = op.server /\ o.ok = ok /\ o.env = op.env /\ UNCHANGED report
  BY DoctorSelfIs
<1> HIDE DEF ok
<1>5. ASSUME NEW o, Forward(o), o.server = op.server, o.ok = ok, o.env = op.env, UNCHANGED report
      PROVE  Honest'
  <2>1. ASSUME o.ok, ~op.raced PROVE Checked(o, Left(op) \ {Head(op.todo)}, believed')
    BY <1>1, <1>2, <1>3, <1>5, <2>1 DEF Checked, DoctorStep, Forward
  <2> QED BY <1>1, <1>5, <2>1, CheckHonest DEF DoctorStep
<1>6. CASE op.cmd = "source" /\ ~op.arg.write /\ Finish(ok, TRUE)
  <2>1. op.a = "local"
    BY <1>1, <1>6 DEF OpTyped
  <2>2. ASSUME ok, ~op.raced, NEW a, a \in op.agents \/ a = op.a
        PROVE  /\ ServesProject(a) /\ Runs(a)
               /\ op.arg.write => ProbeAccepted(a) /\ a \notin believed'
    <3>1. op.agents = {}
      BY <1>2, <1>3, <1>6, <2>2 DEF Checked
    <3> QED BY <1>3, <1>6, <2>1, <2>2, <3>1 DEF ServesProject, Runs
  <2> QED BY <1>1, <1>6, <2>2, FinishHonest
<1> QED BY <1>4, <1>5, <1>6

\* A server that was checked, run and found on the agent's store serves it.
LEMMA ServerServes ==
  ASSUME Typed, op # Idle, op.cmd = "doctor", Checked(op, Left(op), believed),
         "agentenv" \notin Left(op), "server" \notin Left(op), SmokeOK(op.a, op.server)
  PROVE  ServesProject(op.a) /\ Runs(op.a)
<1>1. /\ OpTyped(op) /\ op.a \in Agent /\ op.a # "local"
      /\ AgentEnvOK(op.a) /\ op.env = AgentEnv(op.a)
      /\ op.server = InstalledServer(conf[McpFile(op.a)]) /\ op.server # Absent
      /\ EnvMatches(op.env, op.server.env)
  BY DEF Typed, OpTyped, Checked
<1>2. op.server \in Server /\ op.server.env \in ServerEnv
  BY <1>1 DEF OpTyped, Server
<1>3. AgentEnv(op.a) \in ServerEnv
  BY <1>1, AgentEnvTyped DEF AgentEnvOK
<1>4. ServesProject(op.a)
  BY <1>1, <1>2, <1>3, MatchingStores DEF ServesProject
<1>5. Lands(op.server) = StoreOf(op.server.env) /\ IdentityOK(op.a)
  BY DEF SmokeOK
<1> QED BY <1>1, <1>4, <1>5 DEF Runs

LEMMA SmokeHonest ==
  ASSUME Typed, Honest, DoctorSmoke
  PROVE  Honest'
<1> DEFINE smoke == SmokeOK(op.a, op.server)
           green == op.ok /\ smoke
<1>1. /\ Head(op.todo) = "smoke" /\ op # Idle /\ OpTyped(op) /\ op.cmd = "doctor"
      /\ UNCHANGED <<disk, conf, target, daemon, believed>> /\ "assert" \in Left(op)
      /\ "agentenv" \notin Left(op) /\ "server" \notin Left(op)
  BY DoctorAt, DoctorLeft DEF DoctorSmoke, At, Checking, DoctorStep
<1>2. op.ok /\ ~op.raced => Checked(op, Left(op), believed)
  BY <1>1 DEF Honest
<1>3. \/ smoke /\ op.arg.write /\ op' = Advance(op) /\ UNCHANGED report
      \/ ~(smoke /\ op.arg.write) /\ Finish(green, TRUE)
  BY DEF DoctorSmoke
<1>a. green => op.ok /\ smoke
  OBVIOUS
<1> HIDE DEF green
<1>4. CASE smoke /\ op.arg.write /\ op' = Advance(op) /\ UNCHANGED report
  <2>1. Forward(op)
    BY <1>1, <1>4, ForwardSelf DEF Typed
  <2>2. ASSUME op.ok, ~op.raced PROVE Checked(op, Left(op) \ {Head(op.todo)}, believed')
    BY <1>1, <1>2, <1>4, <2>2 DEF Checked, DoctorStep
  <2> QED BY <1>1, <1>4, <2>1, <2>2, CheckHonest DEF DoctorStep
<1>5. CASE ~(smoke /\ op.arg.write) /\ Finish(green, TRUE)
  <2>1. ASSUME green, ~op.raced, NEW a, a \in op.agents \/ a = op.a
        PROVE  /\ ServesProject(a) /\ Runs(a)
               /\ op.arg.write => ProbeAccepted(a) /\ a \notin believed'
    <3>1. Checked(op, Left(op), believed) /\ smoke /\ ~op.arg.write
      BY <1>2, <1>5, <1>a, <2>1
    <3>2. ServesProject(op.a) /\ Runs(op.a)
      BY <1>1, <3>1, ServerServes
    <3>3. \A b \in op.agents : ServesProject(b) /\ Runs(b)
      BY <3>1 DEF Checked
    <3> QED BY <2>1, <3>1, <3>2, <3>3
  <2> QED BY <1>1, <1>5, <2>1, FinishHonest
<1> QED BY <1>3, <1>4, <1>5

LEMMA AssertHonest ==
  ASSUME Typed, Honest, DoctorAssert
  PROVE  Honest'
<1>1. /\ Head(op.todo) \in {"assert", "probe"} /\ op # Idle /\ OpTyped(op) /\ op.cmd \in {"doctor", "source"}
      /\ UNCHANGED <<disk, conf, target, daemon>> /\ (Head(op.todo) = "probe" => op.cmd = "source")
      /\ (Head(op.todo) = "assert" => op.cmd = "doctor")
  BY DoctorAt DEF DoctorAssert, At, Checking, DoctorStep, SourceStep
<1>2. op.ok /\ ~op.raced => Checked(op, Left(op), believed)
  BY <1>1 DEF Honest
<1>3. CASE ProbeAccepted(op.a)
  <2>1. believed' = believed \cup {op.a} /\ op' = Advance(op) /\ UNCHANGED report
    BY <1>3 DEF DoctorAssert
  <2>2. Forward(op)
    BY <1>1, <2>1, ForwardSelf DEF Typed
  <2>3. ASSUME op.ok, ~op.raced PROVE Checked(op, Left(op) \ {Head(op.todo)}, believed')
    <3>1. Checked(op, Left(op), believed)
      BY <1>2, <2>3
    <3>2. op.agents # {} => Head(op.todo) = "assert"
      BY <1>1, <3>1 DEF Checked
    <3>3. \A a \in op.agents : op.arg.write => (a \in believed' => a = op.a /\ "assert" \notin Left(op) \ {Head(op.todo)})
      BY <2>1, <3>1, <3>2 DEF Checked
    <3>4. Head(op.todo) \notin {"agentenv", "server", "self", "smoke"}
      BY <1>1
    <3> QED BY <1>3, <3>1, <3>3, <3>4 DEF Checked
  <2> QED BY <1>1, <2>1, <2>2, <2>3, CheckHonest DEF DoctorStep, SourceStep
<1>4. CASE ~ProbeAccepted(op.a)
  <2>1. Finish(FALSE, TRUE)
    BY <1>4 DEF DoctorAssert
  <2> QED BY <1>1, <2>1, FinishHonest
<1> QED BY <1>3, <1>4

LEMMA VerifyHonest ==
  ASSUME Typed, Honest, DoctorVerify
  PROVE  Honest'
<1>1. /\ Head(op.todo) = "verify" /\ op # Idle /\ OpTyped(op) /\ op.cmd = "source"
      /\ UNCHANGED <<disk, conf, target, daemon, believed>>
  BY DoctorAt DEF DoctorVerify, At, world, SourceStep
<1>2. op.ok /\ ~op.raced => Checked(op, Left(op), believed)
  BY <1>1 DEF Honest
<1>3. CASE op' = Advance(op) /\ UNCHANGED report
  <2>1. Forward(op)
    BY <1>1, <1>3, ForwardSelf DEF Typed
  <2>2. ASSUME op.ok, ~op.raced PROVE Checked(op, Left(op) \ {Head(op.todo)}, believed')
    BY <1>1, <1>2, <2>2 DEF Checked
  <2> QED BY <1>1, <1>3, <2>1, <2>2, CheckHonest DEF SourceStep
<1>4. CASE Finish(FALSE, TRUE)
  BY <1>1, <1>4, FinishHonest
<1> QED BY <1>3, <1>4 DEF DoctorVerify

\* The last step: the probe is retracted whatever the verdict.
LEMMA RetractHonest ==
  ASSUME Typed, Honest, DoctorRetract
  PROVE  Honest'
<1>1. /\ Head(op.todo) \in {"retract", "unprobe"} /\ op # Idle /\ OpTyped(op) /\ op.cmd \in {"doctor", "source"}
      /\ UNCHANGED <<disk, conf, target, daemon>> /\ believed' = believed \ {op.a}
      /\ Finish(op.ok, TRUE)
      /\ (Head(op.todo) = "retract" => op.cmd = "doctor") /\ (Head(op.todo) = "unprobe" => op.cmd = "source")
  BY DoctorAt DEF DoctorRetract, At, Checking, DoctorStep, SourceStep
<1>2. ASSUME op.ok, ~op.raced, NEW a, a \in op.agents \/ a = op.a
      PROVE  /\ ServesProject(a) /\ Runs(a)
             /\ op.arg.write => ProbeAccepted(a) /\ a \notin believed'
  <2>1. Checked(op, Left(op), believed)
    BY <1>1, <1>2 DEF Honest
  <2>2. ServesProject(op.a) /\ Runs(op.a) /\ ProbeAccepted(op.a)
    <3>1. CASE op.cmd = "doctor"
      <4>1. Head(op.todo) = "retract"
        BY <1>1, <3>1
      <4>2. \A x \in {"agentenv", "server", "self", "smoke", "assert"} : x \notin Left(op)
        BY <1>1, <3>1, <4>1, DoctorLeft
      <4>3. "probe" \notin Left(op)
        BY <1>1, <3>1, DoctorLeft
      <4>4. SmokeOK(op.a, op.server) /\ ProbeAccepted(op.a)
        BY <2>1, <3>1, <4>2, <4>3 DEF Checked
      <4> QED BY <1>1, <2>1, <3>1, <4>2, <4>4, ServerServes
    <3>2. CASE op.cmd = "source"
      <4>1. Head(op.todo) = "unprobe" /\ op.a = "local"
        BY <1>1, <3>2 DEF OpTyped
      <4>2. \A x \in {"self", "probe", "assert"} : x \notin Left(op)
        <5>1. /\ \A x \in Left(op) : RankOf("source", "unprobe") <= RankOf("source", x)
              /\ Left(op) \subseteq SourceStep
          BY <1>1, <3>2, <4>1, HeadIsFirst DEF Typed, Planned, Plan, Closed, StepsOf, Left
        <5>2. RankOf("source", "unprobe") = 16 /\ RankOf("source", "self") = 13 /\ RankOf("source", "probe") = 14
          BY DEF RankOf, BundleStep
        <5> QED BY <5>1, <5>2 DEF SourceStep
      <4>3. IdentityOK(op.a) /\ ProbeAccepted(op.a)
        BY <2>1, <4>2 DEF Checked
      <4> QED BY <4>1, <4>3 DEF ServesProject, Runs
    <3> QED BY <1>1, <3>1, <3>2
  <2>3. CASE a = op.a
    BY <1>1, <2>2, <2>3
  <2>4. CASE a # op.a
    <3>1. /\ ServesProject(a) /\ Runs(a)
          /\ op.arg.write => ProbeAccepted(a) /\ a \notin believed
      BY <1>2, <2>1, <2>4 DEF Checked
    <3> QED BY <1>1, <3>1
  <2> QED BY <2>3, <2>4
<1> QED BY <1>1, <1>2, FinishHonest

LEMMA WaitHonest ==
  ASSUME Typed, Honest, WaitWithTimeout
  PROVE  Honest'
<1>1. op # Idle /\ Finish(FALSE, TRUE) /\ UNCHANGED <<disk, conf, target, daemon>>
  BY DEF WaitWithTimeout, Checking
<1> QED BY <1>1, FinishHonest

\* A step that builds goes on with the command, or ends it without a report.
LEMMA ForwardHonest ==
  ASSUME Typed, Honest, op # Idle, UNCHANGED report, NEW o, Forward(o), o.ok = op.ok,
         Head(op.todo) \notin DoctorStep \cup SourceStep \cup {"config", "mcpread"}
  PROVE  Honest'
<1>1. CASE op' = Idle
  BY <1>1, EndHonest DEF Honest
<1>2. CASE op' # Idle
  <2>1. Left(op)' = Left(op')
    BY DEF Left
  <2> QED BY <1>2, <2>1, ForwardIs, BuildHonest
<1> QED BY <1>1, <1>2

LEMMA BuildingHonest ==
  ASSUME Typed, Honest, WriteFile \/ Record \/ HookWrite \/ PrepareCommand
  PROVE  Honest'
<1> DEFINE other == DoctorStep \cup SourceStep \cup {"config", "mcpread"}
<1>1. CASE WriteFile
  <2>1. op # Idle /\ UNCHANGED report /\ Head(op.todo) \notin other
    BY <1>1 DEF WriteFile, At, DoctorStep, SourceStep
  <2>2. PICK o : Forward(o) /\ o.ok = op.ok
    BY <1>1, WriteFileIs
  <2> QED BY <2>1, <2>2, ForwardHonest
<1>2. CASE Record
  <2>1. op # Idle /\ UNCHANGED report /\ Head(op.todo) \notin other
    BY <1>2 DEF Record, At, DoctorStep, SourceStep
  <2>2. PICK o : Forward(o) /\ o.ok = op.ok
    BY <1>2, RecordIs
  <2> QED BY <2>1, <2>2, ForwardHonest
<1>3. CASE HookWrite \/ PrepareCommand
  <2>1. op # Idle /\ UNCHANGED report /\ Head(op.todo) \notin other /\ op' = Advance(op)
    BY <1>3 DEF HookWrite, PrepareCommand, At, DoctorStep, SourceStep
  <2>2. Forward(op)
    BY <2>1, ForwardSelf DEF Typed
  <2> QED BY <2>1, <2>2, ForwardHonest
<1> QED BY <1>1, <1>2, <1>3

\* A step given up belongs to a command that reports nothing.
LEMMA GiveUpHonest ==
  ASSUME Typed, Honest, op # Idle, NEW n \in {1, 2}, op' = GiveUp(n), UNCHANGED report,
         op.cmd # "doctor",
         \/ Head(op.todo) = "hookread" /\ n = 2
         \/ Head(op.todo) = "hookwrite" /\ n = 1
         \/ Head(op.todo) = "mcpread" /\ n = 2
  PROVE  Honest'
<1>1. report = Absent /\ OpTyped(op) /\ Planned(op)
  BY DEF Honest, Typed
<1>2. Head(op.todo) \in Left(op) /\ Closed(op.cmd, op.a, Left(op))
  BY <1>1, HeadIsFirst DEF Planned, Plan, Left
<1>3. op.cmd # "source"
  BY <1>2 DEF Closed, StepsOf, SourceStep
<1>4. ~Patching(Left(op))
  BY PatchingHead
<1>5. CASE op' = Idle
  BY <1>1, <1>5, EndHonest
<1>6. CASE op' # Idle
  <2>1. Calm(op', op) /\ op'.cmd = op.cmd
    BY <1>1, <1>2, <1>6, GiveUpIs, GiveUpIsCalm
  <2>2. ~Patching(Left(op'))
    BY <1>4, <2>1 DEF Calm, Patching
  <2>3. Left(op)' = Left(op')
    BY DEF Left
  <2> QED BY <1>1, <1>3, <1>6, <2>1, <2>2, <2>3 DEF Honest, GreenReportIsTrue
<1> QED BY <1>5, <1>6

LEMMA HookReadHonest ==
  ASSUME Typed, Honest, HookRead
  PROVE  Honest'
<1>1. op # Idle /\ UNCHANGED report /\ Head(op.todo) = "hookread" /\ "hookread" \in StepsOf(op.cmd)
  BY AtIs DEF HookRead, At
<1>2. op.cmd # "doctor"
  BY <1>1 DEF StepsOf, RepairStep, DoctorStep
<1>3. CASE op' = GiveUp(2)
  BY <1>1, <1>2, <1>3, GiveUpHonest
<1>4. CASE \E o : Forward(o) /\ o.ok = op.ok
  BY <1>1, <1>4, ForwardHonest DEF DoctorStep, SourceStep
<1> QED BY <1>3, <1>4, HookReadIs

\* The install renders the server of the agent's env and copies the config.
LEMMA McpReadHonest ==
  ASSUME Typed, Honest, McpRead
  PROVE  Honest'
<1>1. /\ op # Idle /\ UNCHANGED <<report, disk, conf, target, daemon>> /\ Head(op.todo) = "mcpread"
      /\ op.a \in Agent \ {"local"} /\ OpTyped(op)
      /\ \A x \in Left(op) : x \in Steps /\ RankOf(op.cmd, "mcpread") <= RankOf(op.cmd, x)
      /\ "mcpread" \in StepsOf(op.cmd)
  BY AtIs, McpReadIs DEF McpRead, At, world
<1>2. report = Absent
  BY <1>1 DEF Honest
<1>3. CASE op' = Idle
  BY <1>1, <1>2, <1>3, EndHonest
<1>4. CASE op.cmd # "doctor" /\ op' = GiveUp(2)
  BY <1>1, <1>4, GiveUpHonest
<1>5. ASSUME NEW o, Forward(o), o.copy = conf[McpFile(op.a)], o.server = ServerFor(op.a),
             o.ok = op.ok, AgentEnvOK(op.a), op' # Idle
      PROVE  Honest'
  <2>1. /\ op'.cmd = op.cmd /\ op'.a = op.a /\ op'.arg = op.arg /\ op'.raced = op.raced
        /\ op'.agents = op.agents /\ op'.server = ServerFor(op.a) /\ op'.copy = conf[McpFile(op.a)]
        /\ op'.ok = op.ok /\ Left(op)' = Left(op) \ {"mcpread"}
    BY <1>1, <1>5, ForwardIs
  <2>2. Left(op)' \subseteq AfterRead
    <3>1. ASSUME NEW x \in Left(op), x # "mcpread" PROVE x \in AfterRead
      <4>1. RankOf(op.cmd, "mcpread") = 8
        BY DEF RankOf, BundleStep
      <4>2. x \in Steps /\ 8 <= RankOf(op.cmd, x)
        BY <1>1, <4>1
      <4> QED BY <3>1, <4>2 DEF Steps, RankOf, AfterRead, BundleStep, DoctorStep, SourceStep
    <3> QED BY <2>1, <3>1
  <2>3. Copied(op)'
    <3>1. ServerFor(op.a) \in Server /\ ServerFor(op.a).env = AgentEnv(op.a)
      BY <1>1, <1>5, ServerForTyped DEF AgentEnvOK
    <3>2. ServerFor(op.a) # Absent
      BY <3>1, ConfigAssumption
    <3>3. \A a : (AgentEnvOK(a)' <=> AgentEnvOK(a)) /\ AgentEnv(a)' = AgentEnv(a)
      BY <1>1, SameWorld
    <3> QED BY <1>1, <1>5, <2>1, <3>1, <3>2, <3>3 DEF Copied
  <2>4. op.cmd # "source"
    BY <1>1 DEF StepsOf, SourceStep
  <2>5. ASSUME op'.cmd = "doctor", ~op'.raced, op'.ok PROVE Checked(op, Left(op), believed)'
    <3>1. op'.agents = {} /\ DoctorStep \subseteq Left(op)'
      BY <1>1, <2>1, <2>5, RepairLeft DEF RepairStep, DoctorStep
    <3> QED BY <2>5, <3>1 DEF Checked, DoctorStep
  <2> QED BY <1>1, <1>2, <1>5, <2>1, <2>2, <2>3, <2>4, <2>5 DEF Honest, GreenReportIsTrue
<1> QED BY <1>3, <1>4, <1>5, McpReadIs

\* An install that only checks reports on the copy it has patched.
LEMMA McpWriteHonest ==
  ASSUME Typed, Honest, McpWrite
  PROVE  Honest'
<1>1. /\ op # Idle /\ Head(op.todo) = "mcpwrite" /\ op' = Advance(op) /\ OpTyped(op) /\ Planned(op)
      /\ "mcpwrite" \in Left(op) /\ Closed(op.cmd, op.a, Left(op)) /\ UNCHANGED disk
      /\ \A x \in Left(op) : RankOf(op.cmd, "mcpwrite") <= RankOf(op.cmd, x)
  BY AtIs DEF McpWrite, At
<1>2. Forward(op)
  BY <1>1, ForwardSelf
<1>3. CASE WriteMode
  <2>1. UNCHANGED report
    BY <1>3 DEF McpWrite
  <2> QED BY <1>1, <1>2, <2>1, ForwardHonest DEF DoctorStep, SourceStep
<1>4. CASE ~WriteMode
  <2>0. PICK a : a = op.a
    OBVIOUS
  <2> DEFINE server == InstalledServer(conf[McpFile(a)])
  <2>1. /\ UNCHANGED conf /\ op.cmd = "install"
        /\ report' = [agents |-> {a}, depth |-> "config", raced |-> op.raced,
                      green |-> op.copy = PatchServer(op.copy, op.server)]
    BY <1>4, <2>0 DEF McpWrite, WriteMode
  <2>2. a \in Agent /\ a # "local"
    BY <1>1, <2>0, <2>1 DEF OpTyped
  <2>3. Left(op) \subseteq {"mcpwrite"}
    <3>1. RankOf(op.cmd, "wrapper") = 7 /\ RankOf(op.cmd, "mcpread") = 8 /\ RankOf(op.cmd, "mcpwrite") = 9
      BY DEF RankOf, BundleStep
    <3>2. Left(op) \subseteq {"wrapper", "mcpread", "mcpwrite"}
      BY <1>1, <2>1 DEF Closed, StepsOf
    <3>3. "wrapper" \notin Left(op) /\ "mcpread" \notin Left(op)
      BY <1>1, <3>1
    <3> QED BY <3>2, <3>3
  <2>4. op' = Idle
    <3>1. ASSUME op' # Idle PROVE FALSE
      <4>1. Planned(op') /\ Left(op)' = Left(op) \ {Head(op.todo)} /\ Left(op)' = Left(op')
        BY <1>2, <3>1, ForwardIs DEF Left
      <4>2. Left(op') = {}
        BY <1>1, <2>3, <4>1
      <4>3. Head(op'.todo) \in Left(op')
        BY <4>1, HeadIsFirst DEF Planned, Plan, Left
      <4> QED BY <4>2, <4>3
    <3> QED BY <3>1
  <2>5. ASSUME op.copy = PatchServer(op.copy, op.server), ~op.raced
        PROVE  server = op.server /\ AgentEnvOK(a) /\ op.server # Absent /\ op.server.env = AgentEnv(a)
    <3>1. Patching(Left(op))
      BY <1>1, <2>3 DEF Patching
    <3>2. Copied(op)
      BY <1>1, <2>5, <3>1 DEF Honest
    <3>3. op.copy \in Config \cup {Absent} /\ op.server \in Server
      BY <1>1, <3>2 DEF OpTyped, Copied
    <3>4. InstalledServer(PatchServer(op.copy, op.server)) = op.server
      BY <3>3, PatchKeeps, ConfigAssumption DEF InstalledServer
    <3> QED BY <2>0, <2>5, <3>2, <3>4 DEF Copied
  <2>6. ASSUME op.copy = PatchServer(op.copy, op.server), ~op.raced
        PROVE  ServesProject(a)
    BY <2>5, <2>6 DEF ServesProject
  <2>7. report'.green <=> op.copy = PatchServer(op.copy, op.server)
    BY <2>1
  <2>8. report'.agents = {a} /\ report'.depth = "config" /\ report'.raced = op.raced
    BY <2>1
  <2>9. ASSUME report'.green, ~report'.raced PROVE ServesProject(a)'
    <3>1. ServesProject(a)
      BY <2>6, <2>7, <2>8, <2>9
    <3>2. (AgentEnvOK(a)' <=> AgentEnvOK(a)) /\ AgentEnv(a)' = AgentEnv(a)
      BY <1>1 DEF AgentEnvOK, AgentEnv, Exists
    <3> QED BY <2>1, <3>1, <3>2 DEF ServesProject
  <2>10. GreenReportIsTrue'
    BY <2>8, <2>9 DEF GreenReportIsTrue, ServesProject
  <2> QED BY <2>4, <2>10 DEF Honest
<1> QED BY <1>3, <1>4

\* A command begins with nothing checked and everything ahead.
LEMMA StartHonest ==
  ASSUME Typed, Start
  PROVE  Honest'
<1>1. Starts(op') /\ report' = Absent
  BY StartIs DEF Begin
<1>2. ~Patching(Left(op)')
  BY StartReads DEF Patching
<1>3. ASSUME op'.cmd = "doctor"
      PROVE  op'.agents = {} /\ DoctorStep \subseteq Left(op)'
  <2>1. PICK arg \in DoctorArgs :
          Started(op', "doctor", Head(arg.agents), DoctorPlanOf(arg), arg, Tail(arg.agents))
    BY <1>1, <1>3 DEF Starts, Started
  <2>2. arg.agents \in Seq(Agent \ {"local"}) /\ arg.agents # <<>>
    BY ArgsAssumption
  <2>3. Head(arg.agents) \in Agent \ {"local"}
    BY <2>2, HeadTailProperties
  <2> QED BY <2>1, <2>3, DoctorPlan DEF Started, Left
<1>4. ASSUME op'.cmd = "source"
      PROVE  op'.agents = {} /\ Left(op)' = SourceStep
  <2>1. PICK write : Started(op', "source", "local", SourceSteps, [write |-> write], <<>>)
    BY <1>1, <1>4 DEF Starts, Started
  <2> QED BY <2>1, SourcePlan DEF Started, Left
<1>5. op'.cmd \in {"doctor", "source"} => Checked(op, Left(op), believed)'
  BY <1>3, <1>4 DEF Checked, DoctorStep, SourceStep
<1> QED BY <1>1, <1>2, <1>5 DEF Honest, GreenReportIsTrue

\* What happens beside a command withdraws the report, or marks the command.
LEMMA OutsideHonest ==
  ASSUME Typed, Honest, Outside
  PROVE  Honest'
<1>1. Beside
  BY DEF Outside, EditConfig, Build, Daemon, RevokeSource
<1>2. report' = Absent
  BY <1>1 DEF Beside
<1>3. CASE op = Idle
  BY <1>1, <1>2, <1>3, BesideIs, EndHonest
<1>4. CASE op # Idle
  <2>1. op'.raced = TRUE /\ op'.todo = op.todo
    BY <1>1, <1>4, BesideIs DEF Revised
  <2>2. Left(op)' = Left(op)
    BY <2>1 DEF Left
  <2> QED BY <1>2, <1>4, <2>1, <2>2 DEF Honest, GreenReportIsTrue
<1> QED BY <1>3, <1>4

LEMMA HangsHonest ==
  ASSUME Typed, Honest, ServerHangs
  PROVE  Honest'
<1>1. /\ op # Idle /\ OpTyped(op) /\ op' = [op EXCEPT !.hung = TRUE]
      /\ UNCHANGED <<disk, conf, target, daemon, believed, report>>
      /\ Head(op.todo) \in {"smoke", "assert", "retract"}
  BY AtIs DEF ServerHangs, At, world
<1>2. /\ op'.cmd = op.cmd /\ op'.a = op.a /\ op'.todo = op.todo /\ op'.arg = op.arg
      /\ op'.raced = op.raced /\ op'.ok = op.ok /\ op'.agents = op.agents
      /\ op'.env = op.env /\ op'.server = op.server
  BY <1>1 DEF OpTyped, Shaped, OpFields
<1>3. Left(op)' = Left(op)
  BY <1>2 DEF Left
<1>4. report = Absent
  BY <1>1 DEF Honest
<1>5. ~Patching(Left(op))
  BY <1>1, PatchingHead
<1>6. Checked(op, Left(op), believed) => Checked(op, Left(op), believed)'
  <2>1. \A a : /\ ServesProject(a)' <=> ServesProject(a)
               /\ Runs(a)' <=> Runs(a)
               /\ ProbeAccepted(a)' <=> ProbeAccepted(a)
               /\ AgentEnvOK(a)' <=> AgentEnvOK(a)
               /\ AgentEnv(a)' = AgentEnv(a)
               /\ IdentityOK(a)' <=> IdentityOK(a)
    BY <1>1, SameWorld, SameVerdicts
  <2>2. \A a, server : SmokeOK(a, server)' <=> SmokeOK(a, server)
    BY <1>1, SameWorld
  <2> QED BY <1>1, <1>2, <1>3, <2>1, <2>2 DEF Checked
<1>7. op.ok /\ ~op.raced /\ op.cmd \in {"doctor", "source"} => Checked(op, Left(op), believed)
  BY <1>1 DEF Honest
<1> QED BY <1>1, <1>2, <1>3, <1>4, <1>5, <1>6, <1>7 DEF Honest, GreenReportIsTrue

LEMMA FailuresHonest ==
  ASSUME Typed, Honest, BundleStepFails \/ ConfigStepFails \/ Refused \/ Kill
  PROVE  Honest'
<1>1. op # Idle /\ UNCHANGED report
  BY DEF BundleStepFails, ConfigStepFails, Refused, Kill, At
<1>2. CASE op' = Idle
  BY <1>1, <1>2, EndHonest DEF Honest
<1>3. CASE op' # Idle
  <2>1. \/ Head(op.todo) = "hookread" /\ At({"hookread"}) /\ op' = GiveUp(2)
        \/ Head(op.todo) = "hookwrite" /\ At({"hookwrite"}) /\ op' = GiveUp(1)
    BY <1>3 DEF BundleStepFails, ConfigStepFails, Refused, Kill, At
  <2>2. Head(op.todo) \in StepsOf(op.cmd)
    BY <2>1, AtIs
  <2>3. op.cmd # "doctor"
    BY <2>1, <2>2 DEF StepsOf, RepairStep, DoctorStep
  <2> QED BY <1>1, <2>1, <2>3, GiveUpHonest
<1> QED BY <1>2, <1>3

LEMMA HonestKept ==
  ASSUME Typed, Honest, [Next]_vars
  PROVE  Honest'
<1>1. CASE Start
  BY <1>1, StartHonest
<1>2. CASE Step
  BY <1>2, BuildingHonest, HookReadHonest, McpReadHonest, McpWriteHonest, ConfigHonest, EnvHonest,
     ServerHonest, SelfHonest, SmokeHonest, AssertHonest, VerifyHonest, RetractHonest, WaitHonest,
     FailuresHonest DEF Step
<1>3. CASE BundleStepFails \/ ConfigStepFails \/ Kill
  BY <1>3, FailuresHonest
<1>4. CASE ServerHangs
  BY <1>4, HangsHonest
<1>5. CASE Outside
  BY <1>5, OutsideHonest
<1>6. CASE UNCHANGED vars
  <2>1. UNCHANGED <<disk, conf, target, daemon, believed, op, report>>
    BY <1>6 DEF vars
  <2>2. \A a : /\ ServesProject(a)' <=> ServesProject(a)
               /\ Runs(a)' <=> Runs(a)
               /\ ProbeAccepted(a)' <=> ProbeAccepted(a)
               /\ AgentEnvOK(a)' <=> AgentEnvOK(a)
               /\ AgentEnv(a)' = AgentEnv(a)
               /\ IdentityOK(a)' <=> IdentityOK(a)
    BY <2>1, SameWorld, SameVerdicts
  <2>3. \A a, server : SmokeOK(a, server)' <=> SmokeOK(a, server)
    BY <2>1, SameWorld
  <2>4. Checked(op, Left(op), believed)' <=> Checked(op, Left(op), believed)
    BY <2>1, <2>2, <2>3 DEF Checked, Left
  <2>5. Copied(op)' <=> Copied(op)
    BY <2>1, <2>2 DEF Copied
  <2>6. Left(op)' = Left(op)
    BY <2>1 DEF Left
  <2>7. GreenReportIsTrue' <=> GreenReportIsTrue
    <3>1. \A server : Lands(server)' = Lands(server)
      BY <2>1, SameWorld
    <3> QED BY <2>1, <2>2, <3>1 DEF GreenReportIsTrue
  <2> QED BY <2>1, <2>4, <2>5, <2>6, <2>7 DEF Honest
<1> QED BY <1>1, <1>2, <1>3, <1>4, <1>5, <1>6 DEF Next

(***************************************************************************)
(* A green report is true: of every agent that `mcp install --check`,      *)
(* `doctor` of an agent, of all agents or of a source calls well, unless   *)
(* something changed beside the check.  The report is put together from    *)
(* what was read at each step, over several agents, after a repair or      *)
(* without one, with servers that hang and steps that fail; the verdicts   *)
(* on an agent checked before must still hold when the last one is.        *)
(***************************************************************************)
THEOREM GreenReportHolds == Spec => []GreenReportIsTrue
<1>1. Init => Typed /\ Honest
  BY TypedAtFirst DEF Init, Honest, GreenReportIsTrue
<1>2. Typed /\ Honest /\ [Next]_vars => Typed' /\ Honest'
  BY TypedKept, HonestKept
<1>3. Honest => GreenReportIsTrue
  BY DEF Honest
<1> QED BY <1>1, <1>2, <1>3, PTL DEF Spec
=============================================================================
