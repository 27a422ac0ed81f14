------------------------ MODULE IdentityBundleProofs ------------------------
(***************************************************************************)
(* Proofs about IdentityBundle, for any sources, grants and levels, any      *)
(* number of commands, failures and writes.                                 *)
(***************************************************************************)
EXTENDS IdentityBundle, SequenceTheorems, TLAPS

-----------------------------------------------------------------------------
(* The ledger of a ceremony: the list of what is to be undone, the latest    *)
(* first.  Everything below is about one file f of the source, the list, the *)
(* disk d, the backups b and the disk as it was when the ceremony began.     *)

Own(s) == {KeyFile(s), GrantFile(s), EnvFile(s)}
Shared == {TrustFile, ActiveFile, IssuerFile}

Remove(f) == <<"remove", f, Absent>>
Restore(f, v) == <<"restore", f, v>>

Entry(list, f) == \E i \in DOMAIN list : list[i][2] = f
Restores(list, f, v) == \E i \in DOMAIN list : list[i] = Restore(f, v)

\* An entry removes f or restores what it was; where it was there, one restores
\* it, and nothing undone after that one touches f; a restore has its backup;
\* and a file without an entry is as it was.
Balanced(list, d, b, was, f) ==
  /\ \A i \in DOMAIN list : list[i][2] = f => list[i] = Remove(f) \/ list[i] = Restore(f, was)
  /\ Entry(list, f) => was = Absent \/ Restores(list, f, was)
  /\ \A i, j \in DOMAIN list : i < j /\ list[i] = Restore(f, was) => list[j][2] # f
  /\ ~Entry(list, f) => d = was
  /\ Restores(list, f, was) => <<f, was>> \in b

\* Indices of a list with one more entry, and of its tail.
LEMMA PushIs ==
  ASSUME NEW S, NEW list \in Seq(S), NEW e
  PROVE  LET new == <<e>> \o list
         IN /\ DOMAIN new = 1..Len(list) + 1 /\ new[1] = e
            /\ \A i \in DOMAIN list : i + 1 \in DOMAIN new /\ new[i + 1] = list[i]
            /\ \A i \in DOMAIN new : i = 1 \/ (i - 1 \in DOMAIN list /\ new[i] = list[i - 1])
            /\ new \in Seq(S \cup {e}) /\ new # << >>
<1> DEFINE T == S \cup {e}
<1>1. list \in Seq(T) /\ <<e>> \in Seq(T) /\ Len(<<e>>) = 1 /\ <<e>>[1] = e
  BY SeqMonotonic
<1> DEFINE new == <<e>> \o list
<1>2. /\ new \in Seq(T) /\ Len(new) = 1 + Len(list)
      /\ \A i \in 1..1 + Len(list) : new[i] = IF i <= 1 THEN <<e>>[i] ELSE list[i - 1]
  BY <1>1, ConcatProperties
<1>3. DOMAIN list = 1..Len(list) /\ Len(list) \in Nat /\ DOMAIN new = 1..Len(new)
  BY <1>2, LenProperties
<1> HIDE DEF new
<1> QED BY <1>1, <1>2, <1>3 DEF new

LEMMA TailIs ==
  ASSUME NEW S, NEW list \in Seq(S), list # << >>
  PROVE  /\ Tail(list) \in Seq(S) /\ 1 \in DOMAIN list /\ Head(list) = list[1]
         /\ \A i \in DOMAIN Tail(list) : i + 1 \in DOMAIN list /\ Tail(list)[i] = list[i + 1]
                                         /\ i \in Nat /\ i >= 1
         /\ \A i \in DOMAIN list : i = 1 \/ (i - 1 \in DOMAIN Tail(list)
                                             /\ Tail(list)[i - 1] = list[i])
BY HeadTailProperties, LenProperties, EmptySeq

\* WriteFile: a file that was not there, or is already accounted for.
LEMMA PushRemove ==
  ASSUME NEW S, NEW list \in Seq(S), NEW d, NEW b, NEW was, NEW f, NEW d2,
         Balanced(list, d, b, was, f), was = Absent \/ Entry(list, f)
  PROVE  Balanced(<<Remove(f)>> \o list, d2, b, was, f)
<1> DEFINE new == <<Remove(f)>> \o list
<1>1. /\ DOMAIN new = 1..Len(list) + 1 /\ new[1] = Remove(f)
      /\ \A i \in DOMAIN list : i + 1 \in DOMAIN new /\ new[i + 1] = list[i]
      /\ \A i \in DOMAIN new : i = 1 \/ (i - 1 \in DOMAIN list /\ new[i] = list[i - 1])
  BY PushIs
<1>2. DOMAIN list = 1..Len(list) /\ Len(list) \in Nat
  BY LenProperties
<1>3. Remove(f)[2] = f /\ Remove(f) # Restore(f, was)
  BY DEF Remove, Restore
<1> HIDE DEF new
<1>4. Restores(new, f, was) <=> Restores(list, f, was)
  BY <1>1, <1>3 DEF Restores
<1>5. Entry(new, f)
  BY <1>1, <1>2, <1>3 DEF Entry
<1>6. \A i, j \in DOMAIN new : i < j /\ new[i] = Restore(f, was) => new[j][2] # f
  BY <1>1, <1>2, <1>3 DEF Balanced
<1>7. \A i \in DOMAIN new : new[i][2] = f => new[i] = Remove(f) \/ new[i] = Restore(f, was)
  BY <1>1 DEF Balanced
<1> QED BY <1>4, <1>5, <1>6, <1>7 DEF Balanced, new

\* MoveAside: a file no entry is about is moved to its backup.
LEMMA PushRestore ==
  ASSUME NEW S, NEW list \in Seq(S), NEW d, NEW b, NEW was, NEW f, NEW d2,
         Balanced(list, d, b, was, f), ~Entry(list, f)
  PROVE  Balanced(<<Restore(f, d)>> \o list, d2, b \cup {<<f, d>>}, was, f)
<1> DEFINE new == <<Restore(f, d)>> \o list
<1>1. /\ DOMAIN new = 1..Len(list) + 1 /\ new[1] = Restore(f, d)
      /\ \A i \in DOMAIN list : i + 1 \in DOMAIN new /\ new[i + 1] = list[i]
      /\ \A i \in DOMAIN new : i = 1 \/ (i - 1 \in DOMAIN list /\ new[i] = list[i - 1])
  BY PushIs
<1>2. DOMAIN list = 1..Len(list) /\ Len(list) \in Nat /\ d = was
  BY LenProperties DEF Balanced
<1>3. Restore(f, was)[2] = f
  BY DEF Restore
<1> HIDE DEF new
<1>4. Restores(new, f, was) /\ Entry(new, f)
  BY <1>1, <1>2, <1>3 DEF Restores, Entry
<1>5. \A i, j \in DOMAIN new : i < j /\ new[i] = Restore(f, was) => new[j][2] # f
  BY <1>1, <1>2, <1>3 DEF Balanced, Entry
<1>6. \A i \in DOMAIN new : new[i][2] = f => new[i] = Remove(f) \/ new[i] = Restore(f, was)
  BY <1>1, <1>2 DEF Balanced
<1> QED BY <1>2, <1>4, <1>5, <1>6 DEF Balanced, new

\* An entry about another file.
LEMMA PushOther ==
  ASSUME NEW S, NEW list \in Seq(S), NEW d, NEW b, NEW was, NEW f, NEW e, NEW b2,
         Balanced(list, d, b, was, f), e[2] # f, b \subseteq b2
  PROVE  Balanced(<<e>> \o list, d, b2, was, f)
<1> DEFINE new == <<e>> \o list
<1>1. /\ DOMAIN new = 1..Len(list) + 1 /\ new[1] = e
      /\ \A i \in DOMAIN list : i + 1 \in DOMAIN new /\ new[i + 1] = list[i]
      /\ \A i \in DOMAIN new : i = 1 \/ (i - 1 \in DOMAIN list /\ new[i] = list[i - 1])
  BY PushIs
<1>2. DOMAIN list = 1..Len(list) /\ Len(list) \in Nat /\ Restore(f, was)[2] = f
  BY LenProperties DEF Restore
<1> HIDE DEF new
<1>4. (Restores(new, f, was) <=> Restores(list, f, was)) /\ (Entry(new, f) <=> Entry(list, f))
  BY <1>1, <1>2 DEF Restores, Entry
<1>5. \A i, j \in DOMAIN new : i < j /\ new[i] = Restore(f, was) => new[j][2] # f
  BY <1>1, <1>2 DEF Balanced
<1>6. \A i \in DOMAIN new : new[i][2] = f => new[i] = Remove(f) \/ new[i] = Restore(f, was)
  BY <1>1 DEF Balanced
<1> QED BY <1>4, <1>5, <1>6 DEF Balanced, new

\* Rollback: the head of the list is undone.  A file about which nothing is
\* left to undo is then as it was.
LEMMA PopEntry ==
  ASSUME NEW S, NEW list \in Seq(S), list # << >>, NEW d, NEW b, NEW was, NEW f, NEW d2, NEW b2,
         Balanced(list, d, b, was, f),
         Head(list)[2] # f => d2 = d,
         Head(list) = Remove(f) => d2 = Absent,
         Head(list) = Restore(f, was) => d2 = was,
         \A v : <<f, v>> \in b /\ Head(list)[2] # f => <<f, v>> \in b2,
         Head(list) = Remove(f) => b \subseteq b2
  PROVE  Balanced(Tail(list), d2, b2, was, f)
<1> DEFINE t == Tail(list)
<1>1. /\ 1 \in DOMAIN list /\ Head(list) = list[1]
      /\ \A i \in DOMAIN t : i + 1 \in DOMAIN list /\ t[i] = list[i + 1] /\ i \in Nat /\ i >= 1
      /\ \A i \in DOMAIN list : i = 1 \/ (i - 1 \in DOMAIN t /\ t[i - 1] = list[i])
  BY TailIs
<1>2. Remove(f)[2] = f /\ Restore(f, was)[2] = f
  BY DEF Remove, Restore
<1> HIDE DEF t
<1>3. \A i \in DOMAIN t : t[i][2] = f => t[i] = Remove(f) \/ t[i] = Restore(f, was)
  BY <1>1 DEF Balanced
<1>4. \A i, j \in DOMAIN t : i < j /\ t[i] = Restore(f, was) => t[j][2] # f
  <2> SUFFICES ASSUME NEW i \in DOMAIN t, NEW j \in DOMAIN t, i < j, t[i] = Restore(f, was)
               PROVE  t[j][2] # f
    OBVIOUS
  <2>1. i + 1 \in DOMAIN list /\ j + 1 \in DOMAIN list /\ i + 1 < j + 1
        /\ list[i + 1] = Restore(f, was) /\ t[j] = list[j + 1]
    BY <1>1
  <2> QED BY <2>1 DEF Balanced
<1>5. Head(list) = Restore(f, was) => ~Entry(t, f)
  <2> SUFFICES ASSUME list[1] = Restore(f, was), NEW i \in DOMAIN t PROVE t[i][2] # f
    BY <1>1 DEF Entry
  <2>1. i + 1 \in DOMAIN list /\ 1 < i + 1 /\ t[i] = list[i + 1]
    BY <1>1
  <2> QED BY <1>1, <2>1 DEF Balanced
<1>6. Entry(t, f) => was = Absent \/ Restores(t, f, was)
  <2> SUFFICES ASSUME Entry(t, f), was # Absent PROVE Restores(t, f, was)
    OBVIOUS
  <2>1. Entry(list, f)
    BY <1>1 DEF Entry
  <2>2. PICK i \in DOMAIN list : list[i] = Restore(f, was)
    BY <2>1 DEF Balanced, Restores
  <2>3. i # 1
    BY <1>1, <1>5, <2>2
  <2> QED BY <1>1, <2>2, <2>3 DEF Restores
<1>7. ~Entry(t, f) => d2 = was
  <2> SUFFICES ASSUME ~Entry(t, f) PROVE d2 = was
    OBVIOUS
  <2>1. CASE Head(list)[2] # f
    <3>1. ~Entry(list, f)
      BY <1>1, <2>1 DEF Entry
    <3> QED BY <2>1, <3>1 DEF Balanced
  <2>2. CASE Head(list) = Restore(f, was)
    BY <2>2
  <2>3. CASE Head(list) = Remove(f)
    <3>1. Entry(list, f)
      BY <1>1, <1>2, <2>3 DEF Entry
    <3>2. ASSUME Restores(list, f, was) PROVE FALSE
      <4>1. PICK i \in DOMAIN list : list[i] = Restore(f, was)
        BY <3>2 DEF Restores
      <4>2. i = 1
        BY <1>1, <1>2, <4>1 DEF Entry
      <4> QED BY <1>1, <2>3, <4>1, <4>2 DEF Remove, Restore
    <3> QED BY <2>3, <3>1, <3>2 DEF Balanced
  <2> QED BY <1>1, <2>1, <2>2, <2>3 DEF Balanced
<1>8. Restores(t, f, was) => <<f, was>> \in b2
  <2> SUFFICES ASSUME Restores(t, f, was) PROVE <<f, was>> \in b2
    OBVIOUS
  <2>1. Entry(t, f) /\ Restores(list, f, was)
    BY <1>1, <1>2 DEF Restores, Entry
  <2>2. <<f, was>> \in b /\ Head(list) # Restore(f, was)
    BY <1>5, <2>1 DEF Balanced
  <2>3. Head(list)[2] # f \/ Head(list) = Remove(f)
    BY <1>1, <2>2 DEF Balanced
  <2> QED BY <2>2, <2>3
<1> QED BY <1>3, <1>4, <1>6, <1>7, <1>8 DEF Balanced, t

-----------------------------------------------------------------------------
(* The plan of a ceremony.                                                  *)

OwnKinds == {"key", "grant", "env"}

MoveOf(k) == CASE k = "key" -> "movekey" [] k = "grant" -> "movegrant" [] k = "env" -> "moveenv"
               [] k = "active" -> "moveactive"

Moves == {"movekey", "movegrant", "moveenv", "moveactive"}

\* A file is written only if it was not there, is accounted for, or is moved
\* aside before; and it is moved aside once, before anything else is done to it.
Planned(todo, undo, was, s, k) ==
  /\ \A i \in DOMAIN todo : todo[i] = k =>
       \/ was = Absent \/ Entry(undo, <<k, s>>)
       \/ \E j \in DOMAIN todo : j < i /\ todo[j] = MoveOf(k)
  /\ \A i \in DOMAIN todo : todo[i] = MoveOf(k) =>
       /\ ~Entry(undo, <<k, s>>)
       /\ \A j \in DOMAIN todo : j < i => todo[j] # k /\ todo[j] # MoveOf(k)

LEMMA PlanStep ==
  ASSUME NEW S, NEW todo \in Seq(S), todo # << >>, NEW undo, NEW undo2, NEW was, NEW s, NEW k,
         Planned(todo, undo, was, s, k),
         Entry(undo, <<k, s>>) \/ Head(todo) = MoveOf(k) => Entry(undo2, <<k, s>>),
         Entry(undo2, <<k, s>>) => Entry(undo, <<k, s>>) \/ Head(todo) = k \/ Head(todo) = MoveOf(k)
  PROVE  Planned(Tail(todo), undo2, was, s, k)
<1> DEFINE t == Tail(todo)
<1>1. /\ 1 \in DOMAIN todo /\ Head(todo) = todo[1]
      /\ \A i \in DOMAIN t : i + 1 \in DOMAIN todo /\ t[i] = todo[i + 1] /\ i \in Nat /\ i >= 1
      /\ \A i \in DOMAIN todo : i = 1 \/ (i - 1 \in DOMAIN t /\ t[i - 1] = todo[i])
  BY TailIs
<1> HIDE DEF t
<1>2. ASSUME NEW i \in DOMAIN t, t[i] = k
      PROVE  \/ was = Absent \/ Entry(undo2, <<k, s>>)
             \/ \E j \in DOMAIN t : j < i /\ t[j] = MoveOf(k)
  <2>1. i + 1 \in DOMAIN todo /\ todo[i + 1] = k /\ i \in Nat /\ i >= 1
    BY <1>1, <1>2
  <2>2. \/ was = Absent \/ Entry(undo, <<k, s>>)
        \/ \E j \in DOMAIN todo : j < i + 1 /\ todo[j] = MoveOf(k)
    BY <2>1 DEF Planned
  <2>3. ASSUME NEW j \in DOMAIN todo, j < i + 1, todo[j] = MoveOf(k)
        PROVE  Entry(undo2, <<k, s>>) \/ \E m \in DOMAIN t : m < i /\ t[m] = MoveOf(k)
    <3>1. CASE j = 1
      BY <1>1, <2>3, <3>1
    <3>2. CASE j # 1
      <4>1. j - 1 \in DOMAIN t /\ t[j - 1] = MoveOf(k) /\ j - 1 \in Nat
        BY <1>1, <2>3, <3>2
      <4>2. j \in Nat
        BY LenProperties
      <4>3. j - 1 < i
        BY <2>1, <2>3, <4>1, <4>2
      <4> QED BY <4>1, <4>3
    <3> QED BY <3>1, <3>2
  <2> QED BY <2>2, <2>3
<1>3. ASSUME NEW i \in DOMAIN t, t[i] = MoveOf(k)
      PROVE  /\ ~Entry(undo2, <<k, s>>)
             /\ \A j \in DOMAIN t : j < i => t[j] # k /\ t[j] # MoveOf(k)
  <2>1. i + 1 \in DOMAIN todo /\ todo[i + 1] = MoveOf(k) /\ i \in Nat /\ i >= 1 /\ 1 < i + 1
    BY <1>1, <1>3
  <2>2. ~Entry(undo, <<k, s>>) /\ Head(todo) # k /\ Head(todo) # MoveOf(k)
    BY <1>1, <2>1 DEF Planned
  <2>3. ASSUME NEW j \in DOMAIN t, j < i PROVE t[j] # k /\ t[j] # MoveOf(k)
    <3>1. j + 1 \in DOMAIN todo /\ j + 1 < i + 1 /\ t[j] = todo[j + 1]
      BY <1>1, <2>1, <2>3
    <3> QED BY <2>1, <3>1 DEF Planned
  <2> QED BY <2>2, <2>3
<1> QED BY <1>2, <1>3 DEF Planned, t

-----------------------------------------------------------------------------
(* The state of a ceremony.                                                 *)

IsCeremony(o) ==
  \E V : o \in [cmd : V, src : V, todo : V, grant : V, reg : V, undo : V, guarded : V,
                before : V, log : V, failed : V]

\* What is still to be undone, should the ceremony fail now.
Ledger(o) == IF o.failed THEN o.todo ELSE o.undo

Undoable(e, s) == e[1] \in {"remove", "restore", "removelog"} /\ e[2] \in Own(s) \cup Shared

\* A command with a guard: every file of its source is accounted for.
Guarded(o, d, b) ==
  /\ o.src \in Source
  /\ \A i \in DOMAIN Ledger(o) : Undoable(Ledger(o)[i], o.src)
  /\ \A f \in Own(o.src) : Balanced(Ledger(o), d[f], b, o.before[f], f)
  /\ ~o.failed => \A k \in OwnKinds : Planned(o.todo, o.undo, o.before[<<k, o.src>>], o.src, k)

\* A command without one does not touch the key and the grant of a source that
\* could write, and moves nothing aside.
Unguarded(o, d, us) ==
  /\ ~o.failed
  /\ \A i \in DOMAIN o.todo : o.todo[i] \notin Moves \cup {"dropkey"}
  /\ o.src \in us =>
       /\ \A i \in DOMAIN o.todo : o.todo[i] # "key" /\ o.todo[i] # "grant"
       /\ d[KeyFile(o.src)] = o.before[KeyFile(o.src)]
       /\ d[GrantFile(o.src)] = o.before[GrantFile(o.src)]

\* The old key is dropped last, when the new key and the new grant are there.
DropsLast(o, d) ==
  \A i \in DOMAIN o.todo : ~o.failed /\ o.todo[i] = "dropkey" =>
    /\ i = Len(o.todo) /\ o.grant \in Grant
    /\ \/ \E j \in DOMAIN o.todo : o.todo[j] = "key"
       \/ d[KeyFile(o.src)] = o.grant.key /\ Entry(o.undo, KeyFile(o.src))
    /\ \/ \E j \in DOMAIN o.todo : o.todo[j] = "grant"
       \/ d[GrantFile(o.src)] = o.grant /\ Entry(o.undo, GrantFile(o.src))

Matched(d, s) ==
  d[KeyFile(s)] # Absent /\ d[GrantFile(s)] # Absent /\ d[KeyFile(s)] = d[GrantFile(s)].key

Underway(o, d, b, us) ==
  /\ IsCeremony(o) /\ o.failed \in BOOLEAN /\ o.guarded \in BOOLEAN
  /\ o.failed => o.todo # << >>
  /\ \E S : o.todo \in Seq(S) /\ o.undo \in Seq(S)
  /\ IF o.guarded THEN Guarded(o, d, b) ELSE Unguarded(o, d, us)
  /\ DropsLast(o, d)
  /\ o.src \in us => Matched(o.before, o.src)

Orderly ==
  /\ \E V : disk \in [File -> V]
  /\ usable \subseteq Source
  /\ op # Idle => Underway(op, disk, bak, usable)

\* A key with its grant, on disk or among the backups.
Held(dk, dg, b, s) ==
  \E k \in {dk} \cup {x[2] : x \in {y \in b : y[1] = KeyFile(s)}},
     g \in {dg} \cup {x[2] : x \in {y \in b : y[1] = GrantFile(s)}} :
    k # Absent /\ g # Absent /\ g.key = k

LEMMA KeyNeverLostIs ==
  KeyNeverLost <=> \A s \in usable : Held(disk[KeyFile(s)], disk[GrantFile(s)], bak, s)
BY DEF KeyNeverLost, Held

LEMMA HeldFrom ==
  ASSUME NEW dk, NEW dg, NEW b, NEW s, NEW k, NEW g, k # Absent, g # Absent, g.key = k,
         dk = k \/ <<KeyFile(s), k>> \in b, dg = g \/ <<GrantFile(s), g>> \in b
  PROVE  Held(dk, dg, b, s)
<1>1. k \in {dk} \cup {x[2] : x \in {y \in b : y[1] = KeyFile(s)}}
  OBVIOUS
<1>2. g \in {dg} \cup {x[2] : x \in {y \in b : y[1] = GrantFile(s)}}
  OBVIOUS
<1> QED BY <1>1, <1>2 DEF Held

LEMMA HeldStays ==
  ASSUME NEW dk, NEW dg, NEW b, NEW b2, NEW s, Held(dk, dg, b, s),
         \A x \in b : x[1] \in {KeyFile(s), GrantFile(s)} => x \in b2
  PROVE  Held(dk, dg, b2, s)
BY DEF Held

\* The files of two sources, and the shared ones, are apart.
LEMMA FilesApart ==
  /\ \A s, t : s # t => Own(s) \cap Own(t) = {}
  /\ \A s : Own(s) \cap Shared = {}
  /\ \A s : KeyFile(s) # GrantFile(s) /\ KeyFile(s) # EnvFile(s) /\ GrantFile(s) # EnvFile(s)
  /\ \A s \in Source : Own(s) \subseteq File
  /\ \A s : Own(s) = {<<k, s>> : k \in OwnKinds}
BY DEF Own, Shared, KeyFile, GrantFile, EnvFile, TrustFile, ActiveFile, IssuerFile, File, OwnKinds

LEMMA DoneIs ==
  ASSUME IsCeremony(op), NEW u, Done(u), op' # Idle
  PROVE  /\ IsCeremony(op') /\ op'.todo = Tail(op.todo) /\ op'.undo = u \o op.undo
         /\ Tail(op.todo) # << >>
         /\ op'.src = op.src /\ op'.failed = op.failed /\ op'.guarded = op.guarded
         /\ op'.before = op.before /\ op'.grant = op.grant /\ op'.reg = op.reg
<1>1. op' = [op EXCEPT !.todo = Tail(op.todo), !.undo = u \o op.undo] /\ Tail(op.todo) # << >>
  BY DEF Done
<1>2. PICK V : op \in [cmd : V, src : V, todo : V, grant : V, reg : V, undo : V, guarded : V,
                       before : V, log : V, failed : V]
  BY DEF IsCeremony
<1> DEFINE W == V \cup {Tail(op.todo), u \o op.undo}
<1>3. op' \in [cmd : W, src : W, todo : W, grant : W, reg : W, undo : W, guarded : W,
               before : W, log : W, failed : W]
  BY <1>1, <1>2
<1> QED BY <1>1, <1>2, <1>3 DEF IsCeremony

-----------------------------------------------------------------------------
(* The steps of a ceremony.                                                 *)

\* Every element of a list is one of two others.
DrawnFrom(new, u, list) ==
  \A i \in DOMAIN new :
    (\E j \in DOMAIN u : new[i] = u[j]) \/ \E j \in DOMAIN list : new[i] = list[j]

LEMMA EntryOfPush ==
  ASSUME NEW S, NEW list \in Seq(S), NEW u, NEW e, u = << >> \/ u = <<e>>, NEW new, new = u \o list
  PROVE  /\ \A f : Entry(new, f) <=> Entry(u, f) \/ Entry(list, f)
         /\ DrawnFrom(new, u, list)
         /\ new \in Seq(S \cup {e})
<1>1. CASE u = << >>
  <2>1. new = list /\ list \in Seq(S \cup {e})
    BY <1>1, ConcatEmptySeq, SeqMonotonic
  <2>2. DOMAIN u = {}
    BY <1>1
  <2> QED BY <2>1, <2>2 DEF Entry, DrawnFrom
<1>2. CASE u = <<e>>
  <2>1. /\ DOMAIN new = 1..Len(list) + 1 /\ new[1] = e
        /\ \A i \in DOMAIN list : i + 1 \in DOMAIN new /\ new[i + 1] = list[i]
        /\ \A i \in DOMAIN new : i = 1 \/ (i - 1 \in DOMAIN list /\ new[i] = list[i - 1])
        /\ new \in Seq(S \cup {e})
    BY <1>2, PushIs
  <2>2. DOMAIN u = {1} /\ u[1] = e /\ 1 \in DOMAIN new
    BY <1>2, <2>1, LenProperties
  <2>4. ASSUME NEW f PROVE Entry(new, f) <=> Entry(u, f) \/ Entry(list, f)
    <3>1. ASSUME Entry(new, f) PROVE Entry(u, f) \/ Entry(list, f)
      BY <2>1, <2>2, <3>1 DEF Entry
    <3>2. CASE Entry(u, f)
      <4>1. 1 \in DOMAIN new /\ new[1][2] = f
        BY <2>1, <2>2, <3>2 DEF Entry
      <4> QED BY <4>1 DEF Entry
    <3>3. CASE Entry(list, f)
      <4>1. PICK i \in DOMAIN list : list[i][2] = f
        BY <3>3 DEF Entry
      <4>2. i + 1 \in DOMAIN new /\ new[i + 1] = list[i]
        BY <2>1
      <4> QED BY <4>1, <4>2 DEF Entry
    <3> QED BY <3>1, <3>2, <3>3
  <2>5. DrawnFrom(new, u, list)
    BY <2>1, <2>2 DEF DrawnFrom
  <2> QED BY <2>1, <2>4, <2>5
<1> QED BY <1>1, <1>2

\* The changes one step may make: it accounts for what it does to the files of
\* the source, and it changes the key and the grant only when it is their turn.
Accounted(u, d, b) ==
  LET step == Head(op.todo) s == op.src
  IN  /\ op.guarded =>
           /\ \A f \in Own(s) : Balanced(u \o op.undo, d[f], b, op.before[f], f)
           /\ \A i \in DOMAIN u : Undoable(u[i], s)
           /\ \A k \in OwnKinds : Entry(u, <<k, s>>) <=> (step = k \/ step = MoveOf(k))
      /\ s \in Source /\ step # "key" /\ step # "movekey" => d[KeyFile(s)] = disk[KeyFile(s)]
      /\ s \in Source /\ step # "grant" /\ step # "movegrant" => d[GrantFile(s)] = disk[GrantFile(s)]
      /\ op.guarded /\ step = "key" => d[KeyFile(s)] = op.grant.key
      /\ op.guarded /\ step = "grant" => d[GrantFile(s)] = op.grant

LEMMA Advance ==
  ASSUME Underway(op, disk, bak, usable), usable \subseteq Source, Step, NEW u, NEW e, u = << >> \/ u = <<e>>,
         Done(u), op' # Idle, Accounted(u, disk', bak'), Head(op.todo) # "dropkey"
  PROVE  Underway(op', disk', bak', usable)
<1> DEFINE s == op.src
           step == Head(op.todo)
<1>1. PICK S : op.todo \in Seq(S) /\ op.undo \in Seq(S)
  BY DEF Underway
<1>2. /\ IsCeremony(op') /\ op'.todo = Tail(op.todo) /\ op'.undo = u \o op.undo
      /\ op'.src = op.src /\ op'.failed = op.failed /\ op'.guarded = op.guarded
      /\ op'.before = op.before /\ op'.grant = op.grant
  BY DoneIs DEF Underway
<1>3. /\ op.todo # << >> /\ ~op.failed /\ op.failed = FALSE
      /\ op.guarded \in BOOLEAN
  BY DEF Step, Underway
<1>4. /\ Tail(op.todo) \in Seq(S) /\ 1 \in DOMAIN op.todo /\ step = op.todo[1]
      /\ \A i \in DOMAIN Tail(op.todo) : i + 1 \in DOMAIN op.todo /\ i \in Nat /\ i >= 1
                                         /\ Tail(op.todo)[i] = op.todo[i + 1]
      /\ \A i \in DOMAIN op.todo : i = 1 \/ (i - 1 \in DOMAIN Tail(op.todo)
                                             /\ Tail(op.todo)[i - 1] = op.todo[i])
  BY <1>1, <1>3, TailIs
<1>5. /\ \A f : Entry(op'.undo, f) <=> Entry(u, f) \/ Entry(op.undo, f)
      /\ \A i \in DOMAIN op'.undo : (\E j \in DOMAIN u : op'.undo[i] = u[j])
                                    \/ \E j \in DOMAIN op.undo : op'.undo[i] = op.undo[j]
      /\ op'.undo \in Seq(S \cup {e})
  <2>1. /\ \A f : Entry(op'.undo, f) <=> Entry(u, f) \/ Entry(op.undo, f)
        /\ DrawnFrom(op'.undo, u, op.undo) /\ op'.undo \in Seq(S \cup {e})
    BY <1>1, <1>2, EntryOfPush
  <2> QED BY <2>1 DEF DrawnFrom
<1>6. op'.todo \in Seq(S \cup {e})
  BY <1>2, <1>4, SeqMonotonic
<1>7. ASSUME op.guarded PROVE Guarded(op', disk', bak')
  <2>1. Guarded(op, disk, bak)
    BY <1>7 DEF Underway
  <2>2. Ledger(op') = op'.undo /\ Ledger(op) = op.undo
    BY <1>2, <1>3 DEF Ledger
  <2>3. \A f \in Own(s) : Balanced(op'.undo, disk'[f], bak', op.before[f], f)
    BY <1>2, <1>7 DEF Accounted
  <2>4. \A i \in DOMAIN op'.undo : Undoable(op'.undo[i], s)
    BY <1>5, <1>7, <2>1, <2>2 DEF Accounted, Guarded
  <2>5. ASSUME NEW k \in OwnKinds
        PROVE  Planned(op'.todo, op'.undo, op.before[<<k, s>>], s, k)
    <3>1. Planned(op.todo, op.undo, op.before[<<k, s>>], s, k)
      BY <1>3, <2>1 DEF Guarded
    <3>2. Entry(u, <<k, s>>) <=> (step = k \/ step = MoveOf(k))
      BY <1>7 DEF Accounted
    <3> QED BY <1>1, <1>2, <1>3, <1>5, <3>1, <3>2, PlanStep
  <2> QED BY <1>2, <2>1, <2>2, <2>3, <2>4, <2>5 DEF Guarded
<1>8. ASSUME ~op.guarded PROVE Unguarded(op', disk', usable)
  <2>1. Unguarded(op, disk, usable)
    BY <1>8 DEF Underway
  <2>2. \A i \in DOMAIN op'.todo : \E j \in DOMAIN op.todo : op'.todo[i] = op.todo[j]
    BY <1>2, <1>4
  <2>3. s \in usable => /\ disk'[KeyFile(s)] = disk[KeyFile(s)]
                        /\ disk'[GrantFile(s)] = disk[GrantFile(s)]
    BY <1>4, <2>1 DEF Unguarded, Accounted, Moves
  <2> QED BY <1>2, <1>3, <2>1, <2>2, <2>3 DEF Unguarded
<1>9. DropsLast(op', disk')
  <2> SUFFICES ASSUME NEW i \in DOMAIN op'.todo, op'.todo[i] = "dropkey"
               PROVE  /\ i = Len(op'.todo) /\ op'.grant \in Grant
                      /\ \/ \E j \in DOMAIN op'.todo : op'.todo[j] = "key"
                         \/ disk'[KeyFile(s)] = op'.grant.key /\ Entry(op'.undo, KeyFile(s))
                      /\ \/ \E j \in DOMAIN op'.todo : op'.todo[j] = "grant"
                         \/ disk'[GrantFile(s)] = op'.grant /\ Entry(op'.undo, GrantFile(s))
    BY <1>2 DEF DropsLast
  <2>1. i + 1 \in DOMAIN op.todo /\ op.todo[i + 1] = "dropkey"
    BY <1>2, <1>4
  <2>2. /\ i + 1 = Len(op.todo) /\ op.grant \in Grant
        /\ \/ \E j \in DOMAIN op.todo : op.todo[j] = "key"
           \/ disk[KeyFile(s)] = op.grant.key /\ Entry(op.undo, KeyFile(s))
        /\ \/ \E j \in DOMAIN op.todo : op.todo[j] = "grant"
           \/ disk[GrantFile(s)] = op.grant /\ Entry(op.undo, GrantFile(s))
    BY <1>3, <2>1 DEF Underway, DropsLast
  <2>3. i = Len(op'.todo)
    BY <1>1, <1>2, <1>3, <1>4, <2>2, HeadTailProperties, LenProperties
  <2>4. op.guarded /\ s \in Source
    BY <1>3, <2>1 DEF Underway, Unguarded, Guarded
  <2>5. \A k \in OwnKinds : /\ Entry(u, <<k, s>>) <=> (step = k \/ step = MoveOf(k))
                            /\ step = MoveOf(k) => ~Entry(op.undo, <<k, s>>)
    BY <1>3, <1>4, <2>4 DEF Accounted, Underway, Guarded, Planned
  <2>6. \/ \E j \in DOMAIN op'.todo : op'.todo[j] = "key"
        \/ disk'[KeyFile(s)] = op'.grant.key /\ Entry(op'.undo, KeyFile(s))
    <3>1. KeyFile(s) = <<"key", s>> /\ "key" \in OwnKinds /\ MoveOf("key") = "movekey"
      BY DEF KeyFile, OwnKinds, MoveOf
    <3>2. CASE step = "key"
      BY <1>2, <1>5, <2>4, <2>5, <3>1, <3>2 DEF Accounted
    <3>3. CASE step # "key" /\ \E j \in DOMAIN op.todo : op.todo[j] = "key"
      <4>1. PICK j \in DOMAIN op.todo : op.todo[j] = "key"
        BY <3>3
      <4>2. j - 1 \in DOMAIN Tail(op.todo) /\ Tail(op.todo)[j - 1] = "key"
        BY <1>4, <3>3, <4>1
      <4> QED BY <1>2, <4>2
    <3>4. CASE step # "key" /\ disk[KeyFile(s)] = op.grant.key /\ Entry(op.undo, KeyFile(s))
      <4>1. step # "movekey"
        BY <2>5, <3>1, <3>4
      <4> QED BY <1>2, <1>5, <2>4, <3>4, <4>1 DEF Accounted
    <3> QED BY <2>2, <3>2, <3>3, <3>4
  <2>7. \/ \E j \in DOMAIN op'.todo : op'.todo[j] = "grant"
        \/ disk'[GrantFile(s)] = op'.grant /\ Entry(op'.undo, GrantFile(s))
    <3>1. GrantFile(s) = <<"grant", s>> /\ "grant" \in OwnKinds /\ MoveOf("grant") = "movegrant"
      BY DEF GrantFile, OwnKinds, MoveOf
    <3>2. CASE step = "grant"
      BY <1>2, <1>5, <2>4, <2>5, <3>1, <3>2 DEF Accounted
    <3>3. CASE step # "grant" /\ \E j \in DOMAIN op.todo : op.todo[j] = "grant"
      <4>1. PICK j \in DOMAIN op.todo : op.todo[j] = "grant"
        BY <3>3
      <4>2. j - 1 \in DOMAIN Tail(op.todo) /\ Tail(op.todo)[j - 1] = "grant"
        BY <1>4, <3>3, <4>1
      <4> QED BY <1>2, <4>2
    <3>4. CASE step # "grant" /\ disk[GrantFile(s)] = op.grant /\ Entry(op.undo, GrantFile(s))
      <4>1. step # "movegrant"
        BY <2>5, <3>1, <3>4
      <4> QED BY <1>2, <1>5, <2>4, <3>4, <4>1 DEF Accounted
    <3> QED BY <2>2, <3>2, <3>3, <3>4
  <2> QED BY <1>2, <2>2, <2>3, <2>6, <2>7
<1>10. op'.src \in usable => Matched(op'.before, op'.src)
  BY <1>2 DEF Underway
<1>11. op'.failed \in BOOLEAN /\ op'.guarded \in BOOLEAN /\ ~op'.failed
  BY <1>2, <1>3
<1> QED BY <1>2, <1>5, <1>6, <1>7, <1>8, <1>9, <1>10, <1>11 DEF Underway

\* Whatever is accounted for is held.
LEMMA HeldBalanced ==
  ASSUME NEW before, NEW s, Matched(before, s), NEW d, NEW b, NEW list,
         \A f \in Own(s) : Balanced(list, d[f], b, before[f], f)
  PROVE  Held(d[KeyFile(s)], d[GrantFile(s)], b, s)
<1> DEFINE k == before[KeyFile(s)]
           g == before[GrantFile(s)]
<1>1. k # Absent /\ g # Absent /\ g.key = k
  BY DEF Matched
<1>2. ASSUME NEW f \in Own(s), before[f] # Absent
      PROVE  d[f] = before[f] \/ <<f, before[f]>> \in b
  BY <1>2 DEF Balanced
<1>3. KeyFile(s) \in Own(s) /\ GrantFile(s) \in Own(s)
  BY DEF Own
<1> QED BY <1>1, <1>2, <1>3, HeldFrom

\* The other sources are left alone.
Spared(d, b) ==
  \A t \in Source \ {op.src} :
    /\ d[KeyFile(t)] = disk[KeyFile(t)] /\ d[GrantFile(t)] = disk[GrantFile(t)]
    /\ \A x \in bak : x[1] \in {KeyFile(t), GrantFile(t)} => x \in b

LEMMA HeldBySpared ==
  ASSUME KeyNeverLost, usable \subseteq Source, NEW d, NEW b, Spared(d, b),
         NEW t \in usable, t # op.src
  PROVE  Held(d[KeyFile(t)], d[GrantFile(t)], b, t)
BY KeyNeverLostIs, HeldStays DEF Spared

\* One file operation that is accounted for keeps the ceremony in order and
\* every key with its grant.
LEMMA StepKeeps ==
  ASSUME Orderly, KeyNeverLost, Step, UNCHANGED usable, NEW u, NEW e, u = << >> \/ u = <<e>>,
         Done(u), Accounted(u, disk', bak'), Spared(disk', bak'), Head(op.todo) # "dropkey",
         NEW V, disk' \in [File -> V]
  PROVE  Orderly' /\ KeyNeverLost'
<1>1. Underway(op, disk, bak, usable) /\ usable \subseteq Source
  BY DEF Orderly, Step
<1>2. op' # Idle => Underway(op', disk', bak', usable')
  BY <1>1, Advance
<1>3. Orderly'
  BY <1>1, <1>2 DEF Orderly
<1>4. ASSUME op.src \in usable
      PROVE  Held(disk'[KeyFile(op.src)], disk'[GrantFile(op.src)], bak', op.src)
  <2>1. Matched(op.before, op.src) /\ op.guarded \in BOOLEAN
    BY <1>1, <1>4 DEF Underway
  <2>2. CASE op.guarded
    BY <2>1, <2>2, HeldBalanced DEF Accounted
  <2>3. CASE ~op.guarded
    <3>1. Unguarded(op, disk, usable)
      BY <1>1, <2>3 DEF Underway
    <3>2. \E S : op.todo \in Seq(S) /\ op.todo # << >>
      BY <1>1 DEF Underway, Step
    <3>3. 1 \in DOMAIN op.todo /\ Head(op.todo) = op.todo[1]
      BY <3>2, TailIs
    <3>4. /\ disk'[KeyFile(op.src)] = op.before[KeyFile(op.src)]
          /\ disk'[GrantFile(op.src)] = op.before[GrantFile(op.src)]
      BY <1>1, <1>4, <3>1, <3>3 DEF Unguarded, Accounted, Moves
    <3> QED BY <2>1, <3>4, HeldFrom DEF Matched
  <2> QED BY <2>1, <2>2, <2>3
<1>5. \A t \in usable : Held(disk'[KeyFile(t)], disk'[GrantFile(t)], bak', t)
  BY <1>1, <1>4, HeldBySpared
<1>6. KeyNeverLost'
  BY <1>5 DEF KeyNeverLost, Held
<1> QED BY <1>3, <1>6

LEMMA KindFileIs ==
  /\ KindFile("key") = KeyFile(op.src) /\ KindFile("movekey") = KeyFile(op.src)
  /\ KindFile("grant") = GrantFile(op.src) /\ KindFile("movegrant") = GrantFile(op.src)
  /\ KindFile("env") = EnvFile(op.src) /\ KindFile("moveenv") = EnvFile(op.src)
  /\ KindFile("active") = ActiveFile /\ KindFile("moveactive") = ActiveFile
  /\ KindFile("trust") = TrustFile /\ KindFile("issuer") = IssuerFile
BY DEF KindFile

LEMMA MoveOfIs ==
  /\ MoveOf("key") = "movekey" /\ MoveOf("grant") = "movegrant" /\ MoveOf("env") = "moveenv"
  /\ MoveOf("active") = "moveactive"
BY DEF MoveOf

\* Only the file f differs.
OnlyAt(d, f) == d = [disk EXCEPT ![f] = d[f]]

\* A step on one file of the source: it is accounted for if that file is.
LEMMA AccountedOne ==
  ASSUME Orderly, Step, NEW d, NEW b, NEW k \in OwnKinds, NEW f, f = <<k, op.src>>,
         NEW e, e[2] = f, Undoable(e, op.src), Head(op.todo) = k \/ Head(op.todo) = MoveOf(k),
         OnlyAt(d, f), bak \subseteq b,
         op.guarded => Balanced(<<e>> \o op.undo, d[f], b, op.before[f], f),
         op.guarded /\ Head(op.todo) \in {"key", "grant"} => d[f] = Contents(Head(op.todo))
  PROVE  Accounted(<<e>>, d, b) /\ Spared(d, b)
<1> DEFINE s == op.src
<1>1. PICK V : disk \in [File -> V]
  BY DEF Orderly
<1>2. ASSUME NEW t \in Source, NEW h \in Own(t), h # f PROVE d[h] = disk[h]
  <2>1. h \in DOMAIN disk
    BY <1>1, FilesApart
  <2> QED BY <1>2, <2>1 DEF OnlyAt
<1>3. PICK S : op.undo \in Seq(S)
  BY DEF Orderly, Underway, Step
<1>4. f \in Own(s)
  BY FilesApart
<1>5. Spared(d, b)
  <2> SUFFICES ASSUME NEW t \in Source, t # s
               PROVE  d[KeyFile(t)] = disk[KeyFile(t)] /\ d[GrantFile(t)] = disk[GrantFile(t)]
    BY DEF Spared
  <2>1. KeyFile(t) \in Own(t) /\ GrantFile(t) \in Own(t) /\ f \notin Own(t)
    BY <1>4, FilesApart DEF Own
  <2> QED BY <1>2, <2>1
<1>6. ASSUME op.guarded, NEW h \in Own(s) PROVE Balanced(<<e>> \o op.undo, d[h], b, op.before[h], h)
  <2>1. Guarded(op, disk, bak) /\ s \in Source /\ Ledger(op) = op.undo
    BY <1>6 DEF Orderly, Underway, Step, Guarded, Ledger
  <2>2. CASE h = f
    BY <1>6, <2>2
  <2>3. CASE h # f
    <3>1. Balanced(op.undo, disk[h], bak, op.before[h], h) /\ d[h] = disk[h]
      BY <1>2, <2>1, <2>3 DEF Guarded
    <3> QED BY <1>3, <2>3, <3>1, PushOther
  <2> QED BY <2>2, <2>3
<1>7. \A i \in DOMAIN <<e>> : <<e>>[i] = e
  OBVIOUS
<1>8. \A h : Entry(<<e>>, h) <=> h = f
  BY <1>7 DEF Entry
<1>9. \A j \in OwnKinds : Entry(<<e>>, <<j, s>>) <=> (Head(op.todo) = j \/ Head(op.todo) = MoveOf(j))
  BY <1>8, MoveOfIs DEF OwnKinds
<1>10. /\ KeyFile(s) = <<"key", s>> /\ GrantFile(s) = <<"grant", s>>
       /\ KeyFile(s) \in Own(s) /\ GrantFile(s) \in Own(s)
  BY DEF KeyFile, GrantFile, Own
<1>11. s \in Source /\ Head(op.todo) # "key" /\ Head(op.todo) # "movekey" => d[KeyFile(s)] = disk[KeyFile(s)]
  BY <1>2, <1>10, MoveOfIs DEF OwnKinds
<1>12. s \in Source /\ Head(op.todo) # "grant" /\ Head(op.todo) # "movegrant" => d[GrantFile(s)] = disk[GrantFile(s)]
  BY <1>2, <1>10, MoveOfIs DEF OwnKinds
<1>13. /\ op.guarded /\ Head(op.todo) = "key" => d[KeyFile(s)] = op.grant.key
       /\ op.guarded /\ Head(op.todo) = "grant" => d[GrantFile(s)] = op.grant
  BY <1>10, MoveOfIs DEF OwnKinds, Contents
<1> QED BY <1>5, <1>6, <1>7, <1>9, <1>11, <1>12, <1>13 DEF Accounted

\* A step on what the sources share.
LEMMA AccountedShared ==
  ASSUME Orderly, Step, NEW d, NEW b, NEW h \in Shared, NEW u, NEW e, u = << >> \/ u = <<e>>,
         e[2] \in Shared, e[1] \in {"remove", "restore", "removelog"},
         Head(op.todo) \notin OwnKinds \cup {"movekey", "movegrant", "moveenv"},
         OnlyAt(d, h), bak \subseteq b
  PROVE  Accounted(u, d, b) /\ Spared(d, b)
<1> DEFINE s == op.src
<1>1. PICK V : disk \in [File -> V]
  BY DEF Orderly
<1>2. ASSUME NEW t \in Source, NEW x \in Own(t) PROVE d[x] = disk[x]
  <2>1. x \in DOMAIN disk /\ x # h
    BY <1>1, FilesApart
  <2> QED BY <2>1 DEF OnlyAt
<1>3. PICK S : op.undo \in Seq(S)
  BY DEF Orderly, Underway, Step
<1>4. \A t : KeyFile(t) \in Own(t) /\ GrantFile(t) \in Own(t)
  BY DEF Own
<1>5. Spared(d, b)
  BY <1>2, <1>4 DEF Spared
<1>6. ASSUME op.guarded, NEW x \in Own(s) PROVE Balanced(u \o op.undo, d[x], b, op.before[x], x)
  <2>1. Guarded(op, disk, bak) /\ s \in Source /\ Ledger(op) = op.undo
    BY <1>6 DEF Orderly, Underway, Step, Guarded, Ledger
  <2>2. Balanced(op.undo, disk[x], bak, op.before[x], x) /\ d[x] = disk[x]
    BY <1>2, <2>1 DEF Guarded
  <2>3. CASE u = << >>
    <3>1. u \o op.undo = op.undo
      BY <1>3, <2>3, ConcatEmptySeq
    <3> QED BY <2>2, <3>1 DEF Balanced
  <2>4. CASE u = <<e>>
    <3>1. e[2] # x
      BY FilesApart
    <3> QED BY <1>3, <2>2, <2>4, <3>1, PushOther
  <2> QED BY <2>3, <2>4
<1>7. \A i \in DOMAIN u : u[i] = e
  OBVIOUS
<1>8. \A j \in OwnKinds : ~Entry(u, <<j, s>>)
  BY <1>7, FilesApart DEF Entry
<1>9. \A j \in OwnKinds : Head(op.todo) # j /\ Head(op.todo) # MoveOf(j)
  BY MoveOfIs DEF OwnKinds
<1>10. \A i \in DOMAIN u : Undoable(u[i], s)
  BY <1>7 DEF Undoable
<1>11. /\ s \in Source => d[KeyFile(s)] = disk[KeyFile(s)] /\ d[GrantFile(s)] = disk[GrantFile(s)]
       /\ Head(op.todo) # "key" /\ Head(op.todo) # "grant"
  BY <1>2, <1>4 DEF OwnKinds
<1> QED BY <1>5, <1>6, <1>8, <1>9, <1>10, <1>11 DEF Accounted

\* The head of the plan.
LEMMA PlanHead ==
  ASSUME Orderly, Step, op.guarded, NEW k \in OwnKinds
  PROVE  /\ op.src \in Source /\ Balanced(op.undo, disk[<<k, op.src>>], bak, op.before[<<k, op.src>>], <<k, op.src>>)
         /\ Head(op.todo) = k => op.before[<<k, op.src>>] = Absent \/ Entry(op.undo, <<k, op.src>>)
         /\ Head(op.todo) = MoveOf(k) => ~Entry(op.undo, <<k, op.src>>)
<1>1. Guarded(op, disk, bak) /\ Ledger(op) = op.undo /\ ~op.failed
  BY DEF Orderly, Underway, Step, Ledger
<1>2. PICK S : op.todo \in Seq(S) /\ op.todo # << >>
  BY DEF Orderly, Underway, Step
<1>3. 1 \in DOMAIN op.todo /\ Head(op.todo) = op.todo[1] /\ \A j \in DOMAIN op.todo : ~(j < 1)
  BY <1>2, TailIs, LenProperties
<1>4. <<k, op.src>> \in Own(op.src)
  BY FilesApart
<1>5. Planned(op.todo, op.undo, op.before[<<k, op.src>>], op.src, k)
  BY <1>1 DEF Guarded
<1> QED BY <1>1, <1>3, <1>4, <1>5 DEF Guarded, Planned

LEMMA WriteFileKeeps ==
  ASSUME Orderly, KeyNeverLost, WriteFile
  PROVE  Orderly' /\ KeyNeverLost'
<1> DEFINE step == Head(op.todo)
           f == KindFile(step)
           v == Contents(step)
           recorded == ~(op.cmd = "agent_add" /\ step = "active" /\ Exists(ActiveFile))
           u == IF recorded THEN <<Remove(f)>> ELSE << >>
<1>1. /\ Step /\ step \in {"key", "grant", "env", "active", "trust", "issuer"}
      /\ disk' = [disk EXCEPT ![f] = v] /\ Done(u) /\ UNCHANGED <<bak, usable>>
  BY DEF WriteFile, Remove
<1>2. PICK V : disk \in [File -> V]
  BY DEF Orderly
<1>3. disk' \in [File -> V \cup {v}]
  BY <1>1, <1>2
<1>4. bak \subseteq bak' /\ step # "dropkey"
  BY <1>1
<1>5. Remove(f)[1] = "remove" /\ Remove(f)[2] = f
  BY DEF Remove
<1> HIDE DEF v
<1>6. CASE step \in OwnKinds
  <2>1. f = <<step, op.src>> /\ u = <<Remove(f)>>
    BY <1>6, KindFileIs DEF OwnKinds, KeyFile, GrantFile, EnvFile
  <2>2. /\ op.src \in Source => f \in DOMAIN disk
        /\ f \in DOMAIN disk => disk'[f] = v
        /\ OnlyAt(disk', f)
    BY <1>1, <1>2, <1>6, <2>1, FilesApart DEF OnlyAt
  <2>3. Undoable(Remove(f), op.src)
    BY <1>5, <1>6, <2>1, FilesApart DEF Undoable
  <2>4. ASSUME op.guarded
        PROVE  /\ Balanced(<<Remove(f)>> \o op.undo, disk'[f], bak', op.before[f], f)
               /\ disk'[f] = v
    <3>1. /\ op.src \in Source /\ Balanced(op.undo, disk[f], bak, op.before[f], f)
          /\ op.before[f] = Absent \/ Entry(op.undo, f)
      BY <1>1, <1>6, <2>1, <2>4, PlanHead
    <3>2. PICK S : op.undo \in Seq(S)
      BY <1>1 DEF Orderly, Underway, Step
    <3> QED BY <1>1, <2>2, <3>1, <3>2, PushRemove
  <2>5. op.guarded => disk'[f] = Contents(step)
    BY <2>4 DEF v
  <2> HIDE DEF f, step
  <2>6. Accounted(<<Remove(f)>>, disk', bak') /\ Spared(disk', bak')
    BY <1>1, <1>4, <1>5, <1>6, <2>1, <2>2, <2>3, <2>4, <2>5, AccountedOne DEF step
  <2> QED BY <1>1, <1>3, <1>4, <2>1, <2>6, StepKeeps DEF step
<1>7. CASE step \notin OwnKinds
  <2>1. f \in Shared
    BY <1>1, <1>7, KindFileIs DEF OwnKinds, Shared
  <2>2. OnlyAt(disk', f)
    BY <1>1, <1>2 DEF OnlyAt
  <2>3. step \notin OwnKinds \cup {"movekey", "movegrant", "moveenv"}
    BY <1>1, <1>7 DEF OwnKinds
  <2>4. u = << >> \/ u = <<Remove(f)>>
    OBVIOUS
  <2> HIDE DEF f, step, u
  <2>5. Accounted(u, disk', bak') /\ Spared(disk', bak')
    BY <1>1, <1>4, <1>5, <2>1, <2>2, <2>3, <2>4, AccountedShared DEF step
  <2> QED BY <1>1, <1>3, <1>4, <2>4, <2>5, StepKeeps DEF step
<1> QED BY <1>6, <1>7

LEMMA MoveAsideKeeps ==
  ASSUME Orderly, KeyNeverLost, MoveAside
  PROVE  Orderly' /\ KeyNeverLost'
<1> DEFINE step == Head(op.todo)
           f == KindFile(step)
           e == Restore(f, disk[f])
           u == IF Exists(f) THEN <<e>> ELSE << >>
<1>1. /\ Step /\ step \in {"movekey", "movegrant", "moveactive", "moveenv"}
      /\ Exists(f) \/ step = "moveactive"
      /\ disk' = [disk EXCEPT ![f] = Absent] /\ Done(u) /\ UNCHANGED usable
      /\ bak' = IF Exists(f) THEN bak \cup {<<f, disk[f]>>} ELSE bak
  BY DEF MoveAside, Restore, history
<1>2. PICK V : disk \in [File -> V]
  BY DEF Orderly
<1>3. disk' \in [File -> V \cup {Absent}] /\ OnlyAt(disk', f)
  BY <1>1, <1>2 DEF OnlyAt
<1>4. bak \subseteq bak' /\ step # "dropkey"
  BY <1>1
<1>5. e[1] = "restore" /\ e[2] = f
  BY DEF Restore
<1>6. ASSUME NEW k \in OwnKinds, step = MoveOf(k)
      PROVE  Orderly' /\ KeyNeverLost'
  <2>1. f = <<k, op.src>> /\ u = <<e>> /\ Exists(f) /\ step \notin {"key", "grant"}
    BY <1>1, <1>6, KindFileIs, MoveOfIs DEF OwnKinds, KeyFile, GrantFile, EnvFile
  <2>2. Undoable(e, op.src)
    BY <1>5, <2>1, FilesApart DEF Undoable
  <2>3. op.guarded => Balanced(<<e>> \o op.undo, disk'[f], bak', op.before[f], f)
    <3> HAVE op.guarded
    <3>1. /\ Balanced(op.undo, disk[f], bak, op.before[f], f) /\ ~Entry(op.undo, f)
      BY <1>1, <1>6, <2>1, PlanHead
    <3>2. PICK S : op.undo \in Seq(S)
      BY <1>1 DEF Orderly, Underway, Step
    <3>3. bak' = bak \cup {<<f, disk[f]>>}
      BY <1>1, <2>1
    <3> QED BY <3>1, <3>2, <3>3, PushRestore
  <2> HIDE DEF f, step, e
  <2>4. Accounted(<<e>>, disk', bak') /\ Spared(disk', bak')
    BY <1>1, <1>3, <1>4, <1>5, <1>6, <2>1, <2>2, <2>3, AccountedOne DEF step
  <2> QED BY <1>1, <1>3, <1>4, <2>1, <2>4, StepKeeps DEF step
<1>7. CASE step = "moveactive"
  <2>1. f \in Shared
    BY <1>7, KindFileIs DEF Shared
  <2>3. step \notin OwnKinds \cup {"movekey", "movegrant", "moveenv"}
    BY <1>7 DEF OwnKinds
  <2>4. u = << >> \/ u = <<e>>
    OBVIOUS
  <2> HIDE DEF f, step, e, u
  <2>5. Accounted(u, disk', bak') /\ Spared(disk', bak')
    BY <1>1, <1>3, <1>4, <1>5, <2>1, <2>3, <2>4, AccountedShared DEF step
  <2> QED BY <1>1, <1>3, <1>4, <2>4, <2>5, StepKeeps DEF step
<1>8. step = "moveactive" \/ \E k \in OwnKinds : step = MoveOf(k)
  BY <1>1, MoveOfIs DEF OwnKinds
<1> QED BY <1>6, <1>7, <1>8

\* A step that writes at most the registry of current grants.
LEMMA SharedStepKeeps ==
  ASSUME Orderly, KeyNeverLost, Step, UNCHANGED <<bak, usable>>, NEW u,
         u = << >> \/ u = <<<<"removelog", ActiveFile, Absent>>>>, Done(u),
         Head(op.todo) \in {"issued", "revoked", "rotated", "deactivate"},
         NEW v, disk' = [disk EXCEPT ![ActiveFile] = v]
  PROVE  Orderly' /\ KeyNeverLost'
<1> DEFINE e == <<"removelog", ActiveFile, Absent>>
<1>1. PICK V : disk \in [File -> V]
  BY DEF Orderly
<1>2. disk' \in [File -> V \cup {v}] /\ OnlyAt(disk', ActiveFile)
  BY <1>1 DEF OnlyAt
<1>3. /\ Head(op.todo) \notin OwnKinds \cup {"movekey", "movegrant", "moveenv"}
      /\ Head(op.todo) # "dropkey"
  BY DEF OwnKinds
<1>4. ActiveFile \in Shared /\ e[1] = "removelog" /\ e[2] = ActiveFile /\ bak \subseteq bak'
  BY DEF Shared
<1>5. u = << >> \/ u = <<e>>
  OBVIOUS
<1> HIDE DEF e
<1>6. Accounted(u, disk', bak') /\ Spared(disk', bak')
  BY <1>2, <1>3, <1>4, <1>5, AccountedShared
<1> QED BY <1>2, <1>3, <1>5, <1>6, StepKeeps

LEMMA AppendLogKeeps ==
  ASSUME Orderly, KeyNeverLost, AppendLog
  PROVE  Orderly' /\ KeyNeverLost'
<1> DEFINE u == IF op.cmd = "bootstrap" /\ log = <<>>
                THEN <<<<"removelog", ActiveFile, Absent>>>> ELSE <<>>
<1>1. /\ Step /\ Head(op.todo) \in {"issued", "revoked", "rotated"} /\ Done(u)
      /\ UNCHANGED <<disk, bak, usable>>
  BY DEF AppendLog, history
<1>2. disk' = [disk EXCEPT ![ActiveFile] = disk[ActiveFile]]
  BY <1>1 DEF Orderly
<1>3. u = << >> \/ u = <<<<"removelog", ActiveFile, Absent>>>>
  OBVIOUS
<1> HIDE DEF u
<1> QED BY <1>1, <1>2, <1>3, SharedStepKeeps

LEMMA DeactivateKeeps ==
  ASSUME Orderly, KeyNeverLost, Deactivate
  PROVE  Orderly' /\ KeyNeverLost'
<1> DEFINE v == [ActiveOrEmpty EXCEPT ![op.src] = Absent]
<1>1. /\ Step /\ Head(op.todo) = "deactivate" /\ Done(<< >>) /\ UNCHANGED <<bak, usable>>
      /\ disk' = [disk EXCEPT ![ActiveFile] = v]
  BY DEF Deactivate, history
<1> HIDE DEF v
<1> QED BY <1>1, SharedStepKeeps

\* A step that ends the command and leaves disk and backups as they are.
LEMMA EndKeeps ==
  ASSUME Orderly, KeyNeverLost, op' = Idle \/ op' = op, UNCHANGED <<disk, bak, usable>>
  PROVE  Orderly' /\ KeyNeverLost'
<1>1. KeyNeverLost'
  BY DEF KeyNeverLost
<1>2. Orderly'
  BY DEF Orderly
<1> QED BY <1>1, <1>2

\* The new key and the new grant are on disk when the old key goes.
LEMMA DropOldKeyKeeps ==
  ASSUME Orderly, KeyNeverLost, DropOldKey
  PROVE  Orderly' /\ KeyNeverLost'
<1> DEFINE s == op.src
<1>1. /\ Step /\ Head(op.todo) = "dropkey" /\ Done(<< >>) /\ UNCHANGED <<disk, usable>>
      /\ bak' = bak \ {<<KeyFile(s), op.before[KeyFile(s)]>>}
  BY DEF DropOldKey, history
<1>2. Underway(op, disk, bak, usable) /\ usable \subseteq Source /\ \E V : disk \in [File -> V]
  BY <1>1 DEF Orderly, Step
<1>3. PICK S : op.todo \in Seq(S) /\ op.todo # << >>
  BY <1>1, <1>2 DEF Underway, Step
<1>4. 1 \in DOMAIN op.todo /\ op.todo[1] = "dropkey" /\ DOMAIN op.todo = 1..Len(op.todo)
      /\ Len(op.todo) \in Nat
  BY <1>1, <1>3, TailIs, LenProperties
<1>5. /\ Len(op.todo) = 1 /\ op.grant \in Grant
      /\ disk[KeyFile(s)] = op.grant.key /\ disk[GrantFile(s)] = op.grant
  <2>1. /\ 1 = Len(op.todo) /\ op.grant \in Grant
        /\ \/ \E j \in DOMAIN op.todo : op.todo[j] = "key"
           \/ disk[KeyFile(s)] = op.grant.key
        /\ \/ \E j \in DOMAIN op.todo : op.todo[j] = "grant"
           \/ disk[GrantFile(s)] = op.grant
    BY <1>1, <1>2, <1>4 DEF Underway, DropsLast, Step
  <2>2. \A j \in DOMAIN op.todo : op.todo[j] = "dropkey"
    BY <1>4, <2>1
  <2> QED BY <2>1, <2>2
<1>6. op' = Idle
  <2>1. Tail(op.todo) = << >>
    <3>1. Tail(op.todo) \in Seq(S) /\ Len(Tail(op.todo)) = 0
      BY <1>3, <1>5, HeadTailProperties
    <3> QED BY <3>1, EmptySeq
  <2> QED BY <1>1, <2>1 DEF Done
<1>7. Orderly'
  BY <1>1, <1>2, <1>6 DEF Orderly
<1>8. Held(disk'[KeyFile(s)], disk'[GrantFile(s)], bak', s)
  <2>1. op.grant # Absent /\ op.grant.key # Absent
    BY <1>5, FilesAssumption DEF Grant
  <2> QED BY <1>1, <1>5, <2>1, HeldFrom
<1>9. Spared(disk', bak')
  BY <1>1 DEF Spared, KeyFile, GrantFile
<1>10. \A t \in usable : Held(disk'[KeyFile(t)], disk'[GrantFile(t)], bak', t)
  BY <1>2, <1>8, <1>9, HeldBySpared
<1>11. KeyNeverLost'
  BY <1>1, <1>10 DEF KeyNeverLost, Held
<1> QED BY <1>7, <1>11

LEMMA FailsKeeps ==
  ASSUME Orderly, KeyNeverLost, Fails
  PROVE  Orderly' /\ KeyNeverLost'
<1>1. /\ Step /\ UNCHANGED <<disk, bak, usable>>
      /\ op' = IF op.guarded /\ op.undo # <<>>
               THEN [op EXCEPT !.todo = op.undo, !.failed = TRUE] ELSE Idle
  BY DEF Fails, file
<1>2. CASE op.guarded /\ op.undo # << >>
  <2>1. Underway(op, disk, bak, usable)
    BY <1>1 DEF Orderly, Step
  <2>2. PICK V : op \in [cmd : V, src : V, todo : V, grant : V, reg : V, undo : V, guarded : V,
                         before : V, log : V, failed : V]
    BY <2>1 DEF Underway, IsCeremony
  <2> DEFINE W == V \cup {TRUE}
  <2>3. /\ op' = [op EXCEPT !.todo = op.undo, !.failed = TRUE]
        /\ op' \in [cmd : W, src : W, todo : W, grant : W, reg : W, undo : W, guarded : W,
                    before : W, log : W, failed : W]
    BY <1>1, <1>2, <2>2
  <2>4. IsCeremony(op')
    BY <2>3 DEF IsCeremony
  <2>5. /\ op'.todo = op.undo /\ op'.undo = op.undo /\ op'.failed = TRUE /\ op'.src = op.src
        /\ op'.guarded = op.guarded /\ op'.before = op.before
    BY <2>2, <2>3
  <2>6. Ledger(op') = Ledger(op) /\ op.guarded \in BOOLEAN
    BY <1>1, <2>1, <2>5 DEF Ledger, Step, Underway
  <2>7. Guarded(op', disk', bak')
    BY <1>1, <1>2, <2>1, <2>5, <2>6 DEF Guarded, Underway
  <2>8. DropsLast(op', disk')
    BY <2>5 DEF DropsLast
  <2>9. \E S : op'.todo \in Seq(S) /\ op'.undo \in Seq(S)
    BY <2>1, <2>5 DEF Underway
  <2>10. op'.src \in usable => Matched(op'.before, op'.src)
    BY <2>1, <2>5 DEF Underway
  <2>11. Underway(op', disk', bak', usable')
    BY <1>1, <1>2, <2>4, <2>5, <2>6, <2>7, <2>8, <2>9, <2>10 DEF Underway
  <2>12. Orderly'
    BY <1>1, <2>11 DEF Orderly
  <2>13. KeyNeverLost'
    BY <1>1 DEF KeyNeverLost
  <2> QED BY <2>12, <2>13
<1>3. CASE ~(op.guarded /\ op.undo # << >>)
  BY <1>1, <1>3, EndKeeps
<1> QED BY <1>2, <1>3

PutBack(list, f, v) ==
  \E i \in DOMAIN list : list[i][1] = "restore" /\ list[i][2] = f /\ list[i][3] = v

\* One file of the rollback: what is left of the list still accounts for every
\* file of the source.
LEMMA RollbackPops ==
  ASSUME Orderly, Rollback
  PROVE  /\ Underway(op, disk, bak, usable) /\ op.guarded /\ op.failed /\ op.src \in Source
         /\ \A f \in Own(op.src) : Balanced(Tail(op.todo), disk'[f], bak', op.before[f], f)
         /\ Spared(disk', bak') /\ \E V : disk' \in [File -> V]
         /\ \A f \in File : \/ disk'[f] = disk[f] \/ disk'[f] = Absent
                            \/ PutBack(Ledger(op), f, disk'[f])
<1> DEFINE e == Head(op.todo)
           s == op.src
<1>1. /\ op # Idle /\ op.failed
      /\ disk' = CASE e[1] = "remove" -> [disk EXCEPT ![e[2]] = Absent]
                   [] e[1] = "restore" -> [disk EXCEPT ![e[2]] = e[3]]
                   [] e[1] = "removelog" -> disk
      /\ bak' = IF e[1] = "restore" THEN bak \ {<<e[2], e[3]>>} ELSE bak
  BY DEF Rollback
<1>2. Underway(op, disk, bak, usable) /\ \E V : disk \in [File -> V]
  BY <1>1 DEF Orderly
<1>3. op.guarded /\ Guarded(op, disk, bak) /\ op.todo # << >> /\ Ledger(op) = op.todo /\ s \in Source
  BY <1>1, <1>2 DEF Underway, Unguarded, Ledger, Guarded
<1>4. PICK S : op.todo \in Seq(S)
  BY <1>2 DEF Underway
<1>5. 1 \in DOMAIN op.todo /\ e = op.todo[1]
  BY <1>3, <1>4, TailIs
<1>6. e[1] \in {"remove", "restore", "removelog"} /\ e[2] \in Own(s) \cup Shared
  BY <1>3, <1>5 DEF Guarded, Undoable
<1>7. PICK V : disk \in [File -> V]
  BY <1>2
<1> HIDE DEF e
<1>8. disk' \in [File -> V \cup {Absent, e[3]}]
  BY <1>1, <1>6, <1>7
<1>9. ASSUME NEW f \in File
      PROVE  /\ e[2] # f => disk'[f] = disk[f]
             /\ e[1] = "remove" /\ e[2] = f => disk'[f] = Absent
             /\ e[1] = "restore" /\ e[2] = f => disk'[f] = e[3]
  BY <1>1, <1>6, <1>7
<1>10. ASSUME NEW x \in bak, x[1] # e[2] PROVE x \in bak'
  BY <1>1, <1>10
<1>11. ASSUME NEW f \in Own(s)
       PROVE  Balanced(Tail(op.todo), disk'[f], bak', op.before[f], f)
  <2>1. Balanced(op.todo, disk[f], bak, op.before[f], f) /\ f \in File
    BY <1>3, FilesApart DEF Guarded
  <2>2. e = Remove(f) => e[1] = "remove" /\ e[2] = f
    BY DEF Remove
  <2>3. e = Restore(f, op.before[f]) => e[1] = "restore" /\ e[2] = f /\ e[3] = op.before[f]
    BY DEF Restore
  <2>4. e[2] # f => disk'[f] = disk[f]
    BY <1>9, <2>1
  <2>5. e = Remove(f) => disk'[f] = Absent /\ bak \subseteq bak'
    BY <1>1, <1>9, <2>1, <2>2
  <2>6. e = Restore(f, op.before[f]) => disk'[f] = op.before[f]
    BY <1>9, <2>1, <2>3
  <2>7. \A v : <<f, v>> \in bak /\ e[2] # f => <<f, v>> \in bak'
    BY <1>10
  <2> QED BY <1>3, <1>4, <2>1, <2>4, <2>5, <2>6, <2>7, PopEntry DEF e
<1>12. Spared(disk', bak')
  <2> SUFFICES ASSUME NEW t \in Source, t # s
               PROVE  /\ disk'[KeyFile(t)] = disk[KeyFile(t)] /\ disk'[GrantFile(t)] = disk[GrantFile(t)]
                      /\ \A x \in bak : x[1] \in {KeyFile(t), GrantFile(t)} => x \in bak'
    BY DEF Spared
  <2>1. KeyFile(t) \in Own(t) /\ GrantFile(t) \in Own(t)
    BY Zenon DEF Own
  <2>2. Own(t) \subseteq File
    BY FilesApart
  <2>3. Own(t) \cap Own(s) = {} /\ Own(t) \cap Shared = {}
    BY FilesApart
  <2>4. e[2] \notin Own(t)
    BY <1>6, <2>3
  <2>5. KeyFile(t) \in File /\ GrantFile(t) \in File
    BY <2>1, <2>2
  <2>6. KeyFile(t) # e[2] /\ GrantFile(t) # e[2]
    BY <2>1, <2>4
  <2>7. disk'[KeyFile(t)] = disk[KeyFile(t)] /\ disk'[GrantFile(t)] = disk[GrantFile(t)]
    BY <1>9, <2>5, <2>6
  <2>8. \A x \in bak : x[1] \in {KeyFile(t), GrantFile(t)} => x \in bak'
    BY <1>10, <2>6
  <2> QED BY <2>7, <2>8
<1>13. ASSUME NEW f \in File
       PROVE  \/ disk'[f] = disk[f] \/ disk'[f] = Absent
              \/ PutBack(Ledger(op), f, disk'[f])
  BY <1>1, <1>3, <1>5, <1>6, <1>9 DEF PutBack
<1> QED BY <1>1, <1>2, <1>3, <1>8, <1>11, <1>12, <1>13

LEMMA RollbackKeeps ==
  ASSUME Orderly, KeyNeverLost, Rollback
  PROVE  Orderly' /\ KeyNeverLost'
<1>1. /\ Underway(op, disk, bak, usable) /\ op.guarded /\ op.failed /\ op.src \in Source
      /\ \A f \in Own(op.src) : Balanced(Tail(op.todo), disk'[f], bak', op.before[f], f)
      /\ Spared(disk', bak') /\ \E V : disk' \in [File -> V]
  BY RollbackPops
<1>2. /\ UNCHANGED usable /\ usable \subseteq Source
      /\ op' = IF Tail(op.todo) = <<>> THEN Idle ELSE [op EXCEPT !.todo = Tail(op.todo)]
  BY DEF Rollback, history, Orderly
<1>3. PICK S : op.todo \in Seq(S) /\ op.undo \in Seq(S) /\ op.todo # << >>
  BY <1>1 DEF Underway
<1>4. /\ Tail(op.todo) \in Seq(S)
      /\ \A i \in DOMAIN Tail(op.todo) : i + 1 \in DOMAIN op.todo /\ Tail(op.todo)[i] = op.todo[i + 1]
  BY <1>3, TailIs
<1>5. ASSUME Tail(op.todo) # << >> PROVE Underway(op', disk', bak', usable')
  <2>1. op' = [op EXCEPT !.todo = Tail(op.todo)]
    BY <1>2, <1>5
  <2>2. PICK V : op \in [cmd : V, src : V, todo : V, grant : V, reg : V, undo : V, guarded : V,
                         before : V, log : V, failed : V]
    BY <1>1 DEF Underway, IsCeremony
  <2> DEFINE W == V \cup {Tail(op.todo)}
  <2>3. op' \in [cmd : W, src : W, todo : W, grant : W, reg : W, undo : W, guarded : W,
                 before : W, log : W, failed : W]
    BY <2>1, <2>2
  <2>4. IsCeremony(op')
    BY <2>3 DEF IsCeremony
  <2>5. /\ op'.todo = Tail(op.todo) /\ op'.undo = op.undo /\ op'.failed = op.failed
        /\ op'.src = op.src /\ op'.guarded = op.guarded /\ op'.before = op.before
    BY <2>1, <2>2
  <2>6. Ledger(op') = Tail(op.todo) /\ Ledger(op) = op.todo
    BY <1>1, <2>5 DEF Ledger
  <2>7. Guarded(op', disk', bak')
    <3>1. \A i \in DOMAIN Tail(op.todo) : Undoable(Tail(op.todo)[i], op.src)
      BY <1>1, <1>4, <2>6 DEF Underway, Guarded
    <3> QED BY <1>1, <2>5, <2>6, <3>1 DEF Guarded
  <2>8. DropsLast(op', disk')
    BY <1>1, <2>5 DEF DropsLast
  <2>9. \E T : op'.todo \in Seq(T) /\ op'.undo \in Seq(T)
    BY <1>3, <1>4, <2>5
  <2>10. op'.src \in usable => Matched(op'.before, op'.src)
    BY <1>1, <2>5 DEF Underway
  <2>11. op'.failed \in BOOLEAN /\ op'.guarded \in BOOLEAN /\ op'.guarded /\ op'.todo # << >>
    BY <1>1, <1>5, <2>5 DEF Underway
  <2> QED BY <1>2, <2>4, <2>7, <2>8, <2>9, <2>10, <2>11 DEF Underway
<1>6. Orderly'
  BY <1>1, <1>2, <1>5 DEF Orderly
<1>7. op.src \in usable => Held(disk'[KeyFile(op.src)], disk'[GrantFile(op.src)], bak', op.src)
  BY <1>1, HeldBalanced DEF Underway
<1>8. \A t \in usable : Held(disk'[KeyFile(t)], disk'[GrantFile(t)], bak', t)
  BY <1>1, <1>2, <1>7, HeldBySpared
<1>9. KeyNeverLost'
  BY <1>2, <1>8 DEF KeyNeverLost, Held
<1> QED BY <1>6, <1>9

\* The last file of the rollback leaves the source as it was.
LEMMA RollbackLands ==
  ASSUME Orderly, Rollback, ~IsCeremony(Idle), op' = Idle, NEW f \in Own(op.src)
  PROVE  disk'[f] = op.before[f]
<1>1. /\ Underway(op, disk, bak, usable)
      /\ Balanced(Tail(op.todo), disk'[f], bak', op.before[f], f)
  BY RollbackPops
<1>2. Tail(op.todo) = << >>
  <2> SUFFICES ASSUME Tail(op.todo) # << >> PROVE IsCeremony(op')
    OBVIOUS
  <2>1. op' = [op EXCEPT !.todo = Tail(op.todo)]
    BY DEF Rollback
  <2>2. PICK V : op \in [cmd : V, src : V, todo : V, grant : V, reg : V, undo : V, guarded : V,
                         before : V, log : V, failed : V]
    BY <1>1 DEF Underway, IsCeremony
  <2> DEFINE W == V \cup {Tail(op.todo)}
  <2>3. op' \in [cmd : W, src : W, todo : W, grant : W, reg : W, undo : W, guarded : W,
                 before : W, log : W, failed : W]
    BY <2>1, <2>2
  <2> QED BY <2>3 DEF IsCeremony
<1>3. ~Entry(Tail(op.todo), f)
  BY <1>2 DEF Entry
<1> QED BY <1>1, <1>3 DEF Balanced

-----------------------------------------------------------------------------
(* What the files, the history and the command under way hold.              *)

\* The registry of current grants names for each source a grant of its own.
Registry == {r \in [Source -> Grant \cup {Absent}] : \A t \in Source : r[t] # Absent => r[t].source = t}

Fits(f, v) ==
  \/ v = Absent
  \/ \E s \in Source : \/ f = KeyFile(s) /\ v \in 1..MaxKeys
                       \/ f = GrantFile(s) /\ v \in Grant /\ v.source = s
                       \/ f = EnvFile(s) /\ v = TRUE
  \/ f \in {TrustFile, IssuerFile} /\ v \in IssuerKey
  \/ f = ActiveFile /\ v \in Registry

\* The command has what its step k needs.
Can(o, k) ==
  /\ k \in {"key", "grant", "env", "active", "rotated"} => o.src \in Source
  /\ k = "key" => o.grant.key \in 1..MaxKeys
  /\ k \in {"grant", "active", "issued", "revoked", "rotated"} => o.grant \in Grant
  /\ k \in {"grant", "active"} => o.grant.source = o.src
  /\ k = "active" => o.reg \in Registry
  /\ k \in {"trust", "issuer"} => o.grant.by \in IssuerKey
  /\ k = "rotated" => o.before[GrantFile(o.src)] \in Grant

Equipped(o) ==
  /\ ~o.failed => \A i \in DOMAIN o.todo : Can(o, o.todo[i])
  /\ \A i \in DOMAIN Ledger(o) : Ledger(o)[i][1] = "restore" => Fits(Ledger(o)[i][2], Ledger(o)[i][3])

Line(V, n) ==
  [action : {"issued", "revoked"}, grant : Grant, at : 0..n, by : IssuerKey, prev : V]

Typed ==
  /\ \A f \in File : Fits(f, disk[f])
  /\ \E V : log \in Seq(Line(V, now))
  /\ now \in 0..MaxNow /\ nextKey \in 1..MaxKeys + 1 /\ commands \in 0..MaxCommands
  /\ faults \in 0..MaxFaults /\ writes \in 0..MaxWrites /\ stranded \in BOOLEAN
  /\ revived \subseteq Grant
  /\ op # Idle => Equipped(op)

\* A grant somebody could still read, or write down again.
Known(g, d, o, l) ==
  \/ \E s \in Source : d[GrantFile(s)] = g
  \/ \E i \in DOMAIN l : l[i].grant = g
  \/ o # Idle /\ (o.grant = g \/ (o.src \in Source /\ o.before[GrantFile(o.src)] = g))

\* No grant names a key pair that was never generated.
KeysBelow(d, o, l, n) == \A x \in Grant : Known(x, d, o, l) => x.key < n

\* What is on disk and in the history of the source fits.
LEMMA FitsIs ==
  /\ \A s \in Source : \A v : Fits(KeyFile(s), v) <=> v = Absent \/ v \in 1..MaxKeys
  /\ \A s \in Source : \A v : Fits(GrantFile(s), v) <=> v = Absent \/ (v \in Grant /\ v.source = s)
  /\ \A s \in Source : \A v : Fits(EnvFile(s), v) <=> v = Absent \/ v = TRUE
  /\ \A v : Fits(TrustFile, v) <=> v = Absent \/ v \in IssuerKey
  /\ \A v : Fits(IssuerFile, v) <=> v = Absent \/ v \in IssuerKey
  /\ \A v : Fits(ActiveFile, v) <=> v = Absent \/ v \in Registry
BY DEF Fits, KeyFile, GrantFile, EnvFile, TrustFile, IssuerFile, ActiveFile

LEMMA TypedIsTypeOK ==
  ASSUME Typed, Orderly PROVE TypeOK
<1>1. PICK V : log \in Seq(Line(V, now))
  BY DEF Typed
<1>2. \A i \in 1..Len(log) : log[i].grant \in Grant /\ log[i].at \in 0..MaxNow
  <2>1. \A i \in 1..Len(log) : log[i] \in Line(V, now)
    BY <1>1, LenProperties
  <2> QED BY <2>1, BundleAssumption DEF Line, Typed
<1>3. DOMAIN disk = File /\ usable \subseteq Source
  BY DEF Orderly
<1>4. \A s \in Source : KeyFile(s) \in File /\ GrantFile(s) \in File /\ EnvFile(s) \in File
  BY DEF File
<1>5. TrustFile \in File /\ IssuerFile \in File /\ ActiveFile \in File
  BY DEF File
<1>6. \A s \in Source : /\ disk[KeyFile(s)] \in 1..MaxKeys \cup {Absent}
                        /\ disk[GrantFile(s)] \in Grant \cup {Absent}
                        /\ disk[EnvFile(s)] \in {TRUE, Absent}
  <2> TAKE s \in Source
  <2>1. disk[KeyFile(s)] \in 1..MaxKeys \cup {Absent}
    BY <1>4, FitsIs DEF Typed
  <2>2. disk[GrantFile(s)] \in Grant \cup {Absent}
    BY <1>4, FitsIs DEF Typed
  <2>3. disk[EnvFile(s)] \in {TRUE, Absent}
    BY <1>4, FitsIs DEF Typed
  <2> QED BY <2>1, <2>2, <2>3
<1>7. /\ disk[TrustFile] \in IssuerKey \cup {Absent}
      /\ disk[IssuerFile] \in IssuerKey \cup {Absent}
      /\ disk[ActiveFile] \in [Source -> Grant \cup {Absent}] \cup {Absent}
  BY <1>5, FitsIs DEF Typed, Registry
<1> QED BY <1>2, <1>3, <1>6, <1>7 DEF TypeOK, Typed

\* The history with one more line.
OneMore(new, l, g) ==
  \A i \in DOMAIN new : new[i].grant = g \/ (i \in DOMAIN l /\ new[i] = l[i])

LEMMA AppendOneIs ==
  ASSUME NEW V, NEW n \in Nat, NEW l \in Seq(Line(V, n)), NEW action \in {"issued", "revoked"},
         NEW g \in Grant
  PROVE  /\ \E W : AppendOne(l, action, g, n) \in Seq(Line(W, n))
         /\ OneMore(AppendOne(l, action, g, n), l, g)
<1> DEFINE r == GrantRecord(action, g, n, LastHash(l))
           W == V \cup {LastHash(l)}
           new == AppendOne(l, action, g, n)
<1>1. r \in Line(W, n) /\ r.grant = g
  <2>1. g.by \in IssuerKey /\ n \in 0..n
    BY DEF Grant
  <2> QED BY <2>1 DEF Line, GrantRecord
<1>2. Line(V, n) \subseteq Line(W, n)
  BY DEF Line
<1>3. l \in Seq(Line(W, n))
  BY <1>2, SeqMonotonic
<1>4. new = Append(l, r)
  BY DEF AppendOne
<1> HIDE DEF r, W, new
<1>5. /\ new \in Seq(Line(W, n)) /\ Len(new) = Len(l) + 1 /\ new[Len(l) + 1] = r
      /\ \A i \in 1..Len(l) : new[i] = l[i]
  BY <1>1, <1>3, <1>4, AppendProperties
<1>6. DOMAIN new = 1..Len(l) + 1 /\ DOMAIN l = 1..Len(l) /\ Len(l) \in Nat
  BY <1>5, LenProperties
<1>7. OneMore(new, l, g)
  BY <1>1, <1>5, <1>6 DEF OneMore
<1> QED BY <1>5, <1>7 DEF new

LEMMA LogTick ==
  ASSUME NEW V, NEW n \in Nat, NEW l \in Seq(Line(V, n))
  PROVE  l \in Seq(Line(V, n + 1))
<1>1. Line(V, n) \subseteq Line(V, n + 1)
  BY DEF Line
<1> QED BY <1>1, SeqMonotonic

LEMMA FreshGrant ==
  ASSUME NEW d, NEW o, NEW l, NEW n \in Int, KeysBelow(d, o, l, n),
         NEW m \in Int, n =< m, NEW g, g \in Grant => g.key < m,
         NEW d2, NEW o2, NEW l2, \A x \in Grant : Known(x, d2, o2, l2) => x = g \/ Known(x, d, o, l)
  PROVE  KeysBelow(d2, o2, l2, m)
<1>1. \A x \in Grant : x.key \in Int
  BY BundleAssumption DEF Grant
<1>2. \A x \in Grant : Known(x, d2, o2, l2) => (x = g /\ x.key < m) \/ x.key < n
  BY DEF KeysBelow
<1> QED BY <1>1, <1>2 DEF KeysBelow

KeysKnown == KeysBelow(disk, op, log, nextKey)

\* The step brings no grant that was not known.
Shrinks == \A x \in Grant : Known(x, disk', op', log') => Known(x, disk, op, log)

LEMMA StaysKnown ==
  ASSUME Typed, KeysKnown, Shrinks, UNCHANGED nextKey PROVE KeysKnown'
BY DEF KeysKnown, KeysBelow, Shrinks

LEMMA CanSame ==
  ASSUME NEW o, NEW o2, NEW k, o2.src = o.src, o2.grant = o.grant, o2.reg = o.reg,
         o2.before = o.before, Can(o, k)
  PROVE  Can(o2, k)
BY DEF Can

LEMMA EquippedDone ==
  ASSUME Underway(op, disk, bak, usable), Step, Equipped(op), NEW u, NEW e, u = << >> \/ u = <<e>>,
         e[1] = "restore" => Fits(e[2], e[3]), Done(u), op' # Idle
  PROVE  Equipped(op')
<1>1. PICK S : op.todo \in Seq(S) /\ op.undo \in Seq(S)
  BY DEF Underway
<1>2. /\ op'.todo = Tail(op.todo) /\ op'.undo = u \o op.undo /\ op'.src = op.src
      /\ op'.failed = op.failed /\ op'.before = op.before /\ op'.grant = op.grant /\ op'.reg = op.reg
  BY DoneIs DEF Underway
<1>3. ~op.failed /\ op.todo # << >> /\ Ledger(op) = op.undo /\ Ledger(op') = op'.undo
  BY <1>2 DEF Step, Ledger
<1>4. DrawnFrom(op'.undo, u, op.undo)
  BY <1>1, <1>2, EntryOfPush
<1>5. \A i \in DOMAIN u : u[i] = e
  OBVIOUS
<1>6. \A i \in DOMAIN op'.undo : op'.undo[i][1] = "restore" => Fits(op'.undo[i][2], op'.undo[i][3])
  BY <1>3, <1>4, <1>5 DEF DrawnFrom, Equipped
<1>7. \A i \in DOMAIN op'.todo : Can(op', op'.todo[i])
  <2> TAKE i \in DOMAIN op'.todo
  <2>1. i + 1 \in DOMAIN op.todo /\ op'.todo[i] = op.todo[i + 1]
    BY <1>1, <1>2, <1>3, TailIs
  <2>2. Can(op, op'.todo[i])
    BY <1>3, <2>1 DEF Equipped
  <2> QED BY <1>2, <2>2, CanSame
<1> QED BY <1>3, <1>6, <1>7 DEF Equipped

LEMMA KnownSame ==
  ASSUME NEW d, NEW o, NEW o2, NEW l, NEW x, Known(x, d, o2, l),
         o2 # Idle => o # Idle /\ o2.grant = o.grant /\ o2.src = o.src /\ o2.before = o.before
  PROVE  Known(x, d, o, l)
BY DEF Known

\* A file operation of a command keeps what is on disk and in the history in
\* order, if it writes only what the command holds.
LEMMA StepTyped ==
  ASSUME Orderly, Typed, Step, NEW u, NEW e, u = << >> \/ u = <<e>>,
         e[1] = "restore" => Fits(e[2], e[3]), Done(u),
         \A f \in File : Fits(f, disk'[f]), \E V : log' \in Seq(Line(V, now)), revived' \subseteq Grant,
         UNCHANGED <<now, nextKey, commands, faults, writes, stranded>>,
         \A x \in Grant : Known(x, disk', op, log') => Known(x, disk, op, log)
  PROVE  Typed' /\ Shrinks
<1>1. Underway(op, disk, bak, usable) /\ Equipped(op) /\ op # Idle
  BY DEF Orderly, Typed, Step
<1>2. op' # Idle => Equipped(op')
  BY <1>1, EquippedDone
<1>3. Typed'
  BY <1>2 DEF Typed
<1>4. op' # Idle => op'.grant = op.grant /\ op'.src = op.src /\ op'.before = op.before
  BY <1>1, DoneIs DEF Underway
<1>5. \A x \in Grant : Known(x, disk', op', log') => Known(x, disk, op, log)
  BY <1>1, <1>4, KnownSame
<1> QED BY <1>3, <1>5 DEF Shrinks

LEMMA CanHead ==
  ASSUME Orderly, Typed, Step
  PROVE  Can(op, Head(op.todo)) /\ op # Idle /\ \E S : op.todo \in Seq(S) /\ op.undo \in Seq(S)
<1>1. Underway(op, disk, bak, usable) /\ Equipped(op) /\ ~op.failed /\ op.todo # << >> /\ op # Idle
  BY DEF Orderly, Typed, Step
<1>2. PICK S : op.todo \in Seq(S) /\ op.undo \in Seq(S)
  BY <1>1 DEF Underway
<1>3. 1 \in DOMAIN op.todo /\ Head(op.todo) = op.todo[1]
  BY <1>1, <1>2, TailIs
<1> QED BY <1>1, <1>2, <1>3 DEF Equipped

\* What a disk with one other file holds.
LEMMA OneFile ==
  ASSUME Orderly, \A f \in File : Fits(f, disk[f]), NEW h, NEW v, Fits(h, v)
  PROVE  LET d == [disk EXCEPT ![h] = v]
         IN /\ \A f \in File : Fits(f, d[f])
            /\ \A o, l : \A x \in Grant : Known(x, d, o, l) =>
                 Known(x, disk, o, l) \/ (x = v /\ \E s \in Source : h = GrantFile(s))
<1> DEFINE d == [disk EXCEPT ![h] = v]
<1>1. \A f \in File : d[f] = disk[f] \/ (f = h /\ d[f] = v)
  BY DEF Orderly
<1> HIDE DEF d
<1>2. \A f \in File : Fits(f, d[f])
  BY <1>1
<1>3. \A s \in Source : GrantFile(s) \in File
  BY DEF File
<1>4. ASSUME NEW o, NEW l, NEW x \in Grant, Known(x, d, o, l)
      PROVE  Known(x, disk, o, l) \/ (x = v /\ \E s \in Source : h = GrantFile(s))
  BY <1>1, <1>3, <1>4 DEF Known
<1> QED BY <1>2, <1>4 DEF d

LEMMA ContentsIs ==
  /\ Contents("key") = op.grant.key /\ Contents("grant") = op.grant /\ Contents("env") = TRUE
  /\ Contents("active") = [op.reg EXCEPT ![op.src] = op.grant]
  /\ Contents("trust") = op.grant.by /\ Contents("issuer") = op.grant.by
BY DEF Contents

LEMMA GrantFileApart ==
  \A s, t : /\ KeyFile(s) # GrantFile(t) /\ EnvFile(s) # GrantFile(t)
            /\ ActiveFile # GrantFile(t) /\ TrustFile # GrantFile(t) /\ IssuerFile # GrantFile(t)
BY DEF KeyFile, GrantFile, EnvFile, ActiveFile, TrustFile, IssuerFile

LEMMA WriteFileTyped ==
  ASSUME Orderly, Typed, WriteFile
  PROVE  Typed' /\ Shrinks
<1> DEFINE step == Head(op.todo)
           f == KindFile(step)
           v == Contents(step)
           e == <<"remove", f, Absent>>
           u == IF ~(op.cmd = "agent_add" /\ step = "active" /\ Exists(ActiveFile)) THEN <<e>> ELSE << >>
<1>1. /\ Step /\ step \in {"key", "grant", "env", "active", "trust", "issuer"}
      /\ disk' = [disk EXCEPT ![f] = v] /\ Done(u)
      /\ UNCHANGED <<log, now, nextKey, commands, faults, writes, stranded>>
      /\ revived' = revived \/ (revived' = revived \cup {op.grant} /\ step = "active")
  BY DEF WriteFile
<1>2. Can(op, step) /\ op # Idle
  BY <1>1, CanHead
<1>3. Fits(f, v) /\ ((\E s \in Source : f = GrantFile(s)) => v = op.grant)
  <2>1. CASE step = "key"
    <3>1. f = KeyFile(op.src) /\ v = op.grant.key
      BY <2>1, KindFileIs, ContentsIs
    <3>2. Fits(KeyFile(op.src), op.grant.key)
      BY <1>2, <2>1, FitsIs DEF Can
    <3> QED BY <3>1, <3>2, GrantFileApart
  <2>2. CASE step = "grant"
    <3>1. f = GrantFile(op.src) /\ v = op.grant
      BY <2>2, KindFileIs, ContentsIs
    <3>2. Fits(GrantFile(op.src), op.grant)
      BY <1>2, <2>2, FitsIs DEF Can
    <3> QED BY <3>1, <3>2, GrantFileApart
  <2>3. CASE step = "env"
    <3>1. f = EnvFile(op.src) /\ v = TRUE
      BY <2>3, KindFileIs, ContentsIs
    <3>2. Fits(EnvFile(op.src), TRUE)
      BY <1>2, <2>3, FitsIs DEF Can
    <3> QED BY <3>1, <3>2, GrantFileApart
  <2>4. CASE step = "active"
    <3>1. f = ActiveFile /\ v = [op.reg EXCEPT ![op.src] = op.grant]
      BY <2>4, KindFileIs, ContentsIs
    <3>2. [op.reg EXCEPT ![op.src] = op.grant] \in Registry
      BY <1>2, <2>4 DEF Can, Registry
    <3>3. Fits(ActiveFile, [op.reg EXCEPT ![op.src] = op.grant])
      BY <3>2, FitsIs
    <3> QED BY <3>1, <3>3, GrantFileApart
  <2>5. CASE step = "trust"
    <3>1. f = TrustFile /\ v = op.grant.by
      BY <2>5, KindFileIs, ContentsIs
    <3>2. Fits(TrustFile, op.grant.by)
      BY <1>2, <2>5, FitsIs DEF Can
    <3> QED BY <3>1, <3>2, GrantFileApart
  <2>6. CASE step = "issuer"
    <3>1. f = IssuerFile /\ v = op.grant.by
      BY <2>6, KindFileIs, ContentsIs
    <3>2. Fits(IssuerFile, op.grant.by)
      BY <1>2, <2>6, FitsIs DEF Can
    <3> QED BY <3>1, <3>2, GrantFileApart
  <2> QED BY <1>1, <2>1, <2>2, <2>3, <2>4, <2>5, <2>6
<1>4. u = << >> \/ u = <<e>>
  OBVIOUS
<1>5. e[1] # "restore"
  OBVIOUS
<1>6. revived' \subseteq Grant
  BY <1>1, <1>2 DEF Typed, Can
<1> HIDE DEF step, f, v, e, u
<1>7. /\ \A h \in File : Fits(h, disk'[h])
      /\ \A x \in Grant : Known(x, disk', op, log) =>
           Known(x, disk, op, log) \/ (x = v /\ \E s \in Source : f = GrantFile(s))
  BY <1>1, <1>3, OneFile DEF Typed
<1>8. \A x \in Grant : Known(x, disk', op, log') => Known(x, disk, op, log)
  BY <1>1, <1>2, <1>3, <1>7 DEF Known
<1>9. \E V : log' \in Seq(Line(V, now))
  BY <1>1 DEF Typed
<1> QED BY <1>1, <1>4, <1>5, <1>6, <1>7, <1>8, <1>9, StepTyped

LEMMA MoveAsideTyped ==
  ASSUME Orderly, Typed, MoveAside
  PROVE  Typed' /\ Shrinks
<1> DEFINE step == Head(op.todo)
           f == KindFile(step)
           e == <<"restore", f, disk[f]>>
           u == IF Exists(f) THEN <<e>> ELSE << >>
<1>1. /\ Step /\ step \in {"movekey", "movegrant", "moveactive", "moveenv"}
      /\ disk' = [disk EXCEPT ![f] = Absent] /\ Done(u)
      /\ UNCHANGED <<log, now, nextKey, commands, faults, writes, stranded, revived>>
  BY DEF MoveAside, history
<1>2. f \in File
  <2>1. CASE step = "moveactive"
    BY <2>1, KindFileIs DEF File
  <2>2. CASE step # "moveactive"
    <3>1. op.src \in Source
      <4>1. PICK S : op.todo \in Seq(S) /\ op.todo # << >>
        BY <1>1, CanHead DEF Step
      <4>2. 1 \in DOMAIN op.todo /\ step = op.todo[1]
        BY <4>1, TailIs
      <4> QED BY <1>1, <4>2 DEF Orderly, Underway, Guarded, Unguarded, Step, Moves
    <3> QED BY <1>1, <2>2, <3>1, KindFileIs DEF File
  <2> QED BY <2>1, <2>2
<1>3. Fits(f, disk[f]) /\ Fits(f, Absent)
  BY <1>2 DEF Typed, Fits
<1>4. u = << >> \/ u = <<e>>
  OBVIOUS
<1>5. e[2] = f /\ e[3] = disk[f]
  OBVIOUS
<1>6. Absent \notin Grant
  BY FilesAssumption
<1> HIDE DEF step, f, e, u
<1>7. /\ \A h \in File : Fits(h, disk'[h])
      /\ \A x \in Grant : Known(x, disk', op, log) =>
           Known(x, disk, op, log) \/ (x = Absent /\ \E s \in Source : f = GrantFile(s))
  BY <1>1, <1>3, OneFile DEF Typed
<1>8. \A x \in Grant : Known(x, disk', op, log') => Known(x, disk, op, log)
  BY <1>1, <1>6, <1>7
<1>9. (\E V : log' \in Seq(Line(V, now))) /\ revived' \subseteq Grant
  BY <1>1 DEF Typed
<1> QED BY <1>1, <1>3, <1>4, <1>5, <1>7, <1>8, <1>9, StepTyped

\* The history with one more line about a grant that is known.
LEMMA AppendKnown ==
  ASSUME NEW V, NEW n \in Nat, NEW l \in Seq(Line(V, n)), NEW action \in {"issued", "revoked"},
         NEW g \in Grant, NEW d, NEW o, NEW x \in Grant, Known(x, d, o, AppendOne(l, action, g, n))
  PROVE  x = g \/ Known(x, d, o, l)
<1> DEFINE new == AppendOne(l, action, g, n)
<1>1. OneMore(new, l, g)
  BY AppendOneIs
<1> HIDE DEF new
<1>2. Known(x, d, o, new)
  BY DEF new
<1> QED BY <1>1, <1>2 DEF Known, OneMore

LEMMA AppendLogTyped ==
  ASSUME Orderly, Typed, AppendLog
  PROVE  Typed' /\ Shrinks
<1> DEFINE step == Head(op.todo)
           old == op.before[GrantFile(op.src)]
           e == <<"removelog", ActiveFile, Absent>>
           u == IF op.cmd = "bootstrap" /\ log = <<>> THEN <<e>> ELSE << >>
<1>1. /\ Step /\ step \in {"issued", "revoked", "rotated"} /\ Done(u)
      /\ log' = CASE step = "rotated" -> AppendPair(log, old, op.grant, now)
                  [] OTHER -> AppendOne(log, step, op.grant, now)
      /\ UNCHANGED <<disk, now, nextKey, commands, faults, writes, stranded, revived>>
  BY DEF AppendLog, history
<1>2. op # Idle /\ op.grant \in Grant /\ (step = "rotated" => old \in Grant /\ op.src \in Source)
  BY <1>1, CanHead DEF Can
<1>3. u = << >> \/ u = <<e>>
  OBVIOUS
<1>4. e[1] # "restore"
  OBVIOUS
<1> HIDE DEF step, e, u
<1>5. PICK V : log \in Seq(Line(V, now)) /\ now \in Nat
  BY DEF Typed
<1>6. CASE step # "rotated"
  <2>1. step \in {"issued", "revoked"} /\ log' = AppendOne(log, step, op.grant, now)
    BY <1>1, <1>6
  <2>2. \E W : log' \in Seq(Line(W, now))
    BY <1>2, <1>5, <2>1, AppendOneIs
  <2>3. ASSUME NEW x \in Grant, Known(x, disk', op, log') PROVE Known(x, disk, op, log)
    <3>1. x = op.grant \/ Known(x, disk', op, log)
      BY <1>2, <1>5, <2>1, <2>3, AppendKnown
    <3> QED BY <1>1, <1>2, <3>1 DEF Known
  <2>4. \A f \in File : Fits(f, disk'[f])
    BY <1>1 DEF Typed
  <2>5. revived' \subseteq Grant
    BY <1>1 DEF Typed
  <2> QED BY <1>1, <1>3, <1>4, <2>2, <2>3, <2>4, <2>5, StepTyped
<1>7. CASE step = "rotated"
  <2> DEFINE l == AppendOne(log, "revoked", old, now)
  <2>1. log' = AppendOne(l, "issued", op.grant, now) /\ old \in Grant /\ op.src \in Source
    BY <1>1, <1>2, <1>7 DEF AppendPair
  <2>2. \E W : l \in Seq(Line(W, now))
    BY <1>5, <2>1, AppendOneIs
  <2>3. \A x \in Grant : Known(x, disk', op, l) => x = old \/ Known(x, disk', op, log)
    BY <1>5, <2>1, AppendKnown
  <2> HIDE DEF l
  <2>4. PICK W : l \in Seq(Line(W, now))
    BY <2>2
  <2>5. \E X : log' \in Seq(Line(X, now))
    BY <1>2, <1>5, <2>1, <2>4, AppendOneIs
  <2>6. ASSUME NEW x \in Grant, Known(x, disk', op, log') PROVE Known(x, disk, op, log)
    <3>1. x = op.grant \/ Known(x, disk', op, l)
      BY <1>2, <1>5, <2>1, <2>4, <2>6, AppendKnown
    <3>2. x = op.grant \/ x = old \/ Known(x, disk', op, log)
      BY <2>3, <3>1
    <3> QED BY <1>1, <1>2, <2>1, <3>2 DEF Known
  <2>7. \A f \in File : Fits(f, disk'[f])
    BY <1>1 DEF Typed
  <2>8. revived' \subseteq Grant
    BY <1>1 DEF Typed
  <2> QED BY <1>1, <1>3, <1>4, <2>5, <2>6, <2>7, <2>8, StepTyped
<1> QED BY <1>6, <1>7

LEMMA DeactivateTyped ==
  ASSUME Orderly, Typed, Deactivate
  PROVE  Typed' /\ Shrinks
<1> DEFINE v == [ActiveOrEmpty EXCEPT ![op.src] = Absent]
<1>1. /\ Step /\ Done(<< >>) /\ disk' = [disk EXCEPT ![ActiveFile] = v]
      /\ UNCHANGED <<log, now, nextKey, commands, faults, writes, stranded, revived>>
  BY DEF Deactivate, history
<1>2. Fits(ActiveFile, v)
  <2>1. ActiveOrEmpty \in Registry
    <3>1. Fits(ActiveFile, disk[ActiveFile])
      BY DEF Typed, File
    <3>2. NoActive \in Registry
      BY DEF NoActive, Registry
    <3> QED BY <3>1, <3>2, FitsIs DEF ActiveOrEmpty, Exists
  <2>2. v \in Registry
    BY <2>1 DEF Registry
  <2> QED BY <2>2, FitsIs
<1> HIDE DEF v
<1>3. /\ \A h \in File : Fits(h, disk'[h])
      /\ \A x \in Grant : Known(x, disk', op, log) =>
           Known(x, disk, op, log) \/ (x = v /\ \E s \in Source : ActiveFile = GrantFile(s))
  BY <1>1, <1>2, OneFile DEF Typed
<1>4. \A x \in Grant : Known(x, disk', op, log') => Known(x, disk, op, log)
  BY <1>1, <1>3, GrantFileApart
<1>5. (\E V : log' \in Seq(Line(V, now))) /\ revived' \subseteq Grant
  BY <1>1 DEF Typed
<1>6. \E e : << >> = <<e>> \/ e[1] # "restore"
  <2> WITNESS <<"remove">>
  <2> QED OBVIOUS
<1> QED BY <1>1, <1>3, <1>4, <1>5, <1>6, StepTyped

\* A step that changes neither disk nor history, and ends the command or not.
LEMMA EndTyped ==
  ASSUME Orderly, Typed, op' = Idle \/ op' = op,
         UNCHANGED <<disk, log, now, nextKey, commands, writes, revived>>,
         faults' \in 0..MaxFaults, stranded' \in BOOLEAN
  PROVE  Typed' /\ Shrinks
<1>1. Typed'
  BY DEF Typed
<1>2. Shrinks
  BY DEF Known, Shrinks
<1> QED BY <1>1, <1>2

LEMMA BackfillStepTyped ==
  ASSUME Orderly, Typed, BackfillStep
  PROVE  Typed' /\ Shrinks
<1>1. /\ Step /\ UNCHANGED <<disk, now, nextKey, commands, faults, writes, stranded, revived>>
      /\ \/ op' = Idle /\ log' = log
         \/ op' = op /\ \E s \in Source : Exists(GrantFile(s)) /\ log' = AppendOne(log, "issued", disk[GrantFile(s)], now)
  BY DEF BackfillStep, history
<1>2. CASE op' = Idle /\ log' = log
  <2>1. faults' \in 0..MaxFaults /\ stranded' \in BOOLEAN
    BY <1>1 DEF Typed
  <2> QED BY <1>1, <1>2, <2>1, EndTyped
<1>3. CASE op' = op /\ \E s \in Source : Exists(GrantFile(s)) /\ log' = AppendOne(log, "issued", disk[GrantFile(s)], now)
  <2>1. PICK s \in Source : Exists(GrantFile(s)) /\ log' = AppendOne(log, "issued", disk[GrantFile(s)], now)
    BY <1>3
  <2> DEFINE g == disk[GrantFile(s)]
  <2>2. g \in Grant
    <3>1. Fits(GrantFile(s), g)
      BY DEF Typed, File
    <3> QED BY <2>1, <3>1, FitsIs DEF Exists
  <2>3. PICK V : log \in Seq(Line(V, now)) /\ now \in Nat
    BY DEF Typed
  <2>4. \E W : log' \in Seq(Line(W, now))
    BY <2>1, <2>2, <2>3, AppendOneIs
  <2>5. ASSUME NEW x \in Grant, Known(x, disk', op', log') PROVE Known(x, disk, op, log)
    <3>1. x = g \/ Known(x, disk', op', log)
      BY <2>1, <2>2, <2>3, <2>5, AppendKnown
    <3> QED BY <1>1, <1>3, <3>1 DEF Known
  <2>6. Typed'
    BY <1>1, <1>3, <2>4 DEF Typed
  <2> QED BY <2>5, <2>6 DEF Shrinks
<1> QED BY <1>1, <1>2, <1>3

LEMMA DropOldKeyTyped ==
  ASSUME Orderly, Typed, DropOldKey
  PROVE  Typed' /\ Shrinks
<1>1. /\ Step /\ Done(<< >>)
      /\ UNCHANGED <<disk, log, now, nextKey, commands, faults, writes, stranded, revived>>
  BY DEF DropOldKey, history
<1>2. /\ \A f \in File : Fits(f, disk'[f])
      /\ \E V : log' \in Seq(Line(V, now))
      /\ revived' \subseteq Grant
  BY <1>1 DEF Typed
<1>3. \A x \in Grant : Known(x, disk', op, log') => Known(x, disk, op, log)
  BY <1>1
<1>4. \E e : << >> = <<e>> \/ e[1] # "restore"
  <2> WITNESS <<"remove">>
  <2> QED OBVIOUS
<1> QED BY <1>1, <1>2, <1>3, <1>4, StepTyped

LEMMA FailsTyped ==
  ASSUME Orderly, Typed, Fails
  PROVE  Typed' /\ Shrinks
<1>1. /\ Step /\ UNCHANGED <<disk, log, now, nextKey, commands, writes, revived>>
      /\ op' = IF op.guarded /\ op.undo # <<>>
               THEN [op EXCEPT !.todo = op.undo, !.failed = TRUE] ELSE Idle
      /\ faults' = faults \/ (faults < MaxFaults /\ faults' = faults + 1)
      /\ stranded' \in BOOLEAN
  BY DEF Fails, file
<1>2. faults' \in 0..MaxFaults
  BY <1>1, BundleAssumption DEF Typed
<1>3. CASE op' = Idle
  BY <1>1, <1>2, <1>3, EndTyped
<1>4. CASE op' # Idle
  <2>1. PICK V : op \in [cmd : V, src : V, todo : V, grant : V, reg : V, undo : V, guarded : V,
                         before : V, log : V, failed : V]
    BY <1>1 DEF Orderly, Underway, IsCeremony, Step
  <2>2. /\ op'.todo = op.undo /\ op'.failed = TRUE /\ op'.src = op.src
        /\ op'.grant = op.grant /\ op'.before = op.before
    BY <1>1, <1>4, <2>1
  <2>3. Ledger(op') = op.undo /\ Ledger(op) = op.undo /\ op # Idle
    BY <1>1, <2>2 DEF Ledger, Step
  <2>4. Equipped(op')
    BY <2>2, <2>3 DEF Equipped, Typed
  <2>5. Typed'
    BY <1>1, <1>2, <2>4 DEF Typed
  <2>6. \A x \in Grant : Known(x, disk', op', log') => Known(x, disk, op, log)
    BY <1>1, <2>2, <2>3 DEF Known
  <2> QED BY <2>5, <2>6 DEF Shrinks
<1> QED BY <1>3, <1>4

LEMMA RollbackTyped ==
  ASSUME Orderly, Typed, Rollback
  PROVE  Typed' /\ Shrinks
<1> DEFINE s == op.src
<1>1. /\ Underway(op, disk, bak, usable) /\ op.guarded /\ op.failed /\ s \in Source
      /\ Spared(disk', bak')
      /\ \A f \in File : \/ disk'[f] = disk[f] \/ disk'[f] = Absent
                         \/ PutBack(Ledger(op), f, disk'[f])
  BY RollbackPops
<1>2. /\ op # Idle /\ UNCHANGED <<now, nextKey, commands, faults, writes, stranded, revived>>
      /\ log' = log \/ log' = << >>
      /\ op' = IF Tail(op.todo) = <<>> THEN Idle ELSE [op EXCEPT !.todo = Tail(op.todo)]
  BY DEF Rollback, history
<1>3. \A f \in File : Fits(f, disk'[f])
  BY <1>1, <1>2 DEF Typed, Equipped, PutBack, Fits
<1>4. \E V : log' \in Seq(Line(V, now'))
  <2>1. PICK V : log \in Seq(Line(V, now))
    BY DEF Typed
  <2>2. << >> \in Seq(Line(V, now))
    BY EmptySeq
  <2>3. log' \in Seq(Line(V, now'))
    BY <1>2, <2>1, <2>2
  <2> QED BY <2>3
<1>5. PICK S : op.todo \in Seq(S) /\ op.todo # << >>
  BY <1>1 DEF Underway
<1>6. op' # Idle => /\ op'.todo = Tail(op.todo) /\ op'.failed = TRUE /\ op'.src = op.src
                    /\ op'.grant = op.grant /\ op'.before = op.before
  BY <1>1, <1>2 DEF Underway, IsCeremony
<1>7. op' # Idle => Equipped(op')
  <2> HAVE op' # Idle
  <2>1. Ledger(op') = Tail(op.todo) /\ Ledger(op) = op.todo /\ op'.failed
    BY <1>1, <1>6 DEF Ledger
  <2>2. \A i \in DOMAIN Tail(op.todo) : i + 1 \in DOMAIN op.todo /\ Tail(op.todo)[i] = op.todo[i + 1]
    BY <1>5, TailIs
  <2>3. \A i \in DOMAIN op.todo : op.todo[i][1] = "restore" => Fits(op.todo[i][2], op.todo[i][3])
    BY <1>2, <2>1 DEF Equipped, Typed
  <2>4. \A i \in DOMAIN Tail(op.todo) :
           Tail(op.todo)[i][1] = "restore" => Fits(Tail(op.todo)[i][2], Tail(op.todo)[i][3])
    BY <2>2, <2>3
  <2> QED BY <2>1, <2>4 DEF Equipped
<1>8. Typed'
  BY <1>2, <1>3, <1>4, <1>7 DEF Typed
<1>9. GrantFile(s) \in Own(s) /\ GrantFile(s) \in File
  BY <1>1, FilesApart DEF Own
<1>10. disk'[GrantFile(s)] \in {disk[GrantFile(s)], Absent, op.before[GrantFile(s)]}
  <2> DEFINE f == GrantFile(s)
  <2>1. Balanced(Ledger(op), disk[f], bak, op.before[f], f)
    BY <1>1, <1>9 DEF Underway, Guarded
  <2>2. \A i \in DOMAIN Ledger(op) : Ledger(op)[i][2] = f =>
           Ledger(op)[i] = Remove(f) \/ Ledger(op)[i] = Restore(f, op.before[f])
    BY <2>1 DEF Balanced
  <2>3. Remove(f)[1] = "remove" /\ Restore(f, op.before[f])[3] = op.before[f]
    BY DEF Remove, Restore
  <2> QED BY <1>1, <1>9, <2>2, <2>3 DEF PutBack
<1>11. \A t \in Source : t # s => disk'[GrantFile(t)] = disk[GrantFile(t)]
  BY <1>1 DEF Spared
<1>12. \A i \in DOMAIN log' : i \in DOMAIN log /\ log'[i] = log[i]
  BY <1>2
<1>13. ASSUME NEW x \in Grant, Known(x, disk', op', log') PROVE Known(x, disk, op, log)
  <2>1. x # Absent
    BY FilesAssumption
  <2>2. CASE \E t \in Source : disk'[GrantFile(t)] = x
    BY <1>1, <1>2, <1>10, <1>11, <2>1, <2>2 DEF Known
  <2>3. CASE \E i \in DOMAIN log' : log'[i].grant = x
    BY <1>12, <2>3 DEF Known
  <2>4. CASE op' # Idle /\ (op'.grant = x \/ (op'.src \in Source /\ op'.before[GrantFile(op'.src)] = x))
    BY <1>2, <1>6, <2>4 DEF Known
  <2> QED BY <1>13, <2>2, <2>3, <2>4 DEF Known
<1> QED BY <1>8, <1>13 DEF Shrinks

-----------------------------------------------------------------------------
(* The commands.                                                            *)

Inv == Orderly /\ KeyNeverLost /\ Typed /\ KeysKnown

\* The command c as it begins.
Begun(c, cmd, s, todo, grant, reg, guarded) ==
  /\ IsCeremony(c) /\ c.cmd = cmd /\ c.src = s /\ c.todo = todo /\ c.grant = grant /\ c.reg = reg
  /\ c.undo = << >> /\ c.guarded = guarded /\ c.before = disk /\ c.failed = FALSE
  /\ Ledger(c) = << >>

LEMMA CeremonyIs ==
  ASSUME NEW cmd, NEW s, NEW todo, NEW grant, NEW reg, NEW guarded
  PROVE  Begun(Ceremony(cmd, s, todo, grant, reg, guarded), cmd, s, todo, grant, reg, guarded)
<1> DEFINE c == Ceremony(cmd, s, todo, grant, reg, guarded)
           V == {cmd, s, todo, grant, reg, << >>, guarded, disk, log, FALSE}
<1>1. c \in [cmd : V, src : V, todo : V, grant : V, reg : V, undo : V, guarded : V,
             before : V, log : V, failed : V]
  BY DEF Ceremony
<1>2. IsCeremony(c)
  BY <1>1 DEF IsCeremony
<1> QED BY <1>2 DEF Ceremony, Ledger, Begun

\* A command begins: what it is going to do must fit together.
Prepared(c) ==
  /\ c.guarded => c.src \in Source /\ \A k \in OwnKinds : Planned(c.todo, << >>, disk[<<k, c.src>>], c.src, k)
  /\ ~c.guarded => \A i \in DOMAIN c.todo :
       /\ c.todo[i] \notin Moves \cup {"dropkey"}
       /\ c.todo[i] \in {"key", "grant"} => c.cmd = "grant_issue" \/ ~KeyMatchesGrant(c.src)
  /\ \A i \in DOMAIN c.todo : c.todo[i] = "dropkey" =>
       /\ i = Len(c.todo) /\ c.grant \in Grant
       /\ \E j \in DOMAIN c.todo : c.todo[j] = "key"
       /\ \E j \in DOMAIN c.todo : c.todo[j] = "grant"
  /\ \A i \in DOMAIN c.todo : Can(c, c.todo[i])

\* Nothing is recorded of a file that is as it was.
LEMMA NothingBalanced ==
  ASSUME NEW d, NEW b, NEW f
  PROVE  Balanced(<< >>, d, b, d, f)
<1>1. DOMAIN << >> = {}
  OBVIOUS
<1>2. ~Entry(<< >>, f) /\ ~Restores(<< >>, f, d)
  BY <1>1 DEF Entry, Restores
<1> QED BY <1>1, <1>2 DEF Balanced

LEMMA BeginKeeps ==
  ASSUME Inv, NEW cmd, NEW s, NEW S, NEW todo \in Seq(S), NEW grant, NEW reg, NEW guarded \in BOOLEAN,
         Begin(Ceremony(cmd, s, todo, grant, reg, guarded)),
         Prepared(Ceremony(cmd, s, todo, grant, reg, guarded)),
         \/ nextKey' = nextKey /\ (grant \in Grant => Known(grant, disk, op, log))
         \/ /\ nextKey' \in {nextKey, nextKey + 1} /\ nextKey' =< MaxKeys + 1
            /\ grant \in Grant => grant.key < nextKey'
  PROVE  Inv'
<1> DEFINE c == Ceremony(cmd, s, todo, grant, reg, guarded)
<1>b. Begun(c, cmd, s, todo, grant, reg, guarded)
  BY CeremonyIs
<1> HIDE DEF c
<1>1. /\ IsCeremony(c) /\ c.cmd = cmd /\ c.src = s /\ c.todo = todo /\ c.grant = grant /\ c.reg = reg
      /\ c.undo = << >> /\ c.guarded = guarded /\ c.before = disk /\ c.failed = FALSE
      /\ Ledger(c) = << >>
  BY <1>b DEF Begun
<1>2. /\ op = Idle /\ commands < MaxCommands /\ op' = c /\ commands' = commands + 1
      /\ usable' = IF s \in Source /\ cmd # "grant_issue" /\ KeyMatchesGrant(s)
                   THEN usable \cup {s} ELSE usable \ {s}
      /\ UNCHANGED <<disk, bak, log, writes, now, faults, stranded, revived>>
  BY <1>1 DEF Begin, file, c
<1>3. Prepared(c)
  BY DEF c
<1>4. s \in usable' => s \in Source /\ cmd # "grant_issue" /\ KeyMatchesGrant(s) /\ Matched(disk, s)
  BY <1>2 DEF KeyMatchesGrant, Matched, Exists
<1>5. usable' \subseteq Source
  BY <1>2 DEF Inv, Orderly
<1>7. \A f : Balanced(<< >>, disk[f], bak, disk[f], f)
  BY NothingBalanced
<1>8. guarded => Guarded(c, disk, bak)
  BY <1>1, <1>3, <1>7 DEF Guarded, Prepared
<1>9. ~guarded => Unguarded(c, disk, usable')
  BY <1>1, <1>3, <1>4 DEF Unguarded, Prepared
<1>10. DropsLast(c, disk)
  BY <1>1, <1>3 DEF DropsLast, Prepared
<1>11. \E T : c.todo \in Seq(T) /\ c.undo \in Seq(T)
  BY <1>1, EmptySeq
<1>12. Underway(c, disk, bak, usable')
  BY <1>1, <1>4, <1>8, <1>9, <1>10, <1>11 DEF Underway
<1>13. Orderly'
  BY <1>2, <1>5, <1>12 DEF Inv, Orderly
<1>14. \A t \in usable' : Held(disk[KeyFile(t)], disk[GrantFile(t)], bak, t)
  <2> TAKE t \in usable'
  <2>1. CASE t = s
    BY <1>4, <2>1, HeldFrom DEF Matched
  <2>2. CASE t # s
    BY <1>2, <2>2, KeyNeverLostIs DEF Inv
  <2> QED BY <2>1, <2>2
<1>15. KeyNeverLost'
  BY <1>2, <1>14 DEF KeyNeverLost, Held
<1>16. Equipped(c)
  BY <1>1, <1>3 DEF Equipped, Prepared
<1>17. /\ nextKey \in Int /\ nextKey' \in 1..MaxKeys + 1 /\ commands' \in 0..MaxCommands
       /\ nextKey =< nextKey'
  BY <1>2, BundleAssumption DEF Inv, Typed
<1>18. Typed'
  BY <1>2, <1>16, <1>17 DEF Inv, Typed
<1>19. ASSUME NEW x \in Grant, Known(x, disk', op', log') PROVE x = grant \/ Known(x, disk, op, log)
  BY <1>1, <1>2, <1>19 DEF Known
<1>20. KeysKnown'
  <2>1. KeysBelow(disk, op, log, nextKey)
    BY DEF Inv, KeysKnown
  <2>2. CASE nextKey' = nextKey /\ (grant \in Grant => Known(grant, disk, op, log))
    <3>1. \A x \in Grant : Known(x, disk', op', log') => Known(x, disk, op, log)
      BY <1>19, <2>2
    <3> QED BY <2>1, <2>2, <3>1 DEF KeysKnown, KeysBelow
  <2>3. CASE grant \in Grant => grant.key < nextKey'
    <3>1. nextKey' \in Int
      BY <1>17
    <3>2. KeysBelow(disk', op', log', nextKey')
      BY <1>17, <1>19, <2>1, <2>3, <3>1, FreshGrant
    <3> QED BY <3>2 DEF KeysKnown
  <2> QED BY <2>2, <2>3
<1> QED BY <1>13, <1>15, <1>18, <1>20 DEF Inv

\* A command that moves nothing aside.
LEMMA PlainPrepared ==
  ASSUME NEW cmd, NEW s, NEW P, NEW todo \in Seq(P), NEW grant, NEW reg, NEW guarded \in BOOLEAN,
         P \cap (Moves \cup {"dropkey"}) = {},
         guarded => s \in Source /\ \A f \in Own(s) : disk[f] = Absent,
         ~guarded => (P \cap {"key", "grant"} = {} \/ cmd = "grant_issue" \/ ~KeyMatchesGrant(s)),
         \A k \in P : Can(Ceremony(cmd, s, todo, grant, reg, guarded), k)
  PROVE  Prepared(Ceremony(cmd, s, todo, grant, reg, guarded))
<1> DEFINE c == Ceremony(cmd, s, todo, grant, reg, guarded)
<1>1. Begun(c, cmd, s, todo, grant, reg, guarded) /\ \A k \in P : Can(c, k)
  BY CeremonyIs
<1> HIDE DEF c
<1>2. c.cmd = cmd /\ c.src = s /\ c.todo = todo /\ c.guarded = guarded
  BY <1>1 DEF Begun
<1>3. \A i \in DOMAIN todo : todo[i] \in P
  BY LenProperties
<1>4. ASSUME guarded, NEW k \in OwnKinds PROVE Planned(todo, << >>, disk[<<k, s>>], s, k)
  <2>1. disk[<<k, s>>] = Absent /\ MoveOf(k) \in Moves
    BY <1>4, FilesApart, MoveOfIs DEF OwnKinds, Moves
  <2>2. \A i \in DOMAIN todo : todo[i] # MoveOf(k)
    BY <1>3, <2>1
  <2> QED BY <2>1, <2>2 DEF Planned
<1>5. \A i \in DOMAIN todo : todo[i] \notin Moves \cup {"dropkey"}
  BY <1>3
<1>6. ASSUME ~guarded, NEW i \in DOMAIN todo, todo[i] \in {"key", "grant"}
      PROVE  cmd = "grant_issue" \/ ~KeyMatchesGrant(s)
  BY <1>3, <1>6
<1>7. \A i \in DOMAIN todo : Can(c, todo[i]) /\ todo[i] # "dropkey"
  BY <1>1, <1>3, <1>5
<1>8. Prepared(c)
  BY <1>2, <1>4, <1>5, <1>6, <1>7 DEF Prepared
<1> QED BY <1>8 DEF c

LEMMA MakeGrantIs ==
  ASSUME NEW s \in Source, NEW sh \in Shape, NEW k \in 1..MaxKeys, NEW by \in IssuerKey
  PROVE  /\ MakeGrant(s, k, sh, by) \in Grant /\ MakeGrant(s, k, sh, by).key = k
         /\ MakeGrant(s, k, sh, by).source = s /\ MakeGrant(s, k, sh, by).by = by
BY DEF MakeGrant, Grant

\* What a command that begins finds.
LEMMA Found ==
  ASSUME Inv
  PROVE  /\ \A s \in Source : disk[GrantFile(s)] # Absent =>
              disk[GrantFile(s)] \in Grant /\ disk[GrantFile(s)].source = s
         /\ disk[TrustFile] # Absent => disk[TrustFile] \in IssuerKey
         /\ disk[IssuerFile] # Absent => disk[IssuerFile] \in IssuerKey
         /\ ActiveOrEmpty \in Registry
         /\ NoActive \in Registry
         /\ nextKey \in Nat
         /\ NewKey => nextKey \in 1..MaxKeys /\ nextKey' = nextKey + 1 /\ nextKey' =< MaxKeys + 1
         /\ \A s \in Source : Known(disk[GrantFile(s)], disk, op, log)
<1>1. TypeOK
  BY TypedIsTypeOK DEF Inv
<1>2. \A s \in Source : disk[GrantFile(s)] # Absent =>
        disk[GrantFile(s)] \in Grant /\ disk[GrantFile(s)].source = s
  BY FitsIs DEF Inv, Typed, File
<1>3. NoActive \in Registry
  BY DEF NoActive, Registry
<1>4. ActiveOrEmpty \in Registry
  BY <1>3, FitsIs DEF Inv, Typed, File, ActiveOrEmpty, Exists
<1>5. /\ nextKey \in Nat
      /\ NewKey => nextKey \in 1..MaxKeys /\ nextKey' = nextKey + 1 /\ nextKey' =< MaxKeys + 1
  BY <1>1, BundleAssumption DEF TypeOK, NewKey
<1>6. \A s \in Source : Known(disk[GrantFile(s)], disk, op, log)
  BY DEF Known
<1> QED BY <1>1, <1>2, <1>3, <1>4, <1>5, <1>6 DEF TypeOK

LEMMA BootstrapKeeps ==
  ASSUME Inv, NEW s \in Source, NEW sh \in Shape, Bootstrap(s, sh)
  PROVE  Inv'
<1> DEFINE g == MakeGrant(s, nextKey, sh, LoadOrCreateIssuerKey)
           todo == (IF Exists(IssuerFile) THEN <<>> ELSE <<"issuer">>)
                     \o <<"key", "trust", "grant", "active", "issued", "env">>
           P == {"issuer", "key", "trust", "grant", "active", "issued", "env"}
           c == Ceremony("bootstrap", s, todo, g, NoActive, TRUE)
<1>1. IdentityOutputsAbsent(s) /\ NewKey /\ Begin(c)
  BY DEF Bootstrap
<1>2. todo \in Seq(P)
  <2>1. <<"key", "trust", "grant", "active", "issued", "env">> \in Seq(P)
    OBVIOUS
  <2>2. << >> \in Seq(P) /\ <<"issuer">> \in Seq(P)
    OBVIOUS
  <2> QED BY <2>1, <2>2, ConcatProperties
<1>3. LoadOrCreateIssuerKey \in IssuerKey
  BY Found DEF LoadOrCreateIssuerKey, Exists, IssuerKey
<1>4. g \in Grant /\ g.key = nextKey /\ g.source = s /\ g.by \in IssuerKey /\ g.key \in 1..MaxKeys
  BY <1>1, <1>3, Found, MakeGrantIs
<1> HIDE DEF g, todo
<1>5. \A f \in Own(s) : disk[f] = Absent
  BY <1>1 DEF IdentityOutputsAbsent, Own, Exists
<1>6. \A k \in P : Can(c, k)
  <2>1. Begun(c, "bootstrap", s, todo, g, NoActive, TRUE)
    BY CeremonyIs
  <2> HIDE DEF c
  <2> QED BY <1>4, <2>1, Found DEF Begun, Can
<1>7. P \cap (Moves \cup {"dropkey"}) = {}
  BY DEF Moves
<1> HIDE DEF P
<1>8. Prepared(c)
  BY <1>2, <1>5, <1>6, <1>7, PlainPrepared
<1>9. nextKey' \in {nextKey, nextKey + 1} /\ nextKey' =< MaxKeys + 1 /\ g.key < nextKey'
  BY <1>1, <1>4, Found
<1> QED BY <1>1, <1>2, <1>8, <1>9, BeginKeeps

LEMMA AgentAddKeeps ==
  ASSUME Inv, NEW s \in Source, NEW sh \in Shape, AgentAdd(s, sh)
  PROVE  Inv'
<1> DEFINE g == MakeGrant(s, nextKey, sh, disk[TrustFile])
           todo == <<"key", "grant", "env", "active", "issued">>
           P == {"key", "grant", "env", "active", "issued"}
           c == Ceremony("agent_add", s, todo, g, ActiveOrEmpty, TRUE)
<1>1. /\ \A f \in {KeyFile(s), GrantFile(s), EnvFile(s)} : ~Exists(f)
      /\ Exists(TrustFile) /\ NewKey /\ Begin(c)
  BY DEF AgentAdd
<1>2. todo \in Seq(P)
  OBVIOUS
<1>4. g \in Grant /\ g.key = nextKey /\ g.source = s /\ g.by \in IssuerKey /\ g.key \in 1..MaxKeys
  BY <1>1, Found, MakeGrantIs DEF Exists
<1> HIDE DEF g, todo
<1>5. \A f \in Own(s) : disk[f] = Absent
  BY <1>1 DEF Own, Exists
<1>6. \A k \in P : Can(c, k)
  <2>1. Begun(c, "agent_add", s, todo, g, ActiveOrEmpty, TRUE)
    BY CeremonyIs
  <2> HIDE DEF c
  <2> QED BY <1>4, <2>1, Found DEF Begun, Can
<1>7. P \cap (Moves \cup {"dropkey"}) = {}
  BY DEF Moves
<1> HIDE DEF P
<1>8. Prepared(c)
  BY <1>2, <1>5, <1>6, <1>7, PlainPrepared
<1>9. nextKey' \in {nextKey, nextKey + 1} /\ nextKey' =< MaxKeys + 1 /\ g.key < nextKey'
  BY <1>1, <1>4, Found
<1> QED BY <1>1, <1>2, <1>8, <1>9, BeginKeeps

LEMMA RepairEnvKeeps ==
  ASSUME Inv, NEW s \in Source, RepairEnv(s)
  PROVE  Inv'
<1> DEFINE g == disk[GrantFile(s)]
           todo == (IF ActiveOrEmpty[s] = g THEN <<>> ELSE <<"active">>)
                     \o (IF Exists(KeyFile(s)) THEN <<"env">> ELSE <<>>)
           P == {"active", "env"}
           c == Ceremony("repair", s, todo, g, ActiveOrEmpty, FALSE)
<1>1. Exists(GrantFile(s)) /\ Begin(c) /\ UNCHANGED nextKey
  BY DEF RepairEnv
<1>2. todo \in Seq(P)
  <2>1. << >> \in Seq(P) /\ <<"active">> \in Seq(P) /\ <<"env">> \in Seq(P)
    OBVIOUS
  <2> QED BY <2>1, ConcatProperties
<1>4. g \in Grant /\ g.source = s /\ Known(g, disk, op, log)
  BY <1>1, Found DEF Exists
<1> HIDE DEF g, todo
<1>6. \A k \in P : Can(c, k)
  <2>1. Begun(c, "repair", s, todo, g, ActiveOrEmpty, FALSE)
    BY CeremonyIs
  <2> HIDE DEF c
  <2> QED BY <1>4, <2>1, Found DEF Begun, Can
<1>7. P \cap (Moves \cup {"dropkey"}) = {} /\ P \cap {"key", "grant"} = {}
  BY DEF Moves
<1> HIDE DEF P
<1>8. Prepared(c)
  BY <1>2, <1>6, <1>7, PlainPrepared
<1> QED BY <1>1, <1>2, <1>4, <1>8, BeginKeeps

LEMMA RevokeKeeps ==
  ASSUME Inv, NEW s \in Source, Revoke(s)
  PROVE  Inv'
<1> DEFINE g == disk[GrantFile(s)]
           todo == <<"revoked", "deactivate">>
           P == {"revoked", "deactivate"}
           c == Ceremony("revoke", s, todo, g, NoActive, FALSE)
<1>1. Exists(GrantFile(s)) /\ Begin(c) /\ UNCHANGED nextKey
  BY DEF Revoke
<1>2. todo \in Seq(P)
  OBVIOUS
<1>4. g \in Grant /\ Known(g, disk, op, log)
  BY <1>1, Found DEF Exists
<1> HIDE DEF g, todo
<1>6. \A k \in P : Can(c, k)
  <2>1. Begun(c, "revoke", s, todo, g, NoActive, FALSE)
    BY CeremonyIs
  <2> HIDE DEF c
  <2> QED BY <1>4, <2>1, Found DEF Begun, Can
<1>7. P \cap (Moves \cup {"dropkey"}) = {} /\ P \cap {"key", "grant"} = {}
  BY DEF Moves
<1> HIDE DEF P
<1>8. Prepared(c)
  BY <1>2, <1>6, <1>7, PlainPrepared
<1> QED BY <1>1, <1>2, <1>4, <1>8, BeginKeeps

LEMMA BackfillKeeps ==
  ASSUME Inv, BackfillGrantLog
  PROVE  Inv'
<1> DEFINE g == Absent
           todo == <<"backfill">>
           P == {"backfill"}
           c == Ceremony("backfill", AllSources, todo, g, NoActive, FALSE)
<1>1. Begin(c) /\ UNCHANGED nextKey
  BY DEF BackfillGrantLog
<1>2. todo \in Seq(P)
  OBVIOUS
<1>4. g \notin Grant
  BY FilesAssumption
<1> HIDE DEF g, todo
<1>6. \A k \in P : Can(c, k)
  <2>1. Begun(c, "backfill", AllSources, todo, g, NoActive, FALSE)
    BY CeremonyIs
  <2> HIDE DEF c
  <2> QED BY <1>4, <2>1, Found DEF Begun, Can
<1>7. P \cap (Moves \cup {"dropkey"}) = {} /\ P \cap {"key", "grant"} = {}
  BY <1>1 DEF Moves, KeyMatchesGrant
<1> HIDE DEF P
<1>8. Prepared(c)
  BY <1>2, <1>6, <1>7, PlainPrepared
<1> QED BY <1>1, <1>2, <1>4, <1>8, BeginKeeps

LEMMA GrantIssueKeeps ==
  ASSUME Inv, NEW s \in Source, NEW k \in 1..MaxKeys, NEW sh \in Shape, NEW logged \in BOOLEAN,
         NEW inBundle \in BOOLEAN, GrantIssue(s, k, sh, logged, inBundle)
  PROVE  Inv'
<1> DEFINE g == MakeGrant(s, k, sh, disk[IssuerFile])
           todo == (IF logged THEN <<"issued">> ELSE <<>>) \o (IF inBundle THEN <<"grant">> ELSE <<>>)
           P == {"issued", "grant"}
           c == Ceremony("grant_issue", s, todo, g, NoActive, FALSE)
<1>1. /\ Exists(IssuerFile) /\ k =< nextKey /\ Begin(c)
      /\ nextKey' = IF k = nextKey THEN nextKey + 1 ELSE nextKey
  BY DEF GrantIssue
<1>2. todo \in Seq(P)
  <2>1. << >> \in Seq(P) /\ <<"issued">> \in Seq(P) /\ <<"grant">> \in Seq(P)
    OBVIOUS
  <2> QED BY <2>1, ConcatProperties
<1>3. nextKey \in 1..MaxKeys + 1 /\ MaxKeys \in Nat
  BY BundleAssumption DEF Inv, Typed
<1>4. g \in Grant /\ g.key = k /\ g.source = s
  BY <1>1, Found, MakeGrantIs DEF Exists
<1>5. nextKey' \in {nextKey, nextKey + 1} /\ nextKey' =< MaxKeys + 1 /\ g.key < nextKey'
  BY <1>1, <1>3, <1>4
<1> HIDE DEF g, todo
<1>6. \A h \in P : Can(c, h)
  <2>1. Begun(c, "grant_issue", s, todo, g, NoActive, FALSE)
    BY CeremonyIs
  <2> HIDE DEF c
  <2> QED BY <1>4, <2>1, Found DEF Begun, Can
<1>7. P \cap (Moves \cup {"dropkey"}) = {}
  BY DEF Moves
<1> HIDE DEF P
<1>8. Prepared(c)
  BY <1>2, <1>6, <1>7, PlainPrepared
<1> QED BY <1>1, <1>2, <1>5, <1>8, BeginKeeps

LEMMA AgentKeygenKeeps ==
  ASSUME Inv, NEW s \in Source, AgentKeygen(s)
  PROVE  Inv'
<1> DEFINE g == [key |-> nextKey]
           todo == <<"key">>
           P == {"key"}
           c == Ceremony("keygen", s, todo, g, NoActive, FALSE)
<1>1. ~Exists(KeyFile(s)) /\ NewKey /\ Begin(c)
  BY DEF AgentKeygen
<1>2. todo \in Seq(P)
  OBVIOUS
<1>4. g.key = nextKey /\ g.key \in 1..MaxKeys
  BY <1>1, Found
<1> HIDE DEF g, todo
<1>6. \A k \in P : Can(c, k)
  <2>1. Begun(c, "keygen", s, todo, g, NoActive, FALSE)
    BY CeremonyIs
  <2> HIDE DEF c
  <2> QED BY <1>4, <2>1, Found DEF Begun, Can
<1>7. P \cap (Moves \cup {"dropkey"}) = {} /\ ~KeyMatchesGrant(s)
  BY <1>1 DEF Moves, KeyMatchesGrant
<1> HIDE DEF P
<1>8. Prepared(c)
  BY <1>2, <1>6, <1>7, PlainPrepared
<1>9. nextKey' \in {nextKey, nextKey + 1} /\ nextKey' =< MaxKeys + 1 /\ g.key < nextKey'
  BY <1>1, <1>4, Found
<1> QED BY <1>1, <1>2, <1>8, <1>9, BeginKeeps

LEMMA IssuerKeygenKeeps ==
  ASSUME Inv, IssuerKeygen
  PROVE  Inv'
<1> DEFINE g == [by |-> 102]
           todo == <<"issuer">>
           P == {"issuer"}
           c == Ceremony("keygen", AllSources, todo, g, NoActive, FALSE)
<1>1. Begin(c) /\ UNCHANGED nextKey
  BY DEF IssuerKeygen
<1>2. todo \in Seq(P)
  OBVIOUS
<1>4. g.by \in IssuerKey /\ g \notin Grant
  BY DEF IssuerKey, Grant
<1> HIDE DEF g, todo
<1>6. \A k \in P : Can(c, k)
  <2>1. Begun(c, "keygen", AllSources, todo, g, NoActive, FALSE)
    BY CeremonyIs
  <2> HIDE DEF c
  <2> QED BY <1>4, <2>1, Found DEF Begun, Can
<1>7. P \cap (Moves \cup {"dropkey"}) = {} /\ P \cap {"key", "grant"} = {}
  BY <1>1 DEF Moves, KeyMatchesGrant
<1> HIDE DEF P
<1>8. Prepared(c)
  BY <1>2, <1>6, <1>7, PlainPrepared
<1> QED BY <1>1, <1>2, <1>4, <1>8, BeginKeeps

LEMMA TrustAddKeeps ==
  ASSUME Inv, NEW by \in IssuerKey, TrustAdd(by)
  PROVE  Inv'
<1> DEFINE g == [by |-> by]
           todo == <<"trust">>
           P == {"trust"}
           c == Ceremony("trust_add", AllSources, todo, g, NoActive, FALSE)
<1>1. Begin(c) /\ UNCHANGED nextKey
  BY DEF TrustAdd
<1>2. todo \in Seq(P)
  OBVIOUS
<1>4. g.by \in IssuerKey /\ g \notin Grant
  BY DEF Grant
<1> HIDE DEF g, todo
<1>6. \A k \in P : Can(c, k)
  <2>1. Begun(c, "trust_add", AllSources, todo, g, NoActive, FALSE)
    BY CeremonyIs
  <2> HIDE DEF c
  <2> QED BY <1>4, <2>1, Found DEF Begun, Can
<1>7. P \cap (Moves \cup {"dropkey"}) = {} /\ P \cap {"key", "grant"} = {}
  BY <1>1 DEF Moves, KeyMatchesGrant
<1> HIDE DEF P
<1>8. Prepared(c)
  BY <1>2, <1>6, <1>7, PlainPrepared
<1> QED BY <1>1, <1>2, <1>4, <1>8, BeginKeeps

\* The plan of a rotation: each file is moved aside before its successor is
\* written, and the old key goes last.
Rotation == <<"movekey", "movegrant", "moveactive", "moveenv",
              "key", "grant", "active", "env", "rotated", "dropkey">>

RotationSteps == {"movekey", "movegrant", "moveactive", "moveenv",
                  "key", "grant", "active", "env", "rotated", "dropkey"}

LEMMA RotationIs ==
  /\ Rotation \in Seq(RotationSteps) /\ DOMAIN Rotation = 1..10 /\ Len(Rotation) = 10
  /\ Rotation[1] = "movekey" /\ Rotation[2] = "movegrant" /\ Rotation[3] = "moveactive"
  /\ Rotation[4] = "moveenv" /\ Rotation[5] = "key" /\ Rotation[6] = "grant"
  /\ Rotation[7] = "active" /\ Rotation[8] = "env" /\ Rotation[9] = "rotated"
  /\ Rotation[10] = "dropkey"
<1>1. Rotation \in Seq(RotationSteps)
  BY DEF Rotation, RotationSteps
<1>2. Len(Rotation) = 10
  BY DEF Rotation
<1>3. DOMAIN Rotation = 1..10
  BY <1>1, <1>2, LenProperties
<1>4. /\ Rotation[1] = "movekey" /\ Rotation[2] = "movegrant" /\ Rotation[3] = "moveactive"
      /\ Rotation[4] = "moveenv" /\ Rotation[5] = "key" /\ Rotation[6] = "grant"
      /\ Rotation[7] = "active" /\ Rotation[8] = "env" /\ Rotation[9] = "rotated"
      /\ Rotation[10] = "dropkey"
  BY DEF Rotation
<1> QED BY <1>1, <1>2, <1>3, <1>4

LEMMA RotationPlanned ==
  ASSUME NEW was, NEW s, NEW k \in OwnKinds
  PROVE  Planned(Rotation, << >>, was, s, k)
<1>1. \A i \in DOMAIN Rotation : Rotation[i] = k =>
        \E j \in DOMAIN Rotation : j < i /\ Rotation[j] = MoveOf(k)
  BY RotationIs, MoveOfIs DEF OwnKinds
<1>2. \A i \in DOMAIN Rotation : Rotation[i] = MoveOf(k) =>
        \A j \in DOMAIN Rotation : j < i => Rotation[j] # k /\ Rotation[j] # MoveOf(k)
  BY RotationIs, MoveOfIs DEF OwnKinds
<1>3. ~Entry(<< >>, <<k, s>>)
  BY DEF Entry
<1> HIDE DEF Rotation
<1> QED BY <1>1, <1>2, <1>3 DEF Planned

LEMMA RotateSourceKeeps ==
  ASSUME Inv, NEW s \in Source, NEW sh \in Shape, RotateSource(s, sh)
  PROVE  Inv'
<1> DEFINE old == disk[GrantFile(s)]
           g == MakeGrant(s, nextKey, sh, old.by)
           c == Ceremony("rotate", s, Rotation, g, ActiveOrEmpty, TRUE)
<1>1. Exists(GrantFile(s)) /\ NewKey /\ Begin(c)
  BY DEF RotateSource, Rotation
<1>2. old \in Grant
  BY <1>1, Found DEF Exists
<1>3. old.by \in IssuerKey
  BY <1>2 DEF Grant
<1>4. g \in Grant /\ g.key = nextKey /\ g.source = s /\ g.key \in 1..MaxKeys
  BY <1>1, <1>3, Found, MakeGrantIs
<1> HIDE DEF g
<1>5. Begun(c, "rotate", s, Rotation, g, ActiveOrEmpty, TRUE)
  BY CeremonyIs
<1>6. Prepared(c)
  <2> HIDE DEF c
  <2>1. c.src = s /\ c.todo = Rotation /\ c.grant = g /\ c.guarded = TRUE
    BY <1>5 DEF Begun
  <2>2. \A k \in OwnKinds : Planned(c.todo, << >>, disk[<<k, c.src>>], c.src, k)
    BY <2>1, RotationPlanned
  <2>3. \A i \in DOMAIN Rotation : Rotation[i] = "dropkey" =>
           /\ i = Len(Rotation)
           /\ \E j \in DOMAIN Rotation : Rotation[j] = "key"
           /\ \E j \in DOMAIN Rotation : Rotation[j] = "grant"
    BY RotationIs
  <2>4. \A k : Can(c, k) \/ k \in {"trust", "issuer"}
    BY <1>2, <1>4, <1>5, Found DEF Begun, Can
  <2>5. \A i \in DOMAIN Rotation : Can(c, Rotation[i])
    BY <2>4, RotationIs
  <2> QED BY <1>4, <2>1, <2>2, <2>3, <2>5 DEF Prepared
<1>9. nextKey' \in {nextKey, nextKey + 1} /\ nextKey' =< MaxKeys + 1 /\ g.key < nextKey'
  BY <1>1, <1>4, Found
<1> QED BY <1>1, <1>6, <1>9, RotationIs, BeginKeeps

LEMMA CommandKeeps ==
  ASSUME Inv, Command
  PROVE  Inv'
BY BootstrapKeeps, AgentAddKeeps, RotateSourceKeeps, GrantIssueKeeps, RepairEnvKeeps, RevokeKeeps,
   AgentKeygenKeeps, BackfillKeeps, IssuerKeygenKeeps, TrustAddKeeps DEF Command

LEMMA CeremonyStepKeeps ==
  ASSUME Inv, CeremonyStep
  PROVE  Inv' /\ Shrinks
<1>1. Orderly /\ KeyNeverLost /\ Typed /\ KeysKnown
  BY DEF Inv
<1> SUFFICES Orderly' /\ KeyNeverLost' /\ Typed' /\ Shrinks
  <2>1. UNCHANGED nextKey
    BY DEF CeremonyStep, WriteFile, MoveAside, AppendLog, BackfillStep, Deactivate, DropOldKey,
           NothingToDo, Fails, Rollback, Killed
  <2> QED BY <1>1, <2>1, StaysKnown DEF Inv
<1>2. CASE WriteFile
  BY <1>1, <1>2, WriteFileKeeps, WriteFileTyped
<1>3. CASE MoveAside
  BY <1>1, <1>3, MoveAsideKeeps, MoveAsideTyped
<1>4. CASE AppendLog
  BY <1>1, <1>4, AppendLogKeeps, AppendLogTyped
<1>5. CASE BackfillStep
  <2>1. (op' = Idle \/ op' = op) /\ UNCHANGED <<disk, bak, usable>>
    BY <1>5 DEF BackfillStep, history
  <2> QED BY <1>1, <1>5, <2>1, EndKeeps, BackfillStepTyped
<1>6. CASE Deactivate
  BY <1>1, <1>6, DeactivateKeeps, DeactivateTyped
<1>7. CASE DropOldKey
  BY <1>1, <1>7, DropOldKeyKeeps, DropOldKeyTyped
<1>8. CASE NothingToDo
  <2>1. op' = Idle /\ UNCHANGED <<disk, bak, log, usable, now, nextKey, commands, writes, revived, faults, stranded>>
    BY <1>8 DEF NothingToDo, history, file
  <2>2. faults' \in 0..MaxFaults /\ stranded' \in BOOLEAN
    BY <1>1, <2>1 DEF Typed
  <2> QED BY <1>1, <2>1, <2>2, EndKeeps, EndTyped
<1>9. CASE Fails
  BY <1>1, <1>9, FailsKeeps, FailsTyped
<1>10. CASE Rollback
  BY <1>1, <1>10, RollbackKeeps, RollbackTyped
<1>11. CASE Killed
  <2>1. /\ op' = Idle /\ UNCHANGED <<disk, bak, log, usable, now, nextKey, commands, writes, revived>>
        /\ faults < MaxFaults /\ faults' = faults + 1 /\ stranded' = TRUE
    BY <1>11 DEF Killed, file
  <2>2. faults' \in 0..MaxFaults /\ stranded' \in BOOLEAN
    BY <1>1, <2>1, BundleAssumption DEF Typed
  <2> QED BY <1>1, <2>1, <2>2, EndKeeps, EndTyped
<1> QED BY <1>2, <1>3, <1>4, <1>5, <1>6, <1>7, <1>8, <1>9, <1>10, <1>11 DEF CeremonyStep

\* A writer and the clock touch no file.
LEMMA WriteKeeps ==
  ASSUME Inv, UNCHANGED <<disk, bak, log, op, nextKey, commands, faults, stranded, revived, usable>>,
         writes' \in 0..MaxWrites, now' = now \/ (now < MaxNow /\ now' = now + 1)
  PROVE  Inv'
<1>1. Orderly' /\ KeyNeverLost'
  BY EndKeeps DEF Inv
<1>2. KeysKnown'
  BY DEF Inv, KeysKnown
<1>3. PICK V : log \in Seq(Line(V, now)) /\ now \in Nat
  BY DEF Inv, Typed
<1>4. log' \in Seq(Line(V, now')) /\ now' \in 0..MaxNow
  BY <1>3, LogTick, BundleAssumption DEF Inv, Typed
<1>5. Typed'
  BY <1>4 DEF Inv, Typed
<1> QED BY <1>1, <1>2, <1>5 DEF Inv

LEMMA InvHolds == Spec => []Inv
<1>1. Init => Inv
  <2> SUFFICES ASSUME Init PROVE Inv
    OBVIOUS
  <2>1. disk \in [File -> {Absent}] /\ op = Idle /\ usable = {} /\ log = << >>
        /\ \A f \in File : disk[f] = Absent
    BY DEF Init
  <2>2. Orderly
    BY <2>1 DEF Orderly
  <2>3. KeyNeverLost
    BY <2>1 DEF KeyNeverLost
  <2>4. \A f \in File : Fits(f, disk[f])
    BY <2>1 DEF Fits
  <2>5. log \in Seq(Line({}, now))
    BY <2>1, EmptySeq
  <2>6. Typed
    <3>1. /\ now \in 0..MaxNow /\ nextKey \in 1..MaxKeys + 1 /\ commands \in 0..MaxCommands
          /\ faults \in 0..MaxFaults /\ writes \in 0..MaxWrites
      BY BundleAssumption DEF Init
    <3>2. stranded \in BOOLEAN /\ revived \subseteq Grant
      BY DEF Init
    <3> QED BY <2>1, <2>4, <2>5, <3>1, <3>2 DEF Typed
  <2>7. \A x \in Grant : ~Known(x, disk, op, log)
    <3>1. \A s \in Source : disk[GrantFile(s)] = Absent
      BY <2>1 DEF File
    <3> QED BY <2>1, <3>1, FilesAssumption DEF Known
  <2>8. KeysKnown
    BY <2>7 DEF KeysKnown, KeysBelow
  <2> QED BY <2>2, <2>3, <2>6, <2>8 DEF Inv
<1>2. Inv /\ [Next]_vars => Inv'
  <2> SUFFICES ASSUME Inv, [Next]_vars PROVE Inv'
    OBVIOUS
  <2>1. writes \in 0..MaxWrites
    BY DEF Inv, Typed
  <2>2. CASE Command
    BY <2>2, CommandKeeps
  <2>3. CASE CeremonyStep
    BY <2>3, CeremonyStepKeeps
  <2>4. CASE Write
    <3>1. /\ UNCHANGED <<disk, bak, log, op, nextKey, commands, faults, stranded, revived, usable, now>>
          /\ writes' = writes \/ (writes < MaxWrites /\ writes' = writes + 1)
      BY <2>4 DEF Write, Gate, Stamp, Attest, file, history
    <3>2. writes' \in 0..MaxWrites
      BY <2>1, <3>1, BundleAssumption
    <3> QED BY <3>1, <3>2, WriteKeeps
  <2>5. CASE Tick
    <3>1. /\ UNCHANGED <<disk, bak, log, op, nextKey, commands, faults, stranded, revived, usable, writes>>
          /\ now < MaxNow /\ now' = now + 1
      BY <2>5 DEF Tick, file, history
    <3> QED BY <2>1, <3>1, WriteKeeps
  <2>6. CASE UNCHANGED vars
    <3>1. UNCHANGED <<disk, bak, log, op, nextKey, commands, faults, stranded, revived, usable, writes, now>>
      BY <2>6 DEF vars
    <3> QED BY <2>1, <3>1, WriteKeeps
  <2> QED BY <2>2, <2>3, <2>4, <2>5, <2>6 DEF Next
<1> QED BY <1>1, <1>2, PTL DEF Spec

\* Every state of the bundle is well formed: keys, grants, registries and
\* history hold what their readers expect (identity/bundle.rs, records.rs).
THEOREM BundleIsTyped == Spec => []TypeOK
<1>1. Inv => TypeOK
  BY TypedIsTypeOK DEF Inv
<1> QED BY <1>1, InvHolds, PTL

\* rotate_source_bundle never loses a private key: whatever file operation of
\* whatever command fails or is cut off by a kill, a source that could write
\* still has a key with its grant, in place or among the backups.
THEOREM RotationKeepsTheKey == Spec => []KeyNeverLost
<1>1. Inv => KeyNeverLost
  BY DEF Inv
<1> QED BY <1>1, InvHolds, PTL

\* RotationRollback::drop and BootstrapRollback::drop: once the rollback has
\* run to its end, key, grant and env file of the source are what they were
\* when the command began.  The value for "no command" is no command.
THEOREM RollbackIsComplete ==
  ASSUME ~IsCeremony(Idle)
  PROVE  Spec => RollbackRestores
<1> DEFINE Restored == op # Idle /\ op.failed /\ op' = Idle /\ ~stranded'
                         => \A f \in {KeyFile(op.src), GrantFile(op.src), EnvFile(op.src)} :
                              disk'[f] = op.before[f]
<1>1. ASSUME Inv, [Next]_vars PROVE [Restored]_vars
  <2> SUFFICES ASSUME op # Idle, op.failed, op' = Idle, ~stranded',
                      NEW f \in {KeyFile(op.src), GrantFile(op.src), EnvFile(op.src)}
               PROVE  disk'[f] = op.before[f]
    OBVIOUS
  <2>1. Orderly /\ Underway(op, disk, bak, usable) /\ op.todo # << >> /\ f \in Own(op.src)
    BY <1>1 DEF Inv, Orderly, Underway, Own
  <2>2. CASE Rollback
    BY <2>1, <2>2, RollbackLands
  <2>3. CASE CeremonyStep /\ ~Rollback
    BY <2>1, <2>3 DEF CeremonyStep, WriteFile, MoveAside, AppendLog, BackfillStep, Deactivate,
                      DropOldKey, NothingToDo, Fails, Killed, Step
  <2>4. CASE Command
    <3>1. \A c : Begin(c) => op = Idle
      BY DEF Begin
    <3>2. ASSUME NEW s \in Source, NEW sh \in Shape
          PROVE  /\ ~Bootstrap(s, sh) /\ ~AgentAdd(s, sh) /\ ~RotateSource(s, sh)
                 /\ \A k, logged, inBundle : ~GrantIssue(s, k, sh, logged, inBundle)
      BY <3>1 DEF Bootstrap, AgentAdd, RotateSource, GrantIssue
    <3>3. ASSUME NEW s \in Source PROVE ~RepairEnv(s) /\ ~Revoke(s) /\ ~AgentKeygen(s)
      BY <3>1 DEF RepairEnv, Revoke, AgentKeygen
    <3>4. ~BackfillGrantLog /\ ~IssuerKeygen /\ \A k \in IssuerKey : ~TrustAdd(k)
      BY <3>1 DEF BackfillGrantLog, IssuerKeygen, TrustAdd
    <3> QED BY <2>4, <3>2, <3>3, <3>4 DEF Command
  <2>5. CASE Write \/ Tick \/ UNCHANGED vars
    BY <2>5 DEF Write, Gate, Stamp, Attest, Tick, vars
  <2> QED BY <1>1, <2>2, <2>3, <2>4, <2>5 DEF Next
<1>2. Inv /\ [Next]_vars => [Restored]_vars
  BY <1>1
<1>3. Spec => [][Restored]_vars
  BY <1>2, InvHolds, PTL DEF Spec
<1> QED BY <1>3 DEF RollbackRestores

-----------------------------------------------------------------------------
(* What the diagnostics promise.                                            *)

\* The grant of a source, as found on disk.
LEMMA GrantOnDisk ==
  ASSUME Inv, NEW s \in Source, Exists(GrantFile(s))
  PROVE  /\ disk[GrantFile(s)] \in Grant /\ disk[GrantFile(s)].source = s
         /\ disk[GrantFile(s)].max \in Nat /\ disk[GrantFile(s)].max # Absent
         /\ disk[GrantFile(s)].key # Absent /\ disk[GrantFile(s)].key \in Int
<1>1. disk[GrantFile(s)] \in Grant /\ disk[GrantFile(s)].source = s
  BY Found DEF Exists
<1> DEFINE g == disk[GrantFile(s)]
<1>2. g.key \in 1..MaxKeys /\ g.max \in {sh.max : sh \in Shape}
  BY <1>1 DEF Grant
<1>3. g.max \in Nat /\ g.max # Absent
  BY <1>2, BundleAssumption
<1> QED BY <1>1, <1>2, <1>3, FilesAssumption, BundleAssumption

\* The history excludes no write of a grant whose last word is an issuance.
LEMMA LastWordEntitles ==
  ASSUME Inv, NEW s \in Source, Exists(GrantFile(s)), NEW subject,
         LET g == disk[GrantFile(s)]
         IN  /\ IssuedAndNotRevoked(log, g) /\ ~Expired(g, now) /\ InScope(g, subject)
             /\ ~Reissued(log, g, now)
  PROVE  EntitlementAt(log, s, disk[GrantFile(s)].key, disk[GrantFile(s)].max, subject, now) # "unentitled"
<1> DEFINE g == disk[GrantFile(s)]
           about(i)  == /\ log[i].grant.source = s /\ log[i].grant.key = g.key
                        /\ log[i].at =< now
           issued(i) == about(i) /\ log[i].action = "issued"
           last(i)   == issued(i) /\ \A j \in i + 1..Len(log) : ~issued(j)
           ended(i)  == \E j \in i + 1..Len(log) :
                          about(j) /\ log[j].action = "revoked" /\ log[j].grant = log[i].grant
           covers(h) == ~Expired(h, now) /\ g.max =< h.max /\ InScope(h, subject)
<1>1. /\ g \in Grant /\ g.source = s /\ g.max \in Nat
  BY GrantOnDisk
<1>2. PICK V : log \in Seq(Line(V, now)) /\ now \in Nat
  BY DEF Inv, Typed
<1>3. /\ Len(log) \in Nat /\ DOMAIN log = 1..Len(log)
      /\ \A i \in 1..Len(log) : log[i].grant \in Grant /\ log[i].at =< now
  <2>1. /\ Len(log) \in Nat /\ DOMAIN log = 1..Len(log)
        /\ \A i \in 1..Len(log) : log[i] \in Line(V, now)
    BY <1>2, LenProperties
  <2> QED BY <1>2, <2>1 DEF Line
<1>4. PICK i \in 1..Len(log) :
        /\ log[i].action = "issued" /\ log[i].grant = g
        /\ \A j \in i + 1..Len(log) : ~(log[j].action = "revoked" /\ log[j].grant = g)
  BY DEF IssuedAndNotRevoked
<1>5. ASSUME NEW m \in 1..Len(log), last(m) PROVE log[m].grant = g
  BY <1>1, <1>5 DEF Reissued
<1> HIDE DEF g
<1>6. issued(i)
  BY <1>1, <1>3, <1>4
<1>7. ASSUME NEW m \in 1..Len(log), last(m) PROVE ~ended(m) /\ covers(log[m].grant)
  <2>1. log[m].grant = g
    BY <1>5, <1>7
  <2>2. i =< m
    <3> SUFFICES ASSUME ~(i =< m) PROVE FALSE
      OBVIOUS
    <3>1. i \in m + 1..Len(log)
      BY <1>3
    <3>2. \A j \in m + 1..Len(log) : ~issued(j)
      BY <1>7
    <3> QED BY <1>6, <3>1, <3>2
  <2>3. \A j \in m + 1..Len(log) : j \in i + 1..Len(log)
    BY <1>3, <2>2
  <2>4. ~ended(m)
    BY <1>4, <2>1, <2>3
  <2>5. covers(log[m].grant)
    BY <1>1, <2>1 DEF g
  <2> QED BY <2>4, <2>5
<1>8. EntitlementAt(log, s, g.key, g.max, subject, now) =
        IF ~\E m \in 1..Len(log) : last(m) THEN "unknown"
        ELSE IF \E m \in 1..Len(log) : last(m) /\ ~ended(m) /\ covers(log[m].grant)
             THEN "entitled" ELSE "unentitled"
  BY DEF EntitlementAt
<1> HIDE DEF last, ended, covers
<1>9. EntitlementAt(log, s, g.key, g.max, subject, now) # "unentitled"
  BY <1>7, <1>8
<1> QED BY <1>9 DEF g

LEMMA StatusPromises ==
  ASSUME Inv, NEW s \in Source, IdentityStatusOK(s), NEW subject, InScope(disk[GrantFile(s)], subject)
  PROVE  LET g == disk[GrantFile(s)]
         IN /\ EnforceWrite(s, "env", g.max, subject)
            /\ \/ CheckAttestation([source |-> s, key |-> g.key, authority |-> g.max,
                                     subject |-> subject, at |-> now]) # "unentitled"
               \/ Reissued(log, g, now)
<1> DEFINE g == disk[GrantFile(s)]
           e == [source |-> s, key |-> g.key, authority |-> g.max, subject |-> subject, at |-> now]
<1>1. /\ Exists(TrustFile) /\ Exists(GrantFile(s)) /\ VerifyGrant(g, now)
      /\ Exists(ActiveFile) /\ VerifyActiveGrant(g, disk[ActiveFile])
      /\ GrantLogStatus(g) /\ KeyMatchesGrant(s)
  BY DEF IdentityStatusOK
<1>2. g \in Grant /\ g.source = s /\ g.max \in Nat /\ g.key # Absent
  BY <1>1, GrantOnDisk
<1>3. EnforceWrite(s, "env", g.max, subject)
  BY <1>1, <1>2 DEF EnforceWrite, VerifyGrantMatchesWrite, VerifyActiveGrantIfConfigured, VerifyGrant
<1>4. log # << >> /\ ~Reissued(log, g, now) =>
        EntitlementAt(log, s, g.key, g.max, subject, now) # "unentitled"
  BY <1>1, LastWordEntitles DEF GrantLogStatus, VerifyGrant
<1>5. /\ e.source = s /\ e.key = g.key /\ e.authority = g.max /\ e.subject = subject /\ e.at = now
      /\ VerifyEventAttestation(e)
  BY <1>2 DEF VerifyEventAttestation
<1>6. GrantHistory = "none" <=> log = << >>
  BY DEF GrantHistory
<1> HIDE DEF e
<1>7. ASSUME ~Reissued(log, g, now) PROVE CheckAttestation(e) # "unentitled"
  <2>1. CASE GrantHistory = "none"
    BY <1>5, <2>1 DEF CheckAttestation
  <2>2. CASE GrantHistory = "error"
    BY <1>5, <2>2 DEF CheckAttestation
  <2>3. CASE GrantHistory # "none" /\ GrantHistory # "error"
    <3>1. CheckAttestation(e) = EntitlementAt(log, s, g.key, g.max, subject, now)
      BY <1>5, <2>3 DEF CheckAttestation
    <3> QED BY <1>4, <1>6, <1>7, <2>3, <3>1
  <2> QED BY <2>1, <2>2, <2>3
<1> QED BY <1>3, <1>7 DEF e

LEMMA DoctorPromises ==
  ASSUME Inv, NEW s \in Source, NEW mode \in Modes
  PROVE  LET g == disk[GrantFile(s)]
             doctor == DoctorStatus(s, mode)
         IN /\ Exists(GrantFile(s)) /\ doctor # "unconfigured" =>
                 \A subject \in Subject : InScope(g, subject) =>
                   (EnforceWrite(s, mode, g.max, subject) <=> doctor = "ok")
            /\ doctor = "ok" => ResolveWriteMeta(s, mode) = g.max
            /\ RuntimeIdentityStatus(s, mode) = "failed" =>
                 \A authority \in Authority, subject \in Subject :
                   ~EnforceWrite(s, mode, authority, subject)
<1> DEFINE g == disk[GrantFile(s)]
<1>1. ASSUME NEW subject, InScope(g, subject), Exists(GrantFile(s)), DoctorStatus(s, mode) = "ok"
      PROVE  EnforceWrite(s, mode, g.max, subject)
  <2>1. /\ DoctorTrust /\ DoctorGrant(s, mode) /\ DoctorActiveGrant(s, mode) /\ DoctorKey(s, mode)
    BY <1>1 DEF DoctorStatus
  <2>2. g.source = s /\ g.max \in Nat
    BY <1>1, GrantOnDisk
  <2> QED BY <1>1, <2>1, <2>2 DEF EnforceWrite, DoctorTrust, DoctorGrant, DoctorActiveGrant, DoctorKey,
            VerifyGrantMatchesWrite, VerifyGrant
<1>2. ASSUME NEW subject, DoctorStatus(s, mode) # "ok", DoctorStatus(s, mode) # "unconfigured"
      PROVE  ~EnforceWrite(s, mode, g.max, subject)
  <2>1. /\ Configured(mode)
        /\ ~(DoctorTrust /\ DoctorGrant(s, mode) /\ DoctorActiveGrant(s, mode) /\ DoctorKey(s, mode))
    BY <1>2 DEF DoctorStatus
  <2> QED BY <2>1 DEF EnforceWrite, DoctorTrust, DoctorGrant, DoctorActiveGrant, DoctorKey
<1>3. ASSUME RuntimeIdentityStatus(s, mode) = "failed", NEW authority, NEW subject
      PROVE  ~EnforceWrite(s, mode, authority, subject)
  <2>1. Configured(mode) /\ ResolveWriteMeta(s, mode) = Absent
    BY <1>3 DEF RuntimeIdentityStatus
  <2>2. ~(mode # "none" /\ Exists(GrantFile(s)))
    BY <2>1, GrantOnDisk DEF ResolveWriteMeta
  <2> QED BY <2>1, <2>2 DEF EnforceWrite
<1>4. DoctorStatus(s, mode) = "ok" => ResolveWriteMeta(s, mode) = g.max
  BY DEF DoctorStatus, DoctorGrant, ResolveWriteMeta
<1> QED BY <1>1, <1>2, <1>3, <1>4

\* A green `identity status`, `doctor` or runtime status keeps its promise in
\* every state the commands, their failures and the writers can lead to: the
\* gate lets the write through and verification will count it, unless the
\* history has issued another grant for the same key.
THEOREM GreenKeepsItsPromise == Spec => []GreenStatusIsTrue
<1>1. Inv => GreenStatusIsTrue
  <2> SUFFICES ASSUME Inv PROVE GreenStatusIsTrue
    OBVIOUS
  <2>1. \A s \in Source : IdentityStatusOK(s) =>
          LET g == disk[GrantFile(s)]
          IN \A subject \in Subject : InScope(g, subject) =>
               /\ EnforceWrite(s, "env", g.max, subject)
               /\ \/ CheckAttestation([source |-> s, key |-> g.key, authority |-> g.max,
                                        subject |-> subject, at |-> now]) # "unentitled"
                  \/ Reissued(log, g, now)
    BY StatusPromises
  <2>2. \A s \in Source, mode \in Modes :
          LET g == disk[GrantFile(s)]
              doctor == DoctorStatus(s, mode)
          IN /\ Exists(GrantFile(s)) /\ doctor # "unconfigured" =>
                  \A subject \in Subject : InScope(g, subject) =>
                    (EnforceWrite(s, mode, g.max, subject) <=> doctor = "ok")
             /\ doctor = "ok" => ResolveWriteMeta(s, mode) = g.max
             /\ RuntimeIdentityStatus(s, mode) = "failed" =>
                  \A authority \in Authority, subject \in Subject :
                    ~EnforceWrite(s, mode, authority, subject)
    BY DoctorPromises
  <2> QED BY <2>1, <2>2 DEF GreenStatusIsTrue
<1> QED BY <1>1, InvHolds, PTL

-----------------------------------------------------------------------------
(* What a command keeps of the history (ExclusionIsExplained).              *)

\* The last word of the history on this grant is a revocation.
Dead(l, g) ==
  \E i \in DOMAIN l :
    /\ l[i].action = "revoked" /\ l[i].grant = g
    /\ \A j \in DOMAIN l : j > i => ~(l[j].action = "issued" /\ l[j].grant = g)

NeverRevoked(l, g) == \A i \in DOMAIN l : l[i].grant = g => l[i].action = "issued"

\* A grant that is gone, was not revoked last, or was made current again.
Lasting(g, l, rv) == g = Absent \/ ~Dead(l, g) \/ g \in rv

\* The registry of current grants names no grant that was revoked last, unless a
\* repair made it current again; without a registry no grant was.
Sound(d, l, rv) ==
  IF d[ActiveFile] = Absent THEN \A x \in Grant : ~Dead(l, x)
  ELSE \A t \in Source : Lasting(d[ActiveFile][t], l, rv)

Granting == {"bootstrap", "agent_add", "rotate", "grant_issue"}
Guarding == {"bootstrap", "agent_add", "rotate"}
Unrelated == {"backfill", "keygen", "trust_add", "grant_issue"}

Has(todo, k) == \E i \in DOMAIN todo : todo[i] = k

\* Which command takes which step, and what is moved aside is written after.
Scripted(cmd, todo) ==
  /\ Has(todo, "grant") \/ Has(todo, "issued") => cmd \in Granting
  /\ Has(todo, "active") => cmd \in Guarding \cup {"repair"}
  /\ Has(todo, "revoked") \/ Has(todo, "deactivate") => cmd = "revoke"
  /\ Has(todo, "rotated") \/ Has(todo, "moveactive") => cmd = "rotate"
  /\ Has(todo, "backfill") => cmd = "backfill"
  /\ \A i \in DOMAIN todo :
       todo[i] = "moveactive" => \E j \in DOMAIN todo : j > i /\ todo[j] = "active"

\* The registry the command found.
Was(o) == IF o.before[ActiveFile] # Absent THEN o.before[ActiveFile] ELSE NoActive

\* What the command found, and what it is to leave behind.
Rooted(o, rv) ==
  /\ o.cmd \in Granting \cup Unrelated \cup {"repair", "revoke"}
  /\ o.guarded => o.cmd \in Guarding
  /\ o.failed => o.guarded
  /\ Sound(o.before, o.log, rv)
  /\ o.cmd \in Guarding \cup {"repair"} => o.reg = Was(o)
  /\ o.cmd \in Granting \cup {"repair", "revoke"} =>
       o.src \in Source /\ o.grant \in Grant /\ o.grant.source = o.src
  /\ o.cmd = "rotate" => /\ o.before[GrantFile(o.src)] \in Grant
                         /\ o.before[GrantFile(o.src)].source = o.src
                         /\ o.before[GrantFile(o.src)] # o.grant
  /\ o.cmd = "bootstrap" => o.before[ActiveFile] = Absent

\* The registry says of the other sources what it said before.
Agrees(o, d) ==
  /\ o.before[ActiveFile] # Absent => d[ActiveFile] # Absent
  /\ d[ActiveFile] # Absent => \A t \in Source : t # o.src => d[ActiveFile][t] = Was(o)[t]

\* The other sources keep their standing.
Elsewhere(o, d, l) ==
  /\ \A x \in Grant : Dead(l, x) => \/ Dead(o.log, x)
                                    \/ x.source = o.src /\ ~o.failed /\ o.cmd \in {"rotate", "revoke"}
  /\ ~o.failed => Has(o.todo, "active") \/ Agrees(o, d)
  /\ o.cmd \in Unrelated => d[ActiveFile] = o.before[ActiveFile]

\* The registry names the grant of the command.
Named(o, d) == d[ActiveFile] # Absent /\ d[ActiveFile][o.src] = o.grant

\* What the command has done for its own source so far.
Granted(o, d, l, rv) ==
  /\ o.cmd \in Guarding =>
       /\ NeverRevoked(l, o.grant)
       /\ ~o.failed => Has(o.todo, "active") \/ Named(o, d)
  /\ o.cmd = "repair" => Has(o.todo, "active") \/ (Named(o, d) /\ Lasting(o.grant, l, rv))
  /\ o.cmd = "revoke" =>
       Has(o.todo, "deactivate") \/ (d[ActiveFile] # Absent /\ d[ActiveFile][o.src] = Absent)

\* The registry can be put back, or need not be.
Reversible(o, d, b) ==
  o.guarded /\ o.before[ActiveFile] # Absent =>
    IF o.cmd = "rotate"
    THEN /\ Balanced(Ledger(o), d[ActiveFile], b, o.before[ActiveFile], ActiveFile)
         /\ ~o.failed => Planned(o.todo, o.undo, o.before[ActiveFile], AllSources, "active")
    ELSE /\ Agrees(o, d) /\ ~Entry(Ledger(o), ActiveFile)
         /\ d[ActiveFile][o.src] \in {Was(o)[o.src], o.grant}

Careful(o, d, b, l, rv) ==
  /\ ~o.failed => Scripted(o.cmd, o.todo)
  /\ Rooted(o, rv) /\ Elsewhere(o, d, l) /\ Granted(o, d, l, rv) /\ Reversible(o, d, b)

Restrained ==
  ~stranded => IF op = Idle THEN Sound(disk, log, revived)
               ELSE Careful(op, disk, bak, log, revived)


\* The steps left after one step.
LEMMA ScriptedOn ==
  ASSUME NEW cmd, NEW S, NEW todo \in Seq(S), todo # << >>, Scripted(cmd, todo)
  PROVE  /\ Scripted(cmd, Tail(todo)) /\ Has(todo, Head(todo))
         /\ \A k : Has(todo, k) <=> Has(Tail(todo), k) \/ Head(todo) = k
         /\ Head(todo) = "moveactive" => Has(Tail(todo), "active")
<1> DEFINE t == Tail(todo)
<1>1. /\ 1 \in DOMAIN todo /\ Head(todo) = todo[1]
      /\ \A i \in DOMAIN t : i + 1 \in DOMAIN todo /\ t[i] = todo[i + 1] /\ i \in Nat /\ i >= 1
      /\ \A i \in DOMAIN todo : i = 1 \/ (i - 1 \in DOMAIN t /\ t[i - 1] = todo[i])
  BY TailIs
<1>2. DOMAIN todo = 1..Len(todo) /\ Len(todo) \in Nat
  BY LenProperties
<1> HIDE DEF t
<1>3. ASSUME NEW k PROVE Has(todo, k) <=> Has(t, k) \/ Head(todo) = k
  BY <1>1 DEF Has
<1>4. Has(todo, Head(todo))
  BY <1>1 DEF Has
<1>5. ASSUME NEW i \in DOMAIN todo, NEW k, \E j \in DOMAIN todo : j > i /\ todo[j] = k
      PROVE  /\ i = 1 => Has(t, k)
             /\ i # 1 => \E j \in DOMAIN t : j > i - 1 /\ t[j] = k
  <2>1. PICK j \in DOMAIN todo : j > i /\ todo[j] = k
    BY <1>5
  <2>2. j - 1 \in DOMAIN t /\ t[j - 1] = k /\ j - 1 > i - 1
    BY <1>1, <1>2, <2>1
  <2> QED BY <2>2 DEF Has
<1>6. Head(todo) = "moveactive" => Has(t, "active")
  BY <1>1, <1>5 DEF Scripted
<1>7. ASSUME NEW i \in DOMAIN t, t[i] = "moveactive"
      PROVE  \E j \in DOMAIN t : j > i /\ t[j] = "active"
  <2>1. i + 1 \in DOMAIN todo /\ t[i] = todo[i + 1] /\ i \in Nat /\ i >= 1 /\ (i + 1) - 1 = i /\ i + 1 # 1
    BY <1>1
  <2>2. \E j \in DOMAIN todo : j > i + 1 /\ todo[j] = "active"
    BY <1>7, <2>1 DEF Scripted
  <2> QED BY <1>5, <2>1, <2>2
<1>8. Scripted(cmd, t)
  BY <1>3, <1>7 DEF Scripted
<1> QED BY <1>3, <1>4, <1>6, <1>8 DEF t

\* What one more line says of a grant.
LEMMA DeadAppend ==
  ASSUME NEW S, NEW l \in Seq(S), NEW action, NEW g, NEW at, NEW x, Dead(AppendOne(l, action, g, at), x)
  PROVE  Dead(l, x) \/ (action = "revoked" /\ x = g)
<1> DEFINE r == GrantRecord(action, g, at, LastHash(l))
           new == AppendOne(l, action, g, at)
<1>1. r.action = action /\ r.grant = g
  BY DEF GrantRecord
<1>2. new = Append(l, r) /\ l \in Seq(S \cup {r}) /\ r \in S \cup {r}
  BY SeqMonotonic DEF AppendOne
<1> HIDE DEF r, new
<1>3. /\ new \in Seq(S \cup {r}) /\ Len(new) = Len(l) + 1 /\ new[Len(l) + 1] = r
      /\ \A i \in 1..Len(l) : new[i] = l[i]
  BY <1>2, AppendProperties
<1>4. DOMAIN new = 1..Len(l) + 1 /\ DOMAIN l = 1..Len(l) /\ Len(l) \in Nat
  BY <1>3, LenProperties
<1>5. PICK i \in DOMAIN new :
        /\ new[i].action = "revoked" /\ new[i].grant = x
        /\ \A j \in DOMAIN new : j > i => ~(new[j].action = "issued" /\ new[j].grant = x)
  BY DEF Dead, new
<1>6. CASE i = Len(l) + 1
  BY <1>1, <1>3, <1>5, <1>6
<1>7. CASE i # Len(l) + 1
  <2>1. i \in DOMAIN l /\ new[i] = l[i] /\ \A j \in DOMAIN l : j \in DOMAIN new /\ new[j] = l[j]
    BY <1>3, <1>4, <1>7
  <2> QED BY <1>5, <2>1 DEF Dead
<1> QED BY <1>6, <1>7

\* A line about another grant, or an issuance.
LEMMA IssuedAppend ==
  ASSUME NEW S, NEW l \in Seq(S), NEW action, NEW g, NEW at, NEW x,
         NeverRevoked(l, x), action = "issued" \/ g # x
  PROVE  NeverRevoked(AppendOne(l, action, g, at), x)
<1> DEFINE r == GrantRecord(action, g, at, LastHash(l))
           new == AppendOne(l, action, g, at)
<1>1. r.action = action /\ r.grant = g
  BY DEF GrantRecord
<1>2. new = Append(l, r) /\ l \in Seq(S \cup {r}) /\ r \in S \cup {r}
  BY SeqMonotonic DEF AppendOne
<1> HIDE DEF r, new
<1>3. /\ new \in Seq(S \cup {r}) /\ Len(new) = Len(l) + 1 /\ new[Len(l) + 1] = r
      /\ \A i \in 1..Len(l) : new[i] = l[i]
  BY <1>2, AppendProperties
<1>4. DOMAIN new = 1..Len(l) + 1 /\ DOMAIN l = 1..Len(l) /\ Len(l) \in Nat
  BY <1>3, LenProperties
<1>5. NeverRevoked(new, x)
  BY <1>1, <1>3, <1>4 DEF NeverRevoked
<1> QED BY <1>5 DEF new

\* A grant keeps its standing when the history says no worse of it.
LEMMA StillLasting ==
  ASSUME NEW g, NEW l, NEW rv, NEW l2, NEW rv2, Lasting(g, l, rv), rv \subseteq rv2,
         Dead(l2, g) => Dead(l, g)
  PROVE  Lasting(g, l2, rv2)
BY DEF Lasting

\* A revoked grant is not the last word's issuance.
LEMMA DeadIsNotIssued ==
  ASSUME NEW S, NEW l \in Seq(S), NEW g, Dead(l, g)
  PROVE  ~IssuedAndNotRevoked(l, g) /\ \E i \in 1..Len(l) : l[i].grant = g
<1>1. DOMAIN l = 1..Len(l) /\ Len(l) \in Nat
  BY LenProperties
<1>2. PICK i \in 1..Len(l) :
        /\ l[i].action = "revoked" /\ l[i].grant = g
        /\ \A j \in 1..Len(l) : j > i => ~(l[j].action = "issued" /\ l[j].grant = g)
  BY <1>1 DEF Dead
<1>3. ASSUME NEW m \in 1..Len(l), l[m].action = "issued", l[m].grant = g,
             \A j \in m + 1..Len(l) : ~(l[j].action = "revoked" /\ l[j].grant = g)
      PROVE  FALSE
  <2>1. ~(m > i) /\ m # i
    BY <1>2, <1>3
  <2>2. i \in m + 1..Len(l)
    BY <1>1, <2>1
  <2> QED BY <1>2, <1>3, <2>2
<1> QED BY <1>2, <1>3 DEF IssuedAndNotRevoked

\* The same command, a step later.
Same(o, o2) ==
  /\ o2.cmd = o.cmd /\ o2.src = o.src /\ o2.grant = o.grant /\ o2.reg = o.reg
  /\ o2.guarded = o.guarded /\ o2.before = o.before /\ o2.log = o.log

\* What the command found stays what it found.
LEMMA RootedOn ==
  ASSUME NEW o, NEW o2, NEW rv, NEW rv2, Rooted(o, rv), Same(o, o2), rv \subseteq rv2,
         o2.failed => o2.guarded
  PROVE  Rooted(o2, rv2)
<1>1. Sound(o2.before, o2.log, rv2)
  BY DEF Rooted, Same, Sound, Lasting
<1>2. /\ o2.cmd \in Granting \cup Unrelated \cup {"repair", "revoke"}
      /\ o2.guarded => o2.cmd \in Guarding
      /\ o2.failed => o2.guarded
      /\ o2.cmd \in Guarding \cup {"repair"} =>
           o2.reg = Was(o2)
  BY DEF Rooted, Same, Was
<1>3. /\ o2.cmd \in Granting \cup {"repair", "revoke"} =>
           o2.src \in Source /\ o2.grant \in Grant /\ o2.grant.source = o2.src
      /\ o2.cmd = "rotate" => /\ o2.before[GrantFile(o2.src)] \in Grant
                              /\ o2.before[GrantFile(o2.src)].source = o2.src
                              /\ o2.before[GrantFile(o2.src)] # o2.grant
      /\ o2.cmd = "bootstrap" => o2.before[ActiveFile] = Absent
  BY DEF Rooted, Same
<1> QED BY <1>1, <1>2, <1>3 DEF Rooted

\* The registry as it was, and no grant that was revoked since.
LEMMA SoundOn ==
  ASSUME NEW d, NEW l, NEW rv, NEW d2, NEW l2, Sound(d, l, rv), Fits(ActiveFile, d2[ActiveFile]),
         d2[ActiveFile] = d[ActiveFile], \A x \in Grant : Dead(l2, x) => Dead(l, x)
  PROVE  Sound(d2, l2, rv)
<1>1. CASE d[ActiveFile] = Absent
  BY <1>1 DEF Sound
<1>2. CASE d[ActiveFile] # Absent
  <2>1. d[ActiveFile] \in [Source -> Grant \cup {Absent}]
    BY <1>2, FitsIs DEF Registry
  <2> QED BY <1>2, <2>1 DEF Sound, Lasting
<1> QED BY <1>1, <1>2

\* A command that ran to its end leaves no revoked grant current.
LEMMA Finished ==
  ASSUME NEW o, NEW d, NEW b, NEW l, NEW rv, Careful(o, d, b, l, rv), ~o.failed,
         ~Has(o.todo, "active"), ~Has(o.todo, "deactivate"), Fits(ActiveFile, d[ActiveFile])
  PROVE  Sound(d, l, rv)
<1>1. Rooted(o, rv) /\ Elsewhere(o, d, l) /\ Granted(o, d, l, rv)
  BY DEF Careful
<1>2. CASE o.cmd \in Unrelated
  <2>1. d[ActiveFile] = o.before[ActiveFile] /\ \A x \in Grant : Dead(l, x) => Dead(o.log, x)
    BY <1>1, <1>2 DEF Elsewhere, Unrelated
  <2>2. Sound(o.before, o.log, rv)
    BY <1>1 DEF Rooted
  <2> QED BY <2>1, <2>2, SoundOn
<1>3. CASE o.cmd \in Guarding \cup {"repair", "revoke"}
  <2>1. /\ o.src \in Source /\ Agrees(o, d) /\ d[ActiveFile] # Absent
        /\ Lasting(d[ActiveFile][o.src], l, rv)
    <3>1. o.src \in Source /\ Agrees(o, d)
      BY <1>1, <1>3 DEF Rooted, Elsewhere, Granting, Guarding
    <3>2. ASSUME o.cmd \in Guarding PROVE d[ActiveFile] # Absent /\ Lasting(d[ActiveFile][o.src], l, rv)
      <4>1. Named(o, d) /\ ~Dead(l, o.grant)
        BY <1>1, <3>2 DEF Granted, NeverRevoked, Dead
      <4> QED BY <4>1 DEF Named, Lasting
    <3>3. ASSUME o.cmd = "repair" PROVE d[ActiveFile] # Absent /\ Lasting(d[ActiveFile][o.src], l, rv)
      BY <1>1, <3>3 DEF Granted, Named
    <3>4. ASSUME o.cmd = "revoke" PROVE d[ActiveFile] # Absent /\ Lasting(d[ActiveFile][o.src], l, rv)
      BY <1>1, <3>4 DEF Granted, Lasting
    <3> QED BY <1>3, <3>1, <3>2, <3>3, <3>4
  <2>2. ASSUME NEW t \in Source, t # o.src PROVE Lasting(d[ActiveFile][t], l, rv)
    <3> DEFINE g == d[ActiveFile][t]
    <3>1. g = Was(o)[t]
      BY <2>1, <2>2 DEF Agrees
    <3>2. CASE g = Absent
      BY <3>2 DEF Lasting
    <3>3. CASE g # Absent
      <4>1. g \in Grant /\ g.source = t
        BY <2>1, <3>3, FitsIs DEF Registry
      <4>2. Dead(l, g) => Dead(o.log, g)
        BY <1>1, <2>2, <4>1 DEF Elsewhere
      <4>3. o.before[ActiveFile] # Absent /\ g = o.before[ActiveFile][t]
        BY <3>1, <3>3 DEF Was, NoActive
      <4>4. Lasting(g, o.log, rv)
        BY <1>1, <4>3 DEF Rooted, Sound
      <4> QED BY <4>2, <4>4 DEF Lasting
    <3> QED BY <3>2, <3>3
  <2> QED BY <2>1, <2>2 DEF Sound
<1>4. o.cmd \in Unrelated \/ o.cmd \in Guarding \cup {"repair", "revoke"}
  BY <1>1 DEF Rooted, Granting, Guarding, Unrelated
<1> QED BY <1>2, <1>3, <1>4

\* So does one that was rolled back to its end.
LEMMA RolledBack ==
  ASSUME NEW o, NEW d, NEW b, NEW l, NEW rv, Careful(o, d, b, l, rv), o.failed,
         o.todo = << >>, Fits(ActiveFile, d[ActiveFile])
  PROVE  Sound(d, l, rv)
<1>1. /\ Rooted(o, rv) /\ Elsewhere(o, d, l) /\ Granted(o, d, l, rv) /\ Reversible(o, d, b)
      /\ Ledger(o) = << >>
  BY DEF Careful, Ledger
<1>2. o.guarded /\ o.cmd \in Guarding /\ o.src \in Source /\ Sound(o.before, o.log, rv)
  BY <1>1 DEF Rooted, Granting, Guarding
<1>3. ~Entry(<< >>, ActiveFile)
  BY DEF Entry
<1>4. \A x \in Grant : Dead(l, x) => Dead(o.log, x)
  BY <1>1 DEF Elsewhere
<1>5. CASE o.before[ActiveFile] = Absent
  <2>1. \A x \in Grant : ~Dead(l, x)
    BY <1>2, <1>4, <1>5 DEF Sound
  <2>2. d[ActiveFile] # Absent => d[ActiveFile] \in [Source -> Grant \cup {Absent}]
    BY FitsIs DEF Registry
  <2> QED BY <2>1, <2>2 DEF Sound, Lasting
<1>6. CASE o.before[ActiveFile] # Absent /\ o.cmd = "rotate"
  <2>1. d[ActiveFile] = o.before[ActiveFile]
    BY <1>1, <1>2, <1>3, <1>6 DEF Reversible, Balanced
  <2> QED BY <1>2, <1>4, <2>1, SoundOn
<1>7. CASE o.before[ActiveFile] # Absent /\ o.cmd # "rotate"
  <2>1. Agrees(o, d) /\ d[ActiveFile] # Absent /\ d[ActiveFile][o.src] \in {Was(o)[o.src], o.grant}
    BY <1>1, <1>2, <1>7 DEF Reversible, Agrees
  <2>2. ASSUME NEW t \in Source PROVE Lasting(d[ActiveFile][t], l, rv)
    <3>1. d[ActiveFile][t] = o.before[ActiveFile][t] \/ d[ActiveFile][t] = o.grant
      BY <1>7, <2>1 DEF Agrees, Was
    <3>2. CASE d[ActiveFile][t] = o.grant
      <4>1. ~Dead(l, o.grant)
        BY <1>1, <1>2 DEF Granted, NeverRevoked, Dead
      <4> QED BY <3>2, <4>1 DEF Lasting
    <3>3. CASE d[ActiveFile][t] = o.before[ActiveFile][t]
      <4>1. d[ActiveFile][t] \in Grant \cup {Absent}
        BY <2>1, FitsIs DEF Registry
      <4>2. Lasting(o.before[ActiveFile][t], o.log, rv)
        BY <1>2, <1>7 DEF Sound
      <4> QED BY <1>4, <3>3, <4>1, <4>2 DEF Lasting
    <3> QED BY <3>1, <3>2, <3>3
  <2> QED BY <2>1, <2>2 DEF Sound
<1> QED BY <1>5, <1>6, <1>7

\* The command once its next step is done; u is what it records of it.
After(u) == [op EXCEPT !.todo = Tail(op.todo), !.undo = u \o op.undo]

\* The fields of the command after its step.
LEMMA AfterIs ==
  ASSUME Orderly, Step, NEW u
  PROVE  /\ IsCeremony(After(u)) /\ Same(op, After(u)) /\ After(u).failed = op.failed
         /\ After(u).todo = Tail(op.todo) /\ After(u).undo = u \o op.undo
         /\ ~op.failed /\ op.todo # << >> /\ op # Idle
         /\ Ledger(After(u)) = u \o op.undo /\ Ledger(op) = op.undo
<1>1. Underway(op, disk, bak, usable) /\ op.todo # << >> /\ ~op.failed /\ op # Idle
  BY DEF Orderly, Step
<1>2. PICK V : op \in [cmd : V, src : V, todo : V, grant : V, reg : V, undo : V, guarded : V,
                       before : V, log : V, failed : V]
  BY <1>1 DEF Underway, IsCeremony
<1> DEFINE W == V \cup {Tail(op.todo), u \o op.undo}
<1>3. After(u) \in [cmd : W, src : W, todo : W, grant : W, reg : W, undo : W, guarded : W,
                    before : W, log : W, failed : W]
  BY <1>2 DEF After
<1>4. IsCeremony(After(u))
  BY <1>3 DEF IsCeremony
<1>5. Same(op, After(u)) /\ After(u).failed = op.failed
  BY <1>2 DEF After, Same
<1>6. After(u).todo = Tail(op.todo) /\ After(u).undo = u \o op.undo
  BY <1>2 DEF After
<1> QED BY <1>1, <1>4, <1>5, <1>6 DEF Ledger

\* The registry on disk is one.
LEMMA OwnRegistry ==
  ASSUME NEW d, \A f \in File : Fits(f, d[f])
  PROVE  Fits(ActiveFile, d[ActiveFile])
BY DEF File

\* A step that leaves the command careful keeps the gate, also when it was the last.
LEMMA StepRestrained ==
  ASSUME Orderly, Typed', ~IsCeremony(Idle), Step, NEW u, Done(u),
         Careful(After(u), disk', bak', log', revived')
  PROVE  Restrained'
<1>1. IsCeremony(After(u)) /\ ~After(u).failed /\ After(u).todo = Tail(op.todo)
  BY AfterIs
<1>2. CASE Tail(op.todo) = << >>
  <2>1. op' = Idle
    BY <1>2 DEF Done
  <2>2. \A k : ~Has(After(u).todo, k)
    BY <1>1, <1>2 DEF Has
  <2>3. Fits(ActiveFile, disk'[ActiveFile])
    BY OwnRegistry DEF Typed
  <2>4. Sound(disk', log', revived')
    BY <1>1, <2>2, <2>3, Finished
  <2> QED BY <2>1, <2>4 DEF Restrained
<1>3. CASE Tail(op.todo) # << >>
  <2>1. op' = After(u)
    BY <1>3 DEF Done, After
  <2> QED BY <1>1, <2>1 DEF Restrained
<1> QED BY <1>2, <1>3

\* What a step may do to the rest of the bundle.
LEMMA ElsewhereOn ==
  ASSUME NEW o, NEW d, NEW l, NEW o2, NEW d2, NEW l2, Elsewhere(o, d, l), Same(o, o2),
         o2.failed = o.failed,
         \A x \in Grant : Dead(l2, x) =>
           Dead(l, x) \/ (x.source = o.src /\ ~o.failed /\ o.cmd \in {"rotate", "revoke"}),
         ~o.failed => Has(o2.todo, "active") \/ Agrees(o2, d2),
         o.cmd \in Unrelated => d2[ActiveFile] = d[ActiveFile]
  PROVE  Elsewhere(o2, d2, l2)
BY DEF Elsewhere, Same

\* A step that leaves the registry alone keeps what there is to put back.
LEMMA ReversibleOn ==
  ASSUME Orderly, Step, Reversible(op, disk, bak), NEW u, NEW e, NEW d, NEW b,
         Head(op.todo) \notin {"active", "moveactive"}, d[ActiveFile] = disk[ActiveFile],
         \/ u = << >> /\ \A v : <<ActiveFile, v>> \in bak => <<ActiveFile, v>> \in b
         \/ u = <<e>> /\ e[2] # ActiveFile /\ bak \subseteq b
         \/ ~op.guarded \/ op.before[ActiveFile] = Absent
  PROVE  Reversible(After(u), d, b)
<1> DEFINE o == After(u)
<1>1. /\ Same(op, o) /\ ~o.failed /\ ~op.failed /\ o.todo = Tail(op.todo) /\ o.undo = u \o op.undo
      /\ Ledger(o) = u \o op.undo /\ Ledger(op) = op.undo /\ op.todo # << >>
  BY AfterIs
<1> HIDE DEF o
<1>2. PICK S : op.todo \in Seq(S) /\ op.undo \in Seq(S)
  BY DEF Orderly, Underway, Step
<1> SUFFICES ASSUME op.guarded, op.before[ActiveFile] # Absent PROVE Reversible(o, d, b)
  BY <1>1 DEF Reversible, Same, o
<1>3. CASE u = << >> /\ \A v : <<ActiveFile, v>> \in bak => <<ActiveFile, v>> \in b
  <2>1. u \o op.undo = op.undo
    BY <1>2, <1>3, ConcatEmptySeq
  <2>2. CASE op.cmd = "rotate"
    <3>1. /\ Balanced(op.undo, disk[ActiveFile], bak, op.before[ActiveFile], ActiveFile)
          /\ Planned(op.todo, op.undo, op.before[ActiveFile], AllSources, "active")
      BY <1>1, <2>2 DEF Reversible
    <3>2. Balanced(op.undo, d[ActiveFile], b, op.before[ActiveFile], ActiveFile)
      BY <1>3, <3>1 DEF Balanced
    <3>3. Planned(Tail(op.todo), op.undo, op.before[ActiveFile], AllSources, "active")
      BY <1>1, <1>2, <3>1, PlanStep, MoveOfIs
    <3> QED BY <1>1, <2>1, <2>2, <3>2, <3>3 DEF Reversible, Same
  <2>3. CASE op.cmd # "rotate"
    BY <1>1, <2>1, <2>3 DEF Reversible, Same, Agrees, Was
  <2> QED BY <2>2, <2>3
<1>4. CASE u = <<e>> /\ e[2] # ActiveFile /\ bak \subseteq b
  <2>1. \A f : Entry(o.undo, f) <=> Entry(u, f) \/ Entry(op.undo, f)
    <3>1. u = << >> \/ u = <<e>>
      BY <1>4
    <3>2. o.undo = u \o op.undo /\ op.undo \in Seq(S)
      BY <1>1, <1>2
    <3>3. /\ \A f : Entry(o.undo, f) <=> Entry(u, f) \/ Entry(op.undo, f)
          /\ DrawnFrom(o.undo, u, op.undo) /\ o.undo \in Seq(S \cup {e})
      BY <3>1, <3>2, EntryOfPush
    <3> QED BY <3>3
  <2>2. ~Entry(u, ActiveFile)
    BY <1>4 DEF Entry
  <2>3. Entry(u \o op.undo, ActiveFile) <=> Entry(op.undo, ActiveFile)
    BY <1>1, <2>1, <2>2
  <2>4. CASE op.cmd = "rotate"
    <3>1. /\ Balanced(op.undo, disk[ActiveFile], bak, op.before[ActiveFile], ActiveFile)
          /\ Planned(op.todo, op.undo, op.before[ActiveFile], AllSources, "active")
      BY <1>1, <2>4 DEF Reversible
    <3>2. Balanced(u \o op.undo, d[ActiveFile], b, op.before[ActiveFile], ActiveFile)
      BY <1>2, <1>4, <3>1, PushOther
    <3>3. Planned(Tail(op.todo), u \o op.undo, op.before[ActiveFile], AllSources, "active")
      <4>1. ActiveFile = <<"active", AllSources>>
        BY DEF ActiveFile
      <4> QED BY <1>1, <1>2, <2>3, <3>1, <4>1, PlanStep, MoveOfIs
    <3> QED BY <1>1, <2>4, <3>2, <3>3 DEF Reversible, Same
  <2>5. CASE op.cmd # "rotate"
    BY <1>1, <2>3, <2>5 DEF Reversible, Same, Agrees, Was
  <2> QED BY <2>4, <2>5
<1> QED BY <1>3, <1>4

\* What is left of the steps of a ceremony at work.
LEMMA AtWork ==
  ASSUME Orderly, Step, Careful(op, disk, bak, log, revived)
  PROVE  /\ Scripted(op.cmd, op.todo) /\ Scripted(op.cmd, Tail(op.todo)) /\ Has(op.todo, Head(op.todo))
         /\ \A k : Has(op.todo, k) <=> Has(Tail(op.todo), k) \/ Head(op.todo) = k
         /\ Head(op.todo) = "moveactive" => Has(Tail(op.todo), "active")
         /\ Rooted(op, revived) /\ Elsewhere(op, disk, log)
         /\ Granted(op, disk, log, revived) /\ Reversible(op, disk, bak)
         /\ ~op.failed /\ op.todo # << >>
<1>1. ~op.failed /\ op.todo # << >> /\ Scripted(op.cmd, op.todo)
  BY DEF Careful, Step
<1>2. PICK S : op.todo \in Seq(S)
  BY DEF Orderly, Underway, Step
<1>3. /\ Scripted(op.cmd, Tail(op.todo)) /\ Has(op.todo, Head(op.todo))
      /\ \A k : Has(op.todo, k) <=> Has(Tail(op.todo), k) \/ Head(op.todo) = k
      /\ Head(op.todo) = "moveactive" => Has(Tail(op.todo), "active")
  BY <1>1, <1>2, ScriptedOn
<1> QED BY <1>1, <1>3 DEF Careful

\* A step that leaves the registry of current grants alone.
LEMMA QuietCareful ==
  ASSUME Orderly, Step, Careful(op, disk, bak, log, revived), NEW u, NEW e,
         Head(op.todo) \notin {"active", "moveactive", "deactivate"}, disk'[ActiveFile] = disk[ActiveFile],
         \/ u = << >> /\ \A v : <<ActiveFile, v>> \in bak => <<ActiveFile, v>> \in bak'
         \/ u = <<e>> /\ e[2] # ActiveFile /\ bak \subseteq bak'
         \/ ~op.guarded \/ op.before[ActiveFile] = Absent,
         op.cmd \in Guarding => NeverRevoked(log', op.grant),
         \A x \in Grant : Dead(log', x) =>
           Dead(log, x) \/ (x.source = op.src /\ op.cmd \in {"rotate", "revoke"}),
         revived' = revived
  PROVE  Careful(After(u), disk', bak', log', revived')
<1> DEFINE o == After(u)
<1>1. /\ Same(op, o) /\ ~o.failed /\ ~op.failed /\ o.failed = op.failed /\ o.todo = Tail(op.todo)
      /\ op.todo # << >>
  BY AfterIs
<1>2. Scripted(op.cmd, op.todo) /\ Rooted(op, revived) /\ Elsewhere(op, disk, log)
      /\ Granted(op, disk, log, revived) /\ Reversible(op, disk, bak)
  BY <1>1 DEF Careful
<1>4. /\ Scripted(op.cmd, o.todo)
      /\ \A k : Has(op.todo, k) <=> Has(o.todo, k) \/ Head(op.todo) = k
  BY <1>1, AtWork
<1>5. Reversible(o, disk', bak')
  BY <1>2, ReversibleOn
<1> HIDE DEF o
<1>6. Rooted(o, revived')
  BY <1>1, <1>2, RootedOn
<1>7. Elsewhere(o, disk', log')
  <2>1. Has(o.todo, "active") \/ Agrees(o, disk')
    <3>1. Has(op.todo, "active") \/ Agrees(op, disk)
      BY <1>1, <1>2 DEF Elsewhere
    <3> QED BY <1>1, <1>4, <3>1 DEF Agrees, Same, Was
  <2> QED BY <1>1, <1>2, <2>1, ElsewhereOn
<1>8. Granted(o, disk', log', revived')
  <2>1. ASSUME op.cmd = "repair"
        PROVE  Has(o.todo, "active") \/ (Named(op, disk') /\ Lasting(op.grant, log', revived'))
    <3>1. Has(op.todo, "active") \/ (Named(op, disk) /\ Lasting(op.grant, log, revived))
      BY <1>2, <2>1 DEF Granted
    <3>2. op.grant \in Grant
      BY <1>2, <2>1 DEF Rooted
    <3>3. Dead(log', op.grant) => Dead(log, op.grant)
      BY <2>1, <3>2
    <3> QED BY <1>4, <3>1, <3>3, StillLasting DEF Named
  <2>2. ASSUME op.cmd = "revoke"
        PROVE  Has(o.todo, "deactivate") \/ (disk'[ActiveFile] # Absent /\ disk'[ActiveFile][op.src] = Absent)
    BY <1>2, <1>4, <2>2 DEF Granted
  <2>3. ASSUME op.cmd \in Guarding PROVE Has(o.todo, "active") \/ Named(op, disk')
    BY <1>1, <1>2, <1>4, <2>3 DEF Granted, Named
  <2> QED BY <1>1, <2>1, <2>2, <2>3 DEF Granted, Same, Named
<1> QED BY <1>1, <1>4, <1>5, <1>6, <1>7, <1>8 DEF Careful, Same, o

\* One file other than the registry is written or moved aside.
LEMMA FileCareful ==
  ASSUME Orderly, Step, Careful(op, disk, bak, log, revived), NEW u, NEW e, u = << >> \/ u = <<e>>,
         NEW f, NEW v, e[2] = f, disk' = [disk EXCEPT ![f] = v], bak \subseteq bak',
         Head(op.todo) \notin {"active", "moveactive", "deactivate"}, f # ActiveFile,
         UNCHANGED <<log, revived>>
  PROVE  Careful(After(u), disk', bak', log', revived')
<1>1. disk'[ActiveFile] = disk[ActiveFile]
  BY DEF Orderly, File
<1>2. op.cmd \in Guarding => NeverRevoked(log', op.grant)
  BY AtWork DEF Granted
<1>3. \/ u = << >> /\ \A w : <<ActiveFile, w>> \in bak => <<ActiveFile, w>> \in bak'
      \/ u = <<e>> /\ e[2] # ActiveFile /\ bak \subseteq bak'
      \/ ~op.guarded \/ op.before[ActiveFile] = Absent
  OBVIOUS
<1>4. \A x \in Grant : Dead(log', x) =>
        Dead(log, x) \/ (x.source = op.src /\ op.cmd \in {"rotate", "revoke"})
  OBVIOUS
<1> QED BY <1>1, <1>2, <1>3, <1>4, QuietCareful

\* The head of the plan for the registry of a rotation.
LEMMA RegistryPlan ==
  ASSUME Orderly, Step, Careful(op, disk, bak, log, revived), op.guarded, op.cmd = "rotate",
         op.before[ActiveFile] # Absent
  PROVE  /\ Balanced(op.undo, disk[ActiveFile], bak, op.before[ActiveFile], ActiveFile)
         /\ Planned(op.todo, op.undo, op.before[ActiveFile], AllSources, "active")
         /\ Head(op.todo) = "active" => Entry(op.undo, ActiveFile)
         /\ Head(op.todo) = "moveactive" => ~Entry(op.undo, ActiveFile) /\ disk[ActiveFile] # Absent
<1>1. Reversible(op, disk, bak) /\ ~op.failed /\ op.todo # << >> /\ Ledger(op) = op.undo
  BY AtWork DEF Ledger
<1>2. /\ Balanced(op.undo, disk[ActiveFile], bak, op.before[ActiveFile], ActiveFile)
      /\ Planned(op.todo, op.undo, op.before[ActiveFile], AllSources, "active")
  BY <1>1 DEF Reversible
<1>3. PICK S : op.todo \in Seq(S)
  BY DEF Orderly, Underway, Step
<1>4. 1 \in DOMAIN op.todo /\ Head(op.todo) = op.todo[1] /\ \A j \in DOMAIN op.todo : ~(j < 1)
  BY <1>1, <1>3, TailIs, LenProperties
<1>5. ActiveFile = <<"active", AllSources>>
  BY DEF ActiveFile
<1>6. /\ Head(op.todo) = "active" => Entry(op.undo, ActiveFile)
      /\ Head(op.todo) = "moveactive" => ~Entry(op.undo, ActiveFile)
  BY <1>2, <1>4, <1>5, MoveOfIs DEF Planned
<1> QED BY <1>2, <1>6 DEF Balanced

\* The plan with the registry's turn done.
LEMMA RegistryPlanOn ==
  ASSUME Orderly, Step, NEW e, e[2] = ActiveFile, Head(op.todo) \in {"active", "moveactive"},
         Planned(op.todo, op.undo, op.before[ActiveFile], AllSources, "active"),
         NEW u, u = <<e>>, NEW n, n = u \o op.undo
  PROVE  Planned(Tail(op.todo), n, op.before[ActiveFile], AllSources, "active")
<1>1. PICK S : op.todo \in Seq(S) /\ op.undo \in Seq(S) /\ op.todo # << >>
  BY DEF Orderly, Underway, Step
<1>3. \A f : Entry(u, f) <=> e[2] = f
  BY DEF Entry
<1>4. /\ \A f : Entry(n, f) <=> Entry(u, f) \/ Entry(op.undo, f)
      /\ DrawnFrom(n, u, op.undo) /\ n \in Seq(S \cup {e})
  <2>1. u = << >> \/ u = <<e>>
    OBVIOUS
  <2>2. n = u \o op.undo /\ op.undo \in Seq(S)
    BY <1>1
  <2> QED BY <2>1, <2>2, EntryOfPush
<1>5. Entry(n, <<"active", AllSources>>)
  BY <1>3, <1>4 DEF ActiveFile
<1>6. Planned(Tail(op.todo), n, op.before[ActiveFile], AllSources, "active")
  BY <1>1, <1>5, PlanStep, MoveOfIs
<1> QED BY <1>6

\* The registry is written: it names the new grant, and of the other sources
\* what it named when the command began.
LEMMA ActiveCareful ==
  ASSUME Orderly, Typed, Step, Careful(op, disk, bak, log, revived), Head(op.todo) = "active",
         NEW u, u = IF ~(op.cmd = "agent_add" /\ disk[ActiveFile] # Absent)
                    THEN <<Remove(ActiveFile)>> ELSE << >>,
         disk' = [disk EXCEPT ![ActiveFile] = [op.reg EXCEPT ![op.src] = op.grant]],
         UNCHANGED <<bak, log>>, revived \subseteq revived',
         op.cmd = "repair" /\ Dead(log, op.grant) => op.grant \in revived'
  PROVE  Careful(After(u), disk', bak', log', revived')
<1> DEFINE o == After(u)
           e == Remove(ActiveFile)
<1>1. /\ Same(op, o) /\ ~o.failed /\ ~op.failed /\ o.failed = op.failed /\ o.todo = Tail(op.todo)
      /\ o.undo = u \o op.undo /\ Ledger(o) = u \o op.undo /\ Ledger(op) = op.undo /\ op.todo # << >>
  BY AfterIs
<1>2. Scripted(op.cmd, op.todo) /\ Rooted(op, revived) /\ Elsewhere(op, disk, log)
      /\ Granted(op, disk, log, revived) /\ Reversible(op, disk, bak) /\ Has(op.todo, "active")
  BY AtWork
<1>3. /\ Scripted(op.cmd, o.todo)
      /\ \A k : Has(op.todo, k) <=> Has(o.todo, k) \/ Head(op.todo) = k
  BY <1>1, AtWork
<1> HIDE DEF o
<1>4. op.cmd \in Guarding \cup {"repair"}
  BY <1>2 DEF Scripted
<1>5. op.reg \in [Source -> Grant \cup {Absent}] /\ op.src \in Source /\ op.grant \in Grant
  BY CanHead DEF Can, Registry
<1>6. /\ disk'[ActiveFile] # Absent
      /\ \A t \in Source : t # op.src => disk'[ActiveFile][t] = op.reg[t]
      /\ disk'[ActiveFile][op.src] = op.grant
  <2>1. DOMAIN disk = File /\ ActiveFile \in File
    BY DEF Orderly, File
  <2>2. disk'[ActiveFile] = [op.reg EXCEPT ![op.src] = op.grant]
    BY <2>1
  <2>3. disk'[ActiveFile] \in [Source -> Grant \cup {Absent}]
    BY <1>5, <2>2
  <2> QED BY <1>5, <2>2, <2>3, RegistryAssumption
<1>7. Agrees(o, disk')
  <2>1. op.reg = Was(op)
    BY <1>2, <1>4 DEF Rooted
  <2> QED BY <1>1, <1>6, <2>1 DEF Agrees, Same, Was
<1>8. Rooted(o, revived')
  BY <1>1, <1>2, RootedOn
<1>9. Elsewhere(o, disk', log')
  <2>1. op.cmd \notin Unrelated
    BY <1>4 DEF Unrelated, Guarding
  <2> QED BY <1>1, <1>2, <1>6, <1>7, <2>1, ElsewhereOn
<1>10. Granted(o, disk', log', revived')
  <2>1. op.cmd = "repair" => Lasting(op.grant, log', revived')
    BY DEF Lasting
  <2>2. op.cmd # "revoke"
    BY <1>4 DEF Guarding
  <2>3. op.cmd \in Guarding => NeverRevoked(log', op.grant)
    BY <1>2 DEF Granted
  <2>4. Named(o, disk')
    BY <1>1, <1>6 DEF Named, Same
  <2> QED BY <1>1, <2>1, <2>2, <2>3, <2>4 DEF Granted, Same
<1>11. Reversible(o, disk', bak')
  <2> SUFFICES ASSUME op.guarded, op.before[ActiveFile] # Absent PROVE Reversible(o, disk', bak')
    BY <1>1 DEF Reversible, Same
  <2>1. PICK S : op.undo \in Seq(S)
    BY DEF Orderly, Underway, Step
  <2>2. CASE op.cmd = "rotate"
    <3>1. /\ Balanced(op.undo, disk[ActiveFile], bak, op.before[ActiveFile], ActiveFile)
          /\ Planned(op.todo, op.undo, op.before[ActiveFile], AllSources, "active")
          /\ Entry(op.undo, ActiveFile)
      BY <2>2, RegistryPlan
    <3>2. u = <<e>> /\ e[2] = ActiveFile
      BY <2>2 DEF Remove
    <3>3. Balanced(u \o op.undo, disk'[ActiveFile], bak', op.before[ActiveFile], ActiveFile)
      <4>1. Balanced(<<Remove(ActiveFile)>> \o op.undo, disk'[ActiveFile], bak,
                     op.before[ActiveFile], ActiveFile)
        BY <2>1, <3>1, PushRemove
      <4> QED BY <3>2, <4>1
    <3> HIDE DEF e
    <3>4. Planned(Tail(op.todo), u \o op.undo, op.before[ActiveFile], AllSources, "active")
      BY <3>1, <3>2, RegistryPlanOn
    <3> QED BY <1>1, <2>2, <3>3, <3>4 DEF Reversible, Same
  <2>3. CASE op.cmd # "rotate"
    <3>1. op.cmd = "agent_add"
      BY <1>2, <2>3 DEF Rooted, Guarding
    <3>2. Agrees(op, disk) /\ ~Entry(op.undo, ActiveFile)
      BY <1>1, <1>2, <2>3 DEF Reversible
    <3>3. u = << >>
      BY <3>1, <3>2 DEF Agrees
    <3>4. u \o op.undo = op.undo
      BY <2>1, <3>3, ConcatEmptySeq
    <3>5. disk'[ActiveFile][o.src] = o.grant
      BY <1>1, <1>6 DEF Same
    <3> QED BY <1>1, <1>7, <2>3, <3>2, <3>4, <3>5 DEF Reversible, Same
  <2> QED BY <2>2, <2>3
<1> QED BY <1>1, <1>3, <1>8, <1>9, <1>10, <1>11 DEF Careful, Same, o

\* The registry is moved aside: it is to be written again.
LEMMA AsideCareful ==
  ASSUME Orderly, Typed, Step, Careful(op, disk, bak, log, revived), Head(op.todo) = "moveactive",
         NEW u, u = IF disk[ActiveFile] # Absent THEN <<Restore(ActiveFile, disk[ActiveFile])>> ELSE << >>,
         disk' = [disk EXCEPT ![ActiveFile] = Absent],
         bak' = IF disk[ActiveFile] # Absent THEN bak \cup {<<ActiveFile, disk[ActiveFile]>>} ELSE bak,
         UNCHANGED <<log, revived>>
  PROVE  Careful(After(u), disk', bak', log', revived')
<1> DEFINE o == After(u)
           e == Restore(ActiveFile, disk[ActiveFile])
<1>1. /\ Same(op, o) /\ ~o.failed /\ ~op.failed /\ o.failed = op.failed /\ o.todo = Tail(op.todo)
      /\ o.undo = u \o op.undo /\ Ledger(o) = u \o op.undo /\ Ledger(op) = op.undo /\ op.todo # << >>
  BY AfterIs
<1>2. Scripted(op.cmd, op.todo) /\ Rooted(op, revived) /\ Elsewhere(op, disk, log)
      /\ Granted(op, disk, log, revived) /\ Reversible(op, disk, bak) /\ Has(op.todo, "moveactive")
  BY AtWork
<1>3. /\ Scripted(op.cmd, o.todo) /\ Has(o.todo, "active")
      /\ \A k : Has(op.todo, k) <=> Has(o.todo, k) \/ Head(op.todo) = k
  BY <1>1, AtWork
<1> HIDE DEF o
<1>4. op.cmd = "rotate"
  BY <1>2 DEF Scripted
<1>8. Rooted(o, revived')
  BY <1>1, <1>2, RootedOn
<1>9. Elsewhere(o, disk', log')
  <2>1. op.cmd \notin Unrelated
    BY <1>4 DEF Unrelated
  <2> QED BY <1>1, <1>2, <1>3, <2>1, ElsewhereOn
<1>10. Granted(o, disk', log', revived')
  BY <1>1, <1>2, <1>3, <1>4 DEF Granted, Same
<1>11. Reversible(o, disk', bak')
  <2> SUFFICES ASSUME op.guarded, op.before[ActiveFile] # Absent PROVE Reversible(o, disk', bak')
    BY <1>1 DEF Reversible, Same
  <2>1. PICK S : op.undo \in Seq(S)
    BY DEF Orderly, Underway, Step
  <2>2. /\ Balanced(op.undo, disk[ActiveFile], bak, op.before[ActiveFile], ActiveFile)
        /\ Planned(op.todo, op.undo, op.before[ActiveFile], AllSources, "active")
        /\ ~Entry(op.undo, ActiveFile) /\ disk[ActiveFile] # Absent
    BY <1>4, RegistryPlan
  <2>3. /\ u = <<e>> /\ e[2] = ActiveFile /\ bak' = bak \cup {<<ActiveFile, disk[ActiveFile]>>}
    BY <2>2 DEF Restore
  <2>4. Balanced(u \o op.undo, disk'[ActiveFile], bak', op.before[ActiveFile], ActiveFile)
    <3>1. Balanced(<<Restore(ActiveFile, disk[ActiveFile])>> \o op.undo, disk'[ActiveFile],
                   bak \cup {<<ActiveFile, disk[ActiveFile]>>}, op.before[ActiveFile], ActiveFile)
      BY <2>1, <2>2, PushRestore
    <3> QED BY <2>3, <3>1
  <2> HIDE DEF e
  <2>5. Planned(Tail(op.todo), u \o op.undo, op.before[ActiveFile], AllSources, "active")
    BY <2>2, <2>3, RegistryPlanOn
  <2> QED BY <1>1, <1>4, <2>4, <2>5 DEF Reversible, Same
<1> QED BY <1>1, <1>3, <1>8, <1>9, <1>10, <1>11 DEF Careful, Same, o

\* The registry is read again and the source taken out of it.
LEMMA DeactivateCareful ==
  ASSUME Orderly, Typed, Careful(op, disk, bak, log, revived), Deactivate
  PROVE  Careful(After(<< >>), disk', bak', log', revived')
<1> DEFINE o == After(<< >>)
           v == [ActiveOrEmpty EXCEPT ![op.src] = Absent]
<1>a. /\ Step /\ Head(op.todo) = "deactivate" /\ UNCHANGED <<bak, log, revived>>
      /\ disk' = [disk EXCEPT ![ActiveFile] = v]
  BY DEF Deactivate, history
<1>1. Same(op, o) /\ ~o.failed /\ ~op.failed /\ o.failed = op.failed /\ o.todo = Tail(op.todo)
  BY <1>a, AfterIs
<1>2. Scripted(op.cmd, op.todo) /\ Rooted(op, revived) /\ Elsewhere(op, disk, log)
      /\ Granted(op, disk, log, revived) /\ Reversible(op, disk, bak) /\ Has(op.todo, "deactivate")
  BY <1>a, AtWork
<1>3. Scripted(op.cmd, o.todo)
  BY <1>a, <1>1, AtWork
<1> HIDE DEF o
<1>4. op.cmd = "revoke" /\ ~Has(op.todo, "active")
  BY <1>2 DEF Scripted, Guarding
<1>5. op.src \in Source /\ ActiveOrEmpty \in [Source -> Grant \cup {Absent}]
  <2>1. Fits(ActiveFile, disk[ActiveFile])
    BY DEF Typed, File
  <2> QED BY <1>2, <1>4, <2>1, FitsIs DEF Rooted, ActiveOrEmpty, NoActive, Exists, Registry
<1>6. /\ disk'[ActiveFile] # Absent /\ disk'[ActiveFile][op.src] = Absent
      /\ \A t \in Source : t # op.src => disk'[ActiveFile][t] = ActiveOrEmpty[t]
  <2>1. DOMAIN disk = File /\ ActiveFile \in File
    BY DEF Orderly, File
  <2>2. disk'[ActiveFile] = v
    BY <1>a, <2>1
  <2>3. v \in [Source -> Grant \cup {Absent}] /\ v[op.src] = Absent
        /\ \A t \in Source : t # op.src => v[t] = ActiveOrEmpty[t]
    BY <1>5
  <2> HIDE DEF v
  <2> QED BY <2>2, <2>3, RegistryAssumption
<1> HIDE DEF v
<1>7. Agrees(o, disk')
  <2>1. \A t \in Source : t # op.src => ActiveOrEmpty[t] = Was(op)[t]
    BY <1>1, <1>2, <1>4 DEF Elsewhere, Agrees, ActiveOrEmpty, Exists, Was
  <2> QED BY <1>1, <1>6, <2>1 DEF Agrees, Same, Was
<1>8. Rooted(o, revived')
  BY <1>a, <1>1, <1>2, RootedOn
<1>9. Elsewhere(o, disk', log')
  <2>1. op.cmd \notin Unrelated
    BY <1>4 DEF Unrelated
  <2> QED BY <1>a, <1>1, <1>2, <1>6, <1>7, <2>1, ElsewhereOn
<1>10. Granted(o, disk', log', revived')
  BY <1>1, <1>4, <1>6 DEF Granted, Same, Guarding
<1>11. Reversible(o, disk', bak')
  BY <1>1, <1>2, <1>4 DEF Reversible, Same, Rooted, Guarding
<1> QED BY <1>1, <1>3, <1>8, <1>9, <1>10, <1>11 DEF Careful, Same, o

\* The history gets a line about the grant of the command, or a rotation its two.
LEMMA AppendLogCareful ==
  ASSUME Orderly, Typed, Careful(op, disk, bak, log, revived), AppendLog,
         NEW u, u = IF op.cmd = "bootstrap" /\ log = <<>>
                    THEN <<<<"removelog", ActiveFile, Absent>>>> ELSE <<>>
  PROVE  Careful(After(u), disk', bak', log', revived')
<1> DEFINE step == Head(op.todo)
           old == op.before[GrantFile(op.src)]
<1>a. /\ Step /\ step \in {"issued", "revoked", "rotated"} /\ UNCHANGED <<disk, bak, revived>>
      /\ log' = CASE step = "rotated" -> AppendPair(log, old, op.grant, now)
                  [] OTHER -> AppendOne(log, step, op.grant, now)
  BY DEF AppendLog, history
<1>1. /\ Scripted(op.cmd, op.todo) /\ Rooted(op, revived) /\ Has(op.todo, step)
      /\ Granted(op, disk, log, revived) /\ ~op.failed
      /\ \A k : Has(op.todo, k) <=> Has(Tail(op.todo), k) \/ step = k
  BY <1>a, AtWork
<1> HIDE DEF step
<1>2. /\ step = "issued" => op.cmd \in Granting
      /\ step = "revoked" => op.cmd = "revoke"
      /\ step = "rotated" => op.cmd = "rotate"
  BY <1>1 DEF Scripted
<1>3. op.grant \in Grant /\ op.grant.source = op.src /\ op.src \in Source
      /\ (step = "rotated" => old \in Grant /\ old.source = op.src /\ old # op.grant)
  BY <1>a, <1>1, <1>2 DEF Rooted, Granting
<1> HIDE DEF old
<1>4. PICK V : log \in Seq(Line(V, now)) /\ now \in Nat
  BY DEF Typed
<1> DEFINE l == AppendOne(log, "revoked", old, now)
<1>5. step = "rotated" => \E W : l \in Seq(Line(W, now))
  BY <1>3, <1>4, AppendOneIs
<1>6. step = "rotated" => log' = AppendOne(l, "issued", op.grant, now)
  BY <1>a DEF AppendPair, old
<1>7. step # "rotated" => log' = AppendOne(log, step, op.grant, now)
  BY <1>a
<1>8. ASSUME NEW x \in Grant, Dead(log', x)
      PROVE  Dead(log, x) \/ (x.source = op.src /\ op.cmd \in {"rotate", "revoke"})
  <2>1. CASE step = "rotated"
    <3>1. PICK W : l \in Seq(Line(W, now))
      BY <1>5, <2>1
    <3>2. Dead(AppendOne(l, "issued", op.grant, now), x)
      BY <1>6, <1>8, <2>1
    <3> HIDE DEF l
    <3>3. Dead(l, x)
      BY <3>1, <3>2, DeadAppend
    <3>4. Dead(log, x) \/ x = old
      BY <1>4, <3>3, DeadAppend DEF l
    <3> QED BY <1>2, <1>3, <2>1, <3>4
  <2>2. CASE step # "rotated"
    <3>1. Dead(AppendOne(log, step, op.grant, now), x)
      BY <1>7, <1>8, <2>2
    <3>2. Dead(log, x) \/ (step = "revoked" /\ x = op.grant)
      BY <1>4, <3>1, DeadAppend
    <3> QED BY <1>2, <1>3, <3>2
  <2> QED BY <2>1, <2>2
<1>9. ASSUME op.cmd \in Guarding
      PROVE  NeverRevoked(log', op.grant)
  <2>1. NeverRevoked(log, op.grant)
    BY <1>1, <1>9 DEF Granted
  <2>2. CASE step = "rotated"
    <3>1. PICK W : l \in Seq(Line(W, now))
      BY <1>5, <2>2
    <3>2. NeverRevoked(l, op.grant)
      BY <1>3, <1>4, <2>1, <2>2, IssuedAppend
    <3> HIDE DEF l
    <3>3. log' = AppendOne(l, "issued", op.grant, now)
      BY <1>6, <2>2
    <3> QED BY <3>1, <3>2, <3>3, IssuedAppend
  <2>3. CASE step = "issued"
    <3>1. log' = AppendOne(log, "issued", op.grant, now)
      BY <1>7, <2>3
    <3> QED BY <1>4, <2>1, <3>1, IssuedAppend
  <2>4. step # "revoked"
    BY <1>2, <1>9 DEF Guarding
  <2> QED BY <1>a, <2>2, <2>3, <2>4
<1>11. \/ u = << >> /\ \A v : <<ActiveFile, v>> \in bak => <<ActiveFile, v>> \in bak'
       \/ ~op.guarded \/ op.before[ActiveFile] = Absent
  BY <1>a, <1>1 DEF Rooted
<1>12. Head(op.todo) \notin {"active", "moveactive", "deactivate"}
  BY <1>a DEF step
<1>13. disk'[ActiveFile] = disk[ActiveFile] /\ revived' = revived
  BY <1>a
<1> QED BY <1>a, <1>8, <1>9, <1>11, <1>12, <1>13, QuietCareful

\* One step of a command that nothing has cut off.
LEMMA WriteFileCareful ==
  ASSUME Orderly, Typed, Careful(op, disk, bak, log, revived), WriteFile
  PROVE  \E u : Done(u) /\ Careful(After(u), disk', bak', log', revived')
<1> DEFINE step == Head(op.todo)
           f == KindFile(step)
           v == Contents(step)
           e == Remove(f)
           u == IF ~(op.cmd = "agent_add" /\ step = "active" /\ Exists(ActiveFile)) THEN <<e>> ELSE << >>
<1>1. /\ Step /\ step \in {"key", "grant", "env", "active", "trust", "issuer"}
      /\ disk' = [disk EXCEPT ![f] = v] /\ Done(u) /\ UNCHANGED <<bak, log>>
      /\ revived' = IF step = "active" /\ op.cmd = "repair"
                         /\ ~IssuedAndNotRevoked(log, op.grant)
                         /\ \E i \in 1..Len(log) : log[i].grant = op.grant
                    THEN revived \cup {op.grant} ELSE revived
  BY DEF WriteFile, Remove
<1>2. CASE step = "active"
  <2>1. f = ActiveFile /\ v = [op.reg EXCEPT ![op.src] = op.grant]
    BY <1>2, KindFileIs, ContentsIs
  <2>2. u = IF ~(op.cmd = "agent_add" /\ disk[ActiveFile] # Absent) THEN <<Remove(ActiveFile)>> ELSE << >>
    BY <1>2, <2>1 DEF Exists
  <2>3. op.cmd = "repair" /\ Dead(log, op.grant) => op.grant \in revived'
    <3>1. PICK V : log \in Seq(Line(V, now))
      BY DEF Typed
    <3>2. Dead(log, op.grant) =>
            ~IssuedAndNotRevoked(log, op.grant) /\ \E i \in 1..Len(log) : log[i].grant = op.grant
      BY <3>1, DeadIsNotIssued
    <3> QED BY <1>1, <1>2, <3>2
  <2>4. revived \subseteq revived'
    BY <1>1
  <2>5. disk' = [disk EXCEPT ![ActiveFile] = [op.reg EXCEPT ![op.src] = op.grant]] /\ step = "active"
    BY <1>1, <1>2, <2>1
  <2> HIDE DEF f, v, e, u
  <2>6. Careful(After(u), disk', bak', log', revived')
    BY <1>1, <2>2, <2>3, <2>4, <2>5, ActiveCareful
  <2> QED BY <1>1, <2>6
<1>3. CASE step # "active"
  <2>1. u = <<e>> /\ e[2] = f
    BY <1>3 DEF Remove
  <2>2. revived' = revived
    BY <1>1, <1>3
  <2>4. f # ActiveFile
    <3>1. CASE step = "key"
      BY <3>1, KindFileIs DEF KeyFile, ActiveFile
    <3>2. CASE step = "grant"
      BY <3>2, KindFileIs DEF GrantFile, ActiveFile
    <3>3. CASE step = "env"
      BY <3>3, KindFileIs DEF EnvFile, ActiveFile
    <3>4. CASE step = "trust"
      BY <3>4, KindFileIs DEF TrustFile, ActiveFile
    <3>5. CASE step = "issuer"
      BY <3>5, KindFileIs DEF IssuerFile, ActiveFile
    <3> QED BY <1>1, <1>3, <3>1, <3>2, <3>3, <3>4, <3>5
  <2>6. Head(op.todo) \notin {"active", "moveactive", "deactivate"}
    BY <1>1, <1>3
  <2>7. UNCHANGED <<log, revived>> /\ bak \subseteq bak'
    BY <1>1, <2>2
  <2> HIDE DEF f, v, e, u, step
  <2>8. Careful(After(u), disk', bak', log', revived')
    BY <1>1, <2>1, <2>4, <2>6, <2>7, FileCareful
  <2> QED BY <1>1, <2>8
<1> QED BY <1>2, <1>3

\* MoveAside: the registry is written again later on.
LEMMA MoveAsideCareful ==
  ASSUME Orderly, Typed, Careful(op, disk, bak, log, revived), MoveAside
  PROVE  \E u : Done(u) /\ Careful(After(u), disk', bak', log', revived')
<1> DEFINE step == Head(op.todo)
           f == KindFile(step)
           e == Restore(f, disk[f])
           u == IF Exists(f) THEN <<e>> ELSE << >>
<1>1. /\ Step /\ step \in {"movekey", "movegrant", "moveactive", "moveenv"}
      /\ disk' = [disk EXCEPT ![f] = Absent] /\ Done(u) /\ UNCHANGED <<log, revived>>
      /\ bak' = IF Exists(f) THEN bak \cup {<<f, disk[f]>>} ELSE bak
  BY DEF MoveAside, Restore, history
<1>2. CASE step = "moveactive"
  <2>1. f = ActiveFile
    BY <1>2, KindFileIs
  <2>2. /\ u = IF disk[ActiveFile] # Absent THEN <<Restore(ActiveFile, disk[ActiveFile])>> ELSE << >>
        /\ bak' = IF disk[ActiveFile] # Absent THEN bak \cup {<<ActiveFile, disk[ActiveFile]>>} ELSE bak
        /\ disk' = [disk EXCEPT ![ActiveFile] = Absent]
    BY <1>1, <2>1 DEF Exists
  <2> HIDE DEF f, e, u
  <2>3. Careful(After(u), disk', bak', log', revived')
    BY <1>1, <1>2, <2>2, AsideCareful
  <2> QED BY <1>1, <2>3
<1>3. CASE step # "moveactive"
  <2>1. e[2] = f /\ bak \subseteq bak' /\ (u = << >> \/ u = <<e>>)
    BY <1>1 DEF Restore
  <2>3. f # ActiveFile
    <3>1. CASE step = "movekey"
      BY <3>1, KindFileIs DEF KeyFile, ActiveFile
    <3>2. CASE step = "movegrant"
      BY <3>2, KindFileIs DEF GrantFile, ActiveFile
    <3>3. CASE step = "moveenv"
      BY <3>3, KindFileIs DEF EnvFile, ActiveFile
    <3> QED BY <1>1, <1>3, <3>1, <3>2, <3>3
  <2>5. Head(op.todo) \notin {"active", "moveactive", "deactivate"}
    BY <1>1, <1>3
  <2> HIDE DEF f, e, u, step
  <2>6. Careful(After(u), disk', bak', log', revived')
    BY <1>1, <2>1, <2>3, <2>5, FileCareful
  <2> QED BY <1>1, <2>6
<1> QED BY <1>2, <1>3

\* DropOldKey: no grant and no registry changes.
LEMMA DropOldKeyCareful ==
  ASSUME Orderly, Careful(op, disk, bak, log, revived), DropOldKey
  PROVE  Careful(After(<< >>), disk', bak', log', revived')
<1>1. /\ Step /\ Head(op.todo) = "dropkey" /\ UNCHANGED <<disk, log, revived>>
      /\ bak' = bak \ {<<KeyFile(op.src), op.before[KeyFile(op.src)]>>}
  BY DEF DropOldKey, history
<1>2. \A v : <<ActiveFile, v>> \in bak => <<ActiveFile, v>> \in bak'
  BY <1>1 DEF ActiveFile, KeyFile
<1>3. /\ Granted(op, disk, log, revived)
      /\ \A k : Has(op.todo, k) <=> Has(Tail(op.todo), k) \/ Head(op.todo) = k
      /\ ~op.failed
  BY <1>1, AtWork
<1>4. op.cmd \in Guarding => NeverRevoked(log', op.grant)
  BY <1>1, <1>3 DEF Granted
<1>5. Head(op.todo) \notin {"active", "moveactive", "deactivate"}
  BY <1>1
<1>6. \A x \in Grant : Dead(log', x) =>
        Dead(log, x) \/ (x.source = op.src /\ op.cmd \in {"rotate", "revoke"})
  BY <1>1
<1>7. disk'[ActiveFile] = disk[ActiveFile] /\ revived' = revived
  BY <1>1
<1> QED BY <1>1, <1>2, <1>4, <1>5, <1>6, <1>7, QuietCareful

\* BackfillStep: issuances of the grants on disk, whatever the registry says.
LEMMA BackfillRestrained ==
  ASSUME Orderly, Typed, Careful(op, disk, bak, log, revived), BackfillStep
  PROVE  \/ op' = op /\ Careful(op, disk', bak', log', revived')
         \/ op' = Idle /\ Sound(disk', log', revived')
<1>1. /\ Step /\ Head(op.todo) = "backfill" /\ UNCHANGED <<disk, bak, revived>>
      /\ \/ op' = Idle /\ log' = log
         \/ op' = op /\ \E s \in Source : log' = AppendOne(log, "issued", disk[GrantFile(s)], now)
  BY DEF BackfillStep, history
<1>2. /\ Scripted(op.cmd, op.todo) /\ Has(op.todo, "backfill") /\ ~op.failed /\ Rooted(op, revived)
      /\ Elsewhere(op, disk, log) /\ Granted(op, disk, log, revived) /\ Reversible(op, disk, bak)
  BY <1>1, AtWork
<1>3. op.cmd = "backfill"
  BY <1>2 DEF Scripted
<1>4. CASE op' = Idle /\ log' = log
  <2>1. ~Has(op.todo, "active") /\ ~Has(op.todo, "deactivate")
    BY <1>2, <1>3 DEF Scripted, Guarding
  <2>2. Fits(ActiveFile, disk[ActiveFile])
    BY OwnRegistry DEF Typed
  <2>3. Sound(disk, log, revived)
    BY <1>2, <2>1, <2>2, Finished
  <2> QED BY <1>1, <1>4, <2>3
<1>5. ASSUME NEW s \in Source, op' = op, log' = AppendOne(log, "issued", disk[GrantFile(s)], now)
      PROVE  Careful(op, disk', bak', log', revived')
  <2>1. PICK V : log \in Seq(Line(V, now))
    BY DEF Typed
  <2>2. \A x \in Grant : Dead(log', x) => Dead(log, x)
    BY <1>5, <2>1, DeadAppend
  <2>3. Elsewhere(op, disk', log')
    BY <1>1, <1>2, <2>2 DEF Elsewhere, Agrees
  <2>4. Granted(op, disk', log', revived')
    BY <1>3 DEF Granted, Guarding
  <2>5. Reversible(op, disk', bak')
    BY <1>1, <1>2
  <2>6. Rooted(op, revived')
    BY <1>1, <1>2
  <2> QED BY <1>2, <2>3, <2>4, <2>5, <2>6 DEF Careful
<1> QED BY <1>1, <1>4, <1>5

\* NothingToDo: the repair found everything in place.
LEMMA NothingToDoRestrained ==
  ASSUME Orderly, Typed, Careful(op, disk, bak, log, revived), NothingToDo
  PROVE  Sound(disk', log', revived')
<1>1. op # Idle /\ op.todo = << >> /\ UNCHANGED <<disk, log, revived>>
  BY DEF NothingToDo, file, history
<1>2. ~op.failed
  BY <1>1 DEF Orderly, Underway
<1>3. ~Has(op.todo, "active") /\ ~Has(op.todo, "deactivate")
  BY <1>1 DEF Has
<1>4. Fits(ActiveFile, disk[ActiveFile])
  BY OwnRegistry DEF Typed
<1>5. Sound(disk, log, revived)
  BY <1>2, <1>3, <1>4, Finished
<1> QED BY <1>1, <1>5

\* A guarded command that fails before the history recorded it starts to undo.
LEMMA FailsRestrained ==
  ASSUME Orderly, Typed, ~IsCeremony(Idle), Careful(op, disk, bak, log, revived), Fails, ~stranded'
  PROVE  Restrained'
<1> DEFINE o == [op EXCEPT !.todo = op.undo, !.failed = TRUE]
<1>1. /\ Step /\ UNCHANGED <<disk, bak, log, revived>>
      /\ op' = IF op.guarded /\ op.undo # <<>> THEN o ELSE Idle
      /\ op.guarded /\ log = op.log
  BY DEF Fails, file
<1>2. PICK V : op \in [cmd : V, src : V, todo : V, grant : V, reg : V, undo : V, guarded : V,
                       before : V, log : V, failed : V]
  BY <1>1 DEF Orderly, Underway, IsCeremony, Step
<1> DEFINE W == V \cup {TRUE}
<1>3. o \in [cmd : W, src : W, todo : W, grant : W, reg : W, undo : W, guarded : W,
             before : W, log : W, failed : W]
  BY <1>2
<1>4. Same(op, o) /\ o.todo = op.undo /\ o.failed = TRUE /\ IsCeremony(o)
  <2>1. IsCeremony(o)
    BY <1>3 DEF IsCeremony
  <2>2. Same(op, o)
    BY <1>2 DEF Same
  <2>3. o.todo = op.undo /\ o.failed = TRUE
    BY <1>2
  <2> QED BY <2>1, <2>2, <2>3
<1> HIDE DEF o
<1>5. Rooted(op, revived) /\ Elsewhere(op, disk, log) /\ Granted(op, disk, log, revived)
      /\ Reversible(op, disk, bak) /\ ~op.failed
  BY <1>1, AtWork
<1>6. Rooted(o, revived)
  BY <1>1, <1>4, <1>5, RootedOn DEF Same
<1>7. op.cmd \in Guarding
  BY <1>1, <1>5 DEF Rooted
<1>8. Elsewhere(o, disk, log)
  BY <1>1, <1>4, <1>5, <1>7 DEF Elsewhere, Same, Guarding, Unrelated
<1>9. Granted(o, disk, log, revived)
  BY <1>4, <1>5, <1>7 DEF Granted, Same, Guarding
<1>10. Reversible(o, disk, bak)
  <2>1. Ledger(o) = Ledger(op)
    BY <1>4, <1>5 DEF Ledger
  <2> QED BY <1>4, <1>5, <2>1 DEF Reversible, Same, Agrees, Was
<1>11. Careful(o, disk, bak, log, revived)
  BY <1>4, <1>6, <1>8, <1>9, <1>10 DEF Careful
<1>12. CASE op.undo = << >>
  <2>4. Fits(ActiveFile, disk[ActiveFile])
    BY OwnRegistry DEF Typed
  <2>5. Sound(disk, log, revived)
    BY <1>4, <1>11, <1>12, <2>4, RolledBack
  <2> QED BY <1>1, <1>12, <2>5 DEF Restrained
<1>13. CASE op.undo # << >>
  <2>1. op' = o /\ op' # Idle
    BY <1>1, <1>4, <1>13
  <2> QED BY <1>1, <1>11, <2>1 DEF Restrained
<1> QED BY <1>12, <1>13

\* One file of the rollback.
LEMMA RollbackRestrained ==
  ASSUME Orderly, Typed', ~IsCeremony(Idle), Careful(op, disk, bak, log, revived), Rollback
  PROVE  Restrained'
<1> DEFINE e == Head(op.todo)
           o == [op EXCEPT !.todo = Tail(op.todo)]
           s == op.src
<1>1. /\ Underway(op, disk, bak, usable) /\ op.guarded /\ op.failed /\ s \in Source
      /\ \A f \in Own(s) : Balanced(Tail(op.todo), disk'[f], bak', op.before[f], f)
      /\ Spared(disk', bak')
  BY RollbackPops
<1>2. /\ op' = IF Tail(op.todo) = <<>> THEN Idle ELSE o
      /\ UNCHANGED revived /\ (log' = log \/ log' = << >>)
      /\ disk' = CASE e[1] = "remove" -> [disk EXCEPT ![e[2]] = Absent]
                   [] e[1] = "restore" -> [disk EXCEPT ![e[2]] = e[3]]
                   [] e[1] = "removelog" -> disk
      /\ bak' = IF e[1] = "restore" THEN bak \ {<<e[2], e[3]>>} ELSE bak
  BY DEF Rollback, history
<1>3. PICK S : op.todo \in Seq(S) /\ op.todo # << >>
  BY <1>1 DEF Underway
<1>4. 1 \in DOMAIN op.todo /\ e = op.todo[1] /\ Ledger(op) = op.todo
      /\ \A i \in DOMAIN Tail(op.todo) : i + 1 \in DOMAIN op.todo /\ Tail(op.todo)[i] = op.todo[i + 1]
  BY <1>1, <1>3, TailIs DEF Ledger
<1>5. e[1] \in {"remove", "restore", "removelog"}
  BY <1>1, <1>4 DEF Underway, Guarded, Undoable
<1>6. PICK V : op \in [cmd : V, src : V, todo : V, grant : V, reg : V, undo : V, guarded : V,
                       before : V, log : V, failed : V]
  BY <1>1 DEF Underway, IsCeremony
<1> DEFINE W == V \cup {Tail(op.todo)}
<1>7. o \in [cmd : W, src : W, todo : W, grant : W, reg : W, undo : W, guarded : W,
             before : W, log : W, failed : W]
  BY <1>6
<1>8. Same(op, o) /\ o.todo = Tail(op.todo) /\ o.failed = op.failed /\ IsCeremony(o)
  <2>1. IsCeremony(o)
    BY <1>7 DEF IsCeremony
  <2>2. Same(op, o)
    BY <1>6 DEF Same
  <2>3. o.todo = Tail(op.todo) /\ o.failed = op.failed
    BY <1>6
  <2> QED BY <2>1, <2>2, <2>3
<1> HIDE DEF o, e
<1>9. Rooted(op, revived) /\ Elsewhere(op, disk, log) /\ Granted(op, disk, log, revived)
      /\ Reversible(op, disk, bak)
  BY DEF Careful
<1>10. op.cmd \in Guarding
  BY <1>1, <1>9 DEF Rooted
<1>11. Rooted(o, revived')
  BY <1>1, <1>2, <1>8, <1>9, RootedOn DEF Same
<1>12. Elsewhere(o, disk', log')
  <2>2. \A x : Dead(log', x) => Dead(log, x)
    BY <1>2 DEF Dead
  <2>3. op.cmd \notin Unrelated
    BY <1>10 DEF Guarding, Unrelated
  <2> QED BY <1>1, <1>8, <1>9, <2>2, <2>3, ElsewhereOn
<1>13. Granted(o, disk', log', revived')
  <2>1. NeverRevoked(log, op.grant) => NeverRevoked(log', op.grant)
    BY <1>2 DEF NeverRevoked
  <2> QED BY <1>1, <1>8, <1>9, <1>10, <2>1 DEF Granted, Same, Guarding
<1>14. Ledger(o) = Tail(op.todo)
  BY <1>1, <1>8 DEF Ledger
<1>15. /\ e[2] # ActiveFile => disk'[ActiveFile] = disk[ActiveFile]
       /\ e = Remove(ActiveFile) => disk'[ActiveFile] = Absent /\ bak \subseteq bak'
       /\ e = Restore(ActiveFile, op.before[ActiveFile]) => disk'[ActiveFile] = op.before[ActiveFile]
       /\ \A v : <<ActiveFile, v>> \in bak /\ e[2] # ActiveFile => <<ActiveFile, v>> \in bak'
  <2>1. DOMAIN disk = File /\ ActiveFile \in File
    BY DEF Orderly, File
  <2>2. e[2] # ActiveFile => disk'[ActiveFile] = disk[ActiveFile]
    BY <1>2, <1>5, <2>1
  <2>3. e = Remove(ActiveFile) => disk'[ActiveFile] = Absent /\ bak \subseteq bak'
    BY <1>2, <2>1 DEF Remove
  <2>4. e = Restore(ActiveFile, op.before[ActiveFile]) => disk'[ActiveFile] = op.before[ActiveFile]
    BY <1>2, <2>1 DEF Restore
  <2>5. \A v : <<ActiveFile, v>> \in bak /\ e[2] # ActiveFile => <<ActiveFile, v>> \in bak'
    BY <1>2
  <2> QED BY <2>2, <2>3, <2>4, <2>5
<1>16. Reversible(o, disk', bak')
  <2> SUFFICES ASSUME op.before[ActiveFile] # Absent PROVE Reversible(o, disk', bak')
    BY <1>8 DEF Reversible, Same
  <2>1. CASE op.cmd = "rotate"
    <3>1. Balanced(op.todo, disk[ActiveFile], bak, op.before[ActiveFile], ActiveFile)
      BY <1>1, <1>4, <1>9, <2>1 DEF Reversible
    <3>2. Balanced(Tail(op.todo), disk'[ActiveFile], bak', op.before[ActiveFile], ActiveFile)
      BY <1>3, <1>15, <3>1, PopEntry DEF e
    <3> QED BY <1>1, <1>8, <1>14, <2>1, <3>2 DEF Reversible, Same
  <2>2. CASE op.cmd # "rotate"
    <3>1. Agrees(op, disk) /\ ~Entry(op.todo, ActiveFile)
      BY <1>1, <1>4, <1>9, <2>2 DEF Reversible
    <3>2. ~Entry(Tail(op.todo), ActiveFile) /\ e[2] # ActiveFile
      BY <1>4, <3>1 DEF Entry
    <3>3. Agrees(o, disk') /\ disk'[ActiveFile][o.src] \in {Was(o)[o.src], o.grant}
      BY <1>1, <1>8, <1>9, <1>15, <2>2, <3>1, <3>2 DEF Agrees, Same, Was, Reversible
    <3> QED BY <1>8, <1>14, <2>2, <3>2, <3>3 DEF Reversible, Same
  <2> QED BY <2>1, <2>2
<1>17. Careful(o, disk', bak', log', revived')
  BY <1>1, <1>8, <1>11, <1>12, <1>13, <1>16 DEF Careful
<1>18. CASE Tail(op.todo) = << >>
  <2>1. Fits(ActiveFile, disk'[ActiveFile])
    BY OwnRegistry DEF Typed
  <2>2. Sound(disk', log', revived')
    BY <1>1, <1>8, <1>17, <1>18, <2>1, RolledBack
  <2> QED BY <1>2, <1>18, <2>2 DEF Restrained
<1>19. CASE Tail(op.todo) # << >>
  <2>1. op' = o /\ op' # Idle
    BY <1>2, <1>8, <1>19
  <2> QED BY <1>17, <2>1 DEF Restrained
<1> QED BY <1>18, <1>19

\* What every step of a ceremony leaves of the history, the writers and events.
LogOn(l, l2, n) ==
  \/ l2 = l \/ l2 = << >>
  \/ \E action, g : l2 = AppendOne(l, action, g, n)
  \/ \E old, new : l2 = AppendPair(l, old, new, n)

\* CeremonyStep, seen from the history, the writers and the events.
LEMMA CeremonyStepIs ==
  ASSUME CeremonyStep
  PROVE  /\ op # Idle /\ (stranded => stranded') /\ revived \subseteq revived'
         /\ LogOn(log, log', now) /\ UNCHANGED <<writer, events, now, nextKey, commands>>
<1>1. op # Idle
  BY DEF CeremonyStep, WriteFile, MoveAside, AppendLog, BackfillStep, Deactivate, DropOldKey,
         NothingToDo, Fails, Rollback, Killed, Step
<1>2. UNCHANGED <<writer, events, now, nextKey, commands>>
  BY DEF CeremonyStep, WriteFile, MoveAside, AppendLog, BackfillStep, Deactivate, DropOldKey,
         NothingToDo, Fails, Rollback, Killed
<1>3. CASE WriteFile
  BY <1>1, <1>2, <1>3 DEF WriteFile, LogOn
<1>4. CASE MoveAside \/ Deactivate \/ DropOldKey
  BY <1>1, <1>2, <1>4 DEF MoveAside, Deactivate, DropOldKey, history, LogOn
<1>5. CASE AppendLog
  BY <1>1, <1>2, <1>5 DEF AppendLog, history, LogOn
<1>6. CASE BackfillStep
  BY <1>1, <1>2, <1>6 DEF BackfillStep, history, LogOn
<1>7. CASE NothingToDo
  BY <1>1, <1>2, <1>7 DEF NothingToDo, history, file, LogOn
<1>8. CASE Rollback
  BY <1>1, <1>2, <1>8 DEF Rollback, history, LogOn
<1>9. CASE Fails
  BY <1>1, <1>2, <1>9 DEF Fails, file, LogOn
<1>10. CASE Killed
  BY <1>1, <1>2, <1>10 DEF Killed, file, LogOn
<1> QED BY <1>3, <1>4, <1>5, <1>6, <1>7, <1>8, <1>9, <1>10 DEF CeremonyStep

\* Every step of a ceremony, failed and rolled back ones included.
LEMMA CeremonyRestrained ==
  ASSUME Inv, Inv', ~IsCeremony(Idle), Restrained, CeremonyStep
  PROVE  Restrained'
<1> SUFFICES ASSUME ~stranded' PROVE Restrained'
  BY DEF Restrained
<1>1. Orderly /\ Typed /\ Typed'
  BY DEF Inv
<1>2. ~stranded /\ op # Idle
  BY CeremonyStepIs
<1>3. Careful(op, disk, bak, log, revived)
  BY <1>2 DEF Restrained
<1>4. CASE WriteFile
  BY <1>1, <1>3, <1>4, WriteFileCareful, StepRestrained DEF WriteFile
<1>5. CASE MoveAside
  BY <1>1, <1>3, <1>5, MoveAsideCareful, StepRestrained DEF MoveAside
<1>6. CASE AppendLog
  <2> DEFINE u == IF op.cmd = "bootstrap" /\ log = <<>>
                  THEN <<<<"removelog", ActiveFile, Absent>>>> ELSE <<>>
  <2>1. Step /\ Done(u)
    BY <1>6 DEF AppendLog
  <2>2. Careful(After(u), disk', bak', log', revived')
    BY <1>1, <1>3, <1>6, AppendLogCareful
  <2> HIDE DEF u
  <2> QED BY <1>1, <2>1, <2>2, StepRestrained
<1>7. CASE BackfillStep
  <2>1. \/ op' = op /\ Careful(op, disk', bak', log', revived')
        \/ op' = Idle /\ Sound(disk', log', revived')
    BY <1>1, <1>3, <1>7, BackfillRestrained
  <2>2. CASE op' = op /\ Careful(op, disk', bak', log', revived')
    <3>1. op' # Idle /\ Careful(op', disk', bak', log', revived')
      BY <1>2, <2>2
    <3> QED BY <3>1 DEF Restrained
  <2>3. CASE op' = Idle /\ Sound(disk', log', revived')
    BY <2>3 DEF Restrained
  <2> QED BY <2>1, <2>2, <2>3
<1>8. CASE Deactivate
  <2>1. Step /\ Done(<< >>)
    BY <1>8 DEF Deactivate
  <2> QED BY <1>1, <1>3, <1>8, <2>1, DeactivateCareful, StepRestrained
<1>9. CASE DropOldKey
  <2>1. Step /\ Done(<< >>)
    BY <1>9 DEF DropOldKey
  <2> QED BY <1>1, <1>3, <1>9, <2>1, DropOldKeyCareful, StepRestrained
<1>10. CASE NothingToDo
  BY <1>1, <1>3, <1>10, NothingToDoRestrained DEF NothingToDo, Restrained
<1>11. CASE Fails
  BY <1>1, <1>3, <1>11, FailsRestrained
<1>12. CASE Rollback
  BY <1>1, <1>3, <1>12, RollbackRestrained
<1>13. CASE Killed
  BY <1>13 DEF Killed
<1> QED BY <1>4, <1>5, <1>6, <1>7, <1>8, <1>9, <1>10, <1>11, <1>12, <1>13 DEF CeremonyStep

-----------------------------------------------------------------------------
(* A command begins.                                                        *)

\* A step is in a list that ends with one that has it.
LEMMA HasConcat ==
  ASSUME NEW S, NEW a \in Seq(S), NEW b \in Seq(S), NEW k, Has(b, k)
  PROVE  Has(a \o b, k)
<1>1. PICK i \in DOMAIN b : b[i] = k
  BY DEF Has
<1>2. DOMAIN b = 1..Len(b) /\ Len(b) \in Nat /\ Len(a) \in Nat
  BY LenProperties
<1>3. a \o b \in Seq(S) /\ Len(a \o b) = Len(a) + Len(b)
      /\ \A j \in 1..Len(a) + Len(b) : (a \o b)[j] = IF j <= Len(a) THEN a[j] ELSE b[j - Len(a)]
  BY ConcatProperties
<1>4. DOMAIN (a \o b) = 1..Len(a \o b)
  BY <1>3, LenProperties
<1> DEFINE ab == a \o b
           j == Len(a) + i
<1> HIDE DEF ab
<1>5. j \in DOMAIN ab /\ j \in 1..Len(a) + Len(b) /\ ~(j <= Len(a)) /\ j - Len(a) = i
  BY <1>1, <1>2, <1>3, <1>4 DEF ab
<1> HIDE DEF j
<1>6. ab[j] = k
  BY <1>1, <1>3, <1>5 DEF ab
<1>7. Has(ab, k)
  BY <1>5, <1>6 DEF Has
<1> QED BY <1>7 DEF ab

\* The steps a command that moves nothing aside may take.
Plain(cmd, P) ==
  /\ P \cap {"rotated", "moveactive"} = {}
  /\ P \cap {"grant", "issued"} = {} \/ cmd \in Granting
  /\ "active" \notin P \/ cmd \in Guarding \cup {"repair"}
  /\ P \cap {"revoked", "deactivate"} = {} \/ cmd = "revoke"
  /\ "backfill" \notin P \/ cmd = "backfill"

\* Steps of these kinds only are in the script of their command.
LEMMA PlainScripted ==
  ASSUME NEW cmd, NEW P, NEW todo \in Seq(P), Plain(cmd, P)
  PROVE  Scripted(cmd, todo)
<1>1. \A i \in DOMAIN todo : todo[i] \in P
  BY LenProperties
<1>2. \A k : Has(todo, k) => k \in P
  BY <1>1 DEF Has
<1> QED BY <1>1, <1>2 DEF Scripted, Plain

\* What begins finds the gate sound and has yet to do what it is for.
LEMMA BeginRestrained ==
  ASSUME Inv, Restrained, ~IsCeremony(Idle),
         NEW cmd, NEW s, NEW todo, NEW grant, NEW reg, NEW guarded \in BOOLEAN,
         Begin(Ceremony(cmd, s, todo, grant, reg, guarded)), Scripted(cmd, todo),
         cmd \in Granting \cup Unrelated \cup {"repair", "revoke"},
         guarded => cmd \in Guarding,
         cmd \in Guarding \cup {"repair"} => reg = ActiveOrEmpty,
         cmd \in Granting \cup {"repair", "revoke"} => s \in Source /\ grant \in Grant /\ grant.source = s,
         cmd = "rotate" => todo = Rotation /\ disk[GrantFile(s)] \in Grant /\ disk[GrantFile(s)].source = s,
         cmd = "bootstrap" => disk[ActiveFile] = Absent,
         cmd \in Guarding => grant.key = nextKey /\ Has(todo, "active"),
         cmd = "repair" => Has(todo, "active") \/ ActiveOrEmpty[s] = grant,
         cmd = "revoke" => Has(todo, "deactivate")
  PROVE  Restrained'
<1> DEFINE c == Ceremony(cmd, s, todo, grant, reg, guarded)
<1>1. Begun(c, cmd, s, todo, grant, reg, guarded) /\ c.log = log
  BY CeremonyIs DEF Ceremony
<1>2. op = Idle /\ op' = c /\ UNCHANGED <<disk, bak, log, stranded, revived>>
  BY DEF Begin, file
<1> HIDE DEF c
<1>3. /\ IsCeremony(c) /\ c.cmd = cmd /\ c.src = s /\ c.todo = todo /\ c.grant = grant /\ c.reg = reg
      /\ c.guarded = guarded /\ c.before = disk /\ c.failed = FALSE /\ Ledger(c) = << >> /\ c.undo = << >>
      /\ c.log = log /\ c # Idle
  BY <1>1 DEF Begun
<1> SUFFICES ASSUME ~stranded' PROVE Restrained'
  BY DEF Restrained
<1>4. Sound(disk, log, revived)
  BY <1>2 DEF Restrained
<1>5. \A x \in Grant : Known(x, disk, op, log) => x.key < nextKey /\ x.key \in Int
  BY BundleAssumption DEF Inv, KeysKnown, KeysBelow, Grant
<1>6. cmd = "rotate" => disk[GrantFile(s)] # grant
  <2>1. cmd = "rotate" => Known(disk[GrantFile(s)], disk, op, log)
    BY DEF Known, Granting
  <2>2. cmd = "rotate" => grant.key = nextKey
    BY DEF Guarding
  <2> QED BY <1>5, <2>1, <2>2
<1>7. Rooted(c, revived)
  <2>1. cmd \in Guarding \cup {"repair"} => reg = Was(c)
    BY <1>3 DEF ActiveOrEmpty, Exists, Was
  <2> QED BY <1>3, <1>4, <1>6, <2>1 DEF Rooted
<1>8. Agrees(c, disk) /\ Elsewhere(c, disk, log)
  BY <1>3 DEF Elsewhere, Agrees, Was
<1>9. Granted(c, disk, log, revived)
  <2>1. ASSUME cmd \in Guarding PROVE NeverRevoked(log, grant)
    <3>1. grant \in Grant /\ grant.key = nextKey
      BY <2>1 DEF Guarding, Granting
    <3>2. ~Known(grant, disk, op, log)
      BY <1>5, <3>1
    <3> QED BY <3>2 DEF Known, NeverRevoked
  <2>2. ASSUME cmd = "repair", ~Has(todo, "active") PROVE Named(c, disk) /\ Lasting(grant, log, revived)
    <3>1. s \in Source /\ grant # Absent /\ ActiveOrEmpty[s] = grant
      BY <2>2, FilesAssumption
    <3>2. disk[ActiveFile] # Absent /\ disk[ActiveFile][s] = grant
      BY <3>1 DEF ActiveOrEmpty, NoActive, Exists
    <3> QED BY <1>3, <1>4, <3>1, <3>2 DEF Named, Sound
  <2> QED BY <1>3, <2>1, <2>2 DEF Granted
<1>10. Reversible(c, disk, bak)
  <2>1. \A f : ~Entry(<< >>, f) /\ \A v : ~Restores(<< >>, f, v)
    BY DEF Entry, Restores
  <2>2. CASE cmd = "rotate"
    <3>1. Balanced(<< >>, disk[ActiveFile], bak, disk[ActiveFile], ActiveFile)
      BY NothingBalanced
    <3>2. Planned(Rotation, << >>, disk[ActiveFile], AllSources, "active")
      <4>1. \A i \in DOMAIN Rotation : Rotation[i] = "active" =>
              \E j \in DOMAIN Rotation : j < i /\ Rotation[j] = MoveOf("active")
        BY RotationIs, MoveOfIs
      <4>2. \A i \in DOMAIN Rotation : Rotation[i] = MoveOf("active") =>
              \A j \in DOMAIN Rotation : j < i => Rotation[j] # "active" /\ Rotation[j] # MoveOf("active")
        BY RotationIs, MoveOfIs
      <4> HIDE DEF Rotation
      <4> QED BY <2>1, <4>1, <4>2 DEF Planned
    <3> QED BY <1>3, <2>2, <3>1, <3>2 DEF Reversible
  <2>3. CASE cmd # "rotate"
    BY <1>3, <1>8, <2>1, <2>3 DEF Reversible, Was
  <2> QED BY <2>2, <2>3
<1>11. Careful(c, disk, bak, log, revived)
  BY <1>3, <1>7, <1>8, <1>9, <1>10 DEF Careful
<1> QED BY <1>2, <1>3, <1>11 DEF Restrained

\* Bootstrap: there was no registry and no grant.
LEMMA BootstrapRestrained ==
  ASSUME Inv, Restrained, ~IsCeremony(Idle), NEW s \in Source, NEW sh \in Shape, Bootstrap(s, sh)
  PROVE  Restrained'
<1> DEFINE g == MakeGrant(s, nextKey, sh, LoadOrCreateIssuerKey)
           a == IF Exists(IssuerFile) THEN <<>> ELSE <<"issuer">>
           b == <<"key", "trust", "grant", "active", "issued", "env">>
           P == {"issuer", "key", "trust", "grant", "active", "issued", "env"}
<1>1. IdentityOutputsAbsent(s) /\ NewKey /\ Begin(Ceremony("bootstrap", s, a \o b, g, NoActive, TRUE))
  BY DEF Bootstrap
<1>2. a \in Seq(P) /\ b \in Seq(P) /\ Has(b, "active")
  <2>1. b \in Seq(P) /\ 4 \in DOMAIN b /\ b[4] = "active"
    OBVIOUS
  <2>2. << >> \in Seq(P) /\ <<"issuer">> \in Seq(P)
    OBVIOUS
  <2>3. Has(b, "active")
    BY <2>1 DEF Has
  <2> QED BY <2>1, <2>2, <2>3
<1>3. LoadOrCreateIssuerKey \in IssuerKey
  BY Found DEF LoadOrCreateIssuerKey, Exists, IssuerKey
<1>4. g \in Grant /\ g.key = nextKey /\ g.source = s
  BY <1>1, <1>3, Found, MakeGrantIs
<1> HIDE DEF g, a, b
<1>5. a \o b \in Seq(P) /\ Has(a \o b, "active")
  BY <1>2, HasConcat, ConcatProperties
<1>6. disk[ActiveFile] = Absent
  BY <1>1 DEF IdentityOutputsAbsent, Exists
<1>7. NoActive = ActiveOrEmpty
  BY <1>6 DEF ActiveOrEmpty, Exists
<1>11. Plain("bootstrap", P)
  BY DEF Plain, Granting, Guarding
<1>8. Scripted("bootstrap", a \o b)
  <2> HIDE DEF P
  <2> QED BY <1>5, <1>11, PlainScripted
<1>9. "bootstrap" \in Granting /\ "bootstrap" \in Guarding
  BY DEF Granting, Guarding
<1> HIDE DEF P
<1> DEFINE t == a \o b
<1> HIDE DEF t
<1>10. Begin(Ceremony("bootstrap", s, t, g, NoActive, TRUE)) /\ Scripted("bootstrap", t) /\ Has(t, "active")
  BY <1>1, <1>5, <1>8 DEF t
<1> QED BY <1>4, <1>6, <1>7, <1>9, <1>10, BeginRestrained

\* AgentAdd: the registry names no grant of the source yet.
LEMMA AgentAddRestrained ==
  ASSUME Inv, Restrained, ~IsCeremony(Idle), NEW s \in Source, NEW sh \in Shape, AgentAdd(s, sh)
  PROVE  Restrained'
<1> DEFINE g == MakeGrant(s, nextKey, sh, disk[TrustFile])
           t == <<"key", "grant", "env", "active", "issued">>
           P == {"key", "grant", "env", "active", "issued"}
<1>1. /\ \A f \in {KeyFile(s), GrantFile(s), EnvFile(s)} : ~Exists(f)
      /\ Exists(TrustFile) /\ NewKey /\ Begin(Ceremony("agent_add", s, t, g, ActiveOrEmpty, TRUE))
  BY DEF AgentAdd
<1>2. t \in Seq(P) /\ Has(t, "active")
  <2>1. t \in Seq(P) /\ 4 \in DOMAIN t /\ t[4] = "active"
    OBVIOUS
  <2> QED BY <2>1 DEF Has
<1>4. g \in Grant /\ g.key = nextKey /\ g.source = s
  BY <1>1, Found, MakeGrantIs DEF Exists
<1> HIDE DEF g, t
<1>11. Plain("agent_add", P)
  BY DEF Plain, Granting, Guarding
<1>8. Scripted("agent_add", t)
  <2> HIDE DEF P
  <2> QED BY <1>2, <1>11, PlainScripted
<1>9. "agent_add" \in Granting /\ "agent_add" \in Guarding
  BY DEF Granting, Guarding
<1> HIDE DEF P
<1> QED BY <1>1, <1>2, <1>4, <1>8, <1>9, BeginRestrained

\* RepairEnv: the registry names the grant already, or is about to.
LEMMA RepairEnvRestrained ==
  ASSUME Inv, Restrained, ~IsCeremony(Idle), NEW s \in Source, RepairEnv(s)
  PROVE  Restrained'
<1> DEFINE g == disk[GrantFile(s)]
           a == IF ActiveOrEmpty[s] = g THEN <<>> ELSE <<"active">>
           b == IF Exists(KeyFile(s)) THEN <<"env">> ELSE <<>>
           P == {"active", "env"}
<1>1. Exists(GrantFile(s)) /\ Begin(Ceremony("repair", s, a \o b, g, ActiveOrEmpty, FALSE))
  BY DEF RepairEnv
<1>2. a \in Seq(P) /\ b \in Seq(P)
  <2>1. << >> \in Seq(P) /\ <<"active">> \in Seq(P) /\ <<"env">> \in Seq(P)
    OBVIOUS
  <2> QED BY <2>1
<1>3. g \in Grant /\ g.source = s
  BY <1>1, Found DEF Exists
<1>4. Has(a \o b, "active") \/ ActiveOrEmpty[s] = g
  <2>1. CASE ActiveOrEmpty[s] = g
    BY <2>1
  <2>2. CASE ActiveOrEmpty[s] # g
    <3>1. a = <<"active">> /\ a \o b \in Seq(P)
      BY <1>2, <2>2, ConcatProperties
    <3>2. (<<"active">> \o b)[1] = "active" /\ 1 \in DOMAIN (<<"active">> \o b)
      <4>1. <<"active">> \in Seq(P) /\ Len(<<"active">>) = 1 /\ Len(b) \in Nat
        BY <1>2, LenProperties
      <4>2. /\ <<"active">> \o b \in Seq(P) /\ Len(<<"active">> \o b) = 1 + Len(b)
            /\ (<<"active">> \o b)[1] = <<"active">>[1]
        BY <1>2, <4>1, ConcatProperties
      <4>3. DOMAIN (<<"active">> \o b) = 1..1 + Len(b)
        BY <4>2, LenProperties
      <4> QED BY <4>1, <4>2, <4>3
    <3> QED BY <3>1, <3>2 DEF Has
  <2> QED BY <2>1, <2>2
<1> HIDE DEF a, b
<1>5. a \o b \in Seq(P)
  BY <1>2, ConcatProperties
<1>11. Plain("repair", P)
  BY DEF Plain, Granting, Guarding
<1>8. Scripted("repair", a \o b)
  <2> HIDE DEF P
  <2> QED BY <1>5, <1>11, PlainScripted
<1>9. "repair" \notin Granting /\ "repair" \notin Guarding
  BY DEF Granting, Guarding
<1> HIDE DEF P
<1> DEFINE t == a \o b
<1> HIDE DEF t
<1>10. /\ Begin(Ceremony("repair", s, t, g, ActiveOrEmpty, FALSE)) /\ Scripted("repair", t)
       /\ Has(t, "active") \/ ActiveOrEmpty[s] = g
  BY <1>1, <1>4, <1>8 DEF t
<1> QED BY <1>3, <1>9, <1>10, BeginRestrained

\* RotateSource: the new grant is fresh, and the registry has a backup.
LEMMA RotateSourceRestrained ==
  ASSUME Inv, Restrained, ~IsCeremony(Idle), NEW s \in Source, NEW sh \in Shape, RotateSource(s, sh)
  PROVE  Restrained'
<1> DEFINE old == disk[GrantFile(s)]
           g == MakeGrant(s, nextKey, sh, old.by)
<1>1. Exists(GrantFile(s)) /\ NewKey /\ Begin(Ceremony("rotate", s, Rotation, g, ActiveOrEmpty, TRUE))
  BY DEF RotateSource, Rotation
<1>2. old \in Grant /\ old.source = s
  BY <1>1, Found DEF Exists
<1>3. old.by \in IssuerKey
  BY <1>2 DEF Grant
<1>4. g \in Grant /\ g.key = nextKey /\ g.source = s
  BY <1>1, <1>3, Found, MakeGrantIs
<1> HIDE DEF g
<1>5. Has(Rotation, "active")
  BY RotationIs DEF Has
<1>6. Scripted("rotate", Rotation)
  <2>1. \A i \in DOMAIN Rotation : Rotation[i] \in RotationSteps
    BY RotationIs, LenProperties
  <2>2. \A k : Has(Rotation, k) => k \in RotationSteps
    BY <2>1 DEF Has
  <2>3. \A i \in DOMAIN Rotation :
          Rotation[i] = "moveactive" => \E j \in DOMAIN Rotation : j > i /\ Rotation[j] = "active"
    BY RotationIs
  <2> HIDE DEF Rotation
  <2> QED BY <2>2, <2>3 DEF Scripted, RotationSteps, Granting, Guarding
<1>9. "rotate" \in Granting /\ "rotate" \in Guarding
  BY DEF Granting, Guarding
<1> HIDE DEF Rotation
<1> QED BY <1>1, <1>2, <1>4, <1>5, <1>6, <1>9, BeginRestrained

\* Revoke: the history first, and the registry is still to be saved.
LEMMA RevokeRestrained ==
  ASSUME Inv, Restrained, ~IsCeremony(Idle), NEW s \in Source, Revoke(s)
  PROVE  Restrained'
<1> DEFINE g == disk[GrantFile(s)]
           t == <<"revoked", "deactivate">>
           P == {"revoked", "deactivate"}
<1>1. Exists(GrantFile(s)) /\ Begin(Ceremony("revoke", s, t, g, NoActive, FALSE))
  BY DEF Revoke
<1>2. t \in Seq(P) /\ Has(t, "deactivate")
  <2>1. t \in Seq(P) /\ 2 \in DOMAIN t /\ t[2] = "deactivate"
    OBVIOUS
  <2> QED BY <2>1 DEF Has
<1>3. g \in Grant /\ g.source = s
  BY <1>1, Found DEF Exists
<1> HIDE DEF t
<1>11. Plain("revoke", P)
  BY DEF Plain, Granting, Guarding
<1>8. Scripted("revoke", t)
  <2> HIDE DEF P
  <2> QED BY <1>2, <1>11, PlainScripted
<1>9. "revoke" \notin Granting /\ "revoke" \notin Guarding
  BY DEF Granting, Guarding
<1> HIDE DEF P
<1> QED BY <1>1, <1>2, <1>3, <1>8, <1>9, BeginRestrained

\* GrantIssue: whatever grant it issues, it makes none current.
LEMMA GrantIssueRestrained ==
  ASSUME Inv, Restrained, ~IsCeremony(Idle), NEW s \in Source, NEW k \in 1..MaxKeys, NEW sh \in Shape,
         NEW logged \in BOOLEAN, NEW inBundle \in BOOLEAN, GrantIssue(s, k, sh, logged, inBundle)
  PROVE  Restrained'
<1> DEFINE g == MakeGrant(s, k, sh, disk[IssuerFile])
           t == (IF logged THEN <<"issued">> ELSE <<>>) \o (IF inBundle THEN <<"grant">> ELSE <<>>)
           P == {"issued", "grant"}
<1>1. Exists(IssuerFile) /\ Begin(Ceremony("grant_issue", s, t, g, NoActive, FALSE))
  BY DEF GrantIssue
<1>2. t \in Seq(P)
  <2>1. << >> \in Seq(P) /\ <<"issued">> \in Seq(P) /\ <<"grant">> \in Seq(P)
    OBVIOUS
  <2> QED BY <2>1, ConcatProperties
<1>4. g \in Grant /\ g.source = s
  BY <1>1, Found, MakeGrantIs DEF Exists
<1> HIDE DEF g, t
<1>11. Plain("grant_issue", P)
  BY DEF Plain, Granting, Guarding
<1>8. Scripted("grant_issue", t)
  <2> HIDE DEF P
  <2> QED BY <1>2, <1>11, PlainScripted
<1>9. "grant_issue" \in Granting /\ "grant_issue" \notin Guarding
  BY DEF Granting, Guarding
<1> HIDE DEF P
<1> QED BY <1>1, <1>4, <1>8, <1>9, BeginRestrained

\* Backfill, the key generators and `trust add` grant nothing.
LEMMA UnrelatedRestrained ==
  ASSUME Inv, Restrained, ~IsCeremony(Idle), NEW cmd, NEW s, NEW P, NEW t, NEW grant,
         cmd \in Unrelated \ {"grant_issue"}, t \in Seq(P), Plain(cmd, P),
         Begin(Ceremony(cmd, s, t, grant, NoActive, FALSE))
  PROVE  Restrained'
<1>1. Scripted(cmd, t)
  BY PlainScripted
<1>2. /\ cmd \notin Granting /\ cmd \notin Guarding /\ cmd \notin {"repair", "revoke"}
      /\ cmd \notin {"rotate", "bootstrap", "agent_add"} /\ FALSE \in BOOLEAN
      /\ cmd \in Granting \cup Unrelated \cup {"repair", "revoke"}
  BY DEF Granting, Guarding, Unrelated
<1>3. Begin(Ceremony(cmd, s, t, grant, NoActive, FALSE))
  OBVIOUS
<1> QED BY <1>1, <1>2, <1>3, BeginRestrained

\* Every command, as it begins.
LEMMA CommandRestrained ==
  ASSUME Inv, Restrained, ~IsCeremony(Idle), Command
  PROVE  Restrained'
<1>1. ASSUME NEW s \in Source, AgentKeygen(s) PROVE Restrained'
  <2> DEFINE g == [key |-> nextKey]
             t == <<"key">>
             P == {"key"}
  <2>1. Begin(Ceremony("keygen", s, t, g, NoActive, FALSE)) /\ "keygen" \in Unrelated
    BY <1>1 DEF AgentKeygen, Unrelated
  <2>2. t \in Seq(P) /\ Plain("keygen", P)
    BY DEF Plain
  <2> HIDE DEF g, t, P
  <2> QED BY <2>1, <2>2, UnrelatedRestrained
<1>2. ASSUME BackfillGrantLog PROVE Restrained'
  <2> DEFINE g == Absent
             t == <<"backfill">>
             P == {"backfill"}
  <2>1. Begin(Ceremony("backfill", AllSources, t, g, NoActive, FALSE)) /\ "backfill" \in Unrelated
    BY <1>2 DEF BackfillGrantLog, Unrelated
  <2>2. t \in Seq(P) /\ Plain("backfill", P)
    BY DEF Plain
  <2> HIDE DEF g, t, P
  <2> QED BY <2>1, <2>2, UnrelatedRestrained
<1>3. ASSUME IssuerKeygen PROVE Restrained'
  <2> DEFINE g == [by |-> 102]
             t == <<"issuer">>
             P == {"issuer"}
  <2>1. Begin(Ceremony("keygen", AllSources, t, g, NoActive, FALSE)) /\ "keygen" \in Unrelated
    BY <1>3 DEF IssuerKeygen, Unrelated
  <2>2. t \in Seq(P) /\ Plain("keygen", P)
    BY DEF Plain
  <2> HIDE DEF g, t, P
  <2> QED BY <2>1, <2>2, UnrelatedRestrained
<1>4. ASSUME NEW k \in IssuerKey, TrustAdd(k) PROVE Restrained'
  <2> DEFINE g == [by |-> k]
             t == <<"trust">>
             P == {"trust"}
  <2>1. Begin(Ceremony("trust_add", AllSources, t, g, NoActive, FALSE)) /\ "trust_add" \in Unrelated
    BY <1>4 DEF TrustAdd, Unrelated
  <2>2. t \in Seq(P) /\ Plain("trust_add", P)
    BY DEF Plain
  <2> HIDE DEF g, t, P
  <2> QED BY <2>1, <2>2, UnrelatedRestrained
<1> QED BY <1>1, <1>2, <1>3, <1>4, BootstrapRestrained, AgentAddRestrained, RotateSourceRestrained,
           GrantIssueRestrained, RepairEnvRestrained, RevokeRestrained DEF Command
-----------------------------------------------------------------------------
(* Writes.                                                                  *)

InFlight == [mode : Modes, authority : Authority, subject : Subject, at : Int, quiet : BOOLEAN]

\* The grant on disk is the current one, or nothing says which one is.
Current(d, t) == d[ActiveFile] = Absent \/ d[ActiveFile][t] = d[GrantFile(t)]

\* A write that no command has overlapped still has what the gate saw.
Admitted(s, w) ==
  LET g == disk[GrantFile(s)]
  IN  /\ w.at = -1 \/ w.at \in 0..now
      /\ w.quiet =>
           /\ ~stranded /\ op = Idle
           /\ w.mode # "none" => /\ g \in Grant /\ w.authority <= g.max /\ InScope(g, w.subject)
                                 /\ Current(disk, s)
           /\ w.at # -1 => \A i \in DOMAIN log : log[i].at <= w.at

WritersAdmitted ==
  /\ writer \in [Source -> InFlight \cup {Idle}]
  /\ \A s \in Source : writer[s] # Idle => Admitted(s, writer[s])

\* What was revoked before the event was issued again by then, or revived.
Standing(e, l, rv) ==
  e.grant \in rv \/
  \A i \in DOMAIN l : l[i].action = "revoked" /\ l[i].grant = e.grant /\ l[i].at < e.at =>
    \E j \in DOMAIN l : j > i /\ l[j].action = "issued" /\ l[j].grant = e.grant /\ l[j].at <= e.at

Signed(e) ==
  /\ e.grant \in Grant /\ e.key = e.grant.key /\ e.source = e.grant.source
  /\ e.authority <= e.grant.max /\ InScope(e.grant, e.subject) /\ e.at \in 0..now

EventsStand ==
  \A e \in events : e.quiet /\ e.key # Absent => Signed(e) /\ Standing(e, log, revived)

Explained == Restrained /\ WritersAdmitted /\ EventsStand

\* Command, seen from the files, the writers and the events.
LEMMA CommandIs ==
  ASSUME Command
  PROVE  /\ writer' = [s \in Source |-> IF writer[s] = Idle THEN Idle
                                         ELSE [writer[s] EXCEPT !.quiet = FALSE]]
         /\ UNCHANGED <<disk, log, events, now, stranded, revived>>
<1>1. \A c : Begin(c) =>
        /\ writer' = [s \in Source |-> IF writer[s] = Idle THEN Idle
                                        ELSE [writer[s] EXCEPT !.quiet = FALSE]]
        /\ UNCHANGED <<disk, log, events, now, stranded, revived>>
  BY DEF Begin, file
<1>2. \E c : Begin(c)
  <2>1. ASSUME NEW s \in Source, NEW sh \in Shape, NEW k, NEW logged, NEW inBundle,
               Bootstrap(s, sh) \/ AgentAdd(s, sh) \/ RotateSource(s, sh)
                 \/ GrantIssue(s, k, sh, logged, inBundle)
        PROVE  \E c : Begin(c)
    BY <2>1 DEF Bootstrap, AgentAdd, RotateSource, GrantIssue
  <2>2. ASSUME NEW s \in Source, RepairEnv(s) \/ Revoke(s) \/ AgentKeygen(s) PROVE \E c : Begin(c)
    BY <2>2 DEF RepairEnv, Revoke, AgentKeygen
  <2>3. ASSUME NEW k \in IssuerKey, BackfillGrantLog \/ IssuerKeygen \/ TrustAdd(k)
        PROVE  \E c : Begin(c)
    BY <2>3 DEF BackfillGrantLog, IssuerKeygen, TrustAdd
  <2> QED BY <2>1, <2>2, <2>3 DEF Command, IssuerKey
<1> QED BY <1>1, <1>2

\* A line written now does not say that a grant was revoked before now.
LEMMA StandingAppend ==
  ASSUME NEW S, NEW l \in Seq(S), NEW action, NEW g, NEW at \in Int, NEW e, e.at \in Int, e.at <= at,
         NEW rv, Standing(e, l, rv)
  PROVE  Standing(e, AppendOne(l, action, g, at), rv)
<1> DEFINE r == GrantRecord(action, g, at, LastHash(l))
           new == AppendOne(l, action, g, at)
<1>1. r.at = at
  BY DEF GrantRecord
<1>2. new = Append(l, r) /\ l \in Seq(S \cup {r}) /\ r \in S \cup {r}
  BY SeqMonotonic DEF AppendOne
<1> HIDE DEF r, new
<1>3. /\ new \in Seq(S \cup {r}) /\ Len(new) = Len(l) + 1 /\ new[Len(l) + 1] = r
      /\ \A i \in 1..Len(l) : new[i] = l[i]
  BY <1>2, AppendProperties
<1>4. DOMAIN new = 1..Len(l) + 1 /\ DOMAIN l = 1..Len(l) /\ Len(l) \in Nat
  BY <1>3, LenProperties
<1> SUFFICES ASSUME e.grant \notin rv,
                    NEW i \in DOMAIN new, new[i].action = "revoked", new[i].grant = e.grant, new[i].at < e.at
             PROVE  \E j \in DOMAIN new : j > i /\ new[j].action = "issued" /\ new[j].grant = e.grant
                                          /\ new[j].at <= e.at
  BY DEF Standing, new
<1>5. i \in DOMAIN l /\ new[i] = l[i]
  <2>1. i # Len(l) + 1
    BY <1>1, <1>3
  <2> QED BY <1>3, <1>4, <2>1
<1>6. PICK j \in DOMAIN l : j > i /\ l[j].action = "issued" /\ l[j].grant = e.grant /\ l[j].at <= e.at
  BY <1>5 DEF Standing
<1>7. j \in DOMAIN new /\ new[j] = l[j]
  BY <1>3, <1>4
<1> QED BY <1>6, <1>7

\* An event stands whatever a step does to the history.
LEMMA StandingOn ==
  ASSUME NEW S, NEW l \in Seq(S), NEW n \in Int, NEW l2, LogOn(l, l2, n),
         NEW e, e.at \in Int, e.at <= n, NEW rv, NEW rv2, rv \subseteq rv2, Standing(e, l, rv)
  PROVE  Standing(e, l2, rv2)
<1>1. Standing(e, l2, rv)
  <2>1. CASE l2 = l
    BY <2>1
  <2>2. CASE l2 = << >>
    BY <2>2 DEF Standing
  <2>3. ASSUME NEW action, NEW g, l2 = AppendOne(l, action, g, n) PROVE Standing(e, l2, rv)
    BY <2>3, StandingAppend
  <2>4. ASSUME NEW old, NEW new, l2 = AppendPair(l, old, new, n) PROVE Standing(e, l2, rv)
    <3> DEFINE m == AppendOne(l, "revoked", old, n)
    <3>1. Standing(e, m, rv)
      BY StandingAppend
    <3>2. \E T : m \in Seq(T)
      <4> DEFINE r == GrantRecord("revoked", old, n, LastHash(l))
      <4>1. m = Append(l, r) /\ l \in Seq(S \cup {r}) /\ r \in S \cup {r}
        BY SeqMonotonic DEF AppendOne
      <4> HIDE DEF r, m
      <4>2. m \in Seq(S \cup {r})
        BY <4>1, AppendProperties
      <4> QED BY <4>2
    <3>3. l2 = AppendOne(m, "issued", new, n)
      BY <2>4 DEF AppendPair
    <3> HIDE DEF m
    <3> QED BY <3>1, <3>2, <3>3, StandingAppend
  <2> QED BY <2>1, <2>2, <2>3, <2>4 DEF LogOn
<1> QED BY <1>1 DEF Standing

\* The events on record keep what they have to say for themselves.
LEMMA EventsOn ==
  ASSUME Inv, EventsStand, events' = events, now <= now', now' \in Int,
         LogOn(log, log', now), revived \subseteq revived'
  PROVE  EventsStand'
<1> SUFFICES ASSUME NEW e \in events, e.quiet, e.key # Absent
             PROVE  Signed(e)' /\ Standing(e, log', revived')
  BY DEF EventsStand
<1>1. Signed(e) /\ Standing(e, log, revived)
  BY DEF EventsStand
<1>2. now \in Int /\ (\E V : log \in Seq(Line(V, now)))
  BY DEF Inv, Typed
<1>3. e.at \in Int /\ e.at <= now /\ e.at \in 0..now'
  BY <1>1, <1>2 DEF Signed
<1>4. Signed(e)'
  BY <1>1, <1>3 DEF Signed
<1>5. Standing(e, log', revived')
  BY <1>1, <1>2, <1>3, StandingOn
<1> QED BY <1>4, <1>5

\* A command overlaps every write that is in flight; a ceremony leaves them be.
LEMMA WritersThroughCommand ==
  ASSUME WritersAdmitted, Command
  PROVE  WritersAdmitted'
<1>1. /\ writer' = [s \in Source |-> IF writer[s] = Idle THEN Idle
                                     ELSE [writer[s] EXCEPT !.quiet = FALSE]]
      /\ UNCHANGED now
  BY CommandIs
<1>2. ASSUME NEW s \in Source, writer[s] # Idle
      PROVE  /\ writer'[s] \in InFlight /\ ~writer'[s].quiet
             /\ writer'[s].at = -1 \/ writer'[s].at \in 0..now
  <2>1. writer[s] \in InFlight /\ Admitted(s, writer[s])
    BY <1>2 DEF WritersAdmitted
  <2> DEFINE w == [writer[s] EXCEPT !.quiet = FALSE]
  <2>2. w \in InFlight /\ w.at = writer[s].at /\ w.quiet = FALSE
    BY <2>1 DEF InFlight
  <2>3. writer'[s] = w
    BY <1>1, <1>2
  <2> HIDE DEF w
  <2> QED BY <2>1, <2>2, <2>3 DEF Admitted
<1>3. ASSUME NEW s \in Source, writer[s] = Idle PROVE writer'[s] = Idle
  BY <1>1, <1>3
<1>4. writer' = [s \in Source |-> writer'[s]]
  BY <1>1
<1>5. writer' \in [Source -> InFlight \cup {Idle}]
  BY <1>2, <1>3, <1>4
<1>6. ASSUME NEW s \in Source, writer'[s] # Idle PROVE Admitted(s, writer[s])'
  <2>1. ~writer'[s].quiet /\ (writer'[s].at = -1 \/ writer'[s].at \in 0..now')
    BY <1>1, <1>2, <1>3, <1>6
  <2> QED BY <2>1 DEF Admitted
<1> QED BY <1>5, <1>6 DEF WritersAdmitted

\* While a ceremony is under way no write in flight is undisturbed.
LEMMA WritersThroughCeremony ==
  ASSUME WritersAdmitted, CeremonyStep
  PROVE  WritersAdmitted'
<1>1. op # Idle /\ UNCHANGED <<writer, now>>
  BY CeremonyStepIs
<1> SUFFICES ASSUME NEW s \in Source, writer[s] # Idle PROVE Admitted(s, writer[s])'
  BY <1>1 DEF WritersAdmitted
<1>2. Admitted(s, writer[s])
  BY DEF WritersAdmitted
<1>3. (writer[s].at = -1 \/ writer[s].at \in 0..now) /\ ~writer[s].quiet
  BY <1>1, <1>2 DEF Admitted
<1> QED BY <1>1, <1>3 DEF Admitted

\* What the write gate lets through is current.
LEMMA GateAdmits ==
  ASSUME Inv, NEW s \in Source, NEW mode \in Modes, NEW authority, NEW subject,
         EnforceWrite(s, mode, authority, subject), mode # "none"
  PROVE  /\ disk[GrantFile(s)] \in Grant /\ authority <= disk[GrantFile(s)].max
         /\ InScope(disk[GrantFile(s)], subject) /\ Current(disk, s)
<1> DEFINE g == disk[GrantFile(s)]
<1>1. /\ Exists(GrantFile(s)) /\ VerifyGrantMatchesWrite(g, s, authority, subject, now)
      /\ VerifyActiveGrantIfConfigured(g, mode)
  BY DEF EnforceWrite, Configured
<1>2. g \in Grant /\ g.source = s
  BY <1>1, GrantOnDisk
<1>3. authority <= g.max /\ InScope(g, subject)
  BY <1>1 DEF VerifyGrantMatchesWrite
<1>4. Current(disk, s)
  BY <1>1, <1>2 DEF Current, VerifyActiveGrantIfConfigured, VerifyActiveGrant, Exists
<1> QED BY <1>2, <1>3, <1>4

\* Gate: the write begins with what it saw.
LEMMA GateKeeps ==
  ASSUME Inv, WritersAdmitted, NEW s \in Source, NEW mode \in Modes, NEW authority \in Authority,
         NEW subject \in Subject, Gate(s, mode, authority, subject)
  PROVE  WritersAdmitted'
<1> DEFINE w == [mode |-> mode, authority |-> authority, subject |-> subject, at |-> -1,
                 quiet |-> Quiet]
<1>1. /\ writer' = [writer EXCEPT ![s] = w] /\ EnforceWrite(s, mode, authority, subject)
      /\ UNCHANGED <<disk, log, op, now, stranded>>
  BY DEF Gate, file, history
<1>3. w \in InFlight
  BY DEF InFlight, Quiet
<1>4. w.at = -1 /\ w.quiet = Quiet /\ w.mode = mode
      /\ w.authority = authority /\ w.subject = subject
  OBVIOUS
<1> HIDE DEF w
<1>5. writer' \in [Source -> InFlight \cup {Idle}] /\ writer'[s] = w
      /\ \A t \in Source : t # s => writer'[t] = writer[t]
  BY <1>1, <1>3 DEF WritersAdmitted
<1>6. Admitted(s, w)
  <2>1. mode # "none" => /\ disk[GrantFile(s)] \in Grant /\ authority <= disk[GrantFile(s)].max
                         /\ InScope(disk[GrantFile(s)], subject) /\ Current(disk, s)
    BY <1>1, GateAdmits
  <2> QED BY <1>4, <2>1 DEF Admitted, Quiet
<1>7. \A t \in Source : writer'[t] # Idle => Admitted(t, writer'[t])
  BY <1>5, <1>6 DEF WritersAdmitted
<1>8. \A t \in Source : writer'[t] # Idle => Admitted(t, writer[t])'
  BY <1>1, <1>7 DEF Admitted
<1> QED BY <1>5, <1>8 DEF WritersAdmitted

\* Stamp: the time of the write is not before any line of the history.
LEMMA StampKeeps ==
  ASSUME Inv, WritersAdmitted, NEW s \in Source, Stamp(s)
  PROVE  WritersAdmitted'
<1> DEFINE w == [writer[s] EXCEPT !.at = now]
<1>1. /\ writer[s] # Idle /\ writer' = [writer EXCEPT ![s] = w]
      /\ UNCHANGED <<disk, log, op, now, stranded>>
  BY DEF Stamp, WritersAdmitted, file, history
<1>2. writer[s] \in InFlight /\ Admitted(s, writer[s])
  BY <1>1 DEF WritersAdmitted
<1>3. now \in 0..now /\ now \in Int /\ \A i \in DOMAIN log : log[i].at <= now
  <2>1. PICK V : log \in Seq(Line(V, now)) /\ now \in Nat
    BY DEF Inv, Typed
  <2>2. \A i \in DOMAIN log : log[i] \in Line(V, now)
    BY <2>1, LenProperties
  <2> QED BY <2>1, <2>2 DEF Line
<1>4. w \in InFlight /\ w.at = now /\ w.mode = writer[s].mode /\ w.authority = writer[s].authority
      /\ w.subject = writer[s].subject /\ w.quiet = writer[s].quiet
  BY <1>2, <1>3 DEF InFlight
<1> HIDE DEF w
<1>5. writer' \in [Source -> InFlight \cup {Idle}] /\ writer'[s] = w
      /\ \A t \in Source : t # s => writer'[t] = writer[t]
  BY <1>1, <1>4 DEF WritersAdmitted
<1>6. Admitted(s, w)
  BY <1>2, <1>3, <1>4 DEF Admitted
<1>7. \A t \in Source : writer'[t] # Idle => Admitted(t, writer'[t])
  BY <1>5, <1>6 DEF WritersAdmitted
<1>8. \A t \in Source : writer'[t] # Idle => Admitted(t, writer[t])'
  BY <1>1, <1>7 DEF Admitted
<1> QED BY <1>5, <1>8 DEF WritersAdmitted

\* An attested event carries the grant the gate saw, and the history speaks for it.
LEMMA AttestKeeps ==
  ASSUME Inv, Restrained, WritersAdmitted, EventsStand, NEW s \in Source, Attest(s)
  PROVE  WritersAdmitted' /\ EventsStand'
<1> DEFINE w == writer[s]
           g == disk[GrantFile(s)]
           e == [source |-> s, key |-> disk[KeyFile(s)], grant |-> g, authority |-> w.authority,
                 subject |-> w.subject, at |-> w.at, quiet |-> w.quiet]
           n == [source |-> s, key |-> Absent, grant |-> Absent, authority |-> w.authority,
                 subject |-> w.subject, at |-> w.at, quiet |-> w.quiet]
<1>1. /\ w # Idle /\ w.at # -1 /\ writer' = [writer EXCEPT ![s] = Idle]
      /\ UNCHANGED <<disk, log, op, now, stranded, revived>>
      /\ \/ events' = events \cup {n}
         \/ events' = events \cup {e} /\ w.mode # "none" /\ KeyMatchesGrant(s)
         \/ events' = events
  BY DEF Attest, file, history
<1>2. WritersAdmitted'
  <2>1. writer' \in [Source -> InFlight \cup {Idle}]
        /\ \A t \in Source : writer'[t] # Idle => writer'[t] = writer[t]
    BY <1>1 DEF WritersAdmitted
  <2>2. \A t \in Source : writer'[t] # Idle => Admitted(t, writer'[t])
    BY <2>1 DEF WritersAdmitted
  <2>3. \A t \in Source : writer'[t] # Idle => Admitted(t, writer[t])'
    BY <1>1, <2>2 DEF Admitted
  <2> QED BY <2>1, <2>3 DEF WritersAdmitted
<1>3. w \in InFlight /\ Admitted(s, w)
  BY <1>1 DEF WritersAdmitted
<1>4. n.key = Absent
  OBVIOUS
<1>5. /\ e.source = s /\ e.key = disk[KeyFile(s)] /\ e.grant = g /\ e.authority = w.authority
      /\ e.subject = w.subject /\ e.at = w.at /\ e.quiet = w.quiet
  OBVIOUS
<1> HIDE DEF n, e, w
<1>6. ASSUME e.quiet, w.mode # "none", KeyMatchesGrant(s)
      PROVE  Signed(e) /\ Standing(e, log, revived)
  <2>1. /\ ~stranded /\ op = Idle /\ g \in Grant /\ w.authority <= g.max /\ InScope(g, w.subject)
        /\ Current(disk, s) /\ \A i \in DOMAIN log : log[i].at <= w.at
    BY <1>1, <1>3, <1>5, <1>6 DEF Admitted, w
  <2>2. g.source = s /\ g # Absent /\ disk[KeyFile(s)] = g.key
    BY <1>6, GrantOnDisk DEF KeyMatchesGrant, Exists
  <2>3. w.at \in 0..now
    BY <1>1, <1>3 DEF Admitted, w
  <2>4. Signed(e)
    BY <1>5, <2>1, <2>2, <2>3 DEF Signed
  <2>5. ~Dead(log, g) \/ g \in revived
    <3>1. Sound(disk, log, revived)
      BY <2>1 DEF Restrained
    <3>2. Lasting(g, log, revived)
      BY <2>1, <3>1 DEF Sound, Current, Lasting
    <3> QED BY <2>2, <3>2 DEF Lasting
  <2>6. Standing(e, log, revived)
    <3> SUFFICES ASSUME ~Dead(log, g), NEW i \in DOMAIN log, log[i].action = "revoked", log[i].grant = g
                 PROVE  \E j \in DOMAIN log : j > i /\ log[j].action = "issued" /\ log[j].grant = g
                                              /\ log[j].at <= w.at
      BY <1>5, <2>5 DEF Standing
    <3> QED BY <2>1 DEF Dead
  <2> QED BY <2>4, <2>6
<1>7. \A x \in events' : x.quiet /\ x.key # Absent => Signed(x) /\ Standing(x, log, revived)
  BY <1>1, <1>4, <1>6 DEF EventsStand, w
<1>8. EventsStand'
  BY <1>1, <1>7 DEF EventsStand, Signed
<1> QED BY <1>2, <1>8

\* What the history says of an event whose grant stands.
LEMMA ExplainedIs ==
  ASSUME Inv, Explained PROVE ExclusionIsExplained
<1> SUFFICES ASSUME NEW e \in events, e.quiet, CheckAttestation(e) = "unentitled",
                    e.grant \notin revived, ~Expired(e.grant, e.at), ~Reissued(log, e.grant, e.at)
             PROVE  \E i \in 1..Len(log) :
                      log[i].action = "revoked" /\ log[i].grant = e.grant /\ log[i].at = e.at
  BY DEF ExclusionIsExplained
<1> DEFINE about(i)  == /\ log[i].grant.source = e.source /\ log[i].grant.key = e.key
                        /\ log[i].at =< e.at
           issued(i) == about(i) /\ log[i].action = "issued"
           last(i)   == issued(i) /\ \A j \in i + 1..Len(log) : ~issued(j)
           ended(i)  == \E j \in i + 1..Len(log) :
                          about(j) /\ log[j].action = "revoked" /\ log[j].grant = log[i].grant
           covers(h) == ~Expired(h, e.at) /\ e.authority =< h.max /\ InScope(h, e.subject)
<1>1. e.key # Absent /\ EntitlementAt(log, e.source, e.key, e.authority, e.subject, e.at) = "unentitled"
  BY DEF CheckAttestation, VerifyEventAttestation
<1>2. Signed(e) /\ Standing(e, log, revived)
  BY <1>1 DEF Explained, EventsStand
<1>3. PICK V : log \in Seq(Line(V, now)) /\ now \in Nat
  BY DEF Inv, Typed
<1>4. /\ Len(log) \in Nat /\ DOMAIN log = 1..Len(log) /\ e.at \in Int
      /\ \A i \in 1..Len(log) : log[i].grant \in Grant /\ log[i].at \in Int
  <2>1. /\ Len(log) \in Nat /\ DOMAIN log = 1..Len(log)
        /\ \A i \in 1..Len(log) : log[i] \in Line(V, now)
    BY <1>3, LenProperties
  <2>2. e.at \in Int
    BY <1>2 DEF Signed
  <2> QED BY <1>3, <2>1, <2>2 DEF Line
<1>5. ASSUME NEW m \in 1..Len(log), last(m) PROVE log[m].grant = e.grant
  <2>1. e.source = e.grant.source /\ e.key = e.grant.key
    BY <1>2 DEF Signed
  <2> QED BY <1>5, <2>1 DEF Reissued
<1>6. PICK m \in 1..Len(log) : last(m) /\ ~(~ended(m) /\ covers(log[m].grant))
  <2>1. EntitlementAt(log, e.source, e.key, e.authority, e.subject, e.at) =
          IF ~\E i \in 1..Len(log) : last(i) THEN "unknown"
          ELSE IF \E i \in 1..Len(log) : last(i) /\ ~ended(i) /\ covers(log[i].grant)
               THEN "entitled" ELSE "unentitled"
    BY DEF EntitlementAt
  <2> HIDE DEF last, ended, covers
  <2> QED BY <1>1, <2>1
<1>7. log[m].grant = e.grant /\ covers(log[m].grant)
  <2>1. log[m].grant = e.grant
    BY <1>5, <1>6
  <2> QED BY <1>2, <2>1 DEF Signed
<1>8. PICK j \in m + 1..Len(log) : log[j].action = "revoked" /\ log[j].grant = e.grant /\ log[j].at =< e.at
  BY <1>6, <1>7
<1>9. j \in 1..Len(log) /\ m < j
  BY <1>4
<1>10. ASSUME log[j].at < e.at PROVE FALSE
  <2>1. PICK k \in 1..Len(log) : k > j /\ log[k].action = "issued" /\ log[k].grant = e.grant /\ log[k].at <= e.at
    BY <1>2, <1>4, <1>8, <1>9, <1>10 DEF Standing
  <2>2. issued(k)
    BY <1>2, <2>1 DEF Signed
  <2>3. k \in m + 1..Len(log)
    BY <1>4, <1>9, <2>1
  <2> QED BY <1>6, <2>2, <2>3
<1>11. log[j].at = e.at
  BY <1>4, <1>8, <1>9, <1>10
<1> QED BY <1>8, <1>9, <1>11

\* Every step keeps the invariant.
LEMMA ExplainedStep ==
  ASSUME Inv, Inv', ~IsCeremony(Idle), Explained, [Next]_vars
  PROVE  Explained'
<1>1. Restrained /\ WritersAdmitted /\ EventsStand
  BY DEF Explained
<1>2. now \in Int /\ now' \in Int
  BY DEF Inv, Typed
<1>3. CASE Command
  <2>1. Restrained'
    BY <1>1, <1>3, CommandRestrained
  <2>2. WritersAdmitted'
    BY <1>1, <1>3, WritersThroughCommand
  <2>3. EventsStand'
    <3>1. UNCHANGED <<log, events, now, revived>>
      BY <1>3, CommandIs
    <3>2. LogOn(log, log', now) /\ now <= now' /\ revived \subseteq revived'
      BY <1>2, <3>1 DEF LogOn
    <3> QED BY <1>1, <1>2, <3>1, <3>2, EventsOn
  <2> QED BY <2>1, <2>2, <2>3 DEF Explained
<1>4. CASE CeremonyStep
  <2>1. Restrained'
    BY <1>1, <1>4, CeremonyRestrained
  <2>2. WritersAdmitted'
    BY <1>1, <1>4, WritersThroughCeremony
  <2>3. EventsStand'
    <3>1. LogOn(log, log', now) /\ revived \subseteq revived' /\ UNCHANGED <<events, now>>
      BY <1>4, CeremonyStepIs
    <3>2. now <= now'
      BY <1>2, <3>1
    <3> QED BY <1>1, <1>2, <3>1, <3>2, EventsOn
  <2> QED BY <2>1, <2>2, <2>3 DEF Explained
<1>5. CASE Write
  <2>1. UNCHANGED <<disk, bak, log, op, stranded, revived>>
    BY <1>5 DEF Write, Gate, Stamp, Attest, file, history
  <2>2. Restrained'
    BY <1>1, <2>1 DEF Restrained
  <2>3. ASSUME NEW s \in Source, NEW mode \in Modes, NEW authority \in Authority, NEW subject \in Subject,
               Gate(s, mode, authority, subject)
        PROVE  WritersAdmitted' /\ EventsStand'
    <3>1. UNCHANGED <<log, events, now, revived>>
      BY <2>3 DEF Gate, file, history
    <3>2. EventsStand'
      BY <1>1, <3>1 DEF EventsStand, Signed
    <3> QED BY <1>1, <2>3, <3>2, GateKeeps
  <2>4. ASSUME NEW s \in Source, Stamp(s) PROVE WritersAdmitted' /\ EventsStand'
    <3>1. UNCHANGED <<log, events, now, revived>>
      BY <2>4 DEF Stamp, file, history
    <3>2. EventsStand'
      BY <1>1, <3>1 DEF EventsStand, Signed
    <3> QED BY <1>1, <2>4, <3>2, StampKeeps
  <2>5. ASSUME NEW s \in Source, Attest(s) PROVE WritersAdmitted' /\ EventsStand'
    BY <1>1, <2>5, AttestKeeps
  <2>6. WritersAdmitted' /\ EventsStand'
    BY <1>5, <2>3, <2>4, <2>5 DEF Write
  <2> QED BY <2>2, <2>6 DEF Explained
<1>6. CASE Tick
  <2>1. now' = now + 1 /\ UNCHANGED <<disk, bak, log, op, writer, events, stranded, revived>>
    BY <1>6 DEF Tick, file, history
  <2>2. Restrained'
    BY <1>1, <2>1 DEF Restrained
  <2>3. 0..now \subseteq 0..now'
    BY <1>2, <2>1
  <2>4. WritersAdmitted'
    BY <1>1, <2>1, <2>3 DEF WritersAdmitted, Admitted
  <2>5. EventsStand'
    BY <1>1, <2>1, <2>3 DEF EventsStand, Signed
  <2> QED BY <2>2, <2>4, <2>5 DEF Explained
<1>7. CASE UNCHANGED vars
  BY <1>1, <1>7 DEF vars, Explained, Restrained, WritersAdmitted, Admitted, EventsStand, Signed
<1> QED BY <1>3, <1>4, <1>5, <1>6, <1>7 DEF Next

\* Verification accuses no write that the gate let through and no identity
\* command overlapped (check_attestations, entitlement_at): only one whose grant
\* was revoked and made current again by a repair, revoked in the millisecond of
\* the write, expired when the write was stamped, or is no longer the last one
\* issued for its key is found unentitled.  What stands for "no command" is not
\* itself a command.
THEOREM ExclusionsAreExplained ==
  ASSUME ~IsCeremony(Idle) PROVE Spec => []ExclusionIsExplained
<1>1. Init => Explained
  <2> SUFFICES ASSUME Init PROVE Explained
    OBVIOUS
  <2>2. Restrained
    <3>1. disk[ActiveFile] = Absent /\ DOMAIN log = {}
      BY DEF Init, File
    <3>2. Sound(disk, log, revived)
      BY <3>1 DEF Sound, Dead
    <3> QED BY <3>2 DEF Init, Restrained
  <2>3. WritersAdmitted
    BY DEF Init, WritersAdmitted
  <2>4. EventsStand
    BY DEF Init, EventsStand
  <2> QED BY <2>2, <2>3, <2>4 DEF Explained
<1>2. Inv /\ Inv' /\ Explained /\ [Next]_vars => Explained'
  BY ExplainedStep
<1>3. Inv /\ Explained => ExclusionIsExplained
  BY ExplainedIs
<1> QED BY <1>1, <1>2, <1>3, InvHolds, PTL DEF Spec
=============================================================================
