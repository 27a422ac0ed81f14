---------------------- MODULE AuthorityRegistryProofs ----------------------
(***************************************************************************)
(* Proofs about AuthorityRegistry, for any set of names, subjects, levels, *)
(* editors and commands. They rest on a few facts about issuer chains,     *)
(* which are least closed sets: a chain is contained in every closed set   *)
(* that holds its first name, so an argument about chains is an argument   *)
(* about one well chosen closed set, with no induction.                    *)
(***************************************************************************)
EXTENDS AuthorityRegistry, TLAPS

-----------------------------------------------------------------------------
(* Issuer chains.                                                          *)

\* A chain holds its first name.
LEMMA ChainStarts ==
  ASSUME NEW r \in Registry, NEW n \in Names
  PROVE  n \in Chain(r, n) /\ Chain(r, n) \in SUBSET Names
BY DEF Chain

\* A chain is contained in every closed set that holds its first name.
LEMMA ChainLeast ==
  ASSUME NEW r \in Registry, NEW n \in Names,
         NEW S \in SUBSET Names, n \in S, ClosedUnder(r, S)
  PROVE  Chain(r, n) \subseteq S
BY DEF Chain

\* The issuer of a link that is not an end is a name.
LEMMA IssuerIsName ==
  ASSUME NEW r \in Registry, NEW n \in Names, ~Ends(r, n)
  PROVE  r[n] \in Grant /\ r[n].issuer \in Names
BY DEF Ends, Registry, Grant

\* A chain is closed under issuers.
LEMMA ChainIsClosed ==
  ASSUME NEW r \in Registry, NEW n \in Names
  PROVE  ClosedUnder(r, Chain(r, n))
<1> SUFFICES ASSUME NEW m \in Chain(r, n), ~Ends(r, m)
             PROVE  r[m].issuer \in Chain(r, n)
    BY DEF ClosedUnder
<1>1. m \in Names
    BY DEF Chain
<1>2. r[m].issuer \in Names
    BY <1>1, IssuerIsName
<1>3. ASSUME NEW S \in SUBSET Names, n \in S, ClosedUnder(r, S)
      PROVE  r[m].issuer \in S
    <2>1. m \in S
        BY <1>3 DEF Chain
    <2> QED BY <2>1, <1>3 DEF ClosedUnder
<1> QED BY <1>2, <1>3 DEF Chain

\* The chain of a link is part of the chain.
LEMMA ChainOfLink ==
  ASSUME NEW r \in Registry, NEW n \in Names, NEW m \in Chain(r, n)
  PROVE  m \in Names /\ Chain(r, m) \subseteq Chain(r, n)
<1>1. m \in Names /\ Chain(r, n) \in SUBSET Names
    BY ChainStarts
<1>2. ClosedUnder(r, Chain(r, n))
    BY ChainIsClosed
<1> QED BY <1>1, <1>2, ChainLeast

\* The chain of an end is the end.
LEMMA ChainOfEnd ==
  ASSUME NEW r \in Registry, NEW n \in Names, Ends(r, n)
  PROVE  Chain(r, n) = {n}
<1>1. ClosedUnder(r, {n})
    BY DEF ClosedUnder
<1>2. Chain(r, n) \subseteq {n}
    BY <1>1, ChainLeast
<1> QED BY <1>2, ChainStarts

\* Any other chain is its first name and the chain of the issuer.
LEMMA ChainOfIssuer ==
  ASSUME NEW r \in Registry, NEW n \in Names, ~Ends(r, n)
  PROVE  /\ r[n].issuer \in Names
         /\ Chain(r, n) = {n} \cup Chain(r, r[n].issuer)
<1> DEFINE i == r[n].issuer
<1>1. i \in Names
    BY IssuerIsName
<1>2. Chain(r, i) \in SUBSET Names /\ i \in Chain(r, i)
    BY <1>1, ChainStarts
<1>3. ClosedUnder(r, Chain(r, i))
    BY <1>1, ChainIsClosed
<1>4. ClosedUnder(r, {n} \cup Chain(r, i))
    BY <1>2, <1>3 DEF ClosedUnder
<1>5. Chain(r, n) \subseteq {n} \cup Chain(r, i)
    <2> DEFINE S == {n} \cup Chain(r, i)
    <2>1. S \in SUBSET Names /\ n \in S /\ ClosedUnder(r, S)
        BY <1>2, <1>4
    <2> HIDE DEF S
    <2>2. Chain(r, n) \subseteq S
        BY <2>1, ChainLeast
    <2> QED BY <2>2 DEF S
<1>6. n \in Chain(r, n) /\ i \in Chain(r, n)
    BY ChainStarts, ChainIsClosed DEF ClosedUnder
<1>7. Chain(r, i) \subseteq Chain(r, n)
    BY <1>6, ChainOfLink
<1> QED BY <1>1, <1>5, <1>6, <1>7

\* Two registries that agree on a chain have the same chain.
LEMMA ChainOfEqual ==
  ASSUME NEW r \in Registry, NEW q \in Registry, NEW n \in Names,
         \A m \in Chain(r, n) : q[m] = r[m]
  PROVE  Chain(q, n) = Chain(r, n)
<1>1. n \in Chain(r, n) /\ Chain(r, n) \in SUBSET Names
    BY ChainStarts
<1>2. ClosedUnder(q, Chain(r, n))
    BY ChainIsClosed DEF ClosedUnder, Ends
<1>3. Chain(q, n) \subseteq Chain(r, n)
    BY <1>1, <1>2, ChainLeast
<1>4. n \in Chain(q, n) /\ Chain(q, n) \in SUBSET Names
    BY ChainStarts
<1>5. ClosedUnder(r, Chain(q, n))
    BY <1>3, ChainIsClosed DEF ClosedUnder, Ends
<1>6. Chain(r, n) \subseteq Chain(q, n)
    BY <1>4, <1>5, ChainLeast
<1> QED BY <1>3, <1>6

\* If a chain grounds out, so does the chain of every link of it.
LEMMA GroundsOutBelow ==
  ASSUME NEW r \in Registry, NEW n \in Names, GroundsOut(r, n),
         NEW m \in Chain(r, n)
  PROVE  GroundsOut(r, m)
<1>1. PICK e \in Chain(r, n) : Ends(r, e)
    BY DEF GroundsOut
<1> DEFINE S == {l \in Chain(r, n) : e \in Chain(r, l)}
<1>2. S \in SUBSET Names /\ n \in S
    BY <1>1, ChainStarts
<1>3. ClosedUnder(r, S)
    <2> SUFFICES ASSUME NEW l \in S, ~Ends(r, l)
                 PROVE  r[l].issuer \in S
        BY DEF ClosedUnder
    <2>1. l \in Names
        BY <1>2
    <2>2. r[l].issuer \in Chain(r, n)
        BY ChainIsClosed DEF ClosedUnder
    <2>3. e \in {l} \cup Chain(r, r[l].issuer)
        BY <2>1, ChainOfIssuer
    <2>4. e # l
        BY <1>1
    <2> QED BY <2>2, <2>3, <2>4
<1>4. m \in S
    <2> HIDE DEF S
    <2> QED BY <1>2, <1>3, ChainLeast
<1> QED BY <1>1, <1>4 DEF GroundsOut

\* A chain that meets its first name again does not ground out.
LEMMA NoReturn ==
  ASSUME NEW r \in Registry, NEW n \in Names, ~Ends(r, n),
         n \in Chain(r, r[n].issuer)
  PROVE  ~GroundsOut(r, n)
<1> SUFFICES ASSUME NEW e \in Chain(r, n), Ends(r, e)
             PROVE  FALSE
    BY DEF GroundsOut
<1> DEFINE S == {l \in Chain(r, n) : n \in Chain(r, l)}
<1>1. S \in SUBSET Names /\ n \in S
    BY ChainStarts
<1>2. ClosedUnder(r, S)
    <2> SUFFICES ASSUME NEW l \in S, ~Ends(r, l)
                 PROVE  r[l].issuer \in S
        BY DEF ClosedUnder
    <2>1. l \in Names
        BY <1>1
    <2>2. r[l].issuer \in Chain(r, n)
        BY ChainIsClosed DEF ClosedUnder
    <2>3. n \in {l} \cup Chain(r, r[l].issuer)
        BY <2>1, ChainOfIssuer
    <2> QED BY <2>2, <2>3
<1>3. e \in S
    <2> HIDE DEF S
    <2> QED BY <1>1, <1>2, ChainLeast
<1>4. e \in Names /\ n \in Chain(r, e)
    BY <1>1, <1>3
<1>5. n = e
    BY <1>4, ChainOfEnd
<1> QED BY <1>5

\* A change to grounded grants that leaves the changed ones grounded leaves
\* all of them grounded.
LEMMA ChangeGrounds ==
  ASSUME NEW r \in Registry, NEW q \in Registry, NEW D \in SUBSET Names,
         \A n \in Names : GroundsOut(r, n),
         \A n \in Names \ D : q[n] = r[n],
         \A n \in D : GroundsOut(q, n)
  PROVE  \A n \in Names : GroundsOut(q, n)
<1> SUFFICES ASSUME NEW n \in Names
             PROVE  GroundsOut(q, n)
    OBVIOUS
<1>1. n \in Chain(q, n) /\ Chain(q, n) \in SUBSET Names
    BY ChainStarts
<1>2. CASE \E d \in Chain(q, n) : d \in D
    <2>1. PICK d \in Chain(q, n) : d \in D
        BY <1>2
    <2>2. PICK e \in Chain(q, d) : Ends(q, e)
        BY <2>1 DEF GroundsOut
    <2>3. e \in Chain(q, n)
        BY <2>1, <2>2, ChainOfLink
    <2> QED BY <2>2, <2>3 DEF GroundsOut
<1>3. CASE \A d \in Chain(q, n) : d \notin D
    <2>1. \A m \in Chain(q, n) : r[m] = q[m]
        BY <1>1, <1>3
    <2>2. Chain(r, n) = Chain(q, n)
        BY <2>1, ChainOfEqual
    <2> QED BY <2>1, <2>2 DEF GroundsOut, Ends
<1> QED BY <1>2, <1>3

-----------------------------------------------------------------------------
(* What the commands save.                                                 *)

\* What a command edits is a registry.
LEMMA LoadedIsRegistry ==
  ASSUME NEW f \in Registry \cup {NoFile}
  PROVE  Loaded(f) \in Registry
BY DEF Loaded, Registry

\* Inserting a grant makes a registry that differs at one name.
LEMMA GrantedIsRegistry ==
  ASSUME NEW r \in Registry, NEW n \in Names, NEW g \in Grant
  PROVE  /\ Granted(r, n, g) \in Registry
         /\ Granted(r, n, g)[n] = g
         /\ \A m \in Names \ {n} : Granted(r, n, g)[m] = r[m]
BY DEF Granted, Registry

\* A grant with no issuer is a grant.
LEMMA RootIsGrant ==
  ASSUME NEW l \in Levels
  PROVE  RootGrant(l) \in Grant /\ RootGrant(l).issuer = NoIssuer
BY DEF RootGrant, Grant

\* Seeding makes a registry that differs where it adds grants with no issuer.
LEMMA SeedIsRegistry ==
  ASSUME NEW r \in Registry
  PROVE  /\ Seed(r) \in Registry
         /\ \A n \in Names : \/ Seed(r)[n] = r[n]
                             \/ /\ n \in Sources /\ r[n] = NoGrant
                                /\ Ends(Seed(r), n)
<1>1. ASSUME NEW n \in Names, n \in DOMAIN Profile
      PROVE  n \in Sources /\ RootGrant(Profile[n]) \in Grant
             /\ RootGrant(Profile[n]).issuer = NoIssuer
    BY <1>1, RegistryAssumption, RootIsGrant
<1> QED BY <1>1 DEF Seed, Registry, Ends

\* Revoking makes a registry that differs where it leaves no grant.
LEMMA RevokedIsRegistry ==
  ASSUME NEW r \in Registry, NEW s \in Names
  PROVE  /\ Revoked(r, s) \in Registry
         /\ \A n \in Names : Revoked(r, s)[n] \in {r[n], NoGrant}
BY DEF Revoked, Registry

\* The part of Edit for each kind of command.
LEMMA EditCases ==
  ASSUME NEW f \in Registry \cup {NoFile}, NEW c \in Command
  PROVE  \/ /\ c.op = "add" /\ c.source \in Sources /\ c.grant \in Grant
            /\ Edit(f, c) = AddEdit(f, c)
         \/ /\ c.op = "remove" /\ c.source \in Sources
            /\ Edit(f, c) = RemoveEdit(f, c)
         \/ /\ c.op = "defaults"
            /\ Edit(f, c) = Seed(Loaded(f))
         \/ /\ c.op = "init" /\ c.source \in Sources /\ c.level \in Levels
            /\ Edit(f, c) = Seed(Granted(Loaded(f), c.source, RootGrant(c.level)))
         \/ /\ c.op = "agent_add" /\ c.source \in Sources
            /\ c.asked \in Levels \cup {Unknown}
            /\ c.identity \in [max : Levels, issuer : Operators,
                               scope : Subjects \cup {Everywhere}]
            /\ Edit(f, c) = AgentAddEdit(f, c)
BY DEF Edit, Command

\* What agent add records is a grant from an operator.
LEMMA AgentGrant ==
  ASSUME NEW f \in Registry \cup {NoFile}, NEW c \in Command, c.op = "agent_add"
  PROVE  LET g == [c.identity EXCEPT !.max = AgentCeiling(Loaded(f), c)]
         IN  g \in Grant /\ g.issuer \in Operators
<1>1. /\ c.source \in Sources /\ c.asked \in Levels \cup {Unknown}
      /\ c.identity \in [max : Levels, issuer : Operators,
                         scope : Subjects \cup {Everywhere}]
    BY DEF Command
<1>2. Loaded(f)[c.source] \in Grant \cup {NoGrant}
    BY <1>1, LoadedIsRegistry, RegistryAssumption DEF Registry
<1>3. AgentCeiling(Loaded(f), c) \in Levels
    BY <1>1, <1>2 DEF AgentCeiling, Grant
<1>4. Operators \subseteq Names
    BY RegistryAssumption
<1> QED BY <1>1, <1>3, <1>4 DEF Grant

\* A command that is not refused saves a registry.
LEMMA EditIsRegistry ==
  ASSUME NEW f \in Registry \cup {NoFile}, NEW c \in Command, Edit(f, c) # Refused
  PROVE  Edit(f, c) \in Registry
<1> USE LoadedIsRegistry
<1>0. Sources \subseteq Names
    BY RegistryAssumption
<1>1. CASE c.op = "add"
    BY <1>0, <1>1, EditCases, GrantedIsRegistry DEF AddEdit
<1>2. CASE c.op = "remove"
    <2>1. c.source \in Names /\ Edit(f, c) = RemoveEdit(f, c)
        BY <1>0, <1>2, EditCases
    <2>2. f # NoFile /\ Edit(f, c) = Revoked(f, c.source)
        BY <2>1 DEF RemoveEdit
    <2> QED BY <2>1, <2>2, RevokedIsRegistry
<1>3. CASE c.op = "defaults"
    BY <1>3, EditCases, SeedIsRegistry
<1>4. CASE c.op = "init"
    <2> DEFINE q == Granted(Loaded(f), c.source, RootGrant(c.level))
    <2>1. c.source \in Names /\ c.level \in Levels /\ Edit(f, c) = Seed(q)
        BY <1>0, <1>4, EditCases
    <2>2. q \in Registry
        BY <2>1, RootIsGrant, GrantedIsRegistry
    <2> HIDE DEF q
    <2> QED BY <2>1, <2>2, SeedIsRegistry
<1>5. CASE c.op = "agent_add"
    <2>1. c.source \in Names /\ Edit(f, c) = AgentAddEdit(f, c)
        BY <1>0, <1>5, EditCases
    <2>2. Edit(f, c) = Granted(Loaded(f), c.source,
                               [c.identity EXCEPT !.max = AgentCeiling(Loaded(f), c)])
        BY <2>1 DEF AgentAddEdit
    <2>3. [c.identity EXCEPT !.max = AgentCeiling(Loaded(f), c)] \in Grant
        BY <1>5, AgentGrant
    <2> QED BY <2>1, <2>2, <2>3, GrantedIsRegistry
<1> QED BY <1>1, <1>2, <1>3, <1>4, <1>5, EditCases

-----------------------------------------------------------------------------
(* Type correctness.                                                       *)

\* A command that was begun was not refused on the file it loaded: Save
\* computes again what Begin decided, on the same registry.
Decided == \A e \in Editors : editing[e] # Idle =>
             Edit(editing[e].base, editing[e].cmd) # Refused

\* Every reachable state is well typed: in particular no command saves
\* anything but a registry.
THEOREM RegistryTyped == Spec => [](TypeOK /\ Decided)
<1>1. Init => TypeOK /\ Decided
    BY DEF Init, TypeOK, Decided
<1>2. TypeOK /\ Decided /\ [Next]_vars => (TypeOK /\ Decided)'
    <2> SUFFICES ASSUME TypeOK, Decided, [Next]_vars
                 PROVE  TypeOK' /\ Decided'
        OBVIOUS
    <2>1. ASSUME NEW e \in Editors, NEW c \in Commands, Begin(e, c)
          PROVE  TypeOK' /\ Decided'
        <3>1. c \in Command
            BY RegistryAssumption
        <3> QED BY <2>1, <3>1 DEF Begin, TypeOK, Decided
    <2>2. ASSUME NEW e \in Editors, Save(e)
          PROVE  TypeOK' /\ Decided'
        <3>1. Edit(editing[e].base, editing[e].cmd) \in Registry
            <4>1. /\ editing[e].base \in Registry \cup {NoFile}
                  /\ editing[e].cmd \in Command
                  /\ Edit(editing[e].base, editing[e].cmd) # Refused
                BY <2>2 DEF Save, TypeOK, Decided
            <4> QED BY <4>1, EditIsRegistry
        <3> QED BY <2>2, <3>1 DEF Save, TypeOK, Decided
    <2>3. ASSUME NEW e \in Editors, SaveFails(e)
          PROVE  TypeOK' /\ Decided'
        BY <2>3 DEF SaveFails, TypeOK, Decided
    <2>4. ASSUME NEW r \in HandEdits, HandEdit(r)
          PROVE  TypeOK' /\ Decided'
        BY <2>4, RegistryAssumption DEF HandEdit, TypeOK, Decided
    <2>5. CASE UNCHANGED vars
        BY <2>5 DEF vars, TypeOK, Decided
    <2> QED BY <2>1, <2>2, <2>3, <2>4, <2>5 DEF Next
<1> QED BY <1>1, <1>2, PTL DEF Spec

-----------------------------------------------------------------------------
(* No chain of issuers meets itself.                                       *)

\* Every chain of a registry grounds out, and only sources have grants.
Sound(r) ==
  /\ \A n \in Names : GroundsOut(r, n)
  /\ \A n \in Names \ Sources : r[n] = NoGrant

\* An end grounds out.
LEMMA EndGroundsOut ==
  ASSUME NEW r \in Registry, NEW n \in Names, Ends(r, n)
  PROVE  GroundsOut(r, n)
BY ChainStarts DEF GroundsOut

\* A new grant keeps a registry sound if its issuer's chain does not come back
\* to the source; one with no issuer always does.
LEMMA GrantKeepsSound ==
  ASSUME NEW r \in Registry, Sound(r), NEW n \in Sources, NEW g \in Grant,
         g.issuer = NoIssuer \/ n \notin Chain(r, g.issuer)
  PROVE  Sound(Granted(r, n, g))
<1> DEFINE q == Granted(r, n, g)
<1>0. n \in Names
    BY RegistryAssumption
<1>1. q \in Registry /\ q[n] = g /\ \A m \in Names \ {n} : q[m] = r[m]
    BY <1>0, GrantedIsRegistry
<1> HIDE DEF q
<1>2. GroundsOut(q, n)
    <2>1. CASE g.issuer = NoIssuer
        BY <1>0, <1>1, <2>1, EndGroundsOut DEF Ends
    <2>2. CASE g.issuer # NoIssuer
        <3> DEFINE i == g.issuer
        <3>1. i \in Names /\ n \notin Chain(r, i)
            BY <2>2 DEF Grant
        <3>2. \A m \in Chain(r, i) : q[m] = r[m]
            BY <1>1, <3>1, ChainStarts
        <3>3. Chain(q, i) = Chain(r, i)
            BY <1>1, <3>1, <3>2, ChainOfEqual
        <3>4. PICK e \in Chain(r, i) : Ends(r, e)
            BY <3>1 DEF Sound, GroundsOut
        <3>5. Ends(q, e)
            BY <3>2, <3>4 DEF Ends
        <3>6. ~Ends(q, n)
            BY <1>1, <2>2, RegistryAssumption DEF Ends
        <3>7. e \in Chain(q, n)
            BY <1>0, <1>1, <3>3, <3>4, <3>6, ChainOfIssuer
        <3> QED BY <3>5, <3>7 DEF GroundsOut
    <2> QED BY <2>1, <2>2
<1>3. \A m \in Names : GroundsOut(q, m)
    <2> DEFINE D == {n}
    <2>1. /\ D \in SUBSET Names /\ \A m \in Names \ D : q[m] = r[m]
          /\ \A m \in D : GroundsOut(q, m)
        BY <1>0, <1>1, <1>2
    <2> HIDE DEF D
    <2> QED BY <1>1, <2>1, ChangeGrounds DEF Sound
<1>4. \A m \in Names \ Sources : q[m] = NoGrant
    BY <1>1 DEF Sound
<1>5. Sound(q)
    BY <1>3, <1>4 DEF Sound
<1> QED BY <1>5 DEF q

\* Seeding keeps a registry sound.
LEMMA SeedKeepsSound ==
  ASSUME NEW r \in Registry, Sound(r)
  PROVE  Sound(Seed(r))
<1> DEFINE q == Seed(r)
           D == {n \in Names : q[n] # r[n]}
<1>1. q \in Registry /\ \A n \in D : n \in Sources /\ Ends(q, n)
    BY SeedIsRegistry
<1>2. \A n \in D : GroundsOut(q, n)
    BY <1>1, EndGroundsOut
<1>3. D \in SUBSET Names /\ \A n \in Names \ D : q[n] = r[n]
    OBVIOUS
<1> HIDE DEF q, D
<1>4. \A n \in Names : GroundsOut(q, n)
    BY <1>1, <1>2, <1>3, ChangeGrounds DEF Sound
<1>5. Sound(q)
    BY <1>1, <1>3, <1>4 DEF Sound
<1> QED BY <1>5 DEF q

\* Revoking keeps a registry sound.
LEMMA RevokeKeepsSound ==
  ASSUME NEW r \in Registry, Sound(r), NEW s \in Names
  PROVE  Sound(Revoked(r, s))
<1> DEFINE q == Revoked(r, s)
           D == {n \in Names : q[n] # r[n]}
<1>1. q \in Registry /\ \A n \in Names : q[n] \in {r[n], NoGrant}
    BY RevokedIsRegistry
<1>2. \A n \in D : GroundsOut(q, n)
    <2> SUFFICES ASSUME NEW n \in D
                 PROVE  GroundsOut(q, n)
        OBVIOUS
    <2>1. n \in Names /\ Ends(q, n)
        BY <1>1 DEF Ends
    <2> QED BY <1>1, <2>1, EndGroundsOut
<1>3. D \in SUBSET Names /\ \A n \in Names \ D : q[n] = r[n]
    OBVIOUS
<1> HIDE DEF q, D
<1>4. \A n \in Names : GroundsOut(q, n)
    BY <1>1, <1>2, <1>3, ChangeGrounds DEF Sound
<1>5. Sound(q)
    BY <1>1, <1>4 DEF Sound
<1> QED BY <1>5 DEF q

\* A registry with no grants is sound.
LEMMA LoadedIsSound ==
  ASSUME NEW f \in Registry \cup {NoFile}, f # NoFile => Sound(f)
  PROVE  Sound(Loaded(f))
<1>1. CASE f # NoFile
    BY <1>1 DEF Loaded
<1>2. CASE f = NoFile
    <2>1. \A n \in Names : Loaded(f)[n] = NoGrant
        BY <1>2 DEF Loaded
    <2>2. \A n \in Names : Ends(Loaded(f), n)
        BY <2>1 DEF Ends
    <2> QED BY <2>1, <2>2, LoadedIsRegistry, EndGroundsOut DEF Sound
<1> QED BY <1>1, <1>2

\* Whatever sound registry a command loads, what it saves is sound, as long as
\* no operator's name is that of a source.
LEMMA EditKeepsSound ==
  ASSUME NEW f \in Registry \cup {NoFile}, f # NoFile => Sound(f),
         NEW c \in Command, Edit(f, c) # Refused, Operators \cap Sources = {}
  PROVE  Sound(Edit(f, c))
<1> DEFINE r == Loaded(f)
<1>1. r \in Registry /\ Sound(r)
    BY LoadedIsRegistry, LoadedIsSound
<1>2. Sources \subseteq Names /\ Operators \subseteq Names
    BY RegistryAssumption
<1> HIDE DEF r
<1>3. CASE c.op = "add"
    <2>1. /\ c.source \in Sources /\ c.grant \in Grant
          /\ Edit(f, c) = Granted(r, c.source, c.grant)
          /\ Validate(r, c.source, c.grant)
        BY <1>3, EditCases DEF AddEdit, r
    <2> QED BY <1>1, <2>1, GrantKeepsSound DEF Validate
<1>4. CASE c.op = "remove"
    <2>1. c.source \in Names /\ f # NoFile /\ Edit(f, c) = Revoked(f, c.source)
        BY <1>2, <1>4, EditCases DEF RemoveEdit
    <2> QED BY <2>1, RevokeKeepsSound
<1>5. CASE c.op = "defaults"
    BY <1>1, <1>5, EditCases, SeedKeepsSound DEF r
<1>6. CASE c.op = "init"
    <2> DEFINE q == Granted(r, c.source, RootGrant(c.level))
    <2>1. c.source \in Sources /\ c.level \in Levels /\ Edit(f, c) = Seed(q)
        BY <1>6, EditCases DEF r
    <2>2. q \in Registry /\ Sound(q)
        BY <1>1, <1>2, <2>1, RootIsGrant, GrantedIsRegistry, GrantKeepsSound
    <2> HIDE DEF q
    <2> QED BY <2>1, <2>2, SeedKeepsSound
<1>7. CASE c.op = "agent_add"
    <2> DEFINE g == [c.identity EXCEPT !.max = AgentCeiling(r, c)]
    <2>1. c.source \in Sources /\ Edit(f, c) = Granted(r, c.source, g)
        BY <1>7, EditCases DEF AgentAddEdit, r
    <2>2. g \in Grant /\ g.issuer \in Operators
        BY <1>7, AgentGrant DEF r
    <2> HIDE DEF g
    <2>3. g.issuer \in Names /\ r[g.issuer] = NoGrant
        BY <1>1, <1>2, <2>2 DEF Sound
    <2>4. Chain(r, g.issuer) = {g.issuer}
        BY <1>1, <2>3, ChainOfEnd DEF Ends
    <2>5. c.source \notin Chain(r, g.issuer)
        BY <2>1, <2>2, <2>4
    <2> QED BY <1>1, <2>1, <2>2, <2>5, GrantKeepsSound
<1> QED BY <1>3, <1>4, <1>5, <1>6, <1>7, EditCases

\* Until a hand edit, the file and every copy an editor has loaded are sound.
AllSound == byHand = 0 =>
  /\ file # NoFile => Sound(file)
  /\ \A e \in Editors : editing[e] # Idle /\ editing[e].base # NoFile
                          => Sound(editing[e].base)

\* However many editors overlap and whichever save wins, the commands never
\* leave a chain of issuers that meets itself, until the file is edited by hand,
\* if no operator's name is that of a source.
THEOREM ChainsGroundOut ==
  ASSUME Operators \cap Sources = {}
  PROVE  Spec => []NoGrantGroundsItself
<1>1. Init => AllSound
    BY DEF Init, AllSound
<1>2. TypeOK /\ Decided /\ AllSound /\ [Next]_vars => AllSound'
    <2> SUFFICES ASSUME TypeOK, Decided, AllSound, [Next]_vars
                 PROVE  AllSound'
        OBVIOUS
    <2>1. ASSUME NEW e \in Editors, NEW c \in Commands, Begin(e, c)
          PROVE  AllSound'
        BY <2>1 DEF Begin, TypeOK, AllSound
    <2>2. ASSUME NEW e \in Editors, Save(e), byHand = 0
          PROVE  AllSound'
        <3>1. /\ editing[e].base \in Registry \cup {NoFile}
              /\ editing[e].base # NoFile => Sound(editing[e].base)
              /\ editing[e].cmd \in Command
              /\ Edit(editing[e].base, editing[e].cmd) # Refused
            BY <2>2 DEF Save, TypeOK, Decided, AllSound
        <3>2. Sound(file')
            BY <2>2, <3>1, EditKeepsSound DEF Save
        <3> QED BY <2>2, <3>2 DEF Save, TypeOK, AllSound
    <2>3. ASSUME NEW e \in Editors, SaveFails(e)
          PROVE  AllSound'
        BY <2>3 DEF SaveFails, TypeOK, AllSound
    <2>4. ASSUME NEW r \in HandEdits, HandEdit(r)
          PROVE  AllSound'
        BY <2>4 DEF HandEdit, TypeOK, AllSound
    <2>5. ASSUME NEW e \in Editors, Save(e), byHand # 0
          PROVE  AllSound'
        BY <2>5 DEF Save, AllSound
    <2>6. CASE UNCHANGED vars
        BY <2>6 DEF vars, AllSound
    <2> QED BY <2>1, <2>2, <2>3, <2>4, <2>5, <2>6 DEF Next
<1>3. AllSound => NoGrantGroundsItself
    BY DEF AllSound, NoGrantGroundsItself, Sound
<1> QED BY <1>1, <1>2, <1>3, RegistryTyped, PTL DEF Spec

-----------------------------------------------------------------------------
(* The gate.                                                               *)

\* What the gate allows a source it allows every registered link above it.
LEMMA GateIsMonotone ==
  ASSUME NEW r \in Registry, NEW w \in Write, GrantCheck(r, w),
         NEW m \in Chain(r, w.source), r[m] # NoGrant
  PROVE  GrantCheck(r, [w EXCEPT !.source = m])
<1> DEFINE v == [w EXCEPT !.source = m]
<1>1. w.source \in Names /\ v.source = m /\ v.level = w.level /\ v.subject = w.subject
    BY DEF Write
<1> HIDE DEF v
<1>2. m \in Names /\ Chain(r, m) \subseteq Chain(r, w.source)
    BY <1>1, ChainOfLink
<1>3. GroundsOut(r, m)
    BY <1>1, GroundsOutBelow DEF GrantCheck
<1>4. w.level =< r[m].max
    BY DEF GrantCheck
<1>5. GrantCheck(r, v)
    BY <1>1, <1>2, <1>3, <1>4 DEF GrantCheck, Ceiling
<1> QED BY <1>5 DEF v

\* Whatever is in the file, cycles and hand edits included, no source may
\* write what a registered issuer above it may not.
THEOREM NoSelfEscalation == Spec => []NobodyExceedsAnIssuer
<1>1. TypeOK => NobodyExceedsAnIssuer
    BY GateIsMonotone DEF TypeOK, NobodyExceedsAnIssuer, Authorized
<1> QED BY <1>1, RegistryTyped, PTL

-----------------------------------------------------------------------------
(* Adding.                                                                 *)

\* What authority add accepts, the gate honours in full.
LEMMA AcceptedIsUsable ==
  ASSUME NEW r \in Registry, NEW n \in Names, NEW g \in Grant, Validate(r, n, g)
  PROVE  FullyUsable(Granted(r, n, g), n)
<1> DEFINE q == Granted(r, n, g)
           i == g.issuer
<1>1. q \in Registry /\ q[n] = g /\ \A m \in Names \ {n} : q[m] = r[m]
    BY GrantedIsRegistry
<1>2. g # NoGrant /\ g.max \in Levels /\ g.max \in Nat
    BY RegistryAssumption DEF Grant
<1> HIDE DEF q
<1>3. ASSUME NEW s \in Subjects, ScopeCovers(g.scope, s)
      PROVE  GrantCheck(q, [source |-> n, level |-> g.max, subject |-> s])
    <2>1. CASE i = NoIssuer
        <3>1. Ends(q, n)
            BY <1>1, <2>1 DEF Ends
        <3>2. Chain(q, n) = {n}
            BY <1>1, <3>1, ChainOfEnd
        <3> QED BY <1>1, <1>2, <1>3, <3>1, <3>2 DEF GrantCheck, Ceiling, GroundsOut
    <2>2. CASE i # NoIssuer
        <3>1. /\ i \in Names /\ n \notin Chain(r, i) /\ GroundsOut(r, i)
              /\ \A m \in Chain(r, i) : r[m] # NoGrant => Within(g, r[m])
            BY <2>2 DEF Validate, Grant
        <3>2. \A m \in Chain(r, i) : m \in Names /\ q[m] = r[m]
            BY <1>1, <3>1, ChainStarts
        <3>3. Chain(q, i) = Chain(r, i)
            BY <1>1, <3>1, <3>2, ChainOfEqual
        <3>4. Chain(q, n) = {n} \cup Chain(r, i)
            BY <1>1, <1>2, <2>2, <3>3, ChainOfIssuer DEF Ends
        <3>5. GroundsOut(q, n)
            BY <3>1, <3>2, <3>4 DEF GroundsOut, Ends
        <3>6. ASSUME NEW m \in Chain(q, n), q[m] # NoGrant
              PROVE  ScopeCovers(q[m].scope, s) /\ g.max =< q[m].max
            <4>1. CASE m = n
                BY <1>1, <1>2, <1>3, <4>1
            <4>2. CASE m \in Chain(r, i)
                BY <1>3, <3>1, <3>2, <3>6, <4>2 DEF Within, ScopeCovers
            <4> QED BY <3>4, <4>1, <4>2
        <3> QED BY <1>1, <1>2, <3>5, <3>6 DEF GrantCheck, Ceiling
    <2> QED BY <2>1, <2>2
<1>4. FullyUsable(q, n)
    BY <1>1, <1>3 DEF FullyUsable
<1> QED BY <1>4 DEF q

\* What the gate would honour in full, authority add accepts.
LEMMA UsableIsAccepted ==
  ASSUME NEW r \in Registry, NEW n \in Names, NEW g \in Grant,
         g.scope # Malformed, FullyUsable(Granted(r, n, g), n)
  PROVE  Validate(r, n, g)
<1> DEFINE q == Granted(r, n, g)
           i == g.issuer
<1>1. q \in Registry /\ q[n] = g /\ \A m \in Names \ {n} : q[m] = r[m]
    BY GrantedIsRegistry
<1>2. g # NoGrant /\ g.scope \in Subjects \cup {Everywhere}
    BY RegistryAssumption DEF Grant
<1>3. FullyUsable(q, n)
    OBVIOUS
<1> HIDE DEF q
<1>4. ASSUME NEW s \in Subjects, ScopeCovers(g.scope, s)
      PROVE  /\ GroundsOut(q, n)
             /\ \A m \in Chain(q, n) : q[m] # NoGrant =>
                  ScopeCovers(q[m].scope, s) /\ g.max =< q[m].max
    BY <1>1, <1>3, <1>4 DEF FullyUsable, GrantCheck
<1>5. PICK s \in Subjects : ScopeCovers(g.scope, s)
    BY <1>2, RegistryAssumption DEF ScopeCovers
<1> SUFFICES ASSUME i # NoIssuer
             PROVE  /\ n \notin Chain(r, i) /\ GroundsOut(r, i)
                    /\ \A m \in Chain(r, i) : r[m] # NoGrant => Within(g, r[m])
    BY DEF Validate
<1>6. ~Ends(q, n) /\ i \in Names
    BY <1>1, <1>2 DEF Ends, Grant
<1>7. Chain(q, n) = {n} \cup Chain(q, i)
    BY <1>1, <1>6, ChainOfIssuer
<1>8. n \notin Chain(q, i)
    BY <1>1, <1>4, <1>5, <1>6, NoReturn
<1>9. \A m \in Chain(q, i) : m \in Names /\ r[m] = q[m]
    BY <1>1, <1>6, <1>8, ChainStarts
<1>10. Chain(r, i) = Chain(q, i)
    BY <1>1, <1>6, <1>9, ChainOfEqual
<1>11. GroundsOut(r, i)
    <2>1. i \in Chain(q, n)
        BY <1>1, <1>6, <1>7, ChainStarts
    <2>2. GroundsOut(q, i)
        BY <1>1, <1>4, <1>5, <2>1, GroundsOutBelow
    <2> QED BY <1>9, <1>10, <2>2 DEF GroundsOut, Ends
<1>12. ASSUME NEW m \in Chain(r, i), r[m] # NoGrant
       PROVE  Within(g, r[m])
    <2>1. m \in Chain(q, n) /\ q[m] = r[m]
        BY <1>7, <1>9, <1>10
    <2>2. g.max =< r[m].max
        BY <1>4, <1>5, <1>12, <2>1
    <2>3. CASE g.scope \in Subjects
        <3>1. ScopeCovers(g.scope, g.scope)
            BY DEF ScopeCovers
        <3>2. ScopeCovers(r[m].scope, g.scope)
            BY <1>4, <1>12, <2>1, <2>3, <3>1
        <3> QED BY <2>2, <3>2 DEF ScopeCovers, Within
    <2>4. CASE g.scope = Everywhere
        <3>1. PICK t \in Subjects : t # s
            BY RegistryAssumption
        <3>2. ScopeCovers(g.scope, t)
            BY <2>4 DEF ScopeCovers
        <3>3. ScopeCovers(r[m].scope, s) /\ ScopeCovers(r[m].scope, t)
            BY <1>4, <1>5, <1>12, <2>1, <3>2
        <3> QED BY <2>2, <3>1, <3>3 DEF ScopeCovers, Within
    <2> QED BY <1>2, <2>3, <2>4
<1> QED BY <1>8, <1>10, <1>11, <1>12

\* authority add and the write gate agree on every registry: a grant is
\* accepted exactly when the gate would honour all it says.
THEOREM AddingMatchesTheGate == Spec => []AddAgreesWithGate
<1>1. TypeOK => AddAgreesWithGate
    <2> SUFFICES ASSUME TypeOK, NEW n \in Sources, NEW g \in Grant
                 PROVE  Validate(Loaded(file), n, g)
                          <=> /\ g.scope # Malformed
                              /\ FullyUsable(Granted(Loaded(file), n, g), n)
        BY DEF AddAgreesWithGate
    <2>1. n \in Names /\ Loaded(file) \in Registry
        BY RegistryAssumption, LoadedIsRegistry DEF TypeOK
    <2>2. Validate(Loaded(file), n, g) => g.scope # Malformed
        BY DEF Validate
    <2> QED BY <2>1, <2>2, AcceptedIsUsable, UsableIsAccepted
<1> QED BY <1>1, RegistryTyped, PTL

-----------------------------------------------------------------------------
(* Revoking and seeding.                                                   *)

\* Revocation takes every grant whose chain passes through the source.
LEMMA RevokedNames ==
  ASSUME NEW r \in Registry, NEW s \in Names, NEW n \in Names, s \in Chain(r, n)
  PROVE  Revoked(r, s)[n] = NoGrant
<1>1. CASE n = s
    BY <1>1 DEF Revoked
<1>2. CASE n # s /\ Ends(r, n)
    BY <1>2, ChainOfEnd
<1>3. CASE n # s /\ ~Ends(r, n)
    <2>1. s \in Chain(r, r[n].issuer)
        BY <1>3, ChainOfIssuer
    <2> QED BY <1>3, <2>1 DEF Revoked, Dependents, Ends
<1> QED BY <1>1, <1>2, <1>3

\* It leaves every other chain as it was.
LEMMA UnrevokedChain ==
  ASSUME NEW r \in Registry, NEW s \in Names, NEW n \in Names, s \notin Chain(r, n)
  PROVE  /\ \A m \in Chain(r, n) : Revoked(r, s)[m] = r[m]
         /\ Chain(Revoked(r, s), n) = Chain(r, n)
<1>1. ASSUME NEW m \in Chain(r, n)
      PROVE  Revoked(r, s)[m] = r[m]
    <2>1. m \in Names /\ Chain(r, m) \subseteq Chain(r, n)
        BY ChainOfLink
    <2>2. m # s /\ s \notin Chain(r, m)
        BY <2>1
    <2>3. m \notin Dependents(r, s)
        <3> SUFFICES ASSUME r[m] # NoGrant, r[m].issuer # NoIssuer
                     PROVE  s \notin Chain(r, r[m].issuer)
            BY DEF Dependents
        <3> QED BY <2>1, <2>2, ChainOfIssuer DEF Ends
    <2> QED BY <2>1, <2>2, <2>3 DEF Revoked
<1>2. Revoked(r, s) \in Registry
    BY RevokedIsRegistry
<1> QED BY <1>1, <1>2, ChainOfEqual

\* Without a grant there is no write.
LEMMA UnlistedIsDenied ==
  ASSUME NEW r \in Registry, NEW w \in Write, r[w.source] = NoGrant
  PROVE  ~GrantCheck(r, w)
<1>1. w.level \in Levels
    BY DEF Write
<1>2. w.level \in Nat /\ w.level # 0
    BY <1>1, RegistryAssumption DEF Unknown
<1>3. ~(w.level =< 0)
    BY <1>2
<1> QED BY <1>3 DEF GrantCheck, Ceiling, Unknown

\* The gate after a revocation.
LEMMA RevokedGate ==
  ASSUME NEW r \in Registry, NEW s \in Names, NEW w \in Write
  PROVE  /\ s \in Chain(r, w.source) => ~GrantCheck(Revoked(r, s), w)
         /\ GrantCheck(Revoked(r, s), w) => GrantCheck(r, w)
<1>1. w.source \in Names /\ Revoked(r, s) \in Registry
    BY RevokedIsRegistry DEF Write
<1>2. CASE s \in Chain(r, w.source)
    <2>1. Revoked(r, s)[w.source] = NoGrant
        BY <1>1, <1>2, RevokedNames
    <2> QED BY <1>1, <2>1, UnlistedIsDenied
<1>3. CASE s \notin Chain(r, w.source)
    <2>1. /\ \A m \in Chain(r, w.source) : Revoked(r, s)[m] = r[m]
          /\ Chain(Revoked(r, s), w.source) = Chain(r, w.source)
        BY <1>1, <1>3, UnrevokedChain
    <2>2. w.source \in Chain(r, w.source)
        BY <1>1, ChainStarts
    <2> QED BY <1>3, <2>1, <2>2 DEF GrantCheck, GroundsOut, Ends, Ceiling
<1> QED BY <1>2, <1>3

\* Seeding moves no end of a chain, so it moves no chain.
LEMMA SeedKeepsChains ==
  ASSUME NEW r \in Registry, NEW n \in Names
  PROVE  Chain(Seed(r), n) = Chain(r, n)
<1> DEFINE q == Seed(r)
<1>1. q \in Registry
    BY SeedIsRegistry
<1>2. \A m \in Names : q[m] = r[m] \/ (Ends(q, m) /\ Ends(r, m))
    BY SeedIsRegistry DEF Ends
<1> HIDE DEF q
<1>3. \A S \in SUBSET Names : ClosedUnder(q, S) <=> ClosedUnder(r, S)
    BY <1>2 DEF ClosedUnder, Ends
<1>4. Chain(q, n) = Chain(r, n)
    BY <1>3 DEF Chain
<1> QED BY <1>4 DEF q

\* The gate after seeding.
LEMMA SeededGate ==
  ASSUME NEW r \in Registry, NEW w \in Write,
         r[w.source] # NoGrant, GrantCheck(Seed(r), w)
  PROVE  GrantCheck(r, w)
<1>1. w.source \in Names
    BY DEF Write
<1>2. Chain(Seed(r), w.source) = Chain(r, w.source)
      /\ Chain(r, w.source) \in SUBSET Names
    BY <1>1, SeedKeepsChains, ChainStarts
<1>3. \A m \in Names : r[m] # NoGrant => Seed(r)[m] = r[m]
    BY DEF Seed
<1>4. \A m \in Names : Ends(Seed(r), m) => Ends(r, m)
    BY SeedIsRegistry DEF Ends
<1> QED BY <1>1, <1>2, <1>3, <1>4 DEF GrantCheck, GroundsOut, Ceiling

\* A saved command is the only step that changes the file while an editor
\* finishes.
LEMMA SaveStep ==
  ASSUME TypeOK, Decided, [Next]_vars, NEW e \in Editors, NEW op, Saves(e, op)
  PROVE  /\ editing[e].base \in Registry \cup {NoFile}
         /\ editing[e].cmd \in Command /\ editing[e].cmd.op = op
         /\ file' = Edit(editing[e].base, editing[e].cmd)
         /\ file' \in Registry /\ file' # NoFile /\ file' # Refused
<1>1. editing[e] # Idle /\ editing'[e] = Idle /\ file' # file /\ editing[e].cmd.op = op
    BY DEF Saves
<1>2. Save(e)
    <2>1. ASSUME NEW d \in Editors, NEW c \in Commands, Begin(d, c)
          PROVE  FALSE
        BY <1>1, <2>1 DEF Begin
    <2>2. ASSUME NEW d \in Editors, Save(d)
          PROVE  Save(e)
        BY <1>1, <2>2 DEF Save, TypeOK
    <2>3. ASSUME NEW d \in Editors, SaveFails(d)
          PROVE  FALSE
        BY <1>1, <2>3 DEF SaveFails
    <2>4. ASSUME NEW r \in HandEdits, HandEdit(r)
          PROVE  FALSE
        BY <1>1, <2>4 DEF HandEdit
    <2>5. CASE UNCHANGED vars
        BY <1>1, <2>5 DEF vars
    <2> QED BY <2>1, <2>2, <2>3, <2>4, <2>5 DEF Next
<1>3. /\ editing[e].base \in Registry \cup {NoFile} /\ editing[e].cmd \in Command
      /\ Edit(editing[e].base, editing[e].cmd) # Refused
    BY <1>1 DEF TypeOK, Decided
<1>4. file' = Edit(editing[e].base, editing[e].cmd)
    BY <1>2 DEF Save
<1>5. file' \in Registry
    BY <1>3, <1>4, EditIsRegistry
<1> QED BY <1>1, <1>3, <1>4, <1>5, RegistryAssumption

\* Every saved revocation only takes authority away, and takes away all that
\* rested on the revoked grant, on any registry, however long its chains and
\* whether or not they are well founded.
THEOREM RevocationTightens == Spec => RevocationOnlyTightens
<1> DEFINE Tightens ==
      \A e \in Editors : Saves(e, "remove") =>
        \A w \in Write :
          /\ Authorized(file', w) => Authorized(editing[e].base, w)
          /\ editing[e].cmd.source \in Chain(editing[e].base, w.source)
               => ~Authorized(file', w)
<1>1. TypeOK /\ Decided /\ [Next]_vars => Tightens
    <2> SUFFICES ASSUME TypeOK, Decided, [Next]_vars,
                        NEW e \in Editors, Saves(e, "remove"), NEW w \in Write
                 PROVE  /\ Authorized(file', w) => Authorized(editing[e].base, w)
                        /\ editing[e].cmd.source \in Chain(editing[e].base, w.source)
                             => ~Authorized(file', w)
        OBVIOUS
    <2> DEFINE r == editing[e].base
               c == editing[e].cmd
    <2>1. /\ r \in Registry \cup {NoFile} /\ c \in Command /\ c.op = "remove"
          /\ file' = Edit(r, c)
          /\ file' # NoFile /\ file' # Refused
        BY SaveStep
    <2> HIDE DEF r, c
    <2>2. c.source \in Names /\ r # NoFile /\ file' = Revoked(r, c.source)
        BY <2>1, EditCases, RegistryAssumption DEF RemoveEdit
    <2>3. /\ c.source \in Chain(r, w.source) => ~GrantCheck(file', w)
          /\ GrantCheck(file', w) => GrantCheck(r, w)
        BY <2>1, <2>2, RevokedGate
    <2>4. /\ Authorized(file', w) => Authorized(r, w)
          /\ c.source \in Chain(r, w.source) => ~Authorized(file', w)
        BY <2>1, <2>2, <2>3 DEF Authorized
    <2> QED BY <2>4 DEF r, c
<1>2. TypeOK /\ Decided /\ [Next]_vars => [Tightens]_vars
    BY <1>1
<1>3. Spec => [][Tightens]_vars
    BY <1>2, RegistryTyped, PTL DEF Spec
<1> QED BY <1>3 DEF RevocationOnlyTightens

\* Seeding the profile never widens what a source that had a grant may write.
THEOREM SeedingIsSafe == Spec => SeedingNeverWidens
<1> DEFINE Narrows ==
      \A e \in Editors : Saves(e, "defaults") =>
        \A w \in Write :
          /\ Authorized(file', w)
          /\ editing[e].base # NoFile
          /\ editing[e].base[w.source] # NoGrant
          => Authorized(editing[e].base, w)
<1>1. TypeOK /\ Decided /\ [Next]_vars => Narrows
    <2> SUFFICES ASSUME TypeOK, Decided, [Next]_vars,
                        NEW e \in Editors, Saves(e, "defaults"), NEW w \in Write,
                        Authorized(file', w), editing[e].base # NoFile,
                        editing[e].base[w.source] # NoGrant
                 PROVE  Authorized(editing[e].base, w)
        OBVIOUS
    <2> DEFINE r == editing[e].base
               c == editing[e].cmd
    <2>1. /\ r \in Registry /\ c \in Command /\ c.op = "defaults"
          /\ file' = Edit(r, c) /\ file' # NoFile
        BY SaveStep
    <2>2. r # NoFile /\ r[w.source] # NoGrant
        OBVIOUS
    <2> HIDE DEF r, c
    <2>3. file' = Seed(r)
        BY <2>1, <2>2, EditCases DEF Loaded
    <2>4. GrantCheck(Seed(r), w)
        BY <2>1, <2>3 DEF Authorized
    <2>5. Authorized(r, w)
        BY <2>1, <2>2, <2>4, SeededGate DEF Authorized
    <2> QED BY <2>5 DEF r
<1>2. TypeOK /\ Decided /\ [Next]_vars => [Narrows]_vars
    BY <1>1
<1>3. Spec => [][Narrows]_vars
    BY <1>2, RegistryTyped, PTL DEF Spec
<1> QED BY <1>3 DEF SeedingNeverWidens
=============================================================================
