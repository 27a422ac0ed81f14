------------------------- MODULE AuthorityRegistry -------------------------
(***************************************************************************)
(* The source->authority registry: the file of grants an operator edits    *)
(* with `dent8 authority`, `dent8 init` and `dent8 agent add`, and the     *)
(* write gate that reads it. A grant may name the issuer it was delegated  *)
(* by; the gate follows the issuers to a name that is not registered (an   *)
(* operator) or to a grant with no issuer.                                 *)
(*                                                                         *)
(* A command loads the file, decides, and renames a new file over it, with *)
(* no lock: two commands may load the same file, and the last save wins.   *)
(***************************************************************************)
EXTENDS Integers, FiniteSets

CONSTANTS
  Names,      \* everything a source or an issuer may be called
  Sources,    \* the names commands register
  Operators,  \* the issuer names of signed identities, as agent add records
  Subjects,   \* the <kind>:<key> subjects of writes
  Levels,     \* the requestable levels, Low..Canonical
  Profile,    \* DEFAULT_AUTHORITY_PROFILE, a level for each profile source
  Commands,   \* the commands callers may run
  Editors,    \* processes that run registry commands
  HandEdits,  \* the registries an operator may write with a text editor
  Required,   \* DENT8_REQUIRE_AUTHORITY
  MaxEdits,   \* bound on commands, for model checking
  MaxByHand,  \* bound on hand edits
  Everywhere, \* the scope "*", or none
  Malformed,  \* a scope that names no subject
  NoIssuer, NoGrant, NoFile, Idle, Refused

Unknown == 0

Grant ==
  [max : Levels, issuer : Names \cup {NoIssuer}, scope : Subjects \cup {Everywhere, Malformed}]

\* SourceRegistry.
Registry == [Names -> Grant \cup {NoGrant}]

Write == [source : Names, level : Levels, subject : Subjects]

RootGrant(level) == [max |-> level, issuer |-> NoIssuer, scope |-> Everywhere]

\* A command and its arguments; agent add carries the signed identity's grant.
Command ==
  [op : {"add"}, source : Sources, grant : Grant]
    \cup [op : {"remove"}, source : Sources, force : BOOLEAN]
    \cup [op : {"defaults"}]
    \cup [op : {"init"}, source : Sources, level : Levels]
    \cup [op : {"agent_add"}, source : Sources, asked : Levels \cup {Unknown},
          identity : [max : Levels, issuer : Operators, scope : Subjects \cup {Everywhere}]]

ASSUME RegistryAssumption ==
  /\ Sources \subseteq Names /\ Operators \subseteq Names
  /\ Levels \subseteq Nat \ {Unknown}
  /\ Subjects # {} /\ \A s \in Subjects : \E t \in Subjects : t # s
  /\ Everywhere \notin Subjects /\ Malformed \notin Subjects /\ Everywhere # Malformed
  /\ NoIssuer \notin Names /\ NoGrant \notin Grant
  /\ DOMAIN Profile \subseteq Sources /\ \A n \in DOMAIN Profile : Profile[n] \in Levels
  /\ Commands \subseteq Command /\ HandEdits \subseteq Registry
  /\ NoFile \notin Registry /\ Refused \notin Registry
  /\ Required \in BOOLEAN /\ MaxEdits \in Nat /\ MaxByHand \in Nat

VARIABLES
  file,     \* the registry file
  editing,  \* what each editor has loaded and decided to do, if anything
  edits,    \* how many commands were begun
  byHand    \* how many hand edits were made

vars == <<file, editing, edits, byHand>>

TypeOK ==
  /\ file \in Registry \cup {NoFile}
  /\ editing \in [Editors -> [cmd : Command, base : Registry \cup {NoFile}] \cup {Idle}]
  /\ edits \in Nat /\ byHand \in Nat

Init ==
  /\ file = NoFile
  /\ editing = [e \in Editors |-> Idle]
  /\ edits = 0 /\ byHand = 0

-----------------------------------------------------------------------------
(* Issuer chains. The loops of the gate and of the commands follow one     *)
(* issuer per name and stop at a name seen before, so the names they visit *)
(* are the least set that holds the first and is closed under issuers; a   *)
(* chain that meets a name again is one in which no name is an end.        *)

Ends(r, n) == r[n] = NoGrant \/ r[n].issuer = NoIssuer

ClosedUnder(r, S) == \A n \in S : Ends(r, n) \/ r[n].issuer \in S

Chain(r, n) ==
  LET closed == {S \in SUBSET Names : n \in S /\ ClosedUnder(r, S)}
  IN {m \in Names : \A S \in closed : m \in S}

GroundsOut(r, n) == \E m \in Chain(r, n) : Ends(r, m)

-----------------------------------------------------------------------------
(* The write gate.                                                         *)

\* SourceRegistry::ceiling.
Ceiling(r, n) == IF r[n] = NoGrant THEN Unknown ELSE r[n].max

\* scope_covers.
ScopeCovers(scope, subject) == scope = Everywhere \/ scope = subject

\* registry_grant_check against a registry that exists.
GrantCheck(r, w) ==
  /\ w.level =< Ceiling(r, w.source)
  /\ GroundsOut(r, w.source)
  /\ \A m \in Chain(r, w.source) :
        r[m] # NoGrant => ScopeCovers(r[m].scope, w.subject) /\ w.level =< r[m].max

\* enforce_registry_grant: no file is permissive unless the registry is required.
Authorized(f, w) == IF f = NoFile THEN ~Required ELSE GrantCheck(f, w)

-----------------------------------------------------------------------------
(* The commands.                                                           *)

Loaded(f) == IF f = NoFile THEN [n \in Names |-> NoGrant] ELSE f

Within(g, h) == g.max =< h.max /\ (h.scope = Everywhere \/ g.scope = h.scope)

\* Mutant: only the issuer's own grant bounds the new one.
ValidateOneLink(r, source, g) ==
  /\ g.scope # Malformed
  /\ g.issuer # NoIssuer =>
       /\ source \notin Chain(r, g.issuer)
       /\ GroundsOut(r, g.issuer)
       /\ r[g.issuer] # NoGrant => Within(g, r[g.issuer])

\* validate_authority_grant.
Validate(r, source, g) ==
  /\ g.scope # Malformed
  /\ g.issuer # NoIssuer =>
       /\ source \notin Chain(r, g.issuer)
       /\ GroundsOut(r, g.issuer)
       /\ \A m \in Chain(r, g.issuer) : r[m] # NoGrant => Within(g, r[m])

Granted(r, n, g) == [r EXCEPT ![n] = g]

\* Mutant: only the grants the revoked source issued itself go with it.
DirectDependents(r, source) ==
  {n \in Names \ {source} : r[n] # NoGrant /\ r[n].issuer = source}

\* dependent_grants: the grants whose issuer chain passes through source.
Dependents(r, source) ==
  {n \in Names \ {source} :
     r[n] # NoGrant /\ r[n].issuer # NoIssuer /\ source \in Chain(r, r[n].issuer)}

Revoked(r, source) ==
  [n \in Names |-> IF n = source \/ n \in Dependents(r, source) THEN NoGrant ELSE r[n]]

\* seed_default_authority_profile: only sources without a grant get one.
Seed(r) ==
  [n \in Names |->
     IF n \in DOMAIN Profile /\ r[n] = NoGrant THEN RootGrant(Profile[n]) ELSE r[n]]

\* agent add: an explicit ceiling, else the one there was, else the identity's.
AgentCeiling(r, c) ==
  IF c.asked # Unknown THEN c.asked
  ELSE IF r[c.source] # NoGrant THEN r[c.source].max
  ELSE c.identity.max

\* cmd_authority_add.
AddEdit(f, c) ==
  IF Validate(Loaded(f), c.source, c.grant) THEN Granted(Loaded(f), c.source, c.grant)
  ELSE Refused

\* cmd_authority_remove.
RemoveEdit(f, c) ==
  IF /\ f # NoFile
     /\ f[c.source] # NoGrant
     /\ Dependents(f, c.source) = {} \/ c.force
  THEN Revoked(f, c.source)
  ELSE Refused

\* agent_add_inner: no validation against the registry.
AgentAddEdit(f, c) ==
  LET ceiling == AgentCeiling(Loaded(f), c) IN
  IF ceiling > c.identity.max THEN Refused
  ELSE Granted(Loaded(f), c.source, [c.identity EXCEPT !.max = ceiling])

\* The registry a command saves if it loaded f, or Refused.
Edit(f, c) ==
  CASE c.op = "add" -> AddEdit(f, c)
    [] c.op = "remove" -> RemoveEdit(f, c)
    [] c.op = "defaults" -> Seed(Loaded(f))
    [] c.op = "init" -> Seed(Granted(Loaded(f), c.source, RootGrant(c.level)))
    [] c.op = "agent_add" -> AgentAddEdit(f, c)

\* A command that is not refused, up to its save. A refused one does nothing.
Begin(e, c) ==
  /\ editing[e] = Idle /\ edits < MaxEdits
  /\ Edit(file, c) # Refused
  /\ editing' = [editing EXCEPT ![e] = [cmd |-> c, base |-> file]]
  /\ edits' = edits + 1
  /\ UNCHANGED <<file, byHand>>

\* Mutant: so as not to lose other edits, a grant that was validated against
\* the loaded registry is added to the one in the file now.
SaveReloaded(e) ==
  /\ editing[e] # Idle
  /\ file' = LET c == editing[e].cmd
             IN IF c.op = "add" THEN Granted(Loaded(file), c.source, c.grant)
                ELSE Edit(editing[e].base, c)
  /\ editing' = [editing EXCEPT ![e] = Idle]
  /\ UNCHANGED <<edits, byHand>>

\* save_authority_registry: the rename, whatever the file has become since.
Save(e) ==
  /\ editing[e] # Idle
  /\ file' = Edit(editing[e].base, editing[e].cmd)
  /\ editing' = [editing EXCEPT ![e] = Idle]
  /\ UNCHANGED <<edits, byHand>>

\* The temporary file could not be written or renamed, or the process died.
SaveFails(e) ==
  /\ editing[e] # Idle
  /\ editing' = [editing EXCEPT ![e] = Idle]
  /\ UNCHANGED <<file, edits, byHand>>

\* The registry is a text file the operator may also edit.
HandEdit(r) ==
  /\ byHand < MaxByHand
  /\ file' = r
  /\ byHand' = byHand + 1
  /\ UNCHANGED <<editing, edits>>

Next ==
  \/ \E e \in Editors : \/ \E c \in Commands : Begin(e, c)
                        \/ Save(e)
                        \/ SaveFails(e)
  \/ \E r \in HandEdits : HandEdit(r)

Spec == Init /\ [][Next]_vars

-----------------------------------------------------------------------------
(* Correctness.                                                            *)

\* Until the file is edited by hand, no sequence of commands, overlapping or
\* not, leaves a chain of issuers that meets itself (validate_authority_grant;
\* the last save wins, but what it saves was checked against the very registry
\* it edits).
NoGrantGroundsItself ==
  file # NoFile /\ byHand = 0 => \A n \in Names : GroundsOut(file, n)

\* registry_grant_check: whatever the registry, one edited by hand included, a
\* source may write only what every registered issuer above it may write
\* itself: an issuer cannot delegate authority it does not hold.
NobodyExceedsAnIssuer ==
  file # NoFile =>
    \A w \in Write : Authorized(file, w) =>
      \A m \in Chain(file, w.source) :
        file[m] # NoGrant => Authorized(file, [w EXCEPT !.source = m])

\* Everything the grant of n says it allows passes the gate.
FullyUsable(r, n) ==
  \A s \in Subjects : ScopeCovers(r[n].scope, s) =>
    GrantCheck(r, [source |-> n, level |-> r[n].max, subject |-> s])

\* authority add refuses a grant exactly when the gate would not honour all of
\* it: the two walk the issuers separately and must agree, in whatever order
\* grants were added and even on a registry edited by hand.
AddAgreesWithGate ==
  \A n \in Sources : \A g \in Grant :
    Validate(Loaded(file), n, g)
      <=> g.scope # Malformed /\ FullyUsable(Granted(Loaded(file), n, g), n)

\* The step in which editor e saves a command of kind op.
Saves(e, op) ==
  editing[e] # Idle /\ editing'[e] = Idle /\ file' # file /\ editing[e].cmd.op = op

\* authority remove only takes authority away, and takes away all that rested
\* on the revoked grant: the registry it saves allows no write that the one it
\* read did not, and no write at all to a source whose chain passed through
\* the revoked one (dependent_grants, the cascade of --force).
RevocationOnlyTightens ==
  [][\A e \in Editors : Saves(e, "remove") =>
       \A w \in Write :
         /\ Authorized(file', w) => Authorized(editing[e].base, w)
         /\ editing[e].cmd.source \in Chain(editing[e].base, w.source)
              => ~Authorized(file', w)]_vars

\* authority defaults never widens what a source that had a grant may write:
\* the profile adds grants, replaces none, and a name it registers can only
\* narrow what was delegated in that name.
SeedingNeverWidens ==
  [][\A e \in Editors : Saves(e, "defaults") =>
       \A w \in Write :
         /\ Authorized(file', w)
         /\ editing[e].base # NoFile
         /\ editing[e].base[w.source] # NoGrant
         => Authorized(editing[e].base, w)]_vars
=============================================================================
