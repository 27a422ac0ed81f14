------------------------------ MODULE GrantLog ------------------------------
\* The grant log (crates/dent8-cli/src/identity/records.rs): the append-only,
\* hash-chained history of issuances and revocations that verification replays
\* to decide whether the key that attested an event was entitled to it.
\*
\* An Ed25519 signature is deterministic and unforgeable, so a signed grant is
\* its own signature: a grant is the record of what it says and of the issuer
\* key that signed it.  SHA-256 is injective on the lines of a log, so the
\* hash of a line is the line itself.
EXTENDS Integers, Sequences

CONSTANT NoHash,     \* the first record of a log follows no line
         Always      \* a grant with no expiry

\* A line of the log that records that `action` was taken on `grant` at `at`.
GrantRecord(action, grant, at, prev) ==
  [action |-> action, grant |-> grant, at |-> at, by |-> grant.by, prev |-> prev]

\* Every line names the hash of the line before it.
ChainOK(log) ==
  \A i \in 1..Len(log) : log[i].prev = IF i = 1 THEN NoHash ELSE log[i - 1]

LastHash(log) == IF log = <<>> THEN NoHash ELSE log[Len(log)]

\* One record, or the two records of a rotation, as one write.
AppendOne(log, action, grant, at) ==
  Append(log, GrantRecord(action, grant, at, LastHash(log)))

AppendPair(log, old, new, at) ==
  AppendOne(AppendOne(log, "revoked", old, at), "issued", new, at)

HasIssuedRecord(log, grant) ==
  \E i \in 1..Len(log) : log[i].action = "issued" /\ log[i].grant = grant

\* The issuer signatures of all records verify against the trusted key.
RecordsVerify(log, trusted) == \A i \in 1..Len(log) : log[i].by = trusted

\* The last word of the log on this exact grant is an issuance.
IssuedAndNotRevoked(log, grant) ==
  \E i \in 1..Len(log) :
    /\ log[i].action = "issued" /\ log[i].grant = grant
    /\ \A j \in i + 1..Len(log) : ~(log[j].action = "revoked" /\ log[j].grant = grant)

\* The last grant the log issues for the key of this one, up to `at`, is another.
Reissued(log, grant, at) ==
  \E i \in 1..Len(log) :
    LET issued(j) == /\ log[j].action = "issued" /\ log[j].at =< at
                     /\ log[j].grant.source = grant.source /\ log[j].grant.key = grant.key
    IN issued(i) /\ log[i].grant # grant /\ \A j \in i + 1..Len(log) : ~issued(j)

Expired(grant, at) == grant.expires # Always /\ at > grant.expires

InScope(grant, subject) == grant.scope \in {"*", subject}

\* What the history says of a write by (source, key) at time `at`: the last
\* issuance not after the write decides, unless that very grant was revoked
\* after it and not after the write.
EntitlementAt(log, source, key, authority, subject, at) ==
  LET about(i)  == /\ log[i].grant.source = source /\ log[i].grant.key = key
                   /\ log[i].at =< at
      issued(i) == about(i) /\ log[i].action = "issued"
      last(i)   == issued(i) /\ \A j \in i + 1..Len(log) : ~issued(j)
      ended(i)  == \E j \in i + 1..Len(log) :
                     about(j) /\ log[j].action = "revoked" /\ log[j].grant = log[i].grant
      covers(g) == ~Expired(g, at) /\ authority =< g.max /\ InScope(g, subject)
  IN  IF ~\E i \in 1..Len(log) : last(i) THEN "unknown"
      ELSE IF \E i \in 1..Len(log) : last(i) /\ ~ended(i) /\ covers(log[i].grant)
           THEN "entitled" ELSE "unentitled"
=============================================================================
