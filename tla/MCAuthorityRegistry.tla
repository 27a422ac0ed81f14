------------------------ MODULE MCAuthorityRegistry ------------------------
(* Small instances of AuthorityRegistry: three sources, one operator name. *)
EXTENDS AuthorityRegistry, TLC

CONSTANTS n1, n2, n3, owner, x, y, e1, e2

MCSources == {n1, n2, n3}
MCNames == {n1, n2, n3, owner}
MCSubjects == {x, y}
MCProfile == n1 :> 3

MCEditors == {e1, e2}
Symm == Permutations(MCEditors)

Issuers == MCSources \cup {NoIssuer}

Adds(maxes, scopes) ==
  [op : {"add"}, source : MCSources, grant : [max : maxes, issuer : Issuers, scope : scopes]]

Removes(forces) == [op : {"remove"}, source : MCSources, force : forces]

\* Two editors: every add of an unscoped grant, removals, and the profile,
\* and the commands that register a source without asking the registry.
MCCommands ==
  Adds({1, 3}, {Everywhere}) \cup Removes({TRUE, FALSE})
    \cup { [op |-> "defaults"],
           [op |-> "init", source |-> n1, level |-> 1],
           [op |-> "agent_add", source |-> n1, asked |-> Unknown,
            identity |-> [max |-> 1, issuer |-> owner, scope |-> x]] }

G(max, issuer, scope) == [max |-> max, issuer |-> issuer, scope |-> scope]
Grants3(ga, gb, gc) == n1 :> ga @@ n2 :> gb @@ n3 :> gc @@ owner :> NoGrant

\* What no command records: a self-issued grant with delegates, a cycle, a
\* delegate that exceeds its issuer's issuer, scopes that exclude each other.
MCHandEdits ==
  { Grants3(G(3, n1, Everywhere), G(3, n1, x), G(1, n2, Everywhere)),
    Grants3(G(3, n2, x), G(3, n3, Everywhere), G(1, n1, Everywhere)),
    Grants3(G(1, NoIssuer, Everywhere), G(3, n1, Everywhere), G(3, n2, x)),
    Grants3(NoGrant, G(3, n1, x), G(3, n2, y)) }

=============================================================================
