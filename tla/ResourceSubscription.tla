------------------------ MODULE ResourceSubscription ------------------------
(***************************************************************************)
(* One connection's resources/subscribe state and the notifier that polls   *)
(* the store for it (crates/dent8-cli/src/mcp.rs).  A subscription record   *)
(* holds the subscribed uris and the number of log events already accounted *)
(* for (seen_events).  A poll has three instants: it copies the record      *)
(* under the lock, reads the store without it, and takes the lock again to  *)
(* advance the baseline; the frames it emits are chosen with the copy.      *)
(***************************************************************************)
EXTENDS Integers, Sequences

CONSTANT Stream        \* fact streams, one dent8:// uri each

NoBaseline == -1       \* Option::None

SubscriptionState == [uris: SUBSET Stream, seen: Nat \cup {NoBaseline}]
NoSubscription == [uris |-> {}, seen |-> NoBaseline]

\* The notifier's place in SubscriptionState::poll, with the copy it took.
PollIdle == [phase |-> "idle", uris |-> {}, seen |-> NoBaseline, head |-> 0]
PollState == [phase: {"idle", "copied", "loaded"}, uris: SUBSET Stream,
              seen: Nat \cup {NoBaseline}, head: Nat]

\* Mutant: every subscribe moves the baseline to the current head.
Subscribe_Repins(sub, u, head) == [uris |-> sub.uris \cup {u}, seen |-> head]

\* get_or_insert: only the first subscription pins the baseline.
Subscribe(sub, u, head) ==
    [uris |-> sub.uris \cup {u},
     seen |-> IF sub.seen = NoBaseline THEN head ELSE sub.seen]

Unsubscribe(sub, u) ==
    LET left == sub.uris \ {u}
    IN  [uris |-> left, seen |-> IF left = {} THEN NoBaseline ELSE sub.seen]

\* The events a poll that copied `seen` and read `log` up to `head` reports,
\* one frame per stream: what the log gained past the baseline, filtered with
\* the copied uris.  A missing baseline, or one past the head of a replaced log,
\* reports nothing.
Changed(poll, log) ==
    IF poll.seen = NoBaseline \/ poll.seen > poll.head
    THEN {}
    ELSE {i \in (poll.seen + 1)..poll.head : log[i].stream \in poll.uris}
=============================================================================
