----------------------------- MODULE FactReplay -----------------------------
(***************************************************************************)
(* Strict replay: the fold of one fact's stream of a log, in log order.    *)
(***************************************************************************)
EXTENDS FactFold

\* The events of a log at some of its positions, in log order.
EventsAt(l, K) ==
  LET kept[n \in 0..Len(l)] ==
        IF n = 0 THEN <<>>
        ELSE IF n \in K THEN Append(kept[n - 1], l[n]) ELSE kept[n - 1]
  IN kept[Len(l)]

\* load_fact_events.
StreamOf(l, f) == EventsAt(l, {i \in DOMAIN l : l[i].fact = f})

\* A fold that surfaced a TransitionError.
ReplayError == [lifecycle |-> "Error"]

\* One event of a replay; the first that is refused fails the rest.
ReplayStep(s, e) ==
  IF s # ReplayError /\ TransitionOK(s, e) THEN ApplyEvent(s, e) ELSE ReplayError

\* replay_fact.
FoldEvents(events) ==
  LET state[n \in 0..Len(events)] ==
        IF n = 0 THEN NoState ELSE ReplayStep(state[n - 1], events[n])
  IN state[Len(events)]
=============================================================================
