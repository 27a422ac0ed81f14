------------------------------ MODULE FileLog ------------------------------
(***************************************************************************)
(* The file store as a file. A batch is appended as one line of text per   *)
(* event in a single write; a process that dies in that write, or whose    *)
(* disk is full, leaves a prefix of it. The next batch is appended to      *)
(* whatever is there, an unended line included. Loading skips every line   *)
(* that does not parse and replays the rest.                               *)
(*                                                                         *)
(* Writers hold the file lock, so writes follow one another; the clock     *)
(* counts them. No belief of this model expires.                           *)
(***************************************************************************)
EXTENDS OpEvents, FactReplay, SequencesExt

CONSTANTS
  Commands,   \* the operations callers may run, [op, r]
  MaxWrites,  \* bound on writes, for model checking
  MaxTorn     \* bound on torn writes

ASSUME FileAssumption ==
  /\ Commands \subseteq [op : Operations, r : Request]
  /\ MaxWrites \in Nat /\ MaxTorn \in Nat

VARIABLES
  lines,      \* the text: each line is the pieces of events written to it
  ended,      \* the text is empty or ends with a newline
  accepted,   \* the events whose callers were told they landed
  batches,    \* what every write meant to write
  torn        \* how many lines each torn write meant to write

fileVars == <<lines, ended, accepted, batches, torn>>

Now == Len(batches)

\* A piece of a line: an event's text, whole or cut short.
Piece == [event : Event, whole : BOOLEAN]

FileTypeOK ==
  /\ lines \in Seq(Seq(Piece)) /\ ended \in BOOLEAN
  /\ accepted \subseteq Event /\ batches \in Seq(SUBSET Event) /\ torn \in Seq(Nat)

FileInit == lines = <<>> /\ ended = TRUE /\ accepted = {} /\ batches = <<>> /\ torn = <<>>

-----------------------------------------------------------------------------
(* Reading.                                                                *)

\* Mutant: a line is read up to the end of its first event.
ParsesFirst(line) == line[1].whole

\* parse_jsonl_events: a line parses if it is the text of one event.
Parses(line) == Len(line) = 1 /\ line[1].whole

Corrupt == {i \in DOMAIN lines : ~Parses(lines[i])}

\* The events a load sees, in file order.
Readable ==
  EventsAt([i \in DOMAIN lines |-> lines[i][1].event], DOMAIN lines \ Corrupt)

\* The projection of the log, ReplayError where a stream does not fold.
Snapshot == [f \in Facts |-> FoldEvents(StreamOf(Readable, f))]

IdsUnique(l) == \A i, j \in DOMAIN l : l[i].id = l[j].id => i = j

\* load_store.
LoadSucceeds ==
  /\ IdsUnique(Readable)
  /\ \A f \in Facts : Snapshot[f] # ReplayError
  /\ Loads(Snapshot, Now)

\* next_seq: one past the highest number that can be read.
NextSeq ==
  IF Readable = <<>> THEN 0
  ELSE 1 + Max({e.id : e \in ToSet(Readable)})

-----------------------------------------------------------------------------
(* Writing.                                                                *)

\* The events of a batch, in the order of their numbers.
InOrder(batch) ==
  LET events == {batch[f] : f \in DOMAIN batch}
  IN [ i \in 1..Cardinality(events) |->
         CHOOSE e \in events : Cardinality({d \in events : d.id < e.id}) = i - 1 ]

\* A line that holds one event's text.
Line(event, whole) == <<[event |-> event, whole |-> whole]>>

\* The text once these lines are put at its end: the first continues a line
\* that is not ended.
Extended(new) ==
  IF ended \/ new = <<>> THEN lines \o new
  ELSE [lines EXCEPT ![Len(lines)] = @ \o Head(new)] \o Tail(new)

WholeLines(events, k) == [i \in 1..k |-> Line(events[i], TRUE)]

\* The text once the first k of these events landed.
Landed(events, k) ==
  [lines |-> Extended(WholeLines(events, k)), ended |-> ended \/ k > 0]

\* The texts a write of these events may leave when it is cut short.
Cuts(events) ==
  { Landed(events, k) : k \in 0..(Len(events) - 1) } \cup
  { [ lines |-> Extended(Append(WholeLines(events, k), Line(events[k + 1], whole))),
      ended |-> FALSE ] : k \in 0..(Len(events) - 1), whole \in BOOLEAN }

\* What a command decides to write: its batch, or the contest it lost.
ToWrite(c) ==
  IF Accepts(c.op, Snapshot, c.r, NextSeq, Now)
  THEN {Batch(c.op, Snapshot, c.r, NextSeq, Now)}
  ELSE { record \in { RecordBatch(d, c.r, NextSeq, Now) :
                        d \in Challenge(c.op, Snapshot, c.r, NextSeq, Now) } :
           Refused(Snapshot, record) = {} }

\* A write cycle on a store that loads, with numbers to spare.
Begin == LoadSucceeds /\ Len(batches) < MaxWrites /\ NextSeq + 3 \in Facts

\* append_events: every line lands, and a caller that won is told so.
Write(c) ==
  /\ Begin
  /\ \E batch \in ToWrite(c) :
       LET events == InOrder(batch)
           text == Landed(events, Len(events))
       IN /\ lines' = text.lines /\ ended' = text.ended
          /\ accepted' = IF Accepts(c.op, Snapshot, c.r, NextSeq, Now)
                         THEN accepted \cup ToSet(events) ELSE accepted
          /\ batches' = Append(batches, ToSet(events))
  /\ UNCHANGED torn

\* The write is cut short: nobody is told anything landed.
TornWrite(c) ==
  /\ Begin /\ Len(torn) < MaxTorn
  /\ \E batch \in ToWrite(c) :
       LET events == InOrder(batch)
       IN /\ \E text \in Cuts(events) : lines' = text.lines /\ ended' = text.ended
          /\ batches' = Append(batches, ToSet(events))
          /\ torn' = Append(torn, Len(events))
  /\ UNCHANGED accepted

FileNext == \E c \in Commands : Write(c) \/ TornWrite(c)

FileSpec == FileInit /\ [][FileNext]_fileVars
-----------------------------------------------------------------------------
(* What the file store keeps through torn writes.                          *)

ReadableEvents == ToSet(Readable)

\* main.rs verify_log: "a corrupt (unparseable) line is not silently skipped
\* here": an event whose caller was told it landed is there to be read, or
\* verification fails on some line.
LossIsReported == accepted \subseteq ReadableEvents \/ Corrupt # {}

\* main.rs load_store: "a torn write or external edit that orphaned a believed
\* fact is rejected loudly": while the fact a revision asserted is believed and
\* the rest of the revision is gone, the store does not load.
OrphansAreRefused ==
  \A i \in DOMAIN batches : \A e \in batches[i] \cap ReadableEvents :
    /\ e.kind = "Asserted" /\ Snapshot[e.fact].lifecycle = "Active"
    /\ ~ (batches[i] \subseteq ReadableEvents)
    => ~LoadSucceeds
=============================================================================
