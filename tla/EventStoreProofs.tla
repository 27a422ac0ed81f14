-------------------------- MODULE EventStoreProofs --------------------------
(***************************************************************************)
(* Proofs about EventStore, EventReplay and FileLog, for every set of      *)
(* facts, sources, values, shapes, ids, candidate events, policies and     *)
(* commands, every bound on the log and any number of torn writes.         *)
(***************************************************************************)
EXTENDS EventReplay, FileLog, FiniteSetTheorems, TLAPS

-----------------------------------------------------------------------------
(* The fold.                                                               *)

\* state.rs: a folded state is never the absent one.
LEMMA FoldedIsPresent ==
  ASSUME NEW s \in FactState
  PROVE  s # NoState /\ s.lifecycle \in Believed \cup Terminal
BY DEF FactState, NoState, Believed, Terminal, ClosingKinds

\* apply_initial_event: an accepted first event yields a well-formed state.
LEMMA InitialStateType ==
  ASSUME NEW e \in Event, TransitionOK(NoState, e)
  PROVE  /\ InitialState(e) \in FactState
         /\ InitialState(e).lifecycle = "Active"
         /\ InitialState(e).level = e.level
         /\ InitialState(e).superseded_by = NoFact
         /\ InitialState(e).contradicted_by = {}
         /\ e.kind = "Asserted"
<1>1. e.kind = "Asserted" /\ e.value \in Values
  BY SentinelsApart DEF TransitionOK, Validates, Event
<1>2. FreshnessAnchor(e) \in Nat
  BY DEF FreshnessAnchor, FirstTime, Event, OptTime, NoTime
<1>3. InitialState(e).corroborating \in [Sources -> Levels \cup {NoLevel}]
  BY DEF InitialState, Event
<1>4. QED
  BY <1>1, <1>2, <1>3 DEF InitialState, FactState, Event, Believed, Terminal

\* apply_next_event: an accepted later event yields a well-formed state and
\* leaves value, authority, shape and validity as asserted.
LEMMA NextStateType ==
  ASSUME NEW s \in FactState, NEW e \in Event
  PROVE  /\ NextState(s, e) \in FactState
         /\ NextState(s, e).level = s.level
         /\ NextState(s, e).lifecycle =
              (IF e.kind \in ClosingKinds THEN e.kind
               ELSE IF e.kind = "Contradicted" THEN "Contested" ELSE s.lifecycle)
         /\ NextState(s, e).superseded_by =
              (IF e.kind = "Superseded" THEN e.by ELSE s.superseded_by)
         /\ NextState(s, e).contradicted_by =
              (IF e.kind = "Contradicted" THEN s.contradicted_by \cup {e.by}
               ELSE s.contradicted_by)
<1> DEFINE life == IF e.kind \in ClosingKinds THEN e.kind
                   ELSE IF e.kind = "Contradicted" THEN "Contested" ELSE s.lifecycle
           heir == IF e.kind = "Superseded" THEN e.by ELSE s.superseded_by
           foes == IF e.kind = "Contradicted" THEN s.contradicted_by \cup {e.by}
                   ELSE s.contradicted_by
           proof == IF e.kind = "Reinforced" THEN s.evidence_count + e.evidence
                    ELSE s.evidence_count
           friends == IF e.kind = "Reinforced" THEN Backing(s.corroborating, e)
                      ELSE s.corroborating
           beaten == IF e.kind = "ChallengeRejected" THEN Backing(s.survived, e)
                     ELSE s.survived
           n1 == [s EXCEPT !.lifecycle = life]
           n2 == [n1 EXCEPT !.superseded_by = heir]
           n3 == [n2 EXCEPT !.contradicted_by = foes]
           n4 == [n3 EXCEPT !.evidence_count = proof]
           n5 == [n4 EXCEPT !.corroborating = friends]
           n6 == [n5 EXCEPT !.survived = beaten]
           n7 == [n6 EXCEPT !.updated_at = e.recorded_at]
           n8 == [n7 EXCEPT !.last_event_id = e.id]
<1>1. /\ life \in Believed \cup Terminal
      /\ heir \in Facts \cup {NoFact}
      /\ foes \in SUBSET Facts
      /\ proof \in Nat
  BY DEF FactState, Event, Believed, Terminal, NamingKinds
<1>2. friends \in [Sources -> Levels \cup {NoLevel}]
      /\ beaten \in [Sources -> Levels \cup {NoLevel}]
  <2>1. ASSUME NEW b \in [Sources -> Levels \cup {NoLevel}]
        PROVE  Backing(b, e) \in [Sources -> Levels \cup {NoLevel}]
    BY DEF Backing, Greater, Event
  <2>2. QED
    BY <2>1 DEF FactState
<1>3. e.recorded_at \in Nat /\ e.id \in Ids
  BY DEF Event
<1>4. NextState(s, e) = n8
  BY DEF NextState
<1>5. n8 \in FactState
  <2> HIDE DEF life, heir, foes, proof, friends, beaten
  <2>1. n1 \in FactState
    BY <1>1 DEF FactState
  <2>2. n2 \in FactState
    <3> HIDE DEF n1
    <3> QED BY <1>1, <2>1 DEF FactState
  <2>3. n3 \in FactState
    <3> HIDE DEF n2
    <3> QED BY <1>1, <2>2 DEF FactState
  <2>4. n4 \in FactState
    <3> HIDE DEF n3
    <3> QED BY <1>1, <2>3 DEF FactState
  <2>5. n5 \in FactState
    <3> HIDE DEF n4
    <3> QED BY <1>2, <2>4 DEF FactState
  <2>6. n6 \in FactState
    <3> HIDE DEF n5
    <3> QED BY <1>2, <2>5 DEF FactState
  <2>7. n7 \in FactState
    <3> HIDE DEF n6
    <3> QED BY <1>3, <2>6 DEF FactState
  <2>8. QED
    <3> HIDE DEF n7
    <3> QED BY <1>3, <2>7 DEF FactState
<1>6. /\ NextState(s, e).level = s.level
      /\ NextState(s, e).lifecycle = life
      /\ NextState(s, e).superseded_by = heir
      /\ NextState(s, e).contradicted_by = foes
  BY DEF NextState, FactState
<1>7. QED
  BY <1>4, <1>5, <1>6

-----------------------------------------------------------------------------
(* The inductive invariant, of one view (a log with its projection and     *)
(* edges): both the committed view and the open transaction's satisfy it.  *)

Projection == [Facts -> FactState \cup {NoState}]

\* A fact has a state exactly if the log holds its assertion, at its level.
Origins(l, p) ==
  \A f \in Facts :
    IF p[f] = NoState
    THEN \A i \in DOMAIN l : l[i].fact # f
    ELSE \E k \in DOMAIN l : AssertedAt(l, k, f) /\ l[k].level = p[f].level

\* Only a superseded fact names an heir, and only a present fact has edges.
HeirsAndEdges(p, ed) ==
  /\ \A f \in Facts : p[f] # NoState /\ p[f].superseded_by # NoFact
                      => p[f].lifecycle = "Superseded"
  /\ \A x \in ed : p[x.from] # NoState

\* The facts that edges of type t lead to from f.
EdgeTo(ed, f, t) == {g \in Facts : \E x \in ed : x.from = f /\ x.to = g /\ x.type = t}

UniqueIds(l) == \A i, j \in DOMAIN l : l[i].id = l[j].id => i = j

ViewInv(l, p, ed) ==
  /\ l \in Seq(Event) /\ p \in Projection /\ ed \subseteq Edge
  /\ Origins(l, p)
  /\ NoLaundering(l)
  /\ ClosedByRank(l, p)
  /\ HeirsAndEdges(p, ed)
  /\ EdgesMatch(p, ed)
  /\ UniqueIds(l)

\* An admitted event keeps the view invariant (append_event_in_tx).
LEMMA AppendKeepsView ==
  ASSUME NEW l, NEW p, NEW ed, ViewInv(l, p, ed),
         NEW e \in Event, ArbitrateEvents(p, e), ~IsDuplicate(l, e)
  PROVE  ViewInv(Append(l, e), [p EXCEPT ![e.fact] = ApplyEvent(@, e)],
                 ed \cup ImpliedEdges(e))
<1> DEFINE l2 == Append(l, e)
           n == Len(l) + 1
           s == p[e.fact]
           s2 == ApplyEvent(s, e)
           p2 == [p EXCEPT ![e.fact] = s2]
           ed2 == ed \cup ImpliedEdges(e)
<1>1. l \in Seq(Event) /\ p \in Projection /\ ed \subseteq Edge
  BY DEF ViewInv
<1>2. /\ l2 \in Seq(Event) /\ n \in Nat \ {0}
      /\ DOMAIN l = 1..(n - 1) /\ DOMAIN l2 = 1..n
      /\ \A i \in DOMAIN l : l2[i] = l[i]
      /\ l2[n] = e
  BY <1>1
<1>3. e.fact \in Facts /\ e.level \in Levels /\ e.kind \in Kinds
      /\ (e.kind \in NamingKinds => e.by \in Facts)
  BY DEF Event
<1>4. s = NoState \/ s \in FactState
  BY <1>1, <1>3 DEF Projection
<1>5. TransitionOK(s, e)
  BY DEF ArbitrateEvents
<1>6. /\ s2 \in FactState
      /\ s = NoState => /\ e.kind = "Asserted" /\ s2.lifecycle = "Active"
                        /\ s2.level = e.level /\ s2.superseded_by = NoFact
                        /\ s2.contradicted_by = {}
      /\ s # NoState =>
           /\ s2.level = s.level
           /\ s2.lifecycle =
                (IF e.kind \in ClosingKinds THEN e.kind
                 ELSE IF e.kind = "Contradicted" THEN "Contested" ELSE s.lifecycle)
           /\ s2.superseded_by =
                (IF e.kind = "Superseded" THEN e.by ELSE s.superseded_by)
           /\ s2.contradicted_by =
                (IF e.kind = "Contradicted" THEN s.contradicted_by \cup {e.by}
                 ELSE s.contradicted_by)
  <2>1. CASE s = NoState
    BY <1>5, <2>1, InitialStateType DEF ApplyEvent
  <2>2. CASE s \in FactState
    <3>1. s2 = NextState(s, e) /\ s # NoState
      BY <2>2, FoldedIsPresent DEF ApplyEvent
    <3> HIDE DEF s2
    <3>2. QED
      BY <2>2, <3>1, NextStateType
  <2>3. QED
    BY <1>4, <2>1, <2>2
<1>7. /\ p2 \in Projection /\ p2[e.fact] = s2
      /\ \A f \in Facts : f # e.fact => p2[f] = p[f]
  BY <1>1, <1>3, <1>6 DEF Projection
<1>8. ed2 \subseteq Edge
  BY <1>1, <1>3 DEF ImpliedEdges, Edge, Event
<1> HIDE DEF l2, n, s, s2, p2, ed2
<1>9. \A f \in Facts, i \in DOMAIN l : AssertedAt(l, i, f) <=> AssertedAt(l2, i, f)
  BY <1>2 DEF AssertedAt
<1>10. s2 # NoState
  BY <1>6, FoldedIsPresent
<1>11. Origins(l2, p2)
  <2> SUFFICES ASSUME NEW f \in Facts
               PROVE  IF p2[f] = NoState
                      THEN \A i \in DOMAIN l2 : l2[i].fact # f
                      ELSE \E k \in DOMAIN l2 : /\ AssertedAt(l2, k, f)
                                                /\ l2[k].level = p2[f].level
    BY DEF Origins
  <2>1. IF p[f] = NoState
        THEN \A i \in DOMAIN l : l[i].fact # f
        ELSE \E k \in DOMAIN l : AssertedAt(l, k, f) /\ l[k].level = p[f].level
    BY DEF ViewInv, Origins
  <2>2. CASE f # e.fact
    BY <2>1, <2>2, <1>2, <1>7, <1>9
  <2>3. CASE f = e.fact /\ s = NoState
    <3>1. AssertedAt(l2, n, f) /\ l2[n].level = p2[f].level
      BY <2>3, <1>2, <1>6, <1>7 DEF AssertedAt
    <3>2. QED
      BY <3>1, <2>3, <1>2, <1>7, <1>10
  <2>4. CASE f = e.fact /\ s # NoState
    <3>1. PICK k \in DOMAIN l : AssertedAt(l, k, f) /\ l[k].level = s.level
      BY <2>1, <2>4 DEF s
    <3>2. AssertedAt(l2, k, f) /\ l2[k].level = p2[f].level /\ k \in DOMAIN l2
      BY <3>1, <2>4, <1>2, <1>6, <1>7, <1>9
    <3>3. QED
      BY <3>2, <2>4, <1>7, <1>10
  <2>5. QED
    BY <2>2, <2>3, <2>4
<1>12. NoLaundering(l2)
  <2> SUFFICES ASSUME NEW j \in DOMAIN l2, l2[j].kind = "Superseded"
               PROVE  \E i, k \in 1..(j - 1) : /\ AssertedAt(l2, i, l2[j].by)
                                               /\ AssertedAt(l2, k, l2[j].fact)
                                               /\ l2[i].level >= l2[k].level
    BY DEF NoLaundering
  <2>1. CASE j \in DOMAIN l
    <3>a. l2[j] = l[j] /\ l[j] \in Event
      BY <2>1, <1>1, <1>2
    <3>1. l2[j] = l[j] /\ l[j].by \in Facts /\ l[j].fact \in Facts
      BY <3>a DEF Event, NamingKinds
    <3>2. PICK i, k \in 1..(j - 1) : /\ AssertedAt(l, i, l[j].by)
                                     /\ AssertedAt(l, k, l[j].fact)
                                     /\ l[i].level >= l[k].level
      BY <2>1, <3>1 DEF ViewInv, NoLaundering
    <3>3. i \in DOMAIN l /\ k \in DOMAIN l
      BY <3>2 DEF AssertedAt
    <3>4. QED
      BY <3>1, <3>2, <3>3, <1>2, <1>9
  <2>2. CASE j = n
    <3>1. e.kind = "Superseded" /\ e.by \in Facts /\ s # NoState
      BY <2>2, <1>2, <1>3, <1>6 DEF NamingKinds
    <3>2. p[e.by] # NoState /\ p[e.by].level >= p[e.fact].level
      BY <3>1 DEF ArbitrateEvents, Backed
    <3>3. PICK i \in DOMAIN l : AssertedAt(l, i, e.by) /\ l[i].level = p[e.by].level
      BY <3>1, <3>2 DEF ViewInv, Origins
    <3>4. PICK k \in DOMAIN l : AssertedAt(l, k, e.fact) /\ l[k].level = p[e.fact].level
      BY <3>1, <1>3 DEF ViewInv, Origins, s
    <3>5. /\ AssertedAt(l2, i, l2[j].by) /\ AssertedAt(l2, k, l2[j].fact)
          /\ l2[i].level >= l2[k].level
      BY <3>1, <3>2, <3>3, <3>4, <2>2, <1>2, <1>3, <1>9
    <3>6. i \in 1..(j - 1) /\ k \in 1..(j - 1)
      BY <2>2, <1>2
    <3>7. QED
      BY <3>5, <3>6
  <2>3. QED
    BY <2>1, <2>2, <1>2
<1>13. ClosedByRank(l2, p2)
  <2> SUFFICES ASSUME NEW f \in Facts
               PROVE  LET closing == {i \in DOMAIN l2 : l2[i].fact = f
                                                        /\ l2[i].kind \in ClosingKinds}
                      IN IF p2[f].lifecycle \in Terminal
                         THEN \E i \in closing :
                                /\ closing = {i}
                                /\ l2[i].kind = p2[f].lifecycle
                                /\ l2[i].level >= p2[f].level
                                /\ \A j \in DOMAIN l2 :
                                     j > i /\ l2[j].fact = f => l2[j].kind \in AuditKinds
                         ELSE closing = {}
    BY DEF ClosedByRank
  <2> DEFINE closing == {i \in DOMAIN l : l[i].fact = f /\ l[i].kind \in ClosingKinds}
             closing2 == {i \in DOMAIN l2 : l2[i].fact = f /\ l2[i].kind \in ClosingKinds}
  <2>1. IF p[f].lifecycle \in Terminal
        THEN \E i \in closing :
               /\ closing = {i}
               /\ l[i].kind = p[f].lifecycle
               /\ l[i].level >= p[f].level
               /\ \A j \in DOMAIN l : j > i /\ l[j].fact = f => l[j].kind \in AuditKinds
        ELSE closing = {}
    BY DEF ViewInv, ClosedByRank
  <2>2. closing2 = IF e.fact = f /\ e.kind \in ClosingKinds
                   THEN closing \cup {n} ELSE closing
    BY <1>2
  <2> HIDE DEF closing, closing2
  <2>3. SUFFICES IF p2[f].lifecycle \in Terminal
                 THEN \E i \in closing2 :
                        /\ closing2 = {i}
                        /\ l2[i].kind = p2[f].lifecycle
                        /\ l2[i].level >= p2[f].level
                        /\ \A j \in DOMAIN l2 :
                             j > i /\ l2[j].fact = f => l2[j].kind \in AuditKinds
                 ELSE closing2 = {}
    BY DEF closing2
  <2>4. closing \subseteq DOMAIN l
    BY DEF closing
  <2>5. CASE f # e.fact
    BY <2>1, <2>2, <2>4, <2>5, <1>2, <1>7
  <2>6. CASE f = e.fact /\ s = NoState
    BY <2>1, <2>2, <2>6, <1>6, <1>7 DEF s, NoState, Terminal, ClosingKinds
  <2>7. CASE f = e.fact /\ s \in FactState
    <3>1. /\ WellPlaced(s, e) /\ ~InsufficientAuthority(s, e)
          /\ s.level \in Int /\ e.level \in Int
      BY <2>7, <1>3, <1>5, FoldedIsPresent DEF TransitionOK, Levels, FactState
    <3>2. /\ p2[f].level = s.level
          /\ p2[f].lifecycle =
               (IF e.kind \in ClosingKinds THEN e.kind
                ELSE IF e.kind = "Contradicted" THEN "Contested" ELSE s.lifecycle)
      BY <2>7, <1>6, <1>7, FoldedIsPresent
    <3>3. CASE s.lifecycle \in Terminal
      <4>1. e.kind \in AuditKinds
        BY <3>1, <3>3 DEF WellPlaced
      <4>2. p2[f].lifecycle = s.lifecycle /\ closing2 = closing
        BY <4>1, <3>2, <2>2 DEF AuditKinds, ClosingKinds
      <4>3. PICK i \in closing :
              /\ closing = {i} /\ l[i].kind = s.lifecycle /\ l[i].level >= s.level
              /\ \A j \in DOMAIN l : j > i /\ l[j].fact = f => l[j].kind \in AuditKinds
        BY <2>1, <2>7, <3>3 DEF s
      <4>4. QED
        BY <4>1, <4>2, <4>3, <3>2, <3>3, <2>4, <1>2
    <3>4. CASE s.lifecycle \notin Terminal
      <4>1. closing = {}
        BY <2>1, <2>7, <3>4 DEF s
      <4>2. CASE e.kind \in ClosingKinds
        <5>1. closing2 = {n} /\ e.level >= s.level
          BY <2>2, <2>7, <3>1, <4>1, <4>2 DEF InsufficientAuthority
        <5>2. QED
          BY <5>1, <3>2, <4>2, <1>2 DEF Terminal
      <4>3. CASE e.kind \notin ClosingKinds
        BY <2>2, <3>2, <3>4, <4>1, <4>3 DEF Terminal, ClosingKinds
      <4>4. QED
        BY <4>2, <4>3
    <3>5. QED
      BY <3>3, <3>4
  <2>8. QED
    BY <2>5, <2>6, <2>7, <1>4
<1>14. HeirsAndEdges(p2, ed2)
  <2>1. ASSUME NEW f \in Facts, p2[f] # NoState, p2[f].superseded_by # NoFact
        PROVE  p2[f].lifecycle = "Superseded"
    <3>1. p[f] # NoState /\ p[f].superseded_by # NoFact => p[f].lifecycle = "Superseded"
      BY DEF ViewInv, HeirsAndEdges
    <3>2. CASE f # e.fact
      BY <2>1, <3>1, <3>2, <1>7
    <3>3. CASE f = e.fact /\ s = NoState
      BY <2>1, <3>3, <1>6, <1>7
    <3>4. CASE f = e.fact /\ s \in FactState
      <4>1. WellPlaced(s, e)
        BY <3>4, <1>5, FoldedIsPresent DEF TransitionOK
      <4>2. /\ p2[f].lifecycle =
                 (IF e.kind \in ClosingKinds THEN e.kind
                  ELSE IF e.kind = "Contradicted" THEN "Contested" ELSE s.lifecycle)
            /\ p2[f].superseded_by = (IF e.kind = "Superseded" THEN e.by
                                      ELSE s.superseded_by)
        BY <3>4, <1>6, <1>7, FoldedIsPresent
      <4>3. CASE e.kind = "Superseded"
        BY <4>2, <4>3 DEF ClosingKinds
      <4>4. CASE e.kind # "Superseded"
        <5>1. s.lifecycle = "Superseded"
          BY <2>1, <3>1, <3>4, <4>2, <4>4, FoldedIsPresent DEF s
        <5>2. e.kind \in AuditKinds
          BY <5>1, <4>1 DEF WellPlaced, Terminal, ClosingKinds
        <5>3. QED
          BY <5>1, <5>2, <4>2 DEF AuditKinds, ClosingKinds
      <4>5. QED
        BY <4>3, <4>4
    <3>5. QED
      BY <3>2, <3>3, <3>4, <1>4
  <2>2. ASSUME NEW x \in ed2
        PROVE  p2[x.from] # NoState
    <3>1. x \in ed => p[x.from] # NoState
      BY DEF ViewInv, HeirsAndEdges
    <3>2. x \in Edge /\ x.from \in Facts
      BY <1>8 DEF Edge
    <3>3. x \notin ed => x.from = e.fact
      BY DEF ed2, ImpliedEdges
    <3>4. QED
      BY <3>1, <3>2, <3>3, <1>7, <1>10
  <2>3. QED
    BY <2>1, <2>2 DEF HeirsAndEdges
<1>15. EdgesMatch(p2, ed2)
  <2> SUFFICES ASSUME NEW f \in Facts, p2[f] # NoState
               PROVE  /\ p2[f].contradicted_by = EdgeTo(ed2, f, "Contradicted")
                      /\ \A g \in Facts : p2[f].superseded_by = g
                                            <=> g \in EdgeTo(ed2, f, "Superseded")
    BY DEF EdgesMatch, EdgeTo
  <2>1. p[f] # NoState =>
          /\ p[f].contradicted_by = EdgeTo(ed, f, "Contradicted")
          /\ \A g \in Facts : p[f].superseded_by = g <=> g \in EdgeTo(ed, f, "Superseded")
    BY DEF ViewInv, EdgesMatch, EdgeTo
  <2>2. ASSUME NEW t \in NamingKinds
        PROVE  EdgeTo(ed2, f, t) = IF f = e.fact /\ t = e.kind
                                   THEN EdgeTo(ed, f, t) \cup {e.by}
                                   ELSE EdgeTo(ed, f, t)
    <3>1. CASE e.kind \in NamingKinds
      <4> DEFINE x0 == [from |-> e.fact, to |-> e.by, type |-> e.kind, event |-> e.id]
      <4>1. ed2 = ed \cup {x0} /\ x0.from = e.fact /\ x0.to = e.by /\ x0.type = e.kind
        BY <3>1 DEF ed2, ImpliedEdges
      <4> HIDE DEF x0
      <4>2. ASSUME NEW g \in Facts
            PROVE  g \in EdgeTo(ed2, f, t)
                     <=> \/ g \in EdgeTo(ed, f, t)
                         \/ f = e.fact /\ t = e.kind /\ g = e.by
        BY <4>1 DEF EdgeTo
      <4>3. EdgeTo(ed, f, t) \subseteq Facts /\ EdgeTo(ed2, f, t) \subseteq Facts
        BY DEF EdgeTo
      <4>4. QED
        BY <3>1, <4>2, <4>3, <1>3
    <3>2. CASE e.kind \notin NamingKinds
      BY <3>2 DEF ed2, ImpliedEdges
    <3>3. QED
      BY <3>1, <3>2
  <2>3. "Contradicted" \in NamingKinds /\ "Superseded" \in NamingKinds
    BY DEF NamingKinds
  <2>4. CASE f # e.fact
    BY <2>1, <2>2, <2>3, <2>4, <1>7
  <2>5. CASE f = e.fact /\ s = NoState
    <3>1. EdgeTo(ed, f, "Contradicted") = {} /\ EdgeTo(ed, f, "Superseded") = {}
      BY <2>5 DEF EdgeTo, ViewInv, HeirsAndEdges, s
    <3>2. QED
      BY <3>1, <2>2, <2>3, <2>5, <1>6, <1>7, SentinelsApart
  <2>6. CASE f = e.fact /\ s \in FactState
    <3>1. /\ p2[f].superseded_by = (IF e.kind = "Superseded" THEN e.by
                                    ELSE s.superseded_by)
          /\ p2[f].contradicted_by = (IF e.kind = "Contradicted"
                                      THEN s.contradicted_by \cup {e.by}
                                      ELSE s.contradicted_by)
      BY <2>6, <1>6, <1>7, FoldedIsPresent
    <3>2. /\ s.contradicted_by = EdgeTo(ed, f, "Contradicted")
          /\ \A g \in Facts : s.superseded_by = g <=> g \in EdgeTo(ed, f, "Superseded")
      BY <2>1, <2>6, FoldedIsPresent DEF s
    <3>3. e.kind = "Superseded" => s.superseded_by = NoFact
      <4>1. WellPlaced(s, e)
        BY <2>6, <1>5, FoldedIsPresent DEF TransitionOK
      <4>2. e.kind = "Superseded" => s.lifecycle # "Superseded"
        BY <4>1 DEF WellPlaced, Terminal, ClosingKinds, AuditKinds
      <4>3. QED
        BY <4>2, <2>6, FoldedIsPresent DEF ViewInv, HeirsAndEdges, s
    <3>4. e.kind = "Superseded" => EdgeTo(ed, f, "Superseded") = {}
      BY <3>2, <3>3, SentinelsApart DEF EdgeTo
    <3>5. QED
      BY <3>1, <3>2, <3>4, <2>2, <2>3, <2>6, <1>3
  <2>7. QED
    BY <2>4, <2>5, <2>6, <1>4
<1>16. UniqueIds(l2)
  <2>1. \A i \in DOMAIN l : l[i].id # e.id
    BY DEF IsDuplicate
  <2>2. UniqueIds(l)
    BY DEF ViewInv
  <2>3. QED
    BY <2>1, <2>2, <1>2 DEF UniqueIds
<1>17. ViewInv(l2, p2, ed2)
  BY <1>2, <1>7, <1>8, <1>11, <1>12, <1>13, <1>14, <1>15, <1>16 DEF ViewInv
<1>q. QED
  BY <1>17 DEF l2, p2, ed2, s2, s

-----------------------------------------------------------------------------
(* The specification.                                                      *)

\* What the open transaction may have done to a fact that readers see closed.
Unmoved(a, b) ==
  b = [a EXCEPT !.updated_at = b.updated_at, !.last_event_id = b.last_event_id]

ClosedUnmoved(p, q) == \A f \in Facts : p[f].lifecycle \in Terminal => Unmoved(p[f], q[f])

IndInv ==
  /\ ViewInv(log, proj, edges)
  /\ ViewInv(tlog, tproj, tedges)
  /\ ClosedUnmoved(proj, tproj)

\* The empty store has the invariant.
LEMMA InitInv == Init => IndInv
<1> SUFFICES ASSUME Init PROVE IndInv
  OBVIOUS
<1>1. NoState.lifecycle \notin Terminal
  BY DEF NoState, Terminal, ClosingKinds
<1>2. proj \in Projection /\ \A f \in Facts : proj[f] = NoState
  BY DEF Init, Projection
<1>3. log = <<>> /\ edges = {} /\ DOMAIN log = {}
  BY DEF Init
<1>4. ViewInv(log, proj, edges)
  <2>1. Origins(log, proj)
    BY <1>2, <1>3 DEF Origins
  <2>2. NoLaundering(log) /\ UniqueIds(log)
    BY <1>3 DEF NoLaundering, UniqueIds
  <2>3. ClosedByRank(log, proj)
    BY <1>1, <1>2, <1>3 DEF ClosedByRank
  <2>4. HeirsAndEdges(proj, edges) /\ EdgesMatch(proj, edges)
    BY <1>2, <1>3 DEF HeirsAndEdges, EdgesMatch
  <2>5. QED
    BY <1>2, <1>3, <2>1, <2>2, <2>3, <2>4 DEF ViewInv
<1>5. tlog = log /\ tproj = proj /\ tedges = edges
  BY DEF Init
<1>6. ClosedUnmoved(proj, tproj)
  BY <1>1, <1>2 DEF ClosedUnmoved
<1>7. QED
  BY <1>4, <1>5, <1>6 DEF IndInv

\* Moving updated_at and last_event_id again is still only moving them.
LEMMA UnmovedComposes ==
  ASSUME NEW a \in FactState, NEW b \in FactState, NEW c \in FactState,
         Unmoved(a, b), Unmoved(b, c)
  PROVE  Unmoved(a, c)
BY DEF Unmoved, FactState

\* A transaction view that appends keeps what was closed closed.
LEMMA AppendKeepsClosed ==
  ASSUME NEW p \in Projection, NEW q \in Projection, ClosedUnmoved(p, q),
         NEW e \in Event, ArbitrateEvents(q, e),
         [q EXCEPT ![e.fact] = ApplyEvent(@, e)] \in Projection
  PROVE  ClosedUnmoved(p, [q EXCEPT ![e.fact] = ApplyEvent(@, e)])
<1> DEFINE q2 == [q EXCEPT ![e.fact] = ApplyEvent(@, e)]
<1> SUFFICES ASSUME NEW f \in Facts, p[f].lifecycle \in Terminal
             PROVE  Unmoved(p[f], q2[f])
  BY DEF ClosedUnmoved
<1>1. Unmoved(p[f], q[f])
  BY DEF ClosedUnmoved
<1>2. CASE f # e.fact
  BY <1>1, <1>2 DEF Projection
<1>3. CASE f = e.fact
  <2>1. p[f] \in FactState
    BY DEF Projection, NoState, Terminal, ClosingKinds
  <2>2. q[f] \in FactState \cup {NoState} /\ q2[f] = ApplyEvent(q[f], e)
    BY <1>3 DEF Projection
  <2>3. q[f].lifecycle = p[f].lifecycle
    BY <1>1, <2>1 DEF Unmoved, FactState
  <2>4. q[f] \in FactState /\ q[f] # NoState
    BY <2>2, <2>3, FoldedIsPresent DEF NoState, Terminal, ClosingKinds
  <2>5. e.kind \in AuditKinds
    BY <1>3, <2>3, <2>4 DEF ArbitrateEvents, TransitionOK, WellPlaced
  <2>6. Unmoved(q[f], NextState(q[f], e))
    <3>1. /\ e.kind \notin ClosingKinds \cup {"Contradicted", "Reinforced", "ChallengeRejected"}
          /\ e.kind # "Superseded"
      BY <2>5 DEF AuditKinds, ClosingKinds
    <3>2. NextState(q[f], e) = [q[f] EXCEPT !.updated_at = e.recorded_at, !.last_event_id = e.id]
      BY <2>4, <3>1 DEF NextState, FactState
    <3>3. /\ NextState(q[f], e).updated_at = e.recorded_at
          /\ NextState(q[f], e).last_event_id = e.id
      BY <2>4, <3>2 DEF FactState
    <3> QED BY <3>2, <3>3 DEF Unmoved
  <2>7. q2[f] = NextState(q[f], e) /\ NextState(q[f], e) \in FactState
    <3> HIDE DEF q2
    <3>1. q2[f] = NextState(q[f], e)
      BY <2>2, <2>4 DEF ApplyEvent
    <3>2. NextState(q[f], e) \in FactState
      BY <2>4, NextStateType
    <3>3. QED
      BY <3>1, <3>2
  <2>8. QED
    BY <1>1, <2>1, <2>4, <2>6, <2>7, UnmovedComposes
<1>4. QED
  BY <1>2, <1>3

\* A state is unmoved from itself.
LEMMA UnmovedReflexive == ASSUME NEW a \in FactState PROVE Unmoved(a, a)
BY DEF Unmoved, FactState

\* A view is a successor of itself: nothing closed has moved.
LEMMA ClosedUnmovedReflexive ==
  ASSUME NEW p \in Projection PROVE ClosedUnmoved(p, p)
<1> SUFFICES ASSUME NEW f \in Facts, p[f].lifecycle \in Terminal
             PROVE  Unmoved(p[f], p[f])
  BY DEF ClosedUnmoved
<1>1. p[f] \in FactState
  BY DEF Projection, NoState, Terminal, ClosingKinds
<1>2. QED
  BY <1>1, UnmovedReflexive

\* Appending to, committing or rolling back the open transaction keeps the
\* invariant of both views.
LEMMA StepInv == IndInv /\ [Next]_vars => IndInv'
<1> SUFFICES ASSUME IndInv, [Next]_vars PROVE IndInv'
  OBVIOUS
<1>1. ASSUME NEW e \in Candidates, AppendEventInTx(e)
      PROVE  IndInv'
  <2>1. e \in Event /\ ViewInv(tlog, tproj, tedges) /\ ArbitrateEvents(tproj, e)
        /\ ~IsDuplicate(tlog, e)
    BY <1>1, CandidatesAssumption DEF IndInv, AppendEventInTx
  <2>2. /\ tlog' = Append(tlog, e) /\ tedges' = tedges \cup ImpliedEdges(e)
        /\ tproj' = [tproj EXCEPT ![e.fact] = ApplyEvent(@, e)]
        /\ log' = log /\ proj' = proj /\ edges' = edges
    BY <1>1 DEF AppendEventInTx, UpsertProjection, durable
  <2>3. ViewInv(tlog', tproj', tedges')
    BY <2>1, <2>2, AppendKeepsView
  <2>4. proj \in Projection /\ tproj \in Projection /\ tproj' \in Projection
    BY <2>3 DEF IndInv, ViewInv
  <2>5. ClosedUnmoved(proj, tproj')
    BY <2>1, <2>2, <2>4, AppendKeepsClosed DEF IndInv
  <2>6. QED
    BY <2>2, <2>3, <2>5 DEF IndInv
<1>2. CASE Commit
  BY <1>2, ClosedUnmovedReflexive DEF IndInv, Commit, working, ViewInv
<1>3. CASE Rollback
  BY <1>3, ClosedUnmovedReflexive DEF IndInv, Rollback, durable, ViewInv
<1>4. CASE UNCHANGED vars
  BY <1>4 DEF vars, IndInv
<1>5. QED
  BY <1>1, <1>2, <1>3, <1>4 DEF Next

\* The invariant holds in every reachable state.
THEOREM Invariance == Spec => []IndInv
BY InitInv, StepInv, PTL DEF Spec

\* The log, projection and edges of both views stay well typed: the log is
\* a sequence of events, each fact has a well-formed state or none.
THEOREM TypeCorrect == Spec => []TypeOK
<1>1. IndInv => TypeOK
  BY DEF IndInv, ViewInv, TypeOK, Projection
<1>2. QED
  BY <1>1, Invariance, PTL

\* firewall.rs arbitrate_events: no sequence of commits and rollbacks leaves
\* a supersession in the log whose replacement was asserted below the
\* authority the superseded fact was asserted at.
THEOREM NeverLaunders == Spec => []CommittedNoLaundering
<1>1. IndInv => CommittedNoLaundering
  BY DEF IndInv, ViewInv, CommittedNoLaundering
<1>2. QED
  BY <1>1, Invariance, PTL

\* state.rs apply_next_event: a belief is closed at most once, by an event of
\* at least its own authority, and only audit events follow.
THEOREM ClosesByRank == Spec => []CommittedClosedByRank
<1>1. IndInv => CommittedClosedByRank
  BY DEF IndInv, ViewInv, CommittedClosedByRank
<1>2. QED
  BY <1>1, Invariance, PTL

\* adapter.rs insert_edge and upsert_projection: the two tables agree.
THEOREM EdgesAgree == Spec => []CommittedEdgesMatch
<1>1. IndInv => CommittedEdgesMatch
  BY DEF IndInv, ViewInv, CommittedEdgesMatch
<1>2. QED
  BY <1>1, Invariance, PTL

\* memory.rs persist: an event id is used once.
THEOREM IdsUsedOnce == Spec => []EventIdsUnique
<1>1. IndInv => EventIdsUnique
  BY DEF IndInv, ViewInv, UniqueIds, EventIdsUnique
<1>2. QED
  BY <1>1, Invariance, PTL

\* state.rs: once readers see a fact closed, what it says never changes.
THEOREM ClosedForever == Spec => TerminalIsForever
<1>1. IndInv /\ [Next]_vars => [\A f \in Facts : proj[f].lifecycle \in Terminal =>
       proj'[f] = [proj[f] EXCEPT !.updated_at = proj'[f].updated_at,
                                  !.last_event_id = proj'[f].last_event_id]]_vars
  <2> SUFFICES ASSUME IndInv, Next, NEW f \in Facts, proj[f].lifecycle \in Terminal
               PROVE  Unmoved(proj[f], proj'[f])
    BY DEF Unmoved
  <2>1. proj' = proj \/ proj' = tproj
    BY DEF Next, AppendEventInTx, Commit, Rollback, durable
  <2>2. QED
    BY <2>1, ClosedUnmovedReflexive DEF IndInv, ViewInv, ClosedUnmoved
<1>2. QED
  BY <1>1, Invariance, PTL DEF Spec, TerminalIsForever

-----------------------------------------------------------------------------
(* Recursive functions over a log. Every one of them exists, by induction  *)
(* (as the least counterexample), and is extended by the last event.       *)

\* Numbers have a least one.
LEMMA LeastNumber ==
  ASSUME NEW S, S \subseteq Nat, S # {}
  PROVE  \E x \in S : \A y \in S : x <= y
<1> DEFINE R == OpToRel(<, Nat)
<1>1. \A x, y \in Nat : y < x => <<y, x>> \in R
  BY DEF OpToRel
<1>2. IsWellFoundedOn(R, Nat)
  BY NatLessThanWellFounded
<1> HIDE DEF R
<1>3. PICK x \in S : \A y \in S : ~(<<y, x>> \in R)
  BY <1>2, WFMin
<1>4. ASSUME NEW y \in S PROVE x <= y
  <2>1. x \in Nat /\ y \in Nat /\ ~(y < x)
    BY <1>1, <1>3
  <2> QED BY <2>1
<1> QED BY <1>4

\* Positions of a log have a last one.
LEMMA LastPosition ==
  ASSUME NEW n \in Nat, NEW S, S \subseteq 1..n, S # {}
  PROVE  \E x \in S : \A y \in S : y <= x
<1> DEFINE T == {n - x : x \in S}
<1>1. T \subseteq Nat /\ T # {}
  <2>1. ASSUME NEW x \in S PROVE n - x \in Nat
    <3>1. x \in 1..n
      OBVIOUS
    <3> QED BY <3>1
  <2> QED BY <2>1
<1>2. PICK t \in T : \A u \in T : t <= u
  <2> HIDE DEF T
  <2> QED BY <1>1, LeastNumber
<1>3. PICK x \in S : t = n - x
  OBVIOUS
<1>4. ASSUME NEW y \in S PROVE y <= x
  <2>1. n - y \in T
    OBVIOUS
  <2>2. n - x <= n - y /\ x \in 1..n /\ y \in 1..n
    BY <1>2, <1>3, <2>1
  <2> QED BY <2>2
<1> QED BY <1>4

\* The chosen events of the first n of a log.
Keeps(kept, l, K, n) ==
  kept = [i \in 0..n |-> IF i = 0 THEN <<>>
                         ELSE IF i \in K THEN Append(kept[i - 1], l[i]) ELSE kept[i - 1]]

\* EventsAt is well defined.
LEMMA KeepsExists ==
  ASSUME NEW l, NEW K, NEW n0 \in Nat
  PROVE  \E kept : Keeps(kept, l, K, n0)
<1> DEFINE Bad == {k \in Nat : ~ \E kept : Keeps(kept, l, K, k)}
<1> SUFFICES ASSUME Bad # {} PROVE FALSE
  OBVIOUS
<1>1. PICK k \in Bad : \A j \in Bad : k <= j
  <2>1. Bad \subseteq Nat
    OBVIOUS
  <2> HIDE DEF Bad
  <2> QED BY <2>1, LeastNumber
<1>2. k \in Nat /\ ~ \E kept : Keeps(kept, l, K, k)
  BY <1>1
<1>3. CASE k = 0
  <2> DEFINE kept == [i \in 0..0 |-> <<>>]
  <2>1. Keeps(kept, l, K, 0)
    BY \A i \in 0..0 : i = 0 DEF Keeps
  <2> QED BY <1>2, <1>3, <2>1
<1>4. CASE k # 0
  <2>1. k - 1 \in Nat /\ ~(k <= k - 1)
    BY <1>2, <1>4
  <2>2. k - 1 \notin Bad
    BY <1>1, <2>1
  <2>3. PICK kept : Keeps(kept, l, K, k - 1)
    BY <2>1, <2>2
  <2> DEFINE Val(i) == IF i = 0 THEN <<>>
                       ELSE IF i \in K THEN Append(kept[i - 1], l[i]) ELSE kept[i - 1]
             more == [i \in 0..k |-> Val(i)]
  <2>4. ASSUME NEW i \in 0..(k - 1) PROVE more[i] = kept[i]
    <3>1. i \in 0..k
      BY <1>2
    <3>2. more[i] = Val(i)
      BY <3>1
    <3>3. kept[i] = Val(i)
      BY <2>3 DEF Keeps
    <3> QED BY <3>2, <3>3
  <2>5. \A i \in 0..k : i # 0 => i - 1 \in 0..(k - 1)
    BY <1>2
  <2>6. Keeps(more, l, K, k)
    BY <2>4, <2>5 DEF Keeps
  <2> QED BY <1>2, <2>6
<1> QED BY <1>3, <1>4

\* What the chosen events of a prefix are, position by position.
LEMMA KeepsStep ==
  ASSUME NEW l, NEW K, NEW n \in Nat, NEW kept, Keeps(kept, l, K, n)
  PROVE  /\ kept[0] = <<>>
         /\ \A i \in 1..n : kept[i] = IF i \in K THEN Append(kept[i - 1], l[i])
                                      ELSE kept[i - 1]
<1> DEFINE Val(i) == IF i = 0 THEN <<>>
                     ELSE IF i \in K THEN Append(kept[i - 1], l[i]) ELSE kept[i - 1]
<1>1. \A i \in 0..n : kept[i] = Val(i)
  BY DEF Keeps
<1>2. 0 \in 0..n /\ kept[0] = <<>>
  BY <1>1
<1>3. ASSUME NEW i \in 1..n
      PROVE  kept[i] = IF i \in K THEN Append(kept[i - 1], l[i]) ELSE kept[i - 1]
  <2>1. i \in 0..n /\ i # 0
    OBVIOUS
  <2> QED BY <1>1, <2>1
<1> QED BY <1>2, <1>3

\* EventsAt is the last of them.
LEMMA EventsAtKept ==
  ASSUME NEW l, NEW K, Len(l) \in Nat
  PROVE  \E kept : Keeps(kept, l, K, Len(l)) /\ EventsAt(l, K) = kept[Len(l)]
<1> DEFINE chosen == CHOOSE kept : Keeps(kept, l, K, Len(l))
<1>1. Keeps(chosen, l, K, Len(l))
  BY KeepsExists
<1>2. EventsAt(l, K) = chosen[Len(l)]
  BY DEF EventsAt, Keeps
<1> QED BY <1>1, <1>2

\* The chosen events of the empty log.
LEMMA EventsAtEmpty ==
  ASSUME NEW K
  PROVE  EventsAt(<<>>, K) = <<>>
<1>1. Len(<<>>) = 0
  OBVIOUS
<1>2. PICK kept : Keeps(kept, <<>>, K, 0) /\ EventsAt(<<>>, K) = kept[0]
  BY <1>1, EventsAtKept
<1>3. kept[0] = <<>>
  <2>1. 0 \in Nat
    OBVIOUS
  <2> QED BY <1>2, <2>1, KeepsStep
<1> QED BY <1>2, <1>3

\* The chosen events are events, no more than there are.
LEMMA EventsAtType ==
  ASSUME NEW T, NEW l \in Seq(T), NEW K
  PROVE  EventsAt(l, K) \in Seq(T) /\ Len(EventsAt(l, K)) <= Len(l)
<1> DEFINE n == Len(l)
<1>0. n \in Nat /\ \A i \in 1..n : l[i] \in T
  OBVIOUS
<1>1. PICK kept : Keeps(kept, l, K, n) /\ EventsAt(l, K) = kept[n]
  BY <1>0, EventsAtKept
<1>2. /\ kept[0] = <<>>
      /\ \A i \in 1..n : kept[i] = IF i \in K THEN Append(kept[i - 1], l[i])
                                   ELSE kept[i - 1]
  <2> HIDE DEF n
  <2> QED BY <1>0, <1>1, KeepsStep
<1> DEFINE Good(i) == kept[i] \in Seq(T) /\ Len(kept[i]) <= i
           Bad == {i \in 0..n : ~ Good(i)}
<1> SUFFICES ASSUME Bad # {} PROVE FALSE
  BY <1>0, <1>1
<1> HIDE DEF n
<1>3. PICK k \in Bad : \A j \in Bad : k <= j
  <2>1. Bad \subseteq Nat
    BY <1>0
  <2> HIDE DEF Bad
  <2> QED BY <2>1, LeastNumber
<1>4. k \in 0..n /\ ~ Good(k)
  BY <1>3
<1>5. CASE k = 0
  <2>1. <<>> \in Seq(T) /\ Len(<<>>) <= 0
    OBVIOUS
  <2> QED BY <1>2, <1>4, <1>5, <2>1
<1>6. CASE k # 0
  <2>1. k \in 1..n /\ k - 1 \in 0..n /\ ~(k <= k - 1)
    BY <1>0, <1>4, <1>6
  <2>2. kept[k - 1] \in Seq(T) /\ Len(kept[k - 1]) <= k - 1
    BY <1>3, <2>1
  <2>3. kept[k] = Append(kept[k - 1], l[k]) \/ kept[k] = kept[k - 1]
    BY <1>2, <2>1
  <2>4. l[k] \in T /\ k \in Int
    BY <1>0, <2>1 DEF n
  <2>5. ASSUME NEW q \in Seq(T), Len(q) <= k - 1
        PROVE  /\ Append(q, l[k]) \in Seq(T) /\ Len(Append(q, l[k])) <= k
               /\ Len(q) <= k
    BY <2>4, <2>5
  <2>6. Good(k)
    BY <2>2, <2>3, <2>5
  <2> QED BY <1>4, <2>6
<1> QED BY <1>5, <1>6

\* A log with one more event: the chosen events gain it if it is chosen.
LEMMA EventsAtAppend ==
  ASSUME NEW T, NEW l \in Seq(T), NEW e \in T, NEW K, NEW L,
         \A i \in 1..Len(l) : i \in K <=> i \in L
  PROVE  EventsAt(Append(l, e), K) =
           IF Len(l) + 1 \in K THEN Append(EventsAt(l, L), e) ELSE EventsAt(l, L)
<1> DEFINE n == Len(l)
           l2 == Append(l, e)
<1>0. /\ n \in Nat /\ l2 \in Seq(T) /\ Len(l2) = n + 1 /\ l2[n + 1] = e
      /\ \A i \in 1..n : l2[i] = l[i]
  OBVIOUS
<1>1. PICK a : Keeps(a, l, L, n) /\ EventsAt(l, L) = a[n]
  BY <1>0, EventsAtKept
<1>2. PICK b : Keeps(b, l2, K, n + 1) /\ EventsAt(l2, K) = b[n + 1]
  <2>1. Len(l2) \in Nat
    BY <1>0
  <2> HIDE DEF l2
  <2> QED BY <1>0, <2>1, EventsAtKept
<1> HIDE DEF n, l2
<1>3. /\ a[0] = <<>>
      /\ \A i \in 1..n : a[i] = IF i \in L THEN Append(a[i - 1], l[i]) ELSE a[i - 1]
  BY <1>0, <1>1, KeepsStep
<1>4. /\ b[0] = <<>>
      /\ \A i \in 1..(n + 1) : b[i] = IF i \in K THEN Append(b[i - 1], l2[i]) ELSE b[i - 1]
  <2>1. n + 1 \in Nat
    BY <1>0
  <2> QED BY <1>2, <2>1, KeepsStep
<1>5. b[n] = a[n]
  <2> DEFINE Bad == {i \in 0..n : b[i] # a[i]}
  <2> SUFFICES ASSUME Bad # {} PROVE FALSE
    BY <1>0
  <2>1. PICK k \in Bad : \A j \in Bad : k <= j
    <3>1. Bad \subseteq Nat
      BY <1>0
    <3> HIDE DEF Bad
    <3> QED BY <3>1, LeastNumber
  <2>2. k \in 0..n /\ b[k] # a[k]
    BY <2>1
  <2>3. CASE k = 0
    BY <1>3, <1>4, <2>2, <2>3
  <2>4. CASE k # 0
    <3>1. k \in 1..n /\ k \in 1..(n + 1) /\ k - 1 \in 0..n /\ ~(k <= k - 1)
      BY <1>0, <2>2, <2>4
    <3>2. b[k - 1] = a[k - 1]
      BY <2>1, <3>1
    <3>3. l2[k] = l[k] /\ (k \in K <=> k \in L)
      BY <1>0, <3>1 DEF n
    <3> QED BY <1>3, <1>4, <2>2, <3>1, <3>2, <3>3
  <2> QED BY <2>3, <2>4
<1>6. b[n + 1] = IF n + 1 \in K THEN Append(b[n], e) ELSE b[n]
  BY <1>0, <1>4
<1> QED BY <1>1, <1>2, <1>5, <1>6 DEF n, l2

\* The states of the first n events.
Folds(state, events, n) ==
  state = [i \in 0..n |-> IF i = 0 THEN NoState ELSE ReplayStep(state[i - 1], events[i])]

\* FoldEvents is well defined.
LEMMA FoldsExists ==
  ASSUME NEW events, NEW n0 \in Nat
  PROVE  \E state : Folds(state, events, n0)
<1> DEFINE Bad == {k \in Nat : ~ \E state : Folds(state, events, k)}
<1> SUFFICES ASSUME Bad # {} PROVE FALSE
  OBVIOUS
<1>1. PICK k \in Bad : \A j \in Bad : k <= j
  <2>1. Bad \subseteq Nat
    OBVIOUS
  <2> HIDE DEF Bad
  <2> QED BY <2>1, LeastNumber
<1>2. k \in Nat /\ ~ \E state : Folds(state, events, k)
  BY <1>1
<1>3. CASE k = 0
  <2> DEFINE state == [i \in 0..0 |-> NoState]
  <2>1. Folds(state, events, 0)
    BY \A i \in 0..0 : i = 0 DEF Folds
  <2> QED BY <1>2, <1>3, <2>1
<1>4. CASE k # 0
  <2>1. k - 1 \in Nat /\ ~(k <= k - 1)
    BY <1>2, <1>4
  <2>2. k - 1 \notin Bad
    BY <1>1, <2>1
  <2>3. PICK state : Folds(state, events, k - 1)
    BY <2>1, <2>2
  <2> DEFINE Val(i) == IF i = 0 THEN NoState ELSE ReplayStep(state[i - 1], events[i])
             more == [i \in 0..k |-> Val(i)]
  <2>4. ASSUME NEW i \in 0..(k - 1) PROVE more[i] = state[i]
    <3>1. i \in 0..k
      BY <1>2
    <3>2. more[i] = Val(i)
      BY <3>1
    <3>3. state[i] = Val(i)
      BY <2>3 DEF Folds
    <3> QED BY <3>2, <3>3
  <2>5. \A i \in 0..k : i # 0 => i - 1 \in 0..(k - 1)
    BY <1>2
  <2>6. Folds(more, events, k)
    BY <2>4, <2>5 DEF Folds
  <2> QED BY <1>2, <2>6
<1> QED BY <1>3, <1>4

\* The state after each event of a stream.
LEMMA FoldsStep ==
  ASSUME NEW events, NEW n \in Nat, NEW state, Folds(state, events, n)
  PROVE  /\ state[0] = NoState
         /\ \A i \in 1..n : state[i] = ReplayStep(state[i - 1], events[i])
<1> DEFINE Val(i) == IF i = 0 THEN NoState ELSE ReplayStep(state[i - 1], events[i])
<1>1. \A i \in 0..n : state[i] = Val(i)
  BY DEF Folds
<1>2. 0 \in 0..n /\ state[0] = NoState
  BY <1>1
<1>3. ASSUME NEW i \in 1..n PROVE state[i] = ReplayStep(state[i - 1], events[i])
  <2>1. i \in 0..n /\ i # 0
    OBVIOUS
  <2> QED BY <1>1, <2>1
<1> QED BY <1>2, <1>3

\* A replay is the state after the last event.
LEMMA FoldEventsLast ==
  ASSUME NEW events, Len(events) \in Nat
  PROVE  \E state : Folds(state, events, Len(events))
                      /\ FoldEvents(events) = state[Len(events)]
<1> DEFINE chosen == CHOOSE state : Folds(state, events, Len(events))
<1>1. Folds(chosen, events, Len(events))
  BY FoldsExists
<1>2. FoldEvents(events) = chosen[Len(events)]
  BY DEF FoldEvents, Folds
<1> QED BY <1>1, <1>2

\* replay_fact of nothing.
LEMMA FoldEventsEmpty == FoldEvents(<<>>) = NoState
<1>1. Len(<<>>) = 0
  OBVIOUS
<1>2. PICK state : Folds(state, <<>>, 0) /\ FoldEvents(<<>>) = state[0]
  BY <1>1, FoldEventsLast
<1> QED BY <1>2, FoldsStep

\* replay_fact of one more event applies it to the replay of those before.
LEMMA FoldEventsAppend ==
  ASSUME NEW T, NEW l \in Seq(T), NEW e \in T
  PROVE  FoldEvents(Append(l, e)) = ReplayStep(FoldEvents(l), e)
<1> DEFINE n == Len(l)
           l2 == Append(l, e)
<1>0. /\ n \in Nat /\ Len(l2) = n + 1 /\ l2[n + 1] = e
      /\ \A i \in 1..n : l2[i] = l[i]
  OBVIOUS
<1>1. PICK a : Folds(a, l, n) /\ FoldEvents(l) = a[n]
  BY <1>0, FoldEventsLast
<1>2. PICK b : Folds(b, l2, n + 1) /\ FoldEvents(l2) = b[n + 1]
  <2>1. Len(l2) \in Nat
    BY <1>0
  <2> HIDE DEF l2
  <2> QED BY <1>0, <2>1, FoldEventsLast
<1> HIDE DEF n, l2
<1>3. a[0] = NoState /\ \A i \in 1..n : a[i] = ReplayStep(a[i - 1], l[i])
  BY <1>0, <1>1, FoldsStep
<1>4. b[0] = NoState /\ \A i \in 1..(n + 1) : b[i] = ReplayStep(b[i - 1], l2[i])
  <2>1. n + 1 \in Nat
    BY <1>0
  <2> QED BY <1>2, <2>1, FoldsStep
<1>5. b[n] = a[n]
  <2> DEFINE Bad == {i \in 0..n : b[i] # a[i]}
  <2> SUFFICES ASSUME Bad # {} PROVE FALSE
    BY <1>0
  <2>1. PICK k \in Bad : \A j \in Bad : k <= j
    <3>1. Bad \subseteq Nat
      BY <1>0
    <3> HIDE DEF Bad
    <3> QED BY <3>1, LeastNumber
  <2>2. k \in 0..n /\ b[k] # a[k]
    BY <2>1
  <2>3. CASE k = 0
    BY <1>3, <1>4, <2>2, <2>3
  <2>4. CASE k # 0
    <3>1. k \in 1..n /\ k \in 1..(n + 1) /\ k - 1 \in 0..n /\ ~(k <= k - 1)
      BY <1>0, <2>2, <2>4
    <3>2. b[k - 1] = a[k - 1]
      BY <2>1, <3>1
    <3>3. l2[k] = l[k]
      BY <1>0, <3>1
    <3> QED BY <1>3, <1>4, <2>2, <3>1, <3>2, <3>3
  <2> QED BY <2>3, <2>4
<1>6. b[n + 1] = ReplayStep(b[n], e)
  BY <1>0, <1>4
<1> QED BY <1>1, <1>2, <1>5, <1>6 DEF n, l2

\* Nothing chosen, nothing kept.
LEMMA EventsAtNone ==
  ASSUME NEW T, NEW l \in Seq(T), NEW K, \A i \in 1..Len(l) : i \notin K
  PROVE  EventsAt(l, K) = <<>>
<1> DEFINE n == Len(l)
<1>0. n \in Nat /\ \A i \in 1..n : i \notin K
  OBVIOUS
<1>1. PICK kept : Keeps(kept, l, K, n) /\ EventsAt(l, K) = kept[n]
  BY <1>0, EventsAtKept
<1>2. /\ kept[0] = <<>>
      /\ \A i \in 1..n : kept[i] = IF i \in K THEN Append(kept[i - 1], l[i])
                                   ELSE kept[i - 1]
  <2> HIDE DEF n
  <2> QED BY <1>0, <1>1, KeepsStep
<1> DEFINE Bad == {i \in 0..n : kept[i] # <<>>}
<1> SUFFICES ASSUME Bad # {} PROVE FALSE
  BY <1>0, <1>1
<1> HIDE DEF n
<1>3. PICK k \in Bad : \A j \in Bad : k <= j
  <2>1. Bad \subseteq Nat
    BY <1>0
  <2> HIDE DEF Bad
  <2> QED BY <2>1, LeastNumber
<1>4. k \in 0..n /\ kept[k] # <<>>
  BY <1>3
<1>5. k # 0
  BY <1>2, <1>4
<1>6. k \in 1..n /\ k - 1 \in 0..n /\ ~(k <= k - 1)
  BY <1>0, <1>4, <1>5
<1>7. kept[k - 1] = <<>>
  BY <1>3, <1>6
<1> QED BY <1>0, <1>2, <1>4, <1>6, <1>7

-----------------------------------------------------------------------------
(* The streams of a log that gains an event.                               *)

\* load_fact_events.
LEMMA StreamAppend ==
  ASSUME NEW l \in Seq(Event), NEW e \in Event, NEW f
  PROVE  /\ StreamOf(l, f) \in Seq(Event)
         /\ StreamOf(Append(l, e), f) = IF e.fact = f THEN Append(StreamOf(l, f), e)
                                        ELSE StreamOf(l, f)
<1> DEFINE l2 == Append(l, e)
           L == {i \in DOMAIN l : l[i].fact = f}
           K == {i \in DOMAIN l2 : l2[i].fact = f}
           n == Len(l)
<1>1. /\ n \in Nat /\ DOMAIN l = 1..n /\ DOMAIN l2 = 1..(n + 1)
      /\ l2[n + 1] = e /\ \A i \in 1..n : l2[i] = l[i]
  OBVIOUS
<1>2. \A i \in 1..n : i \in K <=> i \in L
  BY <1>1
<1>3. n + 1 \in K <=> e.fact = f
  BY <1>1
<1> HIDE DEF K, L
<1>4. EventsAt(l2, K) = IF n + 1 \in K THEN Append(EventsAt(l, L), e) ELSE EventsAt(l, L)
  BY <1>2, EventsAtAppend
<1>5. EventsAt(l, L) \in Seq(Event)
  BY EventsAtType
<1> QED BY <1>3, <1>4, <1>5 DEF StreamOf, K, L

\* scan_events.
LEMMA ScanAppend ==
  ASSUME NEW l \in Seq(Event), NEW e \in Event, NEW shape
  PROVE  /\ ScanEvents(l, shape) \in Seq(Event)
         /\ ScanEvents(Append(l, e), shape) =
              IF e.shape = shape THEN Append(ScanEvents(l, shape), e)
              ELSE ScanEvents(l, shape)
<1> DEFINE l2 == Append(l, e)
           L == {i \in DOMAIN l : l[i].shape = shape}
           K == {i \in DOMAIN l2 : l2[i].shape = shape}
           n == Len(l)
<1>1. /\ n \in Nat /\ DOMAIN l = 1..n /\ DOMAIN l2 = 1..(n + 1)
      /\ l2[n + 1] = e /\ \A i \in 1..n : l2[i] = l[i]
  OBVIOUS
<1>2. \A i \in 1..n : i \in K <=> i \in L
  BY <1>1
<1>3. n + 1 \in K <=> e.shape = shape
  BY <1>1
<1> HIDE DEF K, L
<1>4. EventsAt(l2, K) = IF n + 1 \in K THEN Append(EventsAt(l, L), e) ELSE EventsAt(l, L)
  BY <1>2, EventsAtAppend
<1>5. EventsAt(l, L) \in Seq(Event)
  BY EventsAtType
<1> QED BY <1>3, <1>4, <1>5 DEF ScanEvents, K, L

\* EpistemicPolicy::admits, event by event.
LEMMA AdmitAppend ==
  ASSUME NEW l \in Seq(Event), NEW e \in Event, NEW policy
  PROVE  /\ AdmittedBy(policy, l) \in Seq(Event)
         /\ AdmittedBy(policy, Append(l, e)) =
              IF Admits(policy, e) THEN Append(AdmittedBy(policy, l), e)
              ELSE AdmittedBy(policy, l)
<1> DEFINE l2 == Append(l, e)
           L == {i \in DOMAIN l : Admits(policy, l[i])}
           K == {i \in DOMAIN l2 : Admits(policy, l2[i])}
           n == Len(l)
<1>1. /\ n \in Nat /\ DOMAIN l = 1..n /\ DOMAIN l2 = 1..(n + 1)
      /\ l2[n + 1] = e /\ \A i \in 1..n : l2[i] = l[i]
  OBVIOUS
<1>2. \A i \in 1..n : i \in K <=> i \in L
  BY <1>1
<1>3. n + 1 \in K <=> Admits(policy, e)
  BY <1>1
<1> HIDE DEF K, L
<1>4. EventsAt(l2, K) = IF n + 1 \in K THEN Append(EventsAt(l, L), e) ELSE EventsAt(l, L)
  BY <1>2, EventsAtAppend
<1>5. EventsAt(l, L) \in Seq(Event)
  BY EventsAtType
<1> QED BY <1>3, <1>4, <1>5 DEF AdmittedBy, K, L

\* ReadClock::store.
LEMMA AsOfAppend ==
  ASSUME NEW l \in Seq(Event), NEW e \in Event, NEW at
  PROVE  /\ AsOf(l, at) \in Seq(Event) /\ Len(AsOf(l, at)) <= Len(l)
         /\ AsOf(Append(l, e), at) = IF e.recorded_at <= at THEN Append(AsOf(l, at), e)
                                     ELSE AsOf(l, at)
<1> DEFINE l2 == Append(l, e)
           L == {i \in DOMAIN l : l[i].recorded_at <= at}
           K == {i \in DOMAIN l2 : l2[i].recorded_at <= at}
           n == Len(l)
<1>1. /\ n \in Nat /\ DOMAIN l = 1..n /\ DOMAIN l2 = 1..(n + 1)
      /\ l2[n + 1] = e /\ \A i \in 1..n : l2[i] = l[i]
  OBVIOUS
<1>2. \A i \in 1..n : i \in K <=> i \in L
  BY <1>1
<1>3. n + 1 \in K <=> e.recorded_at <= at
  BY <1>1
<1> HIDE DEF K, L
<1>4. EventsAt(l2, K) = IF n + 1 \in K THEN Append(EventsAt(l, L), e) ELSE EventsAt(l, L)
  BY <1>2, EventsAtAppend
<1>5. EventsAt(l, L) \in Seq(Event) /\ Len(EventsAt(l, L)) <= n
  BY EventsAtType
<1> QED BY <1>3, <1>4, <1>5 DEF AsOf, K, L

-----------------------------------------------------------------------------
(* What later or distrusted events may do to a fold.                       *)

\* The sources that back a fact, or lost a challenge to it.
Backers(b) == {x \in Sources : b[x] # NoLevel}

Counted(s) == IsFiniteSet(Backers(s.corroborating)) /\ IsFiniteSet(Backers(s.survived))

\* The state c is no more than the state b: the same belief, closed only as b
\* is, contested and supported no more than b is.
Weaker(c, b) ==
  /\ c.shape = b.shape /\ c.value = b.value /\ c.level = b.level
  /\ c.lifecycle \in Terminal => c.lifecycle = b.lifecycle /\ c.superseded_by = b.superseded_by
  /\ c.superseded_by # NoFact => c.lifecycle = "Superseded"
  /\ b.superseded_by # NoFact => b.lifecycle = "Superseded"
  /\ c.lifecycle = "Contested" => b.lifecycle # "Active"
  /\ c.contradicted_by \subseteq b.contradicted_by
  /\ c.evidence_count <= b.evidence_count
  /\ \A x \in Sources : c.corroborating[x] <= b.corroborating[x]
  /\ \A x \in Sources : c.survived[x] <= b.survived[x]

\* What Backing does: a source's strongest level only grows.
LEMMA BackingGrows ==
  ASSUME NEW b \in [Sources -> Levels \cup {NoLevel}], NEW e \in Event
  PROVE  /\ Backing(b, e) \in [Sources -> Levels \cup {NoLevel}]
         /\ \A x \in Sources : b[x] <= Backing(b, e)[x]
         /\ IsFiniteSet(Backers(b)) => IsFiniteSet(Backers(Backing(b, e)))
<1> DEFINE c == Backing(b, e)
<1>1. /\ c \in [Sources -> Levels \cup {NoLevel}]
      /\ \A x \in Sources : b[x] <= c[x] /\ (x # e.source => c[x] = b[x])
  BY DEF Backing, Greater, Event, Levels, NoLevel
<1> HIDE DEF c
<1>2. Backers(c) \subseteq Backers(b) \cup {e.source}
  BY <1>1 DEF Backers
<1>3. IsFiniteSet(Backers(b)) => IsFiniteSet(Backers(c))
  BY <1>2, FS_AddElement, FS_Subset
<1> QED BY <1>1, <1>3 DEF c

\* Backing keeps the order between two sets of backers.
LEMMA BackingKeepsOrder ==
  ASSUME NEW b \in [Sources -> Levels \cup {NoLevel}],
         NEW c \in [Sources -> Levels \cup {NoLevel}],
         \A x \in Sources : c[x] <= b[x], NEW e \in Event
  PROVE  \A x \in Sources : Backing(c, e)[x] <= Backing(b, e)[x]
BY DEF Backing, Greater, Event, Levels, NoLevel

\* apply_next_event: the fields an accepted later event leaves or extends.
LEMMA NextStateKeeps ==
  ASSUME NEW s \in FactState, NEW e \in Event
  PROVE  /\ NextState(s, e).shape = s.shape /\ NextState(s, e).value = s.value
         /\ NextState(s, e).evidence_count =
              (IF e.kind = "Reinforced" THEN s.evidence_count + e.evidence
               ELSE s.evidence_count)
         /\ NextState(s, e).corroborating =
              (IF e.kind = "Reinforced" THEN Backing(s.corroborating, e)
               ELSE s.corroborating)
         /\ NextState(s, e).survived =
              (IF e.kind = "ChallengeRejected" THEN Backing(s.survived, e)
               ELSE s.survived)
BY DEF NextState, FactState

\* An event the base accepts, the weaker state accepts, and stays weaker.
LEMMA WeakerApplies ==
  ASSUME NEW c \in FactState, NEW b \in FactState, Weaker(c, b),
         NEW e \in Event, TransitionOK(b, e)
  PROVE  /\ TransitionOK(c, e)
         /\ Weaker(NextState(c, e), NextState(b, e))
<1> DEFINE c2 == NextState(c, e)
           b2 == NextState(b, e)
<1>1. c # NoState /\ b # NoState
  BY FoldedIsPresent
<1>2. /\ Validates(e) /\ WellPlaced(b, e)
      /\ ~CanonicalContradiction(b, e) /\ ~InsufficientAuthority(b, e)
  BY <1>1 DEF TransitionOK
<1>3. c.shape = b.shape /\ c.value = b.value /\ c.level = b.level
  BY DEF Weaker
<1>4. c.lifecycle \in Terminal => c.lifecycle = b.lifecycle
  BY DEF Weaker
<1>5. TransitionOK(c, e)
  <2>1. WellPlaced(c, e)
    BY <1>2, <1>3, <1>4 DEF WellPlaced
  <2>2. ~CanonicalContradiction(c, e) /\ ~InsufficientAuthority(c, e)
    BY <1>2, <1>3 DEF CanonicalContradiction, InsufficientAuthority
  <2> QED BY <1>1, <1>2, <2>1, <2>2 DEF TransitionOK
<1>6. /\ c2.level = c.level /\ b2.level = b.level
      /\ c2.lifecycle = (IF e.kind \in ClosingKinds THEN e.kind
                         ELSE IF e.kind = "Contradicted" THEN "Contested" ELSE c.lifecycle)
      /\ b2.lifecycle = (IF e.kind \in ClosingKinds THEN e.kind
                         ELSE IF e.kind = "Contradicted" THEN "Contested" ELSE b.lifecycle)
      /\ c2.superseded_by = (IF e.kind = "Superseded" THEN e.by ELSE c.superseded_by)
      /\ b2.superseded_by = (IF e.kind = "Superseded" THEN e.by ELSE b.superseded_by)
      /\ c2.contradicted_by = (IF e.kind = "Contradicted" THEN c.contradicted_by \cup {e.by}
                               ELSE c.contradicted_by)
      /\ b2.contradicted_by = (IF e.kind = "Contradicted" THEN b.contradicted_by \cup {e.by}
                               ELSE b.contradicted_by)
  BY NextStateType
<1>7. /\ c2.shape = c.shape /\ c2.value = c.value
      /\ c2.evidence_count = (IF e.kind = "Reinforced" THEN c.evidence_count + e.evidence
                              ELSE c.evidence_count)
      /\ c2.corroborating = (IF e.kind = "Reinforced" THEN Backing(c.corroborating, e)
                             ELSE c.corroborating)
      /\ c2.survived = (IF e.kind = "ChallengeRejected" THEN Backing(c.survived, e)
                        ELSE c.survived)
  BY NextStateKeeps
<1>8. /\ b2.shape = b.shape /\ b2.value = b.value
      /\ b2.evidence_count = (IF e.kind = "Reinforced" THEN b.evidence_count + e.evidence
                              ELSE b.evidence_count)
      /\ b2.corroborating = (IF e.kind = "Reinforced" THEN Backing(b.corroborating, e)
                             ELSE b.corroborating)
      /\ b2.survived = (IF e.kind = "ChallengeRejected" THEN Backing(b.survived, e)
                        ELSE b.survived)
  BY NextStateKeeps
<1> HIDE DEF c2, b2
<1>9. /\ b.lifecycle \in Terminal => e.kind \in AuditKinds
      /\ c.lifecycle \in Terminal => e.kind \in AuditKinds
  BY <1>2, <1>4 DEF WellPlaced
<1>10. c2.shape = b2.shape /\ c2.value = b2.value /\ c2.level = b2.level
  BY <1>3, <1>6, <1>7, <1>8
<1>11. /\ c.lifecycle \in Terminal => c.superseded_by = b.superseded_by
       /\ c.superseded_by # NoFact => c.lifecycle = "Superseded"
       /\ b.superseded_by # NoFact => b.lifecycle = "Superseded"
       /\ c.lifecycle = "Contested" => b.lifecycle # "Active"
  BY DEF Weaker
<1>12. e.kind \in ClosingKinds => c.superseded_by = NoFact /\ b.superseded_by = NoFact
  BY <1>9, <1>11 DEF AuditKinds, ClosingKinds, Terminal
<1>13. /\ c2.lifecycle \in Terminal =>
            c2.lifecycle = b2.lifecycle /\ c2.superseded_by = b2.superseded_by
       /\ c2.lifecycle = "Contested" => b2.lifecycle # "Active"
  BY <1>4, <1>6, <1>11, <1>12 DEF Terminal, ClosingKinds
<1>14. /\ c2.superseded_by # NoFact => c2.lifecycle = "Superseded"
       /\ b2.superseded_by # NoFact => b2.lifecycle = "Superseded"
  BY <1>6, <1>9, <1>11, <1>12 DEF Terminal, ClosingKinds, AuditKinds
<1>15. c2.contradicted_by \subseteq b2.contradicted_by
  BY <1>6 DEF Weaker
<1>16. c2.evidence_count <= b2.evidence_count
  <2>1. /\ c.evidence_count \in Nat /\ b.evidence_count \in Nat /\ e.evidence \in Nat
        /\ c.evidence_count <= b.evidence_count
    BY DEF Weaker, FactState, Event
  <2> QED BY <1>7, <1>8, <2>1
<1>17. /\ c.corroborating \in [Sources -> Levels \cup {NoLevel}]
       /\ b.corroborating \in [Sources -> Levels \cup {NoLevel}]
       /\ c.survived \in [Sources -> Levels \cup {NoLevel}]
       /\ b.survived \in [Sources -> Levels \cup {NoLevel}]
  BY DEF FactState
<1>18. /\ \A x \in Sources : c.corroborating[x] <= b.corroborating[x]
       /\ \A x \in Sources : c.survived[x] <= b.survived[x]
  BY DEF Weaker
<1>19. \A x \in Sources : c2.corroborating[x] <= b2.corroborating[x]
  <2>1. \A x \in Sources : Backing(c.corroborating, e)[x] <= Backing(b.corroborating, e)[x]
    BY <1>17, <1>18, BackingKeepsOrder
  <2> QED BY <1>7, <1>8, <1>18, <2>1
<1>20. \A x \in Sources : c2.survived[x] <= b2.survived[x]
  <2>1. \A x \in Sources : Backing(c.survived, e)[x] <= Backing(b.survived, e)[x]
    BY <1>17, <1>18, BackingKeepsOrder
  <2> QED BY <1>7, <1>8, <1>18, <2>1
<1>21. Weaker(c2, b2)
  BY <1>10, <1>13, <1>14, <1>15, <1>16, <1>19, <1>20 DEF Weaker
<1> QED BY <1>5, <1>21 DEF c2, b2

\* An event only the base sees leaves the other state weaker.
LEMMA WeakerSkips ==
  ASSUME NEW c \in FactState, NEW b \in FactState, Weaker(c, b),
         NEW e \in Event, TransitionOK(b, e)
  PROVE  Weaker(c, NextState(b, e))
<1> DEFINE b2 == NextState(b, e)
<1>1. b # NoState
  BY FoldedIsPresent
<1>2. WellPlaced(b, e)
  BY <1>1 DEF TransitionOK
<1>3. /\ b2.level = b.level
      /\ b2.lifecycle = (IF e.kind \in ClosingKinds THEN e.kind
                         ELSE IF e.kind = "Contradicted" THEN "Contested" ELSE b.lifecycle)
      /\ b2.superseded_by = (IF e.kind = "Superseded" THEN e.by ELSE b.superseded_by)
      /\ b2.contradicted_by = (IF e.kind = "Contradicted" THEN b.contradicted_by \cup {e.by}
                               ELSE b.contradicted_by)
  BY NextStateType
<1>4. /\ b2.shape = b.shape /\ b2.value = b.value
      /\ b2.evidence_count = (IF e.kind = "Reinforced" THEN b.evidence_count + e.evidence
                              ELSE b.evidence_count)
      /\ b2.corroborating = (IF e.kind = "Reinforced" THEN Backing(b.corroborating, e)
                             ELSE b.corroborating)
      /\ b2.survived = (IF e.kind = "ChallengeRejected" THEN Backing(b.survived, e)
                        ELSE b.survived)
  BY NextStateKeeps
<1> HIDE DEF b2
<1>5. /\ b.lifecycle \in Terminal => e.kind \in AuditKinds
  BY <1>2 DEF WellPlaced
<1>6. /\ c.lifecycle \in Terminal => /\ c.lifecycle = b.lifecycle
                                     /\ c.superseded_by = b.superseded_by
      /\ c.superseded_by # NoFact => c.lifecycle = "Superseded"
      /\ b.superseded_by # NoFact => b.lifecycle = "Superseded"
      /\ c.lifecycle = "Contested" => b.lifecycle # "Active"
  BY DEF Weaker
<1>7. /\ c.lifecycle \in Terminal => /\ c.lifecycle = b2.lifecycle
                                     /\ c.superseded_by = b2.superseded_by
      /\ c.lifecycle = "Contested" => b2.lifecycle # "Active"
  BY <1>3, <1>5, <1>6 DEF AuditKinds, ClosingKinds
<1>8. b2.superseded_by # NoFact => b2.lifecycle = "Superseded"
  BY <1>3, <1>5, <1>6 DEF Terminal, ClosingKinds, AuditKinds
<1>9. c.contradicted_by \subseteq b2.contradicted_by
  BY <1>3 DEF Weaker
<1>10. c.evidence_count <= b2.evidence_count
  <2>1. /\ c.evidence_count \in Nat /\ b.evidence_count \in Nat /\ e.evidence \in Nat
        /\ c.evidence_count <= b.evidence_count
    BY DEF Weaker, FactState, Event
  <2> QED BY <1>4, <2>1
<1>11. ASSUME NEW a \in [Sources -> Levels \cup {NoLevel}],
              NEW d \in [Sources -> Levels \cup {NoLevel}],
              \A x \in Sources : a[x] <= d[x]
       PROVE  \A x \in Sources : a[x] <= Backing(d, e)[x]
  <2>1. /\ Backing(d, e) \in [Sources -> Levels \cup {NoLevel}]
        /\ \A x \in Sources : d[x] <= Backing(d, e)[x]
    BY BackingGrows
  <2> QED BY <1>11, <2>1 DEF Levels, NoLevel
<1>12. /\ c.corroborating \in [Sources -> Levels \cup {NoLevel}]
       /\ b.corroborating \in [Sources -> Levels \cup {NoLevel}]
       /\ c.survived \in [Sources -> Levels \cup {NoLevel}]
       /\ b.survived \in [Sources -> Levels \cup {NoLevel}]
  BY DEF FactState
<1>13. /\ \A x \in Sources : c.corroborating[x] <= b.corroborating[x]
       /\ \A x \in Sources : c.survived[x] <= b.survived[x]
  BY DEF Weaker
<1>14. \A x \in Sources : c.corroborating[x] <= b2.corroborating[x]
  BY <1>4, <1>11, <1>12, <1>13
<1>15. \A x \in Sources : c.survived[x] <= b2.survived[x]
  BY <1>4, <1>11, <1>12, <1>13
<1>16. c.shape = b2.shape /\ c.value = b2.value /\ c.level = b2.level
  BY <1>3, <1>4 DEF Weaker
<1>17. Weaker(c, b2)
  BY <1>6, <1>7, <1>8, <1>9, <1>10, <1>14, <1>15, <1>16 DEF Weaker
<1> QED BY <1>17 DEF b2

\* What a fact earned in the weaker state it earned in the other.
LEMMA WeakerEarned ==
  ASSUME NEW c \in FactState, NEW b \in FactState, Weaker(c, b), Counted(b),
         NEW min \in Levels
  PROVE  /\ EarnedEntrenchment(c, min) \in Nat /\ EarnedEntrenchment(b, min) \in Nat
         /\ EarnedEntrenchment(c, min) <= EarnedEntrenchment(b, min)
<1>1. ASSUME NEW a \in [Sources -> Levels \cup {NoLevel}],
             NEW d \in [Sources -> Levels \cup {NoLevel}],
             \A x \in Sources : a[x] <= d[x], IsFiniteSet(Backers(d))
      PROVE  /\ AtOrAbove(a, min) \in Nat /\ AtOrAbove(d, min) \in Nat
             /\ AtOrAbove(a, min) <= AtOrAbove(d, min)
  <2> DEFINE A == {x \in Sources : a[x] >= min}
             D == {x \in Sources : d[x] >= min}
  <2>1. A \subseteq D /\ D \subseteq Backers(d)
    BY <1>1 DEF Backers, Levels, NoLevel
  <2> HIDE DEF A, D
  <2>2. IsFiniteSet(D) /\ IsFiniteSet(A) /\ Cardinality(A) <= Cardinality(D)
    BY <1>1, <2>1, FS_Subset
  <2>3. Cardinality(A) \in Nat /\ Cardinality(D) \in Nat
    BY <2>2, FS_CardinalityType
  <2> QED BY <2>2, <2>3 DEF AtOrAbove, A, D
<1>2. /\ c.corroborating \in [Sources -> Levels \cup {NoLevel}]
      /\ b.corroborating \in [Sources -> Levels \cup {NoLevel}]
      /\ c.survived \in [Sources -> Levels \cup {NoLevel}]
      /\ b.survived \in [Sources -> Levels \cup {NoLevel}]
  BY DEF FactState
<1>3. /\ \A x \in Sources : c.corroborating[x] <= b.corroborating[x]
      /\ \A x \in Sources : c.survived[x] <= b.survived[x]
      /\ IsFiniteSet(Backers(b.corroborating)) /\ IsFiniteSet(Backers(b.survived))
  BY DEF Weaker, Counted
<1>4. /\ AtOrAbove(c.corroborating, min) \in Nat /\ AtOrAbove(b.corroborating, min) \in Nat
      /\ AtOrAbove(c.corroborating, min) <= AtOrAbove(b.corroborating, min)
  BY <1>1, <1>2, <1>3
<1>5. /\ AtOrAbove(c.survived, min) \in Nat /\ AtOrAbove(b.survived, min) \in Nat
      /\ AtOrAbove(c.survived, min) <= AtOrAbove(b.survived, min)
  BY <1>1, <1>2, <1>3
<1> QED BY <1>4, <1>5 DEF EarnedEntrenchment

\* apply_event: an admitted event counts finitely many backers and names an
\* heir only in closing.
LEMMA AppliedIsCounted ==
  ASSUME NEW s \in FactState \cup {NoState}, NEW e \in Event, TransitionOK(s, e),
         s # NoState => Counted(s)
  PROVE  ApplyEvent(s, e) \in FactState /\ Counted(ApplyEvent(s, e))
<1>1. CASE s = NoState
  <2> DEFINE b == InitialState(e)
  <2>1. b \in FactState /\ ApplyEvent(s, e) = b
    BY <1>1, InitialStateType DEF ApplyEvent
  <2>2. /\ b.corroborating = [x \in Sources |-> IF x = e.source THEN e.level ELSE NoLevel]
        /\ b.survived = [x \in Sources |-> NoLevel]
    BY DEF InitialState
  <2> HIDE DEF b
  <2>3. Backers(b.corroborating) \subseteq {e.source} /\ Backers(b.survived) = {}
    BY <2>2 DEF Backers
  <2>4. IsFiniteSet({e.source})
    BY FS_Singleton
  <2> QED BY <2>1, <2>3, <2>4, FS_EmptySet, FS_Subset DEF Counted
<1>2. CASE s \in FactState
  <2> DEFINE b == NextState(s, e)
  <2>1. s # NoState /\ ApplyEvent(s, e) = b
    BY <1>2, FoldedIsPresent DEF ApplyEvent
  <2>2. b \in FactState
    BY <1>2, NextStateType
  <2>3. /\ b.corroborating = (IF e.kind = "Reinforced" THEN Backing(s.corroborating, e)
                              ELSE s.corroborating)
        /\ b.survived = (IF e.kind = "ChallengeRejected" THEN Backing(s.survived, e)
                         ELSE s.survived)
    BY <1>2, NextStateKeeps
  <2> HIDE DEF b
  <2>4. /\ s.corroborating \in [Sources -> Levels \cup {NoLevel}]
        /\ s.survived \in [Sources -> Levels \cup {NoLevel}]
    BY <1>2 DEF FactState
  <2>5. /\ IsFiniteSet(Backers(s.corroborating)) /\ IsFiniteSet(Backers(s.survived))
    BY <2>1 DEF Counted
  <2>6. /\ IsFiniteSet(Backers(Backing(s.corroborating, e)))
        /\ IsFiniteSet(Backers(Backing(s.survived, e)))
    BY <2>4, <2>5, BackingGrows
  <2> QED BY <2>1, <2>2, <2>3, <2>5, <2>6 DEF Counted
<1> QED BY <1>1, <1>2

\* One event of a replay that has a state.
LEMMA ReplayStepApplies ==
  ASSUME NEW s \in FactState \cup {NoState}, NEW e \in Event, TransitionOK(s, e)
  PROVE  ReplayStep(s, e) = ApplyEvent(s, e)
<1>1. NoState.lifecycle # ReplayError.lifecycle
  BY DEF NoState, ReplayError
<1>2. s \in FactState => s.lifecycle # ReplayError.lifecycle
  BY DEF FactState, ReplayError, Believed, Terminal, ClosingKinds
<1>3. s # ReplayError
  BY <1>1, <1>2
<1> QED BY <1>3 DEF ReplayStep

\* The replay of some of a fact's events against its state: x are the events
\* kept, and its assertion is one of them exactly if asserted says so.
Thinned(s, x, asserted) ==
  /\ x \in Seq(Event)
  /\ s = NoState => x = <<>> /\ ~asserted
  /\ s # NoState /\ asserted => FoldEvents(x) \in FactState /\ Weaker(FoldEvents(x), s)
  /\ s # NoState /\ ~asserted =>
       x = <<>> \/ (x[1].kind # "Asserted" /\ FoldEvents(x) = ReplayError)

\* Another event of the fact, kept or not, leaves its replay as thin.
LEMMA ThinnedStep ==
  ASSUME NEW s \in FactState \cup {NoState}, NEW x, NEW asserted \in BOOLEAN,
         Thinned(s, x, asserted),
         NEW e \in Event, TransitionOK(s, e), NEW kept \in BOOLEAN,
         NEW x2, x2 = IF kept THEN Append(x, e) ELSE x,
         NEW asserted2 \in BOOLEAN,
         asserted2 = IF s = NoState THEN kept ELSE asserted
  PROVE  Thinned(ApplyEvent(s, e), x2, asserted2)
<1> DEFINE s2 == ApplyEvent(s, e)
<1>1. x \in Seq(Event) /\ x2 \in Seq(Event)
  BY DEF Thinned
<1>2. FoldEvents(Append(x, e)) = ReplayStep(FoldEvents(x), e)
  BY <1>1, FoldEventsAppend
<1>3. CASE s = NoState
  <2>1. x = <<>> /\ FoldEvents(x) = NoState
    BY <1>3, FoldEventsEmpty DEF Thinned
  <2>2. s2 \in FactState /\ s2 = InitialState(e) /\ s2.superseded_by = NoFact
        /\ s2.lifecycle = "Active"
    BY <1>3, InitialStateType DEF ApplyEvent
  <2>3. s2 # NoState
    BY <2>2, FoldedIsPresent
  <2>4. kept => FoldEvents(x2) = s2
    <3>1. ReplayStep(NoState, e) = ApplyEvent(NoState, e)
      BY <1>3, ReplayStepApplies
    <3> QED BY <1>2, <1>3, <2>1, <3>1
  <2> HIDE DEF s2
  <2>5. Weaker(s2, s2)
    <3>1. /\ s2.evidence_count \in Nat
          /\ s2.corroborating \in [Sources -> Levels \cup {NoLevel}]
          /\ s2.survived \in [Sources -> Levels \cup {NoLevel}]
      BY <2>2 DEF FactState
    <3>2. /\ s2.evidence_count <= s2.evidence_count
          /\ \A y \in Sources : s2.corroborating[y] <= s2.corroborating[y]
          /\ \A y \in Sources : s2.survived[y] <= s2.survived[y]
      BY <3>1 DEF Levels, NoLevel
    <3> QED BY <2>2, <3>2 DEF Weaker
  <2>6. ~kept => x2 = <<>>
    BY <2>1
  <2>7. asserted2 <=> kept
    BY <1>3
  <2>8. Thinned(s2, x2, asserted2)
    BY <1>1, <2>2, <2>3, <2>4, <2>5, <2>6, <2>7 DEF Thinned
  <2> QED BY <2>8 DEF s2
<1>4. CASE s \in FactState /\ asserted
  <2>1. s # NoState /\ s2 = NextState(s, e) /\ asserted2
    BY <1>4, FoldedIsPresent DEF ApplyEvent
  <2>2. s2 \in FactState
    BY <1>4, <2>1, NextStateType
  <2>3. FoldEvents(x) \in FactState /\ Weaker(FoldEvents(x), s)
    BY <1>4, <2>1 DEF Thinned
  <2> DEFINE c == FoldEvents(x)
             c2 == NextState(c, e)
  <2> HIDE DEF s2, c
  <2>4. c \in FactState /\ Weaker(c, s)
    BY <2>3 DEF c
  <2>5. CASE kept
    <3>1. TransitionOK(c, e) /\ Weaker(c2, s2)
      BY <1>4, <2>1, <2>4, WeakerApplies
    <3>2. c2 \in FactState
      BY <2>4, NextStateType
    <3>3. ReplayStep(c, e) = c2
      <4>1. ReplayStep(c, e) = ApplyEvent(c, e)
        BY <2>4, <3>1, ReplayStepApplies
      <4>2. c # NoState
        BY <2>4, FoldedIsPresent
      <4> QED BY <4>1, <4>2 DEF ApplyEvent
    <3>4. FoldEvents(x2) = c2
      BY <1>2, <2>5, <3>3 DEF c
    <3>5. s2 # NoState
      BY <2>2, FoldedIsPresent
    <3> HIDE DEF c2
    <3>6. Thinned(s2, x2, asserted2)
      BY <1>1, <2>1, <3>1, <3>2, <3>4, <3>5 DEF Thinned
    <3> QED BY <3>6 DEF s2
  <2>6. CASE ~kept
    <3>1. Weaker(c, s2)
      BY <1>4, <2>1, <2>4, WeakerSkips
    <3>2. FoldEvents(x2) = c
      BY <2>6 DEF c
    <3>3. s2 # NoState
      BY <2>2, FoldedIsPresent
    <3>4. Thinned(s2, x2, asserted2)
      BY <1>1, <2>1, <2>4, <3>1, <3>2, <3>3 DEF Thinned
    <3> QED BY <3>4 DEF s2
  <2> QED BY <2>5, <2>6
<1>5. CASE s \in FactState /\ ~asserted
  <2>1. s # NoState /\ ~asserted2
    BY <1>5, FoldedIsPresent
  <2>2. x = <<>> \/ (x[1].kind # "Asserted" /\ FoldEvents(x) = ReplayError)
    BY <1>5, <2>1 DEF Thinned
  <2>3. e.kind # "Asserted"
    BY <2>1 DEF TransitionOK, WellPlaced
  <2>4. ~TransitionOK(NoState, e)
    BY <2>3 DEF TransitionOK
  <2>5. ReplayStep(NoState, e) = ReplayError /\ ReplayStep(ReplayError, e) = ReplayError
    BY <2>4 DEF ReplayStep
  <2>6. FoldEvents(Append(x, e)) = ReplayError
    BY <1>2, <2>2, <2>5, FoldEventsEmpty
  <2>7. Append(x, e)[1].kind # "Asserted"
    <3>1. CASE x = <<>>
      <4>1. Append(x, e)[1] = e
        BY <3>1
      <4> QED BY <2>3, <4>1
    <3>2. CASE x # <<>>
      <4>1. Append(x, e)[1] = x[1]
        BY <1>1, <3>2
      <4> QED BY <2>2, <3>2, <4>1
    <3> QED BY <3>1, <3>2
  <2>8. x2 = <<>> \/ (x2[1].kind # "Asserted" /\ FoldEvents(x2) = ReplayError)
    BY <2>2, <2>6, <2>7
  <2>9. s2 # NoState
    <3>1. s2 = NextState(s, e)
      BY <2>1 DEF ApplyEvent
    <3>2. NextState(s, e) \in FactState
      BY <1>5, NextStateType
    <3> QED BY <3>1, <3>2, FoldedIsPresent
  <2> HIDE DEF s2
  <2>10. Thinned(s2, x2, asserted2)
    BY <1>1, <2>1, <2>8, <2>9 DEF Thinned
  <2> QED BY <2>10 DEF s2
<1> QED BY <1>3, <1>4, <1>5

-----------------------------------------------------------------------------
(* The invariant of replay, of one view.                                   *)

\* The assertion of f is not among the events a policy filters out.
AssertionAdmitted(l, f, policy) ==
  LET stream == StreamOf(l, f)
  IN /\ stream # <<>>
     /\ ~ \E i \in DOMAIN stream : stream[i].kind = "Asserted" /\ ~Admits(policy, stream[i])

\* The assertion of f is dated by the instant at.
AssertedBy(l, f, at) == \E i \in DOMAIN l : AssertedAt(l, i, f) /\ l[i].recorded_at <= at

HasShape(p, f, shape) == p[f] # NoState /\ p[f].shape = shape

\* Every stream folds to the projection, also under a policy and as of an
\* instant, where it may be thinner; the events of a subject are the streams of
\* its facts; a fact seen at an instant is seen no later in the whole log.
ReplayInv(l, p) ==
  /\ \A f \in Facts : /\ FoldEvents(StreamOf(l, f)) = p[f]
                      /\ p[f] = NoState <=> StreamOf(l, f) = <<>>
                      /\ p[f] # NoState => Counted(p[f])
  /\ \A f \in Facts, shape \in Shapes :
       StreamOf(ScanEvents(l, shape), f) =
         IF HasShape(p, f, shape) THEN StreamOf(l, f) ELSE <<>>
  /\ \A shape \in Shapes :
       {ScanEvents(l, shape)[i].fact : i \in DOMAIN ScanEvents(l, shape)} =
         {f \in Facts : HasShape(p, f, shape)}
  /\ \A f \in Facts : AdmittedBy(IdentityPolicy, StreamOf(l, f)) = StreamOf(l, f)
  /\ \A f \in Facts, policy \in Policies \cup {IdentityPolicy} :
       Thinned(p[f], AdmittedBy(policy, StreamOf(l, f)), AssertionAdmitted(l, f, policy))
  /\ \A f \in Facts, at \in Nat : Thinned(p[f], StreamOf(AsOf(l, at), f), AssertedBy(l, f, at))
  /\ \A at \in Nat : \A i \in DOMAIN AsOf(l, at) :
       \E j \in DOMAIN l : i <= j /\ l[j].fact = AsOf(l, at)[i].fact

\* Trusting everyone admits every event.
LEMMA IdentityAdmits ==
  ASSUME NEW e \in Event
  PROVE  Admits(IdentityPolicy, e)
BY DEF Admits, IdentityPolicy, Event, Levels

\* An admitted event keeps every replay of the log.
LEMMA AppendKeepsReplay ==
  ASSUME NEW l, NEW p, NEW ed, ViewInv(l, p, ed), ReplayInv(l, p),
         NEW e \in Event, ArbitrateEvents(p, e)
  PROVE  ReplayInv(Append(l, e), [p EXCEPT ![e.fact] = ApplyEvent(@, e)])
<1> DEFINE l2 == Append(l, e)
           n == Len(l) + 1
           s == p[e.fact]
           s2 == ApplyEvent(s, e)
           p2 == [p EXCEPT ![e.fact] = s2]
<1>1. l \in Seq(Event) /\ p \in Projection /\ Origins(l, p)
  BY DEF ViewInv
<1>2. /\ l2 \in Seq(Event) /\ n \in Nat /\ n >= 1
      /\ DOMAIN l = 1..(n - 1) /\ DOMAIN l2 = 1..n
      /\ \A i \in DOMAIN l : l2[i] = l[i]
      /\ l2[n] = e
  BY <1>1
<1>3. e.fact \in Facts /\ e.shape \in Shapes /\ e.recorded_at \in Nat
  BY DEF Event
<1>4. s \in FactState \cup {NoState} /\ TransitionOK(s, e)
  BY <1>1, <1>3 DEF Projection, ArbitrateEvents
<1>5. s # NoState => Counted(s)
  BY <1>3 DEF ReplayInv
<1>6. s2 \in FactState /\ Counted(s2)
  BY <1>4, <1>5, AppliedIsCounted
<1>7. s2 # NoState
  BY <1>6, FoldedIsPresent
<1>8. ReplayStep(s, e) = s2
  BY <1>4, ReplayStepApplies
<1>9. /\ s2.shape = e.shape
      /\ s # NoState => s.shape = e.shape /\ e.kind # "Asserted"
      /\ s = NoState => e.kind = "Asserted"
  <2>1. CASE s = NoState
    BY <1>4, <2>1 DEF ApplyEvent, InitialState, TransitionOK
  <2>2. CASE s \in FactState
    <3>1. s # NoState /\ s2 = NextState(s, e)
      BY <2>2, FoldedIsPresent DEF ApplyEvent
    <3>2. WellPlaced(s, e)
      BY <1>4, <3>1 DEF TransitionOK
    <3>3. NextState(s, e).shape = s.shape
      BY <2>2, NextStateKeeps
    <3> QED BY <3>1, <3>2, <3>3 DEF WellPlaced
  <2> QED BY <1>4, <2>1, <2>2
<1>10. /\ p2[e.fact] = s2
       /\ \A f \in Facts : f # e.fact => p2[f] = p[f]
  BY <1>1, <1>3 DEF Projection
<1> HIDE DEF l2, n, s, s2, p2
<1>11. ASSUME NEW f \in Facts
       PROVE  /\ StreamOf(l, f) \in Seq(Event)
              /\ StreamOf(l2, f) = IF e.fact = f THEN Append(StreamOf(l, f), e)
                                   ELSE StreamOf(l, f)
  BY <1>1, StreamAppend DEF l2
<1>12. ASSUME NEW f \in Facts
       PROVE  /\ FoldEvents(StreamOf(l, f)) = p[f]
              /\ p[f] = NoState <=> StreamOf(l, f) = <<>>
              /\ p[f] # NoState => Counted(p[f])
  BY DEF ReplayInv
<1>13. ASSUME NEW f \in Facts
       PROVE  /\ FoldEvents(StreamOf(l2, f)) = p2[f]
              /\ p2[f] = NoState <=> StreamOf(l2, f) = <<>>
              /\ p2[f] # NoState => Counted(p2[f])
  <2>1. CASE f # e.fact
    BY <2>1, <1>10, <1>11, <1>12
  <2>2. CASE f = e.fact
    <3>1. StreamOf(l2, f) = Append(StreamOf(l, f), e)
      BY <2>2, <1>11
    <3>2. FoldEvents(Append(StreamOf(l, f), e)) = ReplayStep(FoldEvents(StreamOf(l, f)), e)
      BY <1>11, FoldEventsAppend
    <3>3. FoldEvents(StreamOf(l2, f)) = s2
      BY <2>2, <3>1, <3>2, <1>8, <1>12 DEF s
    <3>4. StreamOf(l2, f) # <<>>
      BY <3>1, <1>11
    <3> QED BY <2>2, <3>3, <3>4, <1>6, <1>7, <1>10
  <2> QED BY <2>1, <2>2
<1>14. ASSUME NEW f \in Facts, NEW shape \in Shapes
       PROVE  StreamOf(ScanEvents(l2, shape), f) =
                IF HasShape(p2, f, shape) THEN StreamOf(l2, f) ELSE <<>>
  <2> DEFINE m == ScanEvents(l, shape)
             m2 == ScanEvents(l2, shape)
  <2>1. /\ m \in Seq(Event)
        /\ m2 = IF e.shape = shape THEN Append(m, e) ELSE m
    BY <1>1, ScanAppend DEF l2
  <2> HIDE DEF m, m2
  <2>2. StreamOf(Append(m, e), f) = IF e.fact = f THEN Append(StreamOf(m, f), e)
                                    ELSE StreamOf(m, f)
    BY <2>1, StreamAppend
  <2>3. StreamOf(m, f) = IF HasShape(p, f, shape) THEN StreamOf(l, f) ELSE <<>>
    BY DEF ReplayInv, m
  <2>4. CASE f # e.fact
    <3>1. StreamOf(m2, f) = StreamOf(m, f)
      BY <2>1, <2>2, <2>4
    <3> QED BY <3>1, <2>3, <2>4, <1>10, <1>11 DEF HasShape, m2
  <2>5. CASE f = e.fact /\ e.shape = shape
    <3>1. StreamOf(m2, f) = Append(StreamOf(m, f), e)
      BY <2>1, <2>2, <2>5
    <3>2. StreamOf(m, f) = StreamOf(l, f)
      BY <2>3, <2>5, <1>9, <1>12 DEF HasShape, s
    <3>3. HasShape(p2, f, shape)
      BY <2>5, <1>7, <1>9, <1>10 DEF HasShape
    <3> QED BY <3>1, <3>2, <3>3, <2>5, <1>11 DEF m2
  <2>6. CASE f = e.fact /\ e.shape # shape
    <3>1. StreamOf(m2, f) = StreamOf(m, f)
      BY <2>1, <2>6
    <3>2. ~HasShape(p, f, shape) /\ ~HasShape(p2, f, shape)
      BY <2>6, <1>9, <1>10 DEF HasShape, s
    <3> QED BY <3>1, <3>2, <2>3 DEF m2
  <2> QED BY <2>4, <2>5, <2>6
<1>15. ASSUME NEW shape \in Shapes
       PROVE  {ScanEvents(l2, shape)[i].fact : i \in DOMAIN ScanEvents(l2, shape)} =
                {f \in Facts : HasShape(p2, f, shape)}
  <2> DEFINE m == ScanEvents(l, shape)
             m2 == ScanEvents(l2, shape)
             known == {m[i].fact : i \in DOMAIN m}
             known2 == {m2[i].fact : i \in DOMAIN m2}
  <2>1. /\ m \in Seq(Event)
        /\ m2 = IF e.shape = shape THEN Append(m, e) ELSE m
    BY <1>1, ScanAppend DEF l2
  <2>2. known = {f \in Facts : HasShape(p, f, shape)}
    BY DEF ReplayInv
  <2> HIDE DEF m, m2
  <2>3. CASE e.shape # shape
    <3>1. known2 = known
      BY <2>1, <2>3
    <3>2. \A f \in Facts : HasShape(p2, f, shape) <=> HasShape(p, f, shape)
      <4>1. ~HasShape(p, e.fact, shape) /\ ~HasShape(p2, e.fact, shape)
        BY <2>3, <1>9, <1>10 DEF HasShape, s
      <4> QED BY <4>1, <1>10 DEF HasShape
    <3> QED BY <2>2, <3>1, <3>2 DEF m2
  <2>4. CASE e.shape = shape
    <3>1. known2 = known \cup {e.fact}
      <4>1. /\ DOMAIN m = 1..Len(m) /\ DOMAIN m2 = 1..(Len(m) + 1) /\ Len(m) \in Nat
            /\ \A i \in DOMAIN m : m2[i] = m[i]
            /\ m2[Len(m) + 1] = e
        BY <2>1, <2>4
      <4>2. ASSUME NEW i \in DOMAIN m2 PROVE m2[i].fact \in known \cup {e.fact}
        BY <4>1
      <4>3. ASSUME NEW i \in DOMAIN m PROVE m[i].fact \in known2
        <5>1. i \in DOMAIN m2 /\ m2[i] = m[i]
          BY <4>1
        <5> QED BY <5>1
      <4>4. e.fact \in known2
        <5>1. Len(m) + 1 \in DOMAIN m2
          BY <4>1
        <5> QED BY <4>1, <5>1
      <4> QED BY <4>2, <4>3, <4>4
    <3>2. \A f \in Facts : HasShape(p2, f, shape) <=> HasShape(p, f, shape) \/ f = e.fact
      BY <2>4, <1>7, <1>9, <1>10 DEF HasShape
    <3> HIDE DEF known, known2
    <3>3. known2 = {f \in Facts : HasShape(p2, f, shape)}
      BY <2>2, <3>1, <3>2, <1>3
    <3> QED BY <3>3 DEF known2, m2
  <2> QED BY <2>3, <2>4
<1>16. ASSUME NEW f \in Facts
       PROVE  AdmittedBy(IdentityPolicy, StreamOf(l2, f)) = StreamOf(l2, f)
  <2>1. AdmittedBy(IdentityPolicy, StreamOf(l, f)) = StreamOf(l, f)
    BY DEF ReplayInv
  <2>2. AdmittedBy(IdentityPolicy, Append(StreamOf(l, f), e)) =
          IF Admits(IdentityPolicy, e) THEN Append(AdmittedBy(IdentityPolicy, StreamOf(l, f)), e)
          ELSE AdmittedBy(IdentityPolicy, StreamOf(l, f))
    BY <1>11, AdmitAppend
  <2> QED BY <2>1, <2>2, <1>11, IdentityAdmits
<1>17. ASSUME NEW f \in Facts, NEW policy \in Policies \cup {IdentityPolicy}
       PROVE  Thinned(p2[f], AdmittedBy(policy, StreamOf(l2, f)),
                      AssertionAdmitted(l2, f, policy))
  <2> DEFINE stream == StreamOf(l, f)
             kept == Admits(policy, e)
             x == AdmittedBy(policy, stream)
             x2 == AdmittedBy(policy, Append(stream, e))
             asserted == AssertionAdmitted(l, f, policy)
             asserted2 == AssertionAdmitted(l2, f, policy)
  <2>1. Thinned(p[f], x, asserted)
    BY DEF ReplayInv
  <2>2. CASE f # e.fact
    <3>1. StreamOf(l2, f) = stream
      BY <2>2, <1>11
    <3>2. asserted2 <=> asserted
      BY <3>1 DEF AssertionAdmitted
    <3> QED BY <2>1, <2>2, <3>1, <3>2, <1>10 DEF Thinned
  <2>3. CASE f = e.fact
    <3>1. stream \in Seq(Event) /\ StreamOf(l2, f) = Append(stream, e)
      BY <2>3, <1>11
    <3> HIDE DEF stream
    <3>2. x2 = IF kept THEN Append(x, e) ELSE x
      BY <3>1, AdmitAppend
    <3>3. asserted2 <=> IF s = NoState THEN kept ELSE asserted
      <4>1. /\ DOMAIN Append(stream, e) = 1..(Len(stream) + 1) /\ Len(stream) \in Nat
            /\ DOMAIN stream = 1..Len(stream)
            /\ \A i \in DOMAIN stream : Append(stream, e)[i] = stream[i]
            /\ Append(stream, e)[Len(stream) + 1] = e
            /\ Append(stream, e) # <<>>
        BY <3>1
      <4>2. asserted2 <=>
              /\ ~ \E i \in DOMAIN stream : stream[i].kind = "Asserted"
                                              /\ ~Admits(policy, stream[i])
              /\ ~(e.kind = "Asserted" /\ ~kept)
        <5> DEFINE more == Append(stream, e)
        <5>1. asserted2 <=> ~ \E i \in DOMAIN more : more[i].kind = "Asserted"
                                                      /\ ~Admits(policy, more[i])
          BY <3>1, <4>1 DEF AssertionAdmitted
        <5> HIDE DEF more, asserted2, kept
        <5>2. DOMAIN more = DOMAIN stream \cup {Len(stream) + 1}
          BY <4>1 DEF more
        <5>3. more[Len(stream) + 1] = e /\ \A i \in DOMAIN stream : more[i] = stream[i]
          BY <4>1 DEF more
        <5> QED BY <5>1, <5>2, <5>3 DEF kept
      <4>3. CASE s = NoState
        <5>1. stream = <<>> /\ DOMAIN stream = {}
          <6>1. stream = <<>>
            BY <2>3, <4>3, <1>12 DEF s, stream
          <6> QED BY <6>1
        <5> QED BY <4>2, <4>3, <5>1, <1>9
      <4>4. CASE s # NoState
        <5>1. stream # <<>> /\ e.kind # "Asserted"
          BY <2>3, <4>4, <1>9, <1>12 DEF s, stream
        <5>2. asserted <=> ~ \E i \in DOMAIN stream : stream[i].kind = "Asserted"
                                                        /\ ~Admits(policy, stream[i])
          BY <5>1 DEF AssertionAdmitted, stream
        <5> HIDE DEF asserted, asserted2
        <5> QED BY <4>2, <4>4, <5>1, <5>2
      <4> QED BY <4>3, <4>4
    <3>4. asserted \in BOOLEAN /\ asserted2 \in BOOLEAN /\ kept \in BOOLEAN
      BY DEF AssertionAdmitted, Admits
    <3>5. Thinned(s, x, asserted)
      BY <2>1, <2>3 DEF s
    <3> HIDE DEF x, x2, asserted, asserted2, kept
    <3>6. asserted2 = IF s = NoState THEN kept ELSE asserted
      BY <3>3, <3>4
    <3>7. Thinned(ApplyEvent(s, e), x2, asserted2)
      BY <1>4, <3>2, <3>4, <3>5, <3>6, ThinnedStep
    <3> QED BY <2>3, <3>1, <3>7, <1>10 DEF s2, x2, asserted2
  <2> QED BY <2>2, <2>3
<1>18. ASSUME NEW f \in Facts, NEW at \in Nat
       PROVE  Thinned(p2[f], StreamOf(AsOf(l2, at), f), AssertedBy(l2, f, at))
  <2> DEFINE m == AsOf(l, at)
             m2 == AsOf(l2, at)
             kept == e.recorded_at <= at
             x == StreamOf(m, f)
             x2 == StreamOf(m2, f)
             asserted == AssertedBy(l, f, at)
             asserted2 == AssertedBy(l2, f, at)
  <2>1. Thinned(p[f], x, asserted)
    BY DEF ReplayInv
  <2>2. m \in Seq(Event) /\ m2 = IF kept THEN Append(m, e) ELSE m
    BY <1>1, AsOfAppend DEF l2
  <2> HIDE DEF m, m2
  <2>3. StreamOf(Append(m, e), f) = IF e.fact = f THEN Append(x, e) ELSE x
    BY <2>2, StreamAppend
  <2>4. asserted2 <=> asserted \/ (e.fact = f /\ e.kind = "Asserted" /\ kept)
    <3>1. ASSUME NEW i \in DOMAIN l
          PROVE  (AssertedAt(l2, i, f) /\ l2[i].recorded_at <= at)
                   <=> (AssertedAt(l, i, f) /\ l[i].recorded_at <= at)
      BY <1>2 DEF AssertedAt
    <3>2. (AssertedAt(l2, n, f) /\ l2[n].recorded_at <= at)
            <=> (e.fact = f /\ e.kind = "Asserted" /\ kept)
      BY <1>2 DEF AssertedAt
    <3>3. DOMAIN l2 = DOMAIN l \cup {n}
      BY <1>2
    <3> QED BY <3>1, <3>2, <3>3 DEF AssertedBy
  <2>5. CASE f # e.fact
    <3>1. x2 = x
      BY <2>2, <2>3, <2>5
    <3>2. asserted2 <=> asserted
      BY <2>4, <2>5
    <3> QED BY <2>1, <2>5, <3>1, <3>2, <1>10 DEF Thinned, m, m2
  <2>6. CASE f = e.fact
    <3>1. x2 = IF kept THEN Append(x, e) ELSE x
      BY <2>2, <2>3, <2>6
    <3>2. s = NoState => ~asserted
      BY <2>6, <1>1, <1>3 DEF Origins, AssertedBy, AssertedAt, s
    <3>3. asserted \in BOOLEAN /\ asserted2 \in BOOLEAN /\ kept \in BOOLEAN
      BY <1>3 DEF AssertedBy
    <3> HIDE DEF x, x2, asserted, asserted2, kept
    <3>4. asserted2 = IF s = NoState THEN kept ELSE asserted
      BY <2>4, <2>6, <3>2, <3>3, <1>9
    <3>5. Thinned(s, x, asserted)
      BY <2>1, <2>6 DEF s
    <3>6. Thinned(ApplyEvent(s, e), x2, asserted2)
      BY <1>4, <3>1, <3>3, <3>4, <3>5, ThinnedStep
    <3> QED BY <2>6, <3>6, <1>10 DEF s2, x2, asserted2, m2
  <2> QED BY <2>5, <2>6
<1>19. ASSUME NEW at \in Nat, NEW i \in DOMAIN AsOf(l2, at)
       PROVE  \E j \in DOMAIN l2 : i <= j /\ l2[j].fact = AsOf(l2, at)[i].fact
  <2> DEFINE m == AsOf(l, at)
             m2 == AsOf(l2, at)
  <2>1. /\ m \in Seq(Event) /\ Len(m) <= Len(l)
        /\ m2 = IF e.recorded_at <= at THEN Append(m, e) ELSE m
    BY <1>1, AsOfAppend DEF l2
  <2>2. \A k \in DOMAIN m : \E j \in DOMAIN l : k <= j /\ l[j].fact = m[k].fact
    BY DEF ReplayInv
  <2> HIDE DEF m, m2
  <2>3. CASE i \in DOMAIN m
    <3>1. m2[i] = m[i]
      BY <2>1, <2>3
    <3>2. PICK j \in DOMAIN l : i <= j /\ l[j].fact = m[i].fact
      BY <2>2, <2>3
    <3>3. j \in DOMAIN l2 /\ l2[j] = l[j]
      BY <1>2
    <3> QED BY <3>1, <3>2, <3>3 DEF m2
  <2>4. CASE i \notin DOMAIN m
    <3>1. i \in DOMAIN m2
      BY DEF m2
    <3>2. m2 = Append(m, e) /\ i = Len(m) + 1 /\ m2[i] = e
      BY <2>1, <2>4, <3>1
    <3>3. i <= n /\ n \in DOMAIN l2
      BY <2>1, <3>2, <1>1, <1>2 DEF n
    <3> QED BY <3>2, <3>3, <1>2 DEF m2
  <2> QED BY <2>3, <2>4
<1>20. ReplayInv(l2, p2)
  BY <1>13, <1>14, <1>15, <1>16, <1>17, <1>18, <1>19 DEF ReplayInv
<1> QED BY <1>20 DEF l2, p2, s2, s

\* The empty store replays to nothing.
LEMMA InitReplay == Init => ReplayInv(log, proj) /\ ReplayInv(tlog, tproj)
<1> SUFFICES ASSUME Init PROVE ReplayInv(log, proj) /\ ReplayInv(tlog, tproj)
  OBVIOUS
<1>1. log = <<>> /\ \A f \in Facts : proj[f] = NoState
  BY DEF Init
<1>2. \A f : StreamOf(<<>>, f) = <<>>
  BY EventsAtEmpty DEF StreamOf
<1>3. \A shape : ScanEvents(<<>>, shape) = <<>>
  BY EventsAtEmpty DEF ScanEvents
<1>4. \A policy : AdmittedBy(policy, <<>>) = <<>>
  BY EventsAtEmpty DEF AdmittedBy
<1>5. \A at : AsOf(<<>>, at) = <<>>
  BY EventsAtEmpty DEF AsOf
<1>6. \A f, policy : ~AssertionAdmitted(<<>>, f, policy)
  BY <1>2 DEF AssertionAdmitted
<1>7. \A f, at : ~AssertedBy(<<>>, f, at)
  BY DEF AssertedBy
<1>8. <<>> \in Seq(Event)
  OBVIOUS
<1>9. \A f \in Facts : /\ FoldEvents(StreamOf(log, f)) = proj[f]
                       /\ proj[f] = NoState <=> StreamOf(log, f) = <<>>
                       /\ proj[f] # NoState => Counted(proj[f])
  BY <1>1, <1>2, FoldEventsEmpty
<1>10. \A f \in Facts, shape \in Shapes : StreamOf(ScanEvents(log, shape), f) =
         IF HasShape(proj, f, shape) THEN StreamOf(log, f) ELSE <<>>
  BY <1>1, <1>2, <1>3 DEF HasShape
<1>11. \A shape \in Shapes :
         {ScanEvents(log, shape)[i].fact : i \in DOMAIN ScanEvents(log, shape)} =
           {f \in Facts : HasShape(proj, f, shape)}
  <2> SUFFICES ASSUME NEW shape \in Shapes
               PROVE  {ScanEvents(log, shape)[i].fact : i \in DOMAIN ScanEvents(log, shape)} =
                        {f \in Facts : HasShape(proj, f, shape)}
    OBVIOUS
  <2>1. ScanEvents(log, shape) = <<>> /\ DOMAIN ScanEvents(log, shape) = {}
    <3>1. ScanEvents(log, shape) = <<>>
      BY <1>1, <1>3
    <3> QED BY <3>1
  <2>2. \A f \in Facts : ~HasShape(proj, f, shape)
    BY <1>1 DEF HasShape
  <2> QED BY <2>1, <2>2
<1>12. \A f \in Facts : AdmittedBy(IdentityPolicy, StreamOf(log, f)) = StreamOf(log, f)
  BY <1>1, <1>2, <1>4
<1>13. \A f \in Facts, policy \in Policies \cup {IdentityPolicy} :
         Thinned(proj[f], AdmittedBy(policy, StreamOf(log, f)), AssertionAdmitted(log, f, policy))
  BY <1>1, <1>2, <1>4, <1>6, <1>8 DEF Thinned
<1>14. \A f \in Facts, at \in Nat :
         Thinned(proj[f], StreamOf(AsOf(log, at), f), AssertedBy(log, f, at))
  BY <1>1, <1>2, <1>5, <1>7, <1>8 DEF Thinned
<1>15. \A at \in Nat : \A i \in DOMAIN AsOf(log, at) :
         \E j \in DOMAIN log : i <= j /\ log[j].fact = AsOf(log, at)[i].fact
  <2> SUFFICES ASSUME NEW at \in Nat, NEW i \in DOMAIN AsOf(log, at) PROVE FALSE
    OBVIOUS
  <2>1. AsOf(log, at) = <<>>
    BY <1>1, <1>5
  <2> QED BY <2>1
<1>16. ReplayInv(log, proj)
  BY <1>9, <1>10, <1>11, <1>12, <1>13, <1>14, <1>15 DEF ReplayInv
<1>17. tlog = log /\ tproj = proj
  BY DEF Init
<1> QED BY <1>16, <1>17

\* Appending to, committing or rolling back the open transaction keeps the
\* replay of both views.
LEMMA StepReplay ==
  /\ IndInv /\ ReplayInv(log, proj) /\ ReplayInv(tlog, tproj) /\ [Next]_vars
  => ReplayInv(log, proj)' /\ ReplayInv(tlog, tproj)'
<1> SUFFICES ASSUME IndInv, ReplayInv(log, proj), ReplayInv(tlog, tproj), [Next]_vars
             PROVE  ReplayInv(log, proj)' /\ ReplayInv(tlog, tproj)'
  OBVIOUS
<1>0. ASSUME NEW l, NEW p, ReplayInv(l, p), NEW l2, NEW p2, l2 = l, p2 = p
      PROVE  ReplayInv(l2, p2)
  BY <1>0
<1>1. ASSUME NEW e \in Candidates, AppendEventInTx(e)
      PROVE  ReplayInv(log', proj') /\ ReplayInv(tlog', tproj')
  <2>1. e \in Event /\ ViewInv(tlog, tproj, tedges) /\ ArbitrateEvents(tproj, e)
    BY <1>1, CandidatesAssumption DEF IndInv, AppendEventInTx
  <2>2. /\ tlog' = Append(tlog, e)
        /\ tproj' = [tproj EXCEPT ![e.fact] = ApplyEvent(@, e)]
        /\ log' = log /\ proj' = proj
    BY <1>1 DEF AppendEventInTx, UpsertProjection, durable
  <2>3. ReplayInv(Append(tlog, e), [tproj EXCEPT ![e.fact] = ApplyEvent(@, e)])
    BY <2>1, AppendKeepsReplay
  <2> QED BY <2>2, <2>3
<1>2. CASE Commit
  BY <1>2 DEF Commit, working
<1>3. CASE Rollback
  BY <1>3 DEF Rollback, durable
<1>4. CASE UNCHANGED vars
  BY <1>4 DEF vars
<1>5. ReplayInv(log', proj') /\ ReplayInv(tlog', tproj')
  BY <1>1, <1>2, <1>3, <1>4 DEF Next
<1> QED BY <1>5

\* Replay of both views holds in every reachable state.
THEOREM ReplayInvariance ==
  Spec => [](IndInv /\ ReplayInv(log, proj) /\ ReplayInv(tlog, tproj))
BY InitInv, StepInv, InitReplay, StepReplay, PTL DEF Spec

\* adapter.rs verify_projection: folding the committed log from nothing never
\* errs and gives the projection the transactions maintained.
THEOREM ReplayIsTheProjection == Spec => []ReplayAgrees
<1>1. ReplayInv(log, proj) => ReplayAgrees
  BY DEF ReplayInv, ReplayAgrees, VerifyProjection
<1> QED BY <1>1, ReplayInvariance, PTL

-----------------------------------------------------------------------------
(* Counterfactual and as-of reads.                                         *)

\* fold_fact of a present fact under a policy: absent, or no more than the fact.
LEMMA FoldFactWeakens ==
  ASSUME NEW l, NEW p \in Projection, ReplayInv(l, p),
         NEW f \in Facts, p[f] # NoState, NEW policy \in Policies \cup {IdentityPolicy}
  PROVE  /\ FoldFact(StreamOf(l, f), policy) # ReplayError
         /\ FoldFact(StreamOf(l, f), policy) # NoState =>
              /\ FoldFact(StreamOf(l, f), policy) \in FactState
              /\ Weaker(FoldFact(StreamOf(l, f), policy), p[f])
<1> DEFINE stream == StreamOf(l, f)
           kept == AdmittedBy(policy, stream)
           folded == FoldFact(stream, policy)
           filtered == \E i \in DOMAIN stream : stream[i].kind = "Asserted"
                                                  /\ ~Admits(policy, stream[i])
           asserted == AssertionAdmitted(l, f, policy)
<1>1. Thinned(p[f], kept, asserted) /\ stream # <<>>
  BY DEF ReplayInv
<1>2. asserted <=> ~filtered
  BY <1>1 DEF AssertionAdmitted
<1>3. folded = IF filtered /\ kept # <<>> /\ kept[1].kind # "Asserted"
               THEN NoState ELSE FoldEvents(kept)
  BY DEF FoldFact
<1>4. NoState # ReplayError
  <2>1. NoState.lifecycle # ReplayError.lifecycle
    BY DEF NoState, ReplayError
  <2> QED BY <2>1
<1>5. \A s \in FactState : s # ReplayError
  BY DEF FactState, ReplayError, Believed, Terminal, ClosingKinds
<1> HIDE DEF stream, kept, folded, filtered, asserted
<1>6. CASE filtered
  <2>1. kept = <<>> \/ kept[1].kind # "Asserted"
    BY <1>1, <1>2, <1>6 DEF Thinned
  <2>2. folded = NoState
    BY <1>3, <1>6, <2>1, FoldEventsEmpty
  <2> QED BY <1>4, <2>2 DEF folded, stream
<1>7. CASE ~filtered
  <2>1. folded = FoldEvents(kept)
    BY <1>3, <1>7
  <2>2. folded \in FactState /\ Weaker(folded, p[f])
    BY <1>1, <1>2, <1>7, <2>1 DEF Thinned
  <2> QED BY <1>5, <2>2 DEF folded, stream
<1> QED BY <1>6, <1>7

\* Trusting everyone, it is the fact.
LEMMA FoldFactIdentity ==
  ASSUME NEW l, NEW p \in Projection, ReplayInv(l, p), NEW f \in Facts, p[f] # NoState
  PROVE  FoldFact(StreamOf(l, f), IdentityPolicy) = p[f]
<1> DEFINE stream == StreamOf(l, f)
           filtered == \E i \in DOMAIN stream : stream[i].kind = "Asserted"
                                                  /\ ~Admits(IdentityPolicy, stream[i])
           asserted == AssertionAdmitted(l, f, IdentityPolicy)
<1>1. /\ AdmittedBy(IdentityPolicy, stream) = stream /\ FoldEvents(stream) = p[f]
      /\ stream # <<>>
  BY DEF ReplayInv
<1>2. Thinned(p[f], stream, asserted)
  BY <1>1 DEF ReplayInv
<1>3. asserted <=> ~filtered
  BY <1>1 DEF AssertionAdmitted
<1>4. FoldFact(stream, IdentityPolicy) = IF filtered /\ stream # <<>>
                                            /\ stream[1].kind # "Asserted"
                                         THEN NoState ELSE FoldEvents(stream)
  BY <1>1 DEF FoldFact
<1>5. p[f] # ReplayError
  <2>1. p[f] \in FactState
    BY DEF Projection
  <2> QED BY <2>1 DEF FactState, ReplayError, Believed, Terminal, ClosingKinds
<1> HIDE DEF stream, filtered, asserted
<1>6. ~filtered
  BY <1>1, <1>2, <1>3, <1>5 DEF Thinned
<1> QED BY <1>1, <1>4, <1>6 DEF stream

\* replay_subject_with_policy of a subject: its facts the policy leaves.
LEMMA ReplaySubjectIs ==
  ASSUME NEW l, NEW p \in Projection, ReplayInv(l, p), NEW shape \in Shapes,
         NEW policy \in Policies \cup {IdentityPolicy},
         NEW facts, facts = {f \in Facts : HasShape(p, f, shape)},
         NEW kept, kept = {f \in facts : FoldFact(StreamOf(l, f), policy) # NoState}
  PROVE  /\ ~ReplaySubject(ScanEvents(l, shape), policy).failed
         /\ ReplaySubject(ScanEvents(l, shape), policy).states =
              [f \in kept |-> FoldFact(StreamOf(l, f), policy)]
<1> DEFINE events == ScanEvents(l, shape)
           known == {events[i].fact : i \in DOMAIN events}
           left == {g \in known : ReplayFact(events, g, policy) # NoState}
<1>1. known = facts
  BY DEF ReplayInv
<1>2. ASSUME NEW f \in facts
      PROVE  ReplayFact(events, f, policy) = FoldFact(StreamOf(l, f), policy)
  <2>1. f \in Facts /\ HasShape(p, f, shape)
    OBVIOUS
  <2>2. StreamOf(events, f) = StreamOf(l, f)
    BY <2>1 DEF ReplayInv
  <2> QED BY <2>2 DEF ReplayFact
<1>3. ASSUME NEW f \in facts
      PROVE  FoldFact(StreamOf(l, f), policy) # ReplayError
  BY FoldFactWeakens DEF HasShape
<1>4. ReplaySubject(events, policy) =
        [ failed |-> \E f \in known : ReplayFact(events, f, policy) = ReplayError,
          states |-> [f \in left |-> ReplayFact(events, f, policy)] ]
  BY DEF ReplaySubject
<1> HIDE DEF events, known
<1>5. left = kept
  BY <1>1, <1>2
<1>6. [f \in left |-> ReplayFact(events, f, policy)] =
        [f \in kept |-> FoldFact(StreamOf(l, f), policy)]
  BY <1>1, <1>2, <1>5
<1>7. ~ \E f \in known : ReplayFact(events, f, policy) = ReplayError
  BY <1>1, <1>2, <1>3
<1> QED BY <1>4, <1>6, <1>7 DEF events

\* op_whatif of a view: nothing fails, nothing is invented, nothing is stronger.
LEMMA WhatifWeakens ==
  ASSUME NEW l, NEW p \in Projection, ReplayInv(l, p), NEW shape \in Shapes,
         NEW policy \in Policies \cup {IdentityPolicy},
         NEW w, w = Whatif(l, shape, policy)
  PROVE  /\ ~w.failed
         /\ policy = IdentityPolicy => w.diffs = <<>>
         /\ \A f \in DOMAIN w.diffs : w.diffs[f].kind # "Appeared"
         /\ \A f \in DOMAIN w.counterfactual :
              /\ p[f] \in FactState /\ Counted(p[f]) /\ w.base[f] = p[f]
              /\ w.counterfactual[f] \in FactState
              /\ Weaker(w.counterfactual[f], w.base[f])
<1> DEFINE facts == {f \in Facts : HasShape(p, f, shape)}
           Fold(f, q) == FoldFact(StreamOf(l, f), q)
           keptBase == {f \in facts : Fold(f, IdentityPolicy) # NoState}
           kept == {f \in facts : Fold(f, policy) # NoState}
           events == ScanEvents(l, shape)
           base == ReplaySubject(events, IdentityPolicy)
           cf == ReplaySubject(events, policy)
<1>0. /\ facts = {f \in Facts : HasShape(p, f, shape)}
      /\ keptBase = {f \in facts : FoldFact(StreamOf(l, f), IdentityPolicy) # NoState}
      /\ kept = {f \in facts : FoldFact(StreamOf(l, f), policy) # NoState}
      /\ IdentityPolicy \in Policies \cup {IdentityPolicy}
  OBVIOUS
<1>a. ASSUME NEW q \in Policies \cup {IdentityPolicy},
             NEW left, left = {f \in facts : FoldFact(StreamOf(l, f), q) # NoState}
      PROVE  /\ ~ReplaySubject(events, q).failed
             /\ ReplaySubject(events, q).states = [f \in left |-> FoldFact(StreamOf(l, f), q)]
  <2> HIDE DEF facts, keptBase, kept
  <2> QED BY <1>a, <1>0, ReplaySubjectIs
<1>1. ~base.failed /\ base.states = [f \in keptBase |-> Fold(f, IdentityPolicy)]
  <2> HIDE DEF facts, keptBase, kept, events
  <2> QED BY <1>0, <1>a
<1>2. ~cf.failed /\ cf.states = [f \in kept |-> Fold(f, policy)]
  <2> HIDE DEF facts, keptBase, kept, events
  <2> QED BY <1>0, <1>a
<1>3. ASSUME NEW f \in facts
      PROVE  /\ f \in Facts /\ p[f] # NoState /\ p[f] \in FactState /\ Counted(p[f])
             /\ Fold(f, IdentityPolicy) = p[f]
             /\ Fold(f, policy) # NoState =>
                  Fold(f, policy) \in FactState /\ Weaker(Fold(f, policy), p[f])
  <2>1. f \in Facts /\ p[f] # NoState
    BY DEF HasShape
  <2>2. p[f] \in FactState /\ Counted(p[f])
    BY <2>1 DEF Projection, ReplayInv
  <2>3. Fold(f, IdentityPolicy) = p[f]
    BY <2>1, FoldFactIdentity
  <2>4. Fold(f, policy) # NoState =>
          Fold(f, policy) \in FactState /\ Weaker(Fold(f, policy), p[f])
    BY <2>1, FoldFactWeakens
  <2> QED BY <2>1, <2>2, <2>3, <2>4
<1> HIDE DEF Fold, facts, base, cf
<1>4. keptBase = facts
  BY <1>3
<1> HIDE DEF keptBase
<1>5. /\ DOMAIN base.states = facts
      /\ \A f \in facts : base.states[f] = p[f]
  BY <1>1, <1>3, <1>4
<1>6. /\ DOMAIN cf.states = kept /\ kept \subseteq facts
      /\ \A f \in kept : cf.states[f] = Fold(f, policy)
  BY <1>2
<1>7. ASSUME NEW f \in kept
      PROVE  /\ p[f] \in FactState /\ Counted(p[f]) /\ base.states[f] = p[f]
             /\ cf.states[f] \in FactState /\ Weaker(cf.states[f], base.states[f])
  BY <1>3, <1>5, <1>6
<1> HIDE DEF kept
<1> DEFINE diff(f) == DiffStates(base.states, cf.states, f)
           differ == {g \in facts : diff(g).kind # "Unchanged"}
<1>8. DOMAIN base.states \cup DOMAIN cf.states = facts
  BY <1>5, <1>6
<1>9. w = [ failed |-> FALSE, base |-> base.states, counterfactual |-> cf.states,
            diffs |-> [f \in differ |-> diff(f)] ]
  BY <1>1, <1>2, <1>8 DEF Whatif, base, cf
<1>10. ASSUME NEW f \in facts PROVE diff(f).kind # "Appeared"
  BY <1>5 DEF DiffStates
<1>11. policy = IdentityPolicy => differ = {}
  <2> SUFFICES ASSUME policy = IdentityPolicy, NEW f \in facts
               PROVE  diff(f).kind = "Unchanged"
    OBVIOUS
  <2>1. cf = base
    BY DEF cf, base
  <2>2. f \in DOMAIN cf.states /\ f \in DOMAIN base.states
    BY <1>5, <2>1
  <2>3. {k \in Compared : base.states[f][k] # cf.states[f][k]} = {}
    BY <2>1
  <2> QED BY <2>2, <2>3 DEF DiffStates
<1> HIDE DEF differ, diff
<1>12. policy = IdentityPolicy => w.diffs = <<>>
  <2>1. w.diffs = [f \in differ |-> diff(f)]
    BY <1>9
  <2>2. [f \in {} |-> diff(f)] = <<>>
    OBVIOUS
  <2> QED BY <1>11, <2>1, <2>2
<1>13. \A f \in DOMAIN w.diffs : w.diffs[f].kind # "Appeared"
  <2>1. w.diffs = [f \in differ |-> diff(f)] /\ differ \subseteq facts
    BY <1>9 DEF differ
  <2> QED BY <1>10, <2>1
<1>14. ~w.failed /\ w.base = base.states /\ w.counterfactual = cf.states
  BY <1>9
<1> QED BY <1>6, <1>7, <1>12, <1>13, <1>14

\* lib.rs replay_subject_with_policy, ops.rs op_whatif: whatever sources,
\* authority or confidence a question distrusts, the log still replays, and
\* each fact that remains is the same belief, closed only as it is, contested
\* and supported no more than it is.
THEOREM DistrustWeakens == Spec => []DistrustOnlyWeakens
<1>1. IndInv /\ ReplayInv(log, proj) => DistrustOnlyWeakens
  <2> SUFFICES ASSUME IndInv, ReplayInv(log, proj), NEW shape \in Shapes, NEW q \in Policies,
                      NEW w, w = Whatif(log, shape, q)
               PROVE  /\ ~w.failed
                      /\ q = IdentityPolicy => w.diffs = <<>>
                      /\ \A f \in DOMAIN w.diffs : w.diffs[f].kind # "Appeared"
                      /\ \A f \in DOMAIN w.counterfactual :
                           LET cf == w.counterfactual[f]
                               base == w.base[f]
                           IN /\ cf.value = base.value /\ cf.level = base.level
                              /\ cf.lifecycle \in Terminal =>
                                   cf.lifecycle = base.lifecycle
                                     /\ cf.superseded_by = base.superseded_by
                              /\ cf.lifecycle = "Contested" => base.lifecycle # "Active"
                              /\ cf.contradicted_by \subseteq base.contradicted_by
                              /\ \A m \in Levels :
                                   EarnedEntrenchment(cf, m) <= EarnedEntrenchment(base, m)
    BY DEF DistrustOnlyWeakens
  <2>1. proj \in Projection
    BY DEF IndInv, ViewInv
  <2>2. /\ ~w.failed
        /\ q = IdentityPolicy => w.diffs = <<>>
        /\ \A f \in DOMAIN w.diffs : w.diffs[f].kind # "Appeared"
        /\ \A f \in DOMAIN w.counterfactual :
             /\ proj[f] \in FactState /\ Counted(proj[f]) /\ w.base[f] = proj[f]
             /\ w.counterfactual[f] \in FactState
             /\ Weaker(w.counterfactual[f], w.base[f])
    BY <2>1, WhatifWeakens
  <2>3. ASSUME NEW f \in DOMAIN w.counterfactual, NEW cf, cf = w.counterfactual[f],
               NEW base, base = w.base[f]
        PROVE  /\ cf.value = base.value /\ cf.level = base.level
               /\ cf.lifecycle \in Terminal =>
                    cf.lifecycle = base.lifecycle /\ cf.superseded_by = base.superseded_by
               /\ cf.lifecycle = "Contested" => base.lifecycle # "Active"
               /\ cf.contradicted_by \subseteq base.contradicted_by
               /\ \A m \in Levels : EarnedEntrenchment(cf, m) <= EarnedEntrenchment(base, m)
    <3>1. base \in FactState /\ Counted(base) /\ cf \in FactState /\ Weaker(cf, base)
      BY <2>2, <2>3
    <3>2. \A m \in Levels : EarnedEntrenchment(cf, m) <= EarnedEntrenchment(base, m)
      BY <3>1, WeakerEarned
    <3> QED BY <3>1, <3>2 DEF Weaker
  <2> QED BY <2>2, <2>3
<1> QED BY <1>1, ReplayInvariance, PTL

\* The place a receipt gives.
LastOf(l, f) ==
  CHOOSE i \in DOMAIN l : l[i].fact = f /\ \A j \in DOMAIN l : l[j].fact = f => j <= i

\* It is the last position of the fact's events.
LEMMA ReplayPosition ==
  ASSUME NEW l \in Seq(Event), NEW f, NEW i0 \in DOMAIN l, l[i0].fact = f
  PROVE  /\ LastOf(l, f) \in DOMAIN l /\ l[LastOf(l, f)].fact = f
         /\ \A j \in DOMAIN l : l[j].fact = f => j <= LastOf(l, f)
<1> DEFINE S == {i \in DOMAIN l : l[i].fact = f}
<1>1. Len(l) \in Nat /\ S \subseteq 1..Len(l) /\ S # {}
  OBVIOUS
<1>2. \E i \in S : \A j \in S : j <= i
  <2> HIDE DEF S
  <2> QED BY <1>1, LastPosition
<1>3. \E i \in DOMAIN l : l[i].fact = f /\ \A j \in DOMAIN l : l[j].fact = f => j <= i
  BY <1>2
<1> QED BY <1>3 DEF LastOf

\* A stream that is not empty has an event in the log.
LEMMA StreamHasEvent ==
  ASSUME NEW l \in Seq(Event), NEW f, StreamOf(l, f) # <<>>
  PROVE  \E i \in DOMAIN l : l[i].fact = f
<1> SUFFICES ASSUME \A i \in DOMAIN l : l[i].fact # f PROVE StreamOf(l, f) = <<>>
  OBVIOUS
<1> DEFINE K == {i \in DOMAIN l : l[i].fact = f}
<1>1. \A i \in 1..Len(l) : i \notin K
  OBVIOUS
<1> HIDE DEF K
<1>2. EventsAt(l, K) = <<>>
  BY <1>1, EventsAtNone
<1> QED BY <1>2 DEF StreamOf, K

\* ops.rs ReadClock::store: a receipt of the past exists exactly if the fact's
\* assertion is dated by then, and says nothing the present one does not bear
\* out.
THEOREM AsOfBearsOut == Spec => []AsOfNeverInvents
<1>1. IndInv /\ ReplayInv(log, proj) => AsOfNeverInvents
  <2> SUFFICES ASSUME IndInv, ReplayInv(log, proj), NEW f \in Facts,
                      NEW at \in {log[i].recorded_at : i \in DOMAIN log},
                      NEW past, past = ExplainWith(AsOf(log, at), f, at),
                      NEW present, present = ExplainWith(log, f, at)
               PROVE  IF past \in {NoState, ReplayError} THEN ~AssertedBy(log, f, at)
                      ELSE /\ AssertedBy(log, f, at)
                           /\ past.value = present.value /\ past.level = present.level
                           /\ past.lifecycle \in Terminal =>
                                past.lifecycle = present.lifecycle
                                  /\ past.superseded_by = present.superseded_by
                           /\ past.contradicted_by \subseteq present.contradicted_by
                           /\ past.evidence_count <= present.evidence_count
                           /\ past.earned <= present.earned
                           /\ past.replay_position <= present.replay_position
    BY DEF AsOfNeverInvents, AssertedBy
  <2> DEFINE m == AsOf(log, at)
             c == FoldEvents(StreamOf(m, f))
             b == proj[f]
  <2>1. log \in Seq(Event) /\ proj \in Projection
    BY DEF IndInv, ViewInv
  <2>2. at \in Nat
    <3>1. \A i \in DOMAIN log : log[i] \in Event
      BY <2>1
    <3> QED BY <3>1 DEF Event
  <2>3. m \in Seq(Event)
    <3>1. EventsAt(log, {i \in DOMAIN log : log[i].recorded_at <= at}) \in Seq(Event)
      BY <2>1, EventsAtType
    <3> QED BY <3>1 DEF AsOf
  <2>4. /\ Thinned(b, StreamOf(m, f), AssertedBy(log, f, at))
        /\ FoldEvents(StreamOf(log, f)) = b
        /\ b = NoState <=> StreamOf(log, f) = <<>>
        /\ b # NoState => Counted(b)
    BY <2>2 DEF ReplayInv
  <2>5. \A i \in DOMAIN m : \E j \in DOMAIN log : i <= j /\ log[j].fact = m[i].fact
    BY <2>2 DEF ReplayInv
  <2>6. b \in FactState \cup {NoState}
    BY <2>1 DEF Projection
  <2> HIDE DEF m, c, b
  <2>7. \A s \in FactState : s \notin {NoState, ReplayError}
    BY DEF FactState, NoState, ReplayError, Believed, Terminal, ClosingKinds
  <2>8. CASE ~AssertedBy(log, f, at)
    <3>1. c \in {NoState, ReplayError}
      BY <2>4, <2>8, FoldEventsEmpty DEF Thinned, c
    <3>2. past = c
      BY <3>1 DEF ExplainWith, c, m
    <3> QED BY <2>8, <3>1, <3>2
  <2>9. CASE AssertedBy(log, f, at)
    <3>1. b # NoState /\ b \in FactState /\ c \in FactState /\ Weaker(c, b) /\ Counted(b)
      BY <2>4, <2>6, <2>9 DEF Thinned, c
    <3> DEFINE Receipt(s, l) ==
                 [ value |-> s.value, lifecycle |-> s.lifecycle, level |-> s.level,
                   fresh |-> IsFreshAt(s, at), not_yet_valid |-> IsNotYetValidAt(s, at),
                   evidence_count |-> s.evidence_count,
                   earned |-> EarnedEntrenchment(s, s.level),
                   superseded_by |-> s.superseded_by, contradicted_by |-> s.contradicted_by,
                   replay_position |-> LastOf(l, f) ]
    <3>2. past = Receipt(c, m)
      BY <2>7, <3>1 DEF ExplainWith, LastOf, c, m
    <3>3. present = Receipt(b, log)
      BY <2>4, <2>7, <3>1 DEF ExplainWith, LastOf
    <3>4. LastOf(m, f) <= LastOf(log, f)
      <4>1. StreamOf(m, f) # <<>>
        BY <2>7, <3>1, FoldEventsEmpty DEF c
      <4>2. PICK i \in DOMAIN m : m[i].fact = f
        BY <2>3, <4>1, StreamHasEvent
      <4>3. LastOf(m, f) \in DOMAIN m /\ m[LastOf(m, f)].fact = f
        BY <2>3, <4>2, ReplayPosition
      <4>4. PICK j \in DOMAIN log : LastOf(m, f) <= j /\ log[j].fact = f
        BY <2>5, <4>3
      <4>5. /\ LastOf(log, f) \in DOMAIN log
            /\ \A k \in DOMAIN log : log[k].fact = f => k <= LastOf(log, f)
        BY <2>1, <4>4, ReplayPosition
      <4>6. j <= LastOf(log, f)
        BY <4>4, <4>5
      <4>7. LastOf(m, f) \in Nat /\ j \in Nat /\ LastOf(log, f) \in Nat
        BY <2>1, <2>3, <4>3, <4>4, <4>5
      <4> QED BY <4>4, <4>6, <4>7
    <3>5. c.level = b.level /\ c.level \in Levels
      BY <3>1 DEF Weaker, FactState
    <3>6. EarnedEntrenchment(c, c.level) <= EarnedEntrenchment(b, b.level)
      BY <3>1, <3>5, WeakerEarned
    <3>7. past.lifecycle = c.lifecycle /\ past.lifecycle \in Believed \cup Terminal
      BY <3>1, <3>2 DEF FactState
    <3>8. past \notin {NoState, ReplayError}
      BY <3>7 DEF NoState, ReplayError, Believed, Terminal, ClosingKinds
    <3>9. /\ past.value = c.value /\ past.level = c.level
          /\ past.superseded_by = c.superseded_by /\ past.contradicted_by = c.contradicted_by
          /\ past.evidence_count = c.evidence_count
          /\ past.earned = EarnedEntrenchment(c, c.level)
          /\ past.replay_position = LastOf(m, f)
      BY <3>2
    <3>10. /\ present.value = b.value /\ present.level = b.level
           /\ present.lifecycle = b.lifecycle
           /\ present.superseded_by = b.superseded_by
           /\ present.contradicted_by = b.contradicted_by
           /\ present.evidence_count = b.evidence_count
           /\ present.earned = EarnedEntrenchment(b, b.level)
           /\ present.replay_position = LastOf(log, f)
      BY <3>3
    <3> HIDE DEF Receipt
    <3>11. /\ past.value = present.value /\ past.level = present.level
           /\ past.lifecycle \in Terminal =>
                past.lifecycle = present.lifecycle
                  /\ past.superseded_by = present.superseded_by
           /\ past.contradicted_by \subseteq present.contradicted_by
           /\ past.evidence_count <= present.evidence_count
      BY <3>1, <3>7, <3>9, <3>10 DEF Weaker
    <3>12. past.earned <= present.earned /\ past.replay_position <= present.replay_position
      BY <3>4, <3>6, <3>9, <3>10
    <3> QED BY <2>9, <3>8, <3>11, <3>12
  <2> QED BY <2>8, <2>9
<1> QED BY <1>1, ReplayInvariance, PTL

-----------------------------------------------------------------------------
(* The file store as a file.                                               *)

\* A chosen event is among the chosen ones.
LEMMA EventsAtHas ==
  ASSUME NEW T, NEW l \in Seq(T), NEW K, NEW m \in DOMAIN l, m \in K
  PROVE  \E j \in DOMAIN EventsAt(l, K) : EventsAt(l, K)[j] = l[m]
<1> DEFINE n == Len(l)
<1>0. n \in Nat /\ m \in 1..n /\ \A i \in 1..n : l[i] \in T
  OBVIOUS
<1>1. PICK kept : Keeps(kept, l, K, n) /\ EventsAt(l, K) = kept[n]
  BY <1>0, EventsAtKept
<1>2. /\ kept[0] = <<>>
      /\ \A i \in 1..n : kept[i] = IF i \in K THEN Append(kept[i - 1], l[i])
                                   ELSE kept[i - 1]
  <2> HIDE DEF n
  <2> QED BY <1>0, <1>1, KeepsStep
<1> DEFINE Has(q) == \E j \in 1..Len(q) : q[j] = l[m]
           Good(i) == kept[i] \in Seq(T) /\ (m <= i => Has(kept[i]))
           Bad == {i \in 0..n : ~ Good(i)}
<1>3. ASSUME Bad # {} PROVE FALSE
  <2> HIDE DEF n, Has
  <2>1. PICK k \in Bad : \A j \in Bad : k <= j
    <3>1. Bad \subseteq Nat
      BY <1>0
    <3> HIDE DEF Bad
    <3> QED BY <1>3, <3>1, LeastNumber
  <2>2. k \in 0..n /\ ~ Good(k)
    BY <2>1
  <2>3. CASE k = 0
    <3>1. <<>> \in Seq(T) /\ ~(m <= 0)
      BY <1>0
    <3> QED BY <1>2, <2>2, <2>3, <3>1
  <2>4. CASE k # 0
    <3>1. k \in 1..n /\ k - 1 \in 0..n /\ ~(k <= k - 1) /\ (m <= k => m <= k - 1 \/ m = k)
      BY <1>0, <2>2, <2>4
    <3>2. Good(k - 1)
      BY <2>1, <3>1
    <3>3. l[k] \in T
      BY <1>0, <3>1
    <3>4. ASSUME NEW q \in Seq(T)
          PROVE  /\ Append(q, l[k]) \in Seq(T)
                 /\ Has(q) => Has(Append(q, l[k]))
                 /\ m = k => Has(Append(q, l[k]))
      <4>1. /\ Append(q, l[k]) \in Seq(T) /\ Len(Append(q, l[k])) = Len(q) + 1
            /\ Append(q, l[k])[Len(q) + 1] = l[k] /\ Len(q) \in Nat
            /\ \A j \in 1..Len(q) : Append(q, l[k])[j] = q[j]
        BY <3>3
      <4> QED BY <4>1 DEF Has
    <3>5. CASE k \in K
      <4>1. kept[k] = Append(kept[k - 1], l[k])
        BY <1>2, <3>1, <3>5
      <4> QED BY <2>2, <3>1, <3>2, <3>4, <4>1
    <3>6. CASE k \notin K
      <4>1. kept[k] = kept[k - 1] /\ m # k
        BY <1>2, <3>1, <3>6
      <4> QED BY <2>2, <3>1, <3>2, <4>1
    <3> QED BY <3>5, <3>6
  <2> QED BY <2>3, <2>4
<1>4. Good(n)
  BY <1>0, <1>3
<1> QED BY <1>0, <1>1, <1>4

\* What can be read is finite, so what a snapshot knows is.
LEMMA SnapshotFinite ==
  ASSUME NEW S, lines \in Seq(S)
  PROVE  IsFiniteSet({f \in Facts : Snapshot[f] # NoState})
<1> DEFINE T == {lines[i][1].event : i \in DOMAIN lines}
           l == [i \in DOMAIN lines |-> lines[i][1].event]
           r == Readable
           known == {r[i].fact : i \in 1..Len(r)}
<1>1. l \in Seq(T)
  OBVIOUS
<1>2. r \in Seq(T) /\ Len(r) \in Nat /\ DOMAIN r = 1..Len(r)
  <2> HIDE DEF l, T
  <2> QED BY <1>1, EventsAtType DEF Readable, l
<1>3. IsFiniteSet(known)
  <2>1. IsFiniteSet(1..Len(r))
    BY <1>2, FS_Interval
  <2> DEFINE at == [i \in 1..Len(r) |-> r[i].fact]
  <2>2. at \in Surjection(1..Len(r), known)
    BY DEF Surjection
  <2> QED BY <2>1, <2>2, FS_Surjection
<1>4. ASSUME NEW f \in Facts, f \notin known PROVE Snapshot[f] = NoState
  <2> HIDE DEF r, T
  <2>1. StreamOf(r, f) = <<>>
    <3> DEFINE K == {i \in DOMAIN r : r[i].fact = f}
    <3>1. \A i \in 1..Len(r) : i \notin K
      BY <1>2, <1>4
    <3> HIDE DEF K
    <3>2. EventsAt(r, K) = <<>>
      BY <1>2, <3>1, EventsAtNone
    <3> QED BY <3>2 DEF StreamOf, K
  <2> QED BY <2>1, FoldEventsEmpty DEF Snapshot, r
<1>5. {f \in Facts : Snapshot[f] # NoState} \subseteq known
  BY <1>4
<1> QED BY <1>3, <1>5, FS_Subset

\* build_revision: a batch touches the new fact and the incumbents, no more.
LEMMA BatchIsFinite ==
  ASSUME NEW op, NEW p, NEW r, NEW n, NEW t, IsFiniteSet({f \in Facts : p[f] # NoState})
  PROVE  IsFiniteSet(DOMAIN Batch(op, p, r, n, t))
<1> DEFINE B == BelievedOf(p, r.shape)
           E == ExplainSubject(p, r.shape, t)
<1>1. B \subseteq {f \in Facts : p[f] # NoState}
  BY DEF BelievedOf, IsBelieved, Believed, NoState
<1>2. IsFiniteSet(B)
  BY <1>1, FS_Subset
<1>3. IsFiniteSet((B \cup {E}) \cup {n})
  BY <1>2, FS_AddElement
<1>4. Incumbents(op, p, r, t) \subseteq B \cup {E}
  BY DEF Incumbents
<1>5. DOMAIN Batch(op, p, r, n, t) \subseteq (B \cup {E}) \cup {n}
  BY <1>4 DEF Batch, PerIncumbent
<1> QED
  BY <1>3, <1>5, FS_Subset

\* append_events: the events of a batch are written one by one.
LEMMA WrittenInOrder ==
  ASSUME NEW S, lines \in Seq(S), NEW c, NEW batch \in ToWrite(c)
  PROVE  \E n \in Nat : DOMAIN InOrder(batch) = 1..n
<1>1. IsFiniteSet(DOMAIN batch)
  <2>1. CASE batch = Batch(c.op, Snapshot, c.r, NextSeq, Now)
    BY <2>1, SnapshotFinite, BatchIsFinite
  <2>2. CASE \E d : batch = RecordBatch(d, c.r, NextSeq, Now)
    BY <2>2, FS_Singleton DEF RecordBatch
  <2> QED BY <2>1, <2>2 DEF ToWrite
<1> DEFINE events == {batch[f] : f \in DOMAIN batch}
<1>2. IsFiniteSet(events)
  <2> DEFINE at == [f \in DOMAIN batch |-> batch[f]]
  <2>1. at \in Surjection(DOMAIN batch, events)
    BY DEF Surjection
  <2> QED BY <1>1, <2>1, FS_Surjection
<1> HIDE DEF events
<1>3. Cardinality(events) \in Nat
  BY <1>2, FS_CardinalityType
<1>4. DOMAIN InOrder(batch) = 1..Cardinality(events)
  BY DEF InOrder, events
<1> QED BY <1>3, <1>4

\* Lines of text, none of them without an event.
Lines(S) == Seq(Seq(S) \ {<<>>})

\* append_events: lines put at the end of a text leave those before the last
\* alone, and a line that gains an event is corrupt.
LEMMA ExtendedIs ==
  ASSUME NEW S, lines \in Lines(S), ended \in BOOLEAN, ~ended => lines # <<>>,
         NEW new \in Lines(S)
  PROVE  /\ Extended(new) \in Lines(S) /\ Len(lines) <= Len(Extended(new))
         /\ new # <<>> => Extended(new) # <<>>
         /\ \A i \in 1..Len(lines) : Parses(Extended(new)[i]) => Extended(new)[i] = lines[i]
         /\ ended => \A j \in 1..Len(new) : Extended(new)[Len(lines) + j] = new[j]
         /\ ~ended /\ new # <<>> => ~Parses(Extended(new)[Len(lines)])
<1> DEFINE N == Seq(S) \ {<<>>}
           L == Len(lines)
<1>1. lines \in Seq(N) /\ new \in Seq(N) /\ L \in Nat /\ Len(new) \in Nat
      /\ \A i \in 1..L : lines[i] \in N
  BY DEF Lines
<1>2. CASE ended \/ new = <<>>
  <2>1. Extended(new) = lines \o new
    BY <1>2 DEF Extended
  <2> HIDE DEF N
  <2>2. /\ lines \o new \in Seq(N) /\ Len(lines \o new) = L + Len(new)
        /\ \A i \in 1..L : (lines \o new)[i] = lines[i]
        /\ \A j \in 1..Len(new) : (lines \o new)[L + j] = new[j]
    BY <1>1
  <2>3. new # <<>> => Len(new) > 0
    BY <1>1
  <2> QED BY <1>1, <1>2, <2>1, <2>2, <2>3 DEF Lines, N
<1>3. CASE ~ended /\ new # <<>>
  <2> DEFINE grown == lines[L] \o Head(new)
             base == [lines EXCEPT ![L] = grown]
  <2>1. L \in 1..L /\ L # 0
    BY <1>1, <1>3
  <2>2. lines[L] \in Seq(S) /\ lines[L] # <<>> /\ Head(new) \in Seq(S) /\ Head(new) # <<>>
        /\ Tail(new) \in Seq(N)
    <3>1. lines[L] \in N /\ Head(new) \in N /\ Tail(new) \in Seq(N)
      <4> HIDE DEF N
      <4> QED BY <1>1, <1>3, <2>1
    <3> QED BY <3>1
  <2>3. ASSUME NEW a \in Seq(S), NEW b \in Seq(S), a # <<>>, b # <<>>
        PROVE  a \o b \in Seq(S) /\ Len(a \o b) > 1
    <3>1. Len(a) \in Nat \ {0} /\ Len(b) \in Nat \ {0}
      BY <2>3
    <3>2. a \o b \in Seq(S) /\ Len(a \o b) = Len(a) + Len(b)
      OBVIOUS
    <3> QED BY <3>1, <3>2
  <2>4. grown \in N /\ ~Parses(grown)
    <3>1. grown \in Seq(S) /\ Len(grown) > 1
      BY <2>2, <2>3
    <3>2. Len(<<>>) = 0 /\ ~(0 > 1) /\ ~(1 > 1)
      OBVIOUS
    <3>3. grown # <<>> /\ Len(grown) # 1
      BY <3>1, <3>2
    <3> QED BY <3>1, <3>3 DEF Parses
  <2> HIDE DEF grown, N
  <2>5. /\ base \in Seq(N) /\ Len(base) = L /\ base[L] = grown
        /\ \A i \in 1..L : i # L => base[i] = lines[i]
    BY <1>1, <2>1, <2>4
  <2>6. Extended(new) = base \o Tail(new)
    BY <1>3 DEF Extended, grown
  <2> HIDE DEF base
  <2>7. ASSUME NEW a \in Seq(N), NEW b \in Seq(N)
        PROVE  /\ a \o b \in Seq(N) /\ Len(a \o b) = Len(a) + Len(b) /\ Len(b) \in Nat
               /\ \A i \in 1..Len(a) : (a \o b)[i] = a[i]
    OBVIOUS
  <2>8. /\ Extended(new) \in Seq(N) /\ L <= Len(Extended(new)) /\ Len(Extended(new)) \in Nat
        /\ \A i \in 1..L : Extended(new)[i] = base[i]
    <3> DEFINE rest == Tail(new)
               more == base \o rest
    <3>1. base \in Seq(N) /\ rest \in Seq(N)
      BY <2>2, <2>5
    <3> HIDE DEF rest
    <3>2. /\ more \in Seq(N) /\ Len(more) = Len(base) + Len(rest) /\ Len(rest) \in Nat
          /\ \A i \in 1..Len(base) : more[i] = base[i]
      BY <2>7, <3>1
    <3>3. Extended(new) = more
      BY <2>6 DEF rest
    <3> HIDE DEF more
    <3>4. Len(more) = L + Len(rest) /\ L \in Nat
      BY <1>1, <2>5, <3>2
    <3>5. L <= Len(more) /\ Len(more) \in Nat
      BY <3>2, <3>4
    <3>6. \A i \in 1..L : more[i] = base[i]
      BY <2>5, <3>2
    <3> QED BY <3>2, <3>3, <3>5, <3>6
  <2>9. Extended(new) # <<>>
    BY <2>1, <2>8, <1>1
  <2>10. \A i \in 1..L : Parses(Extended(new)[i]) => Extended(new)[i] = lines[i]
    BY <2>4, <2>5, <2>8
  <2>11. ~Parses(Extended(new)[L])
    BY <2>1, <2>4, <2>5, <2>8
  <2> QED BY <1>3, <2>8, <2>9, <2>10, <2>11 DEF Lines, N
<1> QED BY <1>2, <1>3

\* A sequence is as long as its domain.
LEMMA LenIs ==
  ASSUME NEW q, NEW n \in Nat, DOMAIN q = 1..n
  PROVE  Len(q) = n
OBVIOUS

\* What every write keeps: lines hold text, and while every line parses, each
\* event that was accepted is the first of some line.
FileInv ==
  /\ \E S : lines \in Lines(S)
  /\ ended \in BOOLEAN /\ (~ended => lines # <<>>)
  /\ Corrupt = {} => \A e \in accepted : \E i \in DOMAIN lines : lines[i][1].event = e

\* The lines a write puts at the end of the text.
LEMMA NewLines ==
  ASSUME NEW events, NEW n \in Nat, DOMAIN events = 1..n, NEW k \in 0..n
  PROVE  \E S : WholeLines(events, k) \in Lines(S)
<1> DEFINE S == {[event |-> events[i], whole |-> TRUE] : i \in 1..k}
           N == Seq(S) \ {<<>>}
<1>1. ASSUME NEW i \in 1..k PROVE Line(events[i], TRUE) \in N
  <2> DEFINE piece == [event |-> events[i], whole |-> TRUE]
  <2>1. piece \in S
    OBVIOUS
  <2> HIDE DEF S, piece
  <2>2. <<piece>> \in Seq(S) \ {<<>>}
    BY <2>1
  <2> QED BY <2>2 DEF Line, piece
<1>2. k \in Nat
  OBVIOUS
<1> HIDE DEF N
<1>3. WholeLines(events, k) \in Seq(N)
  <2> DEFINE w == [i \in 1..k |-> Line(events[i], TRUE)]
  <2>1. w \in [1..k -> N]
    BY <1>1
  <2>2. \A q \in [1..k -> N] : q \in Seq(N)
    BY <1>2
  <2> HIDE DEF w
  <2>3. w \in Seq(N)
    BY <2>1, <2>2
  <2> QED BY <2>3 DEF WholeLines, w
<1> QED BY <1>3 DEF Lines, N

\* Lines of some pieces are lines of more.
LEMMA LinesGrow ==
  ASSUME NEW A, NEW B, A \subseteq B, NEW l \in Lines(A)
  PROVE  l \in Lines(B)
<1>1. \A q \in Seq(A) : q \in Seq(B)
  OBVIOUS
<1>2. Seq(A) \ {<<>>} \subseteq Seq(B) \ {<<>>}
  BY <1>1
<1> DEFINE NA == Seq(A) \ {<<>>}
           NB == Seq(B) \ {<<>>}
<1>3. NA \subseteq NB /\ l \in Seq(NA)
  BY <1>2 DEF Lines
<1> HIDE DEF NA, NB
<1>4. l \in Seq(NB)
  BY <1>3
<1> QED BY <1>4 DEF Lines, NB

\* append_events: a write that extends the text keeps the invariant, if what it
\* accepted stands at the start of a line it wrote.
LEMMA ExtendKeeps ==
  ASSUME FileInv, NEW S, NEW new \in Lines(S), lines' = Extended(new),
         ended' \in BOOLEAN, ~ended' => lines' # <<>>,
         \A e \in accepted' : e \in accepted \/ \E j \in 1..Len(new) : new[j][1].event = e
  PROVE  FileInv'
<1>1. PICK P : lines \in Lines(P)
  BY DEF FileInv
<1> DEFINE U == P \cup S
           L == Len(lines)
<1>2. lines \in Lines(U) /\ new \in Lines(U)
  <2>1. P \subseteq U /\ S \subseteq U
    OBVIOUS
  <2> HIDE DEF U
  <2> QED BY <1>1, <2>1, LinesGrow
<1> HIDE DEF U
<1>3. /\ lines' \in Lines(U) /\ L <= Len(lines')
      /\ \A i \in 1..L : Parses(lines'[i]) => lines'[i] = lines[i]
      /\ ended => \A j \in 1..Len(new) : lines'[L + j] = new[j]
      /\ ~ended /\ new # <<>> => ~Parses(lines'[L])
  BY <1>2, ExtendedIs DEF FileInv
<1>4. /\ DOMAIN lines = 1..L /\ L \in Nat /\ DOMAIN lines' = 1..Len(lines') /\ Len(lines') \in Nat
      /\ Len(new) \in Nat
  BY <1>2, <1>3 DEF Lines
<1>5. ASSUME Corrupt' = {}, NEW e \in accepted'
      PROVE  \E i \in DOMAIN lines' : lines'[i][1].event = e
  <2>1. \A i \in 1..L : lines'[i] = lines[i] /\ Parses(lines[i])
    <3> SUFFICES ASSUME NEW i \in 1..L PROVE lines'[i] = lines[i] /\ Parses(lines[i])
      OBVIOUS
    <3>1. i \in DOMAIN lines'
      BY <1>3, <1>4
    <3>2. Parses(lines'[i])
      BY <1>5, <3>1 DEF Corrupt
    <3> QED BY <1>3, <3>2
  <2>2. Corrupt = {}
    BY <1>4, <2>1 DEF Corrupt
  <2>3. CASE e \in accepted
    <3>1. PICK i \in DOMAIN lines : lines[i][1].event = e
      BY <2>2, <2>3 DEF FileInv
    <3>2. i \in DOMAIN lines' /\ lines'[i] = lines[i]
      BY <1>3, <1>4, <2>1
    <3> QED BY <3>1, <3>2
  <2>4. CASE e \notin accepted
    <3>1. PICK j \in 1..Len(new) : new[j][1].event = e
      BY <2>4
    <3>2. new # <<>>
      BY <1>4
    <3>3. ended
      <4> SUFFICES ASSUME ~ended PROVE FALSE
        BY DEF FileInv
      <4>1. lines # <<>> /\ ~Parses(lines'[L])
        BY <1>3, <3>2 DEF FileInv
      <4>2. L \in 1..L
        BY <1>2, <1>4, <4>1 DEF Lines
      <4> QED BY <2>1, <4>1, <4>2
    <3>4. lines'[L + j] = new[j]
      BY <1>3, <3>3
    <3>5. L + j \in 1..Len(lines')
      <4>1. Len(lines') = L + Len(new)
        <5>1. lines' = lines \o new
          BY <3>3 DEF Extended
        <5> QED BY <1>2, <5>1 DEF Lines
      <4> QED BY <1>4, <4>1
    <3> QED BY <1>4, <3>1, <3>4, <3>5
  <2> QED BY <2>3, <2>4
<1> QED BY <1>3, <1>5 DEF FileInv

\* append_events.
LEMMA WriteKeeps ==
  ASSUME FileInv, NEW c, Write(c)
  PROVE  FileInv'
<1>1. PICK S : lines \in Lines(S)
  BY DEF FileInv
<1>2. PICK batch \in ToWrite(c) :
        /\ lines' = Landed(InOrder(batch), Len(InOrder(batch))).lines
        /\ ended' = Landed(InOrder(batch), Len(InOrder(batch))).ended
        /\ accepted' = accepted \/ accepted' = accepted \cup ToSet(InOrder(batch))
  BY DEF Write
<1> DEFINE events == InOrder(batch)
           new == WholeLines(events, Len(events))
<1>3. PICK n \in Nat : DOMAIN events = 1..n
  BY <1>1, WrittenInOrder DEF Lines
<1> HIDE DEF events
<1>4. Len(events) = n
  BY <1>3, LenIs
<1>5. PICK T : new \in Lines(T)
  BY <1>3, <1>4, NewLines
<1>6. lines' = Extended(new) /\ ended' = (ended \/ Len(events) > 0)
  BY <1>2 DEF Landed, events
<1>7. ended' \in BOOLEAN /\ (~ended' => lines' # <<>>)
  <2>1. ~ended' => ~ended /\ n = 0
    <3>1. n = 0 \/ n > 0
      OBVIOUS
    <3> QED BY <1>4, <1>6, <3>1, Zenon
  <2>2. n = 0 => new = <<>>
    BY <1>3, <1>4 DEF WholeLines
  <2>3. ~ended' => lines' = lines \o <<>> /\ lines # <<>>
    BY <1>6, <2>1, <2>2 DEF Extended, FileInv
  <2>4. lines \o <<>> = lines
    BY <1>1 DEF Lines
  <2> QED BY <1>6, <2>3, <2>4 DEF FileInv
<1>8. ASSUME NEW e \in accepted', e \notin accepted
      PROVE  \E j \in 1..Len(new) : new[j][1].event = e
  <2>1. PICK j \in 1..n : events[j] = e
    BY <1>2, <1>3, <1>8 DEF ToSet, events
  <2>2. Len(new) = n
    BY <1>3, <1>4, LenIs DEF WholeLines
  <2>3. new[j] = Line(e, TRUE)
    BY <1>4, <2>1 DEF WholeLines
  <2>4. new[j][1].event = e
    BY <2>3 DEF Line
  <2> QED BY <2>1, <2>2, <2>4
<1> HIDE DEF new
<1> QED BY <1>5, <1>6, <1>7, <1>8, ExtendKeeps

\* append_events, cut short.
LEMMA TornKeeps ==
  ASSUME FileInv, NEW c, TornWrite(c)
  PROVE  FileInv'
<1>1. PICK S : lines \in Lines(S)
  BY DEF FileInv
<1>0. PICK batch \in ToWrite(c) : \E text \in Cuts(InOrder(batch)) :
        lines' = text.lines /\ ended' = text.ended /\ accepted' = accepted
  BY DEF TornWrite
<1>2. PICK text \in Cuts(InOrder(batch)) :
        lines' = text.lines /\ ended' = text.ended /\ accepted' = accepted
  BY <1>0
<1> DEFINE events == InOrder(batch)
<1>3. PICK n \in Nat : DOMAIN events = 1..n
  BY <1>1, WrittenInOrder DEF Lines
<1> HIDE DEF events
<1>4. Len(events) = n
  BY <1>3, LenIs
<1>5. CASE \E k \in 0..(n - 1) : text = Landed(events, k)
  <2>1. PICK k \in 0..(n - 1) : text = Landed(events, k)
    BY <1>5
  <2> DEFINE new == WholeLines(events, k)
  <2>2. k \in 0..n
    BY <2>1
  <2>3. PICK T : new \in Lines(T)
    BY <1>3, <2>2, NewLines
  <2>4. lines' = Extended(new) /\ ended' = (ended \/ k > 0)
    BY <1>2, <2>1 DEF Landed
  <2>5. ended' \in BOOLEAN /\ (~ended' => lines' # <<>>)
    <3>1. ~ended' => ~ended /\ k = 0
      <4>1. k = 0 \/ k > 0
        BY <2>1
      <4> QED BY <2>4, <4>1, Zenon
    <3>2. k = 0 => new = <<>>
      BY DEF WholeLines
    <3>3. ~ended' => lines' = lines \o <<>> /\ lines # <<>>
      BY <2>4, <3>1, <3>2 DEF Extended, FileInv
    <3>4. lines \o <<>> = lines
      BY <1>1 DEF Lines
    <3> QED BY <2>4, <3>3, <3>4 DEF FileInv
  <2> HIDE DEF new
  <2> QED BY <1>2, <2>3, <2>4, <2>5, ExtendKeeps
<1>6. CASE \E k \in 0..(n - 1), whole \in BOOLEAN :
             text = [lines |-> Extended(Append(WholeLines(events, k), Line(events[k + 1], whole))),
                     ended |-> FALSE]
  <2>1. PICK k \in 0..(n - 1), whole \in BOOLEAN :
          text = [lines |-> Extended(Append(WholeLines(events, k), Line(events[k + 1], whole))),
                  ended |-> FALSE]
    BY <1>6
  <2> DEFINE first == WholeLines(events, k)
             last == Line(events[k + 1], whole)
             new == Append(first, last)
             piece == [event |-> events[k + 1], whole |-> whole]
  <2>2. k \in 0..n
    BY <2>1
  <2>3. PICK T : first \in Lines(T)
    BY <1>3, <2>2, NewLines
  <2> DEFINE U == T \cup {piece}
             N == Seq(U) \ {<<>>}
  <2>4. first \in Lines(U)
    <3>1. T \subseteq U
      OBVIOUS
    <3> HIDE DEF first, U
    <3> QED BY <2>3, <3>1, LinesGrow
  <2>5. last \in N
    <3>1. piece \in U
      OBVIOUS
    <3> HIDE DEF U, piece
    <3>2. <<piece>> \in Seq(U) \ {<<>>}
      BY <3>1
    <3> QED BY <3>2 DEF Line, piece
  <2>6. new \in Lines(U) /\ new # <<>>
    <3>1. first \in Seq(N)
      BY <2>4 DEF Lines
    <3> HIDE DEF N, first, last
    <3>2. Append(first, last) \in Seq(N) /\ Append(first, last) # <<>>
      BY <2>5, <3>1
    <3> QED BY <3>2 DEF Lines, N
  <2> HIDE DEF U, first, last
  <2>7. lines' = Extended(new) /\ ended' = FALSE
    BY <1>2, <2>1 DEF first, last
  <2> HIDE DEF new
  <2>8. lines' # <<>>
    <3>1. lines \in Lines(S \cup U) /\ new \in Lines(S \cup U)
      <4>1. S \subseteq S \cup U /\ U \subseteq S \cup U
        OBVIOUS
      <4> QED BY <1>1, <2>6, <4>1, LinesGrow
    <3> QED BY <2>6, <2>7, <3>1, ExtendedIs DEF FileInv
  <2> QED BY <1>2, <2>6, <2>7, <2>8, ExtendKeeps
<1> QED BY <1>2, <1>4, <1>5, <1>6 DEF Cuts, events

\* The invariant holds forever.
THEOREM FileInvariance == FileSpec => []FileInv
<1>1. FileInit => FileInv
  <2> SUFFICES ASSUME FileInit PROVE FileInv
    OBVIOUS
  <2>1. <<>> \in Lines({})
    BY DEF Lines
  <2> QED BY <2>1 DEF FileInit, FileInv
<1>2. FileInv /\ [FileNext]_fileVars => FileInv'
  <2> SUFFICES ASSUME FileInv, [FileNext]_fileVars PROVE FileInv'
    OBVIOUS
  <2>1. ASSUME NEW c \in Commands, Write(c) PROVE FileInv'
    BY <2>1, WriteKeeps
  <2>2. ASSUME NEW c \in Commands, TornWrite(c) PROVE FileInv'
    BY <2>2, TornKeeps
  <2>3. CASE UNCHANGED fileVars
    BY <2>3 DEF fileVars, FileInv, Corrupt
  <2> QED BY <2>1, <2>2, <2>3 DEF FileNext
<1> QED BY <1>1, <1>2, PTL DEF FileSpec

\* main.rs verify_log, "a corrupt (unparseable) line is not silently skipped here":
\* through any number of torn writes, an event whose caller was told it landed
\* can be read, or verification fails on some line.
THEOREM LossesAreReported == FileSpec => []LossIsReported
<1>1. FileInv => LossIsReported
  <2> SUFFICES ASSUME FileInv, Corrupt = {}, NEW e \in accepted PROVE e \in ReadableEvents
    BY DEF LossIsReported
  <2> DEFINE T == {lines[i][1].event : i \in DOMAIN lines}
             l == [i \in DOMAIN lines |-> lines[i][1].event]
             K == DOMAIN lines \ Corrupt
  <2>1. PICK S : lines \in Seq(S)
    BY DEF FileInv, Lines
  <2>2. l \in Seq(T) /\ DOMAIN l = DOMAIN lines
    BY <2>1
  <2>3. PICK i \in DOMAIN lines : lines[i][1].event = e
    BY DEF FileInv
  <2>4. l[i] = e /\ i \in K
    BY <2>3
  <2> HIDE DEF l, K, T
  <2>5. \E j \in DOMAIN EventsAt(l, K) : EventsAt(l, K)[j] = e
    BY <2>2, <2>3, <2>4, EventsAtHas
  <2> QED BY <2>5 DEF ReadableEvents, Readable, ToSet, l, K
<1> QED BY <1>1, FileInvariance, PTL
=============================================================================
