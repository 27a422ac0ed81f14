---------------------------- MODULE MCEventStore ----------------------------
(* Model-checking instance of EventStore and EventReplay.                  *)
EXTENDS EventReplay, TLC

CONSTANTS i1, i2, i3, i4, f1, f2, s1, s2, v1, v2, repoDb

MCIds == {i1, i2, i3, i4}
MCFacts == {f1, f2}
MCSources == {s1, s2}
MCValues == {v1, v2}
MCShapes == {repoDb}

Symm == Permutations(MCIds) \cup Permutations(MCFacts) \cup Permutations(MCSources)

Base(kind) ==
  { [ id |-> i, fact |-> f, kind |-> kind, shape |-> repoDb, value |-> NoValue,
      level |-> 1, confidence |-> 1, source |-> s, by |-> NoFact, evidence |-> 1,
      deps |-> {}, blank |-> FALSE, ttl |-> NeverTtl, recorded_at |-> 1,
      observed_at |-> NoTime, valid_from |-> NoTime, valid_to |-> NoTime ] :
        i \in MCIds, f \in MCFacts, s \in MCSources }

AtLevels(S, levels) == {[e EXCEPT !.level = l] : e \in S, l \in levels}

NamingFacts(S) == {[e EXCEPT !.by = g] : e \in S, g \in MCFacts}

\* An hour-long belief recorded at 1 has run out at 2.
Assertions(levels) ==
  {[e EXCEPT !.value = v1, !.ttl = t] :
     e \in AtLevels(Base("Asserted"), levels),
     t \in {NeverTtl, [kind |-> "Duration", millis |-> 1]}}

\* The whole event vocabulary: three ranks and two confidences of assertion,
\* and who backs, contests and closes a fact, with which strength.
MCCandidates ==
  Assertions({1})
    \cup {[e EXCEPT !.value = v1, !.level = 2, !.confidence = 2, !.recorded_at = 2] : e \in Base("Asserted")}
    \cup {[e EXCEPT !.value = v1, !.level = 4] : e \in Base("Asserted")}
    \cup NamingFacts(AtLevels(Base("Superseded"), {1, 2}))
    \cup NamingFacts(AtLevels(Base("Contradicted"), {1}))
    \cup {[e EXCEPT !.recorded_at = 2] : e \in AtLevels(Base("Retracted"), {2})}
    \cup AtLevels(Base("Expired"), {1})
    \cup {[e EXCEPT !.by = e.fact] : e \in AtLevels(Base("Reinforced"), {1, 2})}
    \cup {[e EXCEPT !.by = e.fact, !.value = v2] : e \in AtLevels(Base("Reinforced"), {2})}
    \cup AtLevels(Base("ChallengeRejected"), {1})
    \cup {[e EXCEPT !.recorded_at = 2] : e \in Base("Retrieved")}

\* Distrust of a source, alone or with one of the two floors.
MCPolicies ==
  { p \in [distrusted : {{}, {s1}, {s2}}, authority_floor : {0, 2}, confidence_floor : {0, 2}] :
      p.authority_floor = 0 \/ p.confidence_floor = 0 }
=============================================================================
