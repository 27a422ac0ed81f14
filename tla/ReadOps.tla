------------------------------- MODULE ReadOps -------------------------------
(***************************************************************************)
(* What the read surfaces say of a store, as functions of its projection   *)
(* p, the DerivedFrom edges d of its facts, the facts whose asserting      *)
(* event carries a content flag, and the instant t of the read: explain,   *)
(* facts list, conflicts, the context pack, native reconcile, the findings *)
(* of verify and the status of a snapshot. Nothing here writes.            *)
(*                                                                         *)
(* Diagnostic streams, which the browse surfaces hide, are not modelled.   *)
(***************************************************************************)
EXTENDS OpEvents

Recorded(p, shape) == {f \in Facts : p[f] # NoState /\ p[f].shape = shape}

\* The last in fact-id order of the facts updated last, as max_by_key takes it.
LastUpdated(p, S) ==
  CHOOSE f \in S : \A g \in S : \/ p[g].updated_at < p[f].updated_at
                                \/ p[g].updated_at = p[f].updated_at /\ g <= f

\* Mutant: the belief with the lowest id, however old.
LatestFactFirst(p, shape, t) ==
  IF BelievedOf(p, shape) # {} THEN FirstOf(BelievedOf(p, shape))
  ELSE IF Recorded(p, shape) # {} THEN LastUpdated(p, Recorded(p, shape)) ELSE NoFact

\* latest_fact_id: what is believed, else the closed fact updated last.
LatestFact(p, shape, t) ==
  IF BelievedOf(p, shape) # {} THEN ExplainSubject(p, shape, t)
  ELSE IF Recorded(p, shape) # {} THEN LastUpdated(p, Recorded(p, shape)) ELSE NoFact

\* FactFreshness::from_receipt.
Freshness(s, t) ==
  IF s.lifecycle \in Terminal THEN "no_longer_believed"
  ELSE IF IsNotYetValidAt(s, t) THEN "not_yet_valid"
  ELSE IF IsFreshAt(s, t) THEN "fresh" ELSE "stale"

\* op_explain_receipt: the receipt of the fact a subject resolves to, or none.
OpExplainReceipt(p, shape, t) ==
  LET f == LatestFact(p, shape, t)
  IN IF f = NoFact THEN [found |-> FALSE]
     ELSE [ found |-> TRUE, fact |-> f, lifecycle |-> p[f].lifecycle,
            freshness |-> Freshness(p[f], t) ]

\* Mutant: one settled receipt of a batch hides a contested one.
ExplainToolAnyOk(p, queries, t) ==
  LET receipts == {OpExplainReceipt(p, shape, t) : shape \in queries}
  IN IF \E x \in receipts : x.found /\ x.lifecycle # "Contested" THEN "ok"
     ELSE IF \E x \in receipts : x.found THEN "contested" ELSE "failed"

\* explain_tool: a query that finds nothing does not drop the receipts of the
\* others, and one dispute marks the whole answer.
ExplainTool(p, queries, t) ==
  LET receipts == {x \in {OpExplainReceipt(p, shape, t) : shape \in queries} : x.found}
  IN IF \E x \in receipts : x.lifecycle = "Contested" THEN "contested"
     ELSE IF receipts # {} THEN "ok" ELSE "failed"

\* facts_list_outcome: every recorded stream with the freshness of its fact.
FactsList(p, t) ==
  [ shape \in {s \in Shapes : Recorded(p, s) # {}} |->
      Freshness(p[LatestFact(p, shape, t)], t) ]

\* conflicts_outcome: both sides of every dispute.
Conflicts(p) ==
  [ shape \in {s \in Shapes : \E f \in BelievedOf(p, s) : p[f].lifecycle = "Contested"} |->
      BelievedOf(p, shape) ]

\* context_outcome: the facts of the pack, one per stream at most.
ContextPack(p, t, include_stale) ==
  { f \in {LatestFact(p, shape, t) : shape \in Shapes} \ {NoFact} :
      /\ p[f].lifecycle \notin Terminal
      /\ include_stale \/ Freshness(p[f], t) = "fresh" }

\* receipt_status of a reference whose stream has a fact, else Missing.
ReconcileReference(p, shape, t) ==
  IF LatestFact(p, shape, t) = NoFact THEN "missing"
  ELSE LET s == p[LatestFact(p, shape, t)]
       IN IF s.lifecycle = "Contested" THEN "contested"
          ELSE IF Freshness(s, t) = "fresh" THEN "ok" ELSE Freshness(s, t)

\* reconcile_summary: of the streams that memory files refer to, every one that
\* is not ok is a failure, and one failure fails the command.
ReconcileFailures(p, references, t) ==
  {shape \in references : ReconcileReference(p, shape, t) # "ok"}

-----------------------------------------------------------------------------
(* The findings of verify.                                                 *)

Invalidated(p, f) == p[f].lifecycle \in {"Retracted", "Expired"}

\* lineage_issues: replaced by a fact that was itself withdrawn. The broken
\* lineages proper, dangling or cyclic, are what Loads refuses.
SupersededByInvalidated(p) ==
  { f \in Facts : /\ p[f] # NoState /\ p[f].superseded_by # NoFact
                  /\ Invalidated(p, p[f].superseded_by) }

\* Mutant: only the facts a derivation names itself are looked at.
AncestorsNamed(d, f) == d[f]

\* an_invalidated_root: the facts the search over DerivedFrom edges visits,
\* level by level; a path visits no fact twice.
Ancestors(d, f) ==
  LET seen[n \in 0..Cardinality(Facts)] ==
        IF n = 0 THEN d[f] ELSE seen[n - 1] \cup UNION {d[g] : g \in seen[n - 1]}
  IN seen[Cardinality(Facts)]

\* tainted_facts: still believed, and resting on a withdrawn fact.
TaintedFacts(p, d) ==
  { f \in Facts : /\ p[f] # NoState /\ p[f].lifecycle \notin Terminal
                  /\ \E g \in Ancestors(d, f) : Invalidated(p, g) }

\* content_flag_findings: the flags of facts that are not closed.
ContentFlagged(p, flagged) ==
  {f \in flagged : p[f] # NoState /\ p[f].lifecycle \notin Terminal}

\* unearned_supersessions: replaced by a weaker or a less entrenched fact.
UnearnedSupersessions(p) ==
  { f \in Facts :
      /\ p[f] # NoState /\ p[f].superseded_by # NoFact
      /\ LET by == p[p[f].superseded_by]
         IN \/ by.level < p[f].level
            \/ /\ by.level = p[f].level
               /\ EarnedEntrenchment(by, by.level) < EarnedEntrenchment(p[f], by.level) }

\* unearned_supersession_advisories: reported stream by stream, and no failure.
Advisories(p) == {<<p[f].shape, f>> : f \in UnearnedSupersessions(p)}

\* backend_verify: a database is asked for the taint and the flags of its facts.
BackendFindings(p, d, flagged) ==
  (IF TaintedFacts(p, d) # {} THEN {"tainted"} ELSE {})
    \cup (IF ContentFlagged(p, flagged) # {} THEN {"content"} ELSE {})

\* verify_log: the file store is also loaded, and its lineages followed.
VerifyLog(p, d, flagged, t) ==
  IF ~Loads(p, t) THEN {"unloadable"}
  ELSE BackendFindings(p, d, flagged)
         \cup (IF SupersededByInvalidated(p) # {} THEN {"lineage"} ELSE {})

\* runtime_store_status.
RuntimeStoreStatus(p, t) == IF Loads(p, t) THEN "ok" ELSE "failed"

\* runtime_status_parts: one part that fails to load degrades the whole.
RuntimeStatus(parts) == IF "failed" \in parts THEN "degraded" ELSE "ok"

\* attention_from_runtime: what a snapshot asks its reader to look at.
Attention(p, findings, witness_warns) ==
  (IF witness_warns THEN {"witness"} ELSE {})
    \cup (IF findings # {} THEN {"integrity"} ELSE {})
    \cup (IF DOMAIN Conflicts(p) # {} THEN {"contested"} ELSE {})

\* snapshot_status: integrity first, then anything degraded, then disputes.
SnapshotStatus(p, findings, degraded) ==
  IF findings # {} THEN "integrity_issues"
  ELSE IF degraded THEN "degraded"
  ELSE IF DOMAIN Conflicts(p) # {} THEN "contested" ELSE "ok"

\* snapshot_text_and_json on a file store, where neither authority nor identity
\* nor witness is configured.
Snapshot(p, d, flagged, t) ==
  LET findings == VerifyLog(p, d, flagged, t)
      runtime == RuntimeStatus({RuntimeStoreStatus(p, t), "missing", "unconfigured"})
  IN [ facts |-> FactsList(p, t), verify |-> findings, conflicts |-> Conflicts(p),
       context |-> ContextPack(p, t, FALSE), attention |-> Attention(p, findings, FALSE),
       status |-> SnapshotStatus(p, findings, runtime = "degraded") ]
=============================================================================
