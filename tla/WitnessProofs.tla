--------------------------- MODULE WitnessProofs ---------------------------
(***************************************************************************)
(* Proofs about Witness, for any records, any length of the logs, any       *)
(* number of heads, keys and faults, and any workload.                      *)
(***************************************************************************)
EXTENDS Witness, SequenceTheorems, WellFoundedInduction, TLAPS

-----------------------------------------------------------------------------
(* The verdict on a sequence of heads.                                      *)

\* A head as a signer makes it: the count is the length of what it covers.
SomeHead == [count : Nat, digest : Seq(Record), key : Nat]
Head0 == {h \in SomeHead : h.count = Len(h.digest)}

\* A set of naturals has a least element; of a sequence's faulty heads, the
\* one FirstFault reports is faulty.
LEMMA MinIsIn ==
  ASSUME NEW S, S \subseteq Nat, S # {}
  PROVE  Min(S) \in S
<1> DEFINE R == OpToRel(<, Nat)
<1>1. \A x, y \in Nat : y < x => <<y, x>> \in R
  BY DEF OpToRel
<1>2. IsWellFoundedOn(R, Nat)
  BY NatLessThanWellFounded
<1> HIDE DEF R
<1>3. PICK x \in S : \A y \in S : ~(<<y, x>> \in R)
  BY <1>2, WFMin
<1>4. ASSUME NEW y \in S PROVE x =< y
  <2>1. x \in Nat /\ y \in Nat
    OBVIOUS
  <2>2. ~(y < x)
    BY <1>1, <1>3, <2>1, Zenon
  <2> QED BY <2>1, <2>2
<1> QED BY <1>4 DEF Min

\* FirstFault: "ok" exactly when every verdict is.
LEMMA OkMeansAll ==
  ASSUME NEW hs \in Seq(Head0), NEW f, DOMAIN f = DOMAIN hs
  PROVE  (FirstFault(f) = "ok") <=> \A i \in DOMAIN hs : f[i] = "ok"
<1> DEFINE faulty == {i \in DOMAIN f : f[i] # "ok"}
<1>1. faulty \subseteq Nat
  BY LenProperties
<1>2. CASE faulty = {}
  BY <1>2 DEF FirstFault
<1>3. CASE faulty # {}
  <2>1. Min(faulty) \in faulty
    BY <1>1, <1>3, MinIsIn
  <2> QED BY <1>3, <2>1 DEF FirstFault
<1> QED BY <1>2, <1>3

\* A verdict is one of those the verifiers give.
LEMMA FaultIsOne ==
  ASSUME NEW hs \in Seq(Head0), NEW f, DOMAIN f = DOMAIN hs, NEW V, "ok" \in V,
         \A i \in DOMAIN hs : f[i] \in V
  PROVE  FirstFault(f) \in V
<1> DEFINE faulty == {i \in DOMAIN f : f[i] # "ok"}
<1>1. faulty \subseteq Nat
  BY LenProperties
<1>2. CASE faulty = {}
  BY <1>2 DEF FirstFault
<1>3. CASE faulty # {}
  <2>1. Min(faulty) \in faulty
    BY <1>1, <1>3, MinIsIn
  <2> QED BY <1>3, <2>1 DEF FirstFault
<1> QED BY <1>2, <1>3

Outcomes == {"ok", "rollback", "tamper"}

EventVerdict(records, hs, public, i) ==
  CASE hs[i].count < PreviousCount(hs, i) -> "rollback"
    [] hs[i].count > Len(records) -> "rollback"
    [] ~VerifySignedHead(PrefixOf(records, hs[i].count), hs[i], public) -> "tamper"
    [] OTHER -> "ok"

GrantVerdict(records, hs, public, i) ==
  CASE hs[i].key # public -> "tamper"
    [] hs[i].count < PreviousCount(hs, i) -> "rollback"
    [] hs[i].count > Len(records) -> "rollback"
    [] hs[i].count > 0 /\ hs[i].digest # PrefixOf(records, hs[i].count) -> "tamper"
    [] OTHER -> "ok"

VerdictOn(lane, records, hs, public, i) ==
  IF lane = "events" THEN EventVerdict(records, hs, public, i)
  ELSE GrantVerdict(records, hs, public, i)

\* Both verifiers report the first fault of the verdicts on the single heads.
LEMMA JudgeIsFirstFault ==
  ASSUME NEW lane, NEW records, NEW hs, NEW public
  PROVE  Judge(lane, records, hs, public)
           = FirstFault([i \in DOMAIN hs |-> VerdictOn(lane, records, hs, public, i)])
<1>1. CASE lane = "events"
  <2>1. VerifyHeads(records, hs, public)
          = FirstFault([i \in DOMAIN hs |-> EventVerdict(records, hs, public, i)])
    BY DEF VerifyHeads, EventVerdict
  <2>2. [i \in DOMAIN hs |-> EventVerdict(records, hs, public, i)]
          = [i \in DOMAIN hs |-> VerdictOn(lane, records, hs, public, i)]
    BY <1>1 DEF VerdictOn
  <2> QED BY <1>1, <2>1, <2>2 DEF Judge
<1>2. CASE lane # "events"
  <2>1. VerifyGrantHeads(records, hs, public)
          = FirstFault([i \in DOMAIN hs |-> GrantVerdict(records, hs, public, i)])
    BY DEF VerifyGrantHeads, GrantVerdict
  <2>2. [i \in DOMAIN hs |-> GrantVerdict(records, hs, public, i)]
          = [i \in DOMAIN hs |-> VerdictOn(lane, records, hs, public, i)]
    BY <1>2 DEF VerdictOn
  <2> QED BY <1>2, <2>1, <2>2 DEF Judge
<1> QED BY <1>1, <1>2

LEMMA JudgeIsOutcome ==
  ASSUME NEW lane, NEW records, NEW hs \in Seq(Head0), NEW public
  PROVE  Judge(lane, records, hs, public) \in Outcomes
<1> DEFINE f == [i \in DOMAIN hs |-> VerdictOn(lane, records, hs, public, i)]
<1>1. \A i \in DOMAIN hs : f[i] \in Outcomes
  BY DEF VerdictOn, EventVerdict, GrantVerdict, Outcomes
<1>2. DOMAIN f = DOMAIN hs /\ "ok" \in Outcomes
  BY DEF Outcomes
<1> HIDE DEF f
<1>3. FirstFault(f) \in Outcomes
  BY <1>1, <1>2, FaultIsOne
<1> QED BY <1>3, JudgeIsFirstFault DEF f

LEMMA JudgeOk ==
  ASSUME NEW lane, NEW records, NEW hs \in Seq(Head0), NEW public
  PROVE  (Judge(lane, records, hs, public) = "ok")
           <=> \A i \in DOMAIN hs : VerdictOn(lane, records, hs, public, i) = "ok"
<1> DEFINE f == [i \in DOMAIN hs |-> VerdictOn(lane, records, hs, public, i)]
<1>1. \A i \in DOMAIN hs : f[i] = VerdictOn(lane, records, hs, public, i)
  OBVIOUS
<1>2. DOMAIN f = DOMAIN hs
  OBVIOUS
<1> HIDE DEF f
<1>3. (FirstFault(f) = "ok") <=> \A i \in DOMAIN hs : f[i] = "ok"
  BY <1>2, OkMeansAll
<1> QED BY <1>1, <1>3, JudgeIsFirstFault DEF f

\* Heads that grow with the log they cover.
Fits(records, hs, public) ==
  /\ \A i \in DOMAIN hs : /\ hs[i].count =< Len(records)
                          /\ hs[i].digest = SubSeq(records, 1, hs[i].count)
                          /\ hs[i].key = public
  /\ \A i, j \in DOMAIN hs : i =< j => hs[i].count =< hs[j].count

\* Such heads verify, in either lane.
LEMMA FittingVerifies ==
  ASSUME NEW lane, NEW records \in Seq(Record), NEW hs \in Seq(Head0), NEW public,
         Fits(records, hs, public)
  PROVE  Judge(lane, records, hs, public) = "ok"
<1> SUFFICES ASSUME NEW i \in DOMAIN hs
             PROVE  VerdictOn(lane, records, hs, public, i) = "ok"
  BY JudgeOk
<1>1. hs[i] \in Head0 /\ i \in 1..Len(hs) /\ Len(hs) \in Nat /\ Len(records) \in Nat
  BY LenProperties, ElementOfSeq
<1>2. /\ hs[i].key = public /\ hs[i].digest = SubSeq(records, 1, hs[i].count)
      /\ hs[i].count = Len(hs[i].digest)
  BY <1>1 DEF Head0, Fits
<1>3. hs[i].count \in Nat /\ hs[i].count =< Len(records)
  BY <1>1 DEF Head0, SomeHead, Fits
<1>4. ~(hs[i].count < PreviousCount(hs, i))
  <2>1. CASE i = 1
    BY <2>1, <1>3 DEF PreviousCount
  <2>2. CASE i # 1
    <3>1. i - 1 \in DOMAIN hs /\ i - 1 =< i
      BY <1>1, <2>2, LenProperties
    <3>2. hs[i - 1] \in Head0
      BY <3>1, ElementOfSeq, LenProperties
    <3>3. hs[i - 1].count \in Nat
      BY <3>2 DEF Head0, SomeHead
    <3>4. hs[i - 1].count =< hs[i].count
      BY <3>1 DEF Fits
    <3>5. PreviousCount(hs, i) = hs[i - 1].count
      BY <2>2 DEF PreviousCount
    <3> QED BY <1>3, <3>3, <3>4, <3>5
  <2> QED BY <2>1, <2>2
<1>5. ~(hs[i].count > Len(records))
  BY <1>1, <1>3
<1>6. VerifySignedHead(PrefixOf(records, hs[i].count), hs[i], public)
  BY <1>2 DEF VerifySignedHead, PrefixOf, Digest
<1>7. EventVerdict(records, hs, public, i) = "ok"
  BY <1>4, <1>5, <1>6 DEF EventVerdict
<1>8. GrantVerdict(records, hs, public, i) = "ok"
  BY <1>2, <1>4, <1>5 DEF GrantVerdict, PrefixOf
<1> QED BY <1>7, <1>8 DEF VerdictOn

\* Heads that verify are prefixes of the log they were judged against.
LEMMA VerifiedArePrefixes ==
  ASSUME NEW lane, NEW records \in Seq(Record), NEW hs \in Seq(Head0), NEW public,
         Judge(lane, records, hs, public) = "ok", NEW i \in DOMAIN hs
  PROVE  IsPrefix(hs[i].digest, records)
<1> DEFINE n == hs[i].count
           d == hs[i].digest
<1>1. n \in Nat /\ d \in Seq(Record) /\ n = Len(d)
  <2>1. hs[i] \in Head0
    BY LenProperties, ElementOfSeq
  <2> QED BY <2>1 DEF Head0, SomeHead
<1>2. VerdictOn(lane, records, hs, public, i) = "ok"
  BY JudgeOk
<1>3. ~(n > Len(records)) /\ (n > 0 => d = SubSeq(records, 1, n))
  BY <1>2 DEF VerdictOn, EventVerdict, GrantVerdict, VerifySignedHead, PrefixOf, Digest
<1>4. n =< Len(records)
  BY <1>1, <1>3, LenProperties
<1>5. SubSeq(d, 1, n) = d
  BY <1>1, SubSeqFull
<1>6. CASE n = 0
  <2>1. d = << >> /\ SubSeq(records, 1, n) = << >>
    <3>1. d = << >>
      BY <1>1, <1>6, EmptySeq
    <3>2. SubSeq(records, 1, 0) = << >>
      BY SubSeqEmpty
    <3> QED BY <1>6, <3>1, <3>2
  <2> QED BY <1>1, <1>4, <1>5, <2>1 DEF IsPrefix
<1>7. CASE n > 0
  BY <1>1, <1>3, <1>4, <1>5, <1>7 DEF IsPrefix
<1> QED BY <1>1, <1>6, <1>7

-----------------------------------------------------------------------------
(* The shape of the state.                                                  *)

SignerPc == {"off", "ready", "events", "midway", "grants", "stopped"}
Process == [pc : SignerPc, snap : Seq(Record), key : Nat, signed : Nat, errors : Nat,
            failed : BOOLEAN, last : [Lanes -> SomeHead]]
Command == [pc : {"idle", "events", "lane", "grants"}, kind : Kinds,
            snap : Seq(Record) \cup Seq(Head0), level : Verdicts, status : Verdicts,
            sick : BOOLEAN]

Typed ==
  /\ work.records \subseteq Record /\ work.size["grants"] \in Nat
  /\ log \in [Lanes -> Seq(Record)]
  /\ heads \in [Lanes -> Seq(Head0)]
  /\ published \in [Lanes -> Seq(Head0)]
  /\ key \in [secret : Nat, public : Nat]
  /\ signer \in [Signers -> Process]
  /\ faults \in Nat /\ overlap \in BOOLEAN

\* sign_head: the count of a head is the number of records it covers.
LEMMA SignedIsHead ==
  ASSUME NEW s \in Seq(Record), NEW k \in Nat
  PROVE  SignHead(s, k) \in Head0 /\ SignHead(s, k) \in SomeHead
BY LenProperties DEF SignHead, Digest, Head0, SomeHead

LEMMA NoHeadIsSome == NoHead \in SomeHead
BY WitnessAssumption, EmptySeq DEF NoHead, SomeHead

LEMMA LastIsIn ==
  ASSUME NEW S, NEW s \in Seq(S), s # << >>
  PROVE  Last(s) \in S /\ Len(s) \in DOMAIN s /\ Last(s) = s[Len(s)]
BY EmptySeq, LenProperties, ElementOfSeq DEF Last

LEMMA FrontIsSeq ==
  ASSUME NEW S, NEW s \in Seq(S), s # << >>
  PROVE  Front(s) \in Seq(S)
<1>1. Len(s) \in Nat /\ Len(s) > 0
  BY EmptySeq, LenProperties
<1> QED BY <1>1, SubSeqProperties DEF Front

LEMMA AppendIsSeq ==
  ASSUME NEW S, NEW s \in Seq(S), NEW e \in S
  PROVE  Append(s, e) \in Seq(S)
BY AppendProperties

LEMMA InitTyped == Init => Typed
<1> SUFFICES ASSUME Init PROVE Typed
  OBVIOUS
<1>1. work.records \subseteq Record /\ work.size["grants"] \in Nat
  BY WitnessAssumption DEF Init, Lanes
<1>2. signer \in [Signers -> Process]
  BY NoHeadIsSome, EmptySeq DEF Init, Process, SignerPc
<1>3. log \in [Lanes -> Seq(Record)] /\ heads \in [Lanes -> Seq(Head0)]
      /\ published \in [Lanes -> Seq(Head0)]
  BY EmptySeq DEF Init
<1> QED BY <1>1, <1>2, <1>3 DEF Init, Typed

\* The assignments of a tick keep the shape of a process.
LEMMA FieldsTyped ==
  ASSUME NEW P \in Process, NEW pc \in SignerPc, NEW n \in Nat, NEW s \in Seq(Record),
         NEW l \in Lanes, NEW h \in SomeHead
  PROVE  /\ [P EXCEPT !.pc = pc, !.signed = n, !.last[l] = h] \in Process
         /\ [P EXCEPT !.pc = pc, !.failed = TRUE, !.last[l] = h] \in Process
         /\ [P EXCEPT !.pc = pc, !.snap = s, !.errors = n, !.last[l] = h] \in Process
<1> DEFINE L == [P.last EXCEPT ![l] = h]
<1>1. L \in [Lanes -> SomeHead]
  BY DEF Process
<1> HIDE DEF L
<1>2. [P EXCEPT !.pc = pc, !.signed = n, !.last = L] \in Process
  BY <1>1 DEF Process
<1>3. [P EXCEPT !.pc = pc, !.failed = TRUE, !.last = L] \in Process
  BY <1>1 DEF Process
<1>4. [P EXCEPT !.pc = pc, !.snap = s, !.errors = n, !.last = L] \in Process
  BY <1>1 DEF Process
<1>5. [P EXCEPT !.pc = pc, !.signed = n, !.last[l] = h]
        = [P EXCEPT !.pc = pc, !.signed = n, !.last = L]
  BY DEF Process, L
<1>6. [P EXCEPT !.pc = pc, !.failed = TRUE, !.last[l] = h]
        = [P EXCEPT !.pc = pc, !.failed = TRUE, !.last = L]
  BY DEF Process, L
<1>7. [P EXCEPT !.pc = pc, !.snap = s, !.errors = n, !.last[l] = h]
        = [P EXCEPT !.pc = pc, !.snap = s, !.errors = n, !.last = L]
  BY DEF Process, L
<1> QED BY <1>2, <1>3, <1>4, <1>5, <1>6, <1>7

LEMMA EndTickIsPc ==
  ASSUME NEW p, NEW fail
  PROVE  EndTick(p, fail) \in SignerPc
BY DEF EndTick, SignerPc

\* A signer's step keeps the shape of every signer and of the heads.
LEMMA SignerTyped ==
  ASSUME Typed, NEW p \in Signers, Start(p) \/ SignerStep(p)
  PROVE  signer' \in [Signers -> Process] /\ heads' \in [Lanes -> Seq(Head0)]
<1> DEFINE P == signer[p]
<1>1. P \in Process /\ log["events"] \in Seq(Record) /\ log["grants"] \in Seq(Record)
  BY DEF Typed, Lanes
<1>2. P.snap \in Seq(Record) /\ P.key \in Nat /\ P.signed \in Nat /\ P.errors \in Nat
      /\ P.last \in [Lanes -> SomeHead]
  BY <1>1 DEF Process
<1>3. heads["events"] \in Seq(Head0) /\ heads["grants"] \in Seq(Head0)
  BY DEF Typed, Lanes
<1>4. CASE Start(p)
  <2>1. \A l \in Lanes : (IF p = "sign" \/ heads[l] = << >> THEN NoHead ELSE Last(heads[l]))
                           \in SomeHead
    BY NoHeadIsSome, LastIsIn DEF Typed, Head0
  <2>2. key.secret \in Nat
    BY DEF Typed
  <2>3. "ready" \in SignerPc
    BY DEF SignerPc
  <2> QED BY <1>1, <1>4, <2>1, <2>2, <2>3 DEF Start, Typed, Process
<1>5. CASE LoadEvents(p)
  <2>1. "events" \in SignerPc
    BY DEF SignerPc
  <2> QED BY <1>1, <1>5, <2>1 DEF LoadEvents, Typed, Process
<1>6. CASE SignEvents(p)
  <2> DEFINE head == SignHead(P.snap, P.key)
  <2>1. head \in Head0 /\ head \in SomeHead
    BY <1>2, SignedIsHead
  <2>2. LastSigned(p, head, TRUE) \in SomeHead /\ LastSigned(p, head, FALSE) \in SomeHead
    BY <1>2, <2>1 DEF LastSigned, Lanes
  <2>3. Append(heads["events"], head) \in Seq(Head0)
    BY <1>3, <2>1, AppendIsSeq
  <2>4. "midway" \in SignerPc /\ "off" \in SignerPc
    BY DEF SignerPc
  <2>5. heads' \in [Lanes -> Seq(Head0)]
    BY <1>6, <2>3 DEF SignEvents, AppendHead, Typed
  <2> HIDE DEF head
  <2>6. signer' \in [Signers -> Process]
    <3>1. [P EXCEPT !.pc = "midway", !.signed = P.signed + 1,
                    !.last["events"] = LastSigned(p, head, TRUE)] \in Process
      <4>1. P.signed + 1 \in Nat /\ "events" \in Lanes
        BY <1>2 DEF Lanes
      <4> QED BY <1>1, <1>2, <2>2, <2>4, <4>1, FieldsTyped
    <3>2. [P EXCEPT !.pc = IF p = "sign" THEN "off" ELSE "midway", !.failed = TRUE,
                    !.last["events"] = LastSigned(p, head, FALSE)] \in Process
      BY <1>1, <1>2, <2>2, <2>4, FieldsTyped DEF Lanes
    <3>3. [P EXCEPT !.pc = "midway"] \in Process
      BY <1>1, <2>4 DEF Process
    <3>4. \E Q \in Process : signer' = [signer EXCEPT ![p] = Q]
      BY <1>6, <3>1, <3>2, <3>3 DEF SignEvents, head
    <3> QED BY <3>4 DEF Typed
  <2> QED BY <2>5, <2>6
<1>7. CASE SignGrants(p)
  <2>1. EndTick(p, P.failed) \in SignerPc /\ "grants" \in SignerPc
    BY EndTickIsPc DEF SignerPc
  <2>2. [P EXCEPT !.pc = "grants", !.snap = log["grants"]] \in Process
    BY <1>1, <2>1 DEF Process
  <2> DEFINE n == IF P.failed THEN P.errors + 1 ELSE 0
  <2>3. n \in Nat
    BY <1>2
  <2> HIDE DEF n
  <2>4. [P EXCEPT !.pc = EndTick(p, P.failed), !.snap = << >>, !.errors = n] \in Process
    BY <1>1, <2>1, <2>3, EmptySeq DEF Process
  <2>5. \E Q \in Process : signer' = [signer EXCEPT ![p] = Q]
    BY <1>7, <2>2, <2>4 DEF SignGrants, n
  <2> QED BY <1>7, <2>5 DEF SignGrants, Typed
<1>8. CASE SignGrantHead(p)
  <2>1. EndTick(p, P.failed) \in SignerPc /\ EndTick(p, TRUE) \in SignerPc
    BY EndTickIsPc
  <2>2. SignHead(P.snap, P.key) \in SomeHead /\ SignHead(log["grants"], P.key) \in Head0
    BY <1>1, <1>2, SignedIsHead
  <2>3. Append(heads["grants"], SignHead(log["grants"], P.key)) \in Seq(Head0)
    BY <1>3, <2>2, AppendIsSeq
  <2>4. heads' \in [Lanes -> Seq(Head0)]
    BY <1>8, <2>3 DEF SignGrantHead, AppendHead, Typed
  <2>5. signer' \in [Signers -> Process]
    <3> DEFINE n == IF P.failed THEN P.errors + 1 ELSE 0
    <3>1. n \in Nat /\ P.errors + 1 \in Nat
      BY <1>2
    <3> HIDE DEF n
    <3>2. [P EXCEPT !.pc = EndTick(p, P.failed), !.snap = << >>, !.errors = n,
                    !.last["grants"] = SignHead(P.snap, P.key)] \in Process
      BY <1>1, <2>1, <2>2, <3>1, EmptySeq, FieldsTyped DEF Lanes
    <3>3. [P EXCEPT !.pc = EndTick(p, TRUE), !.snap = << >>, !.errors = P.errors + 1] \in Process
      BY <1>1, <2>1, <3>1, EmptySeq DEF Process
    <3>4. \E Q \in Process : signer' = [signer EXCEPT ![p] = Q]
      BY <1>8, <3>2, <3>3 DEF SignGrantHead, n
    <3> QED BY <3>4 DEF Typed
  <2> QED BY <2>4, <2>5
<1> QED BY <1>4, <1>5, <1>6, <1>7, <1>8 DEF SignerStep

Admission(lane, pub, latest) ==
  IF lane = "events" THEN PublicationState(pub, latest) ELSE GrantsPublicationState(pub, latest)

LEMMA AdmissionIsOne ==
  ASSUME NEW lane, NEW pub, NEW latest
  PROVE  Admission(lane, pub, latest) \in {"append", "rollback", "conflict", "already"}
BY DEF Admission, PublicationState, GrantsPublicationState

\* publish: the outcomes on one lane.  A green one means that the published
\* sequence, with the latest head added if it may follow, was verified; any
\* other leaves the sequence as it is.
LEMMA PublishOutcomes ==
  ASSUME Typed, NEW lane \in Lanes, NEW records
  PROVE  LET result == PublishResult(lane, records)
             latest == Last(heads[lane])
             state == Admission(lane, published[lane], latest)
             after == IF state = "append" THEN Append(published[lane], latest)
                      ELSE published[lane]
         IN \/ /\ result.status \notin {"ok", "warn"}
               /\ result.sequence = published[lane]
            \/ /\ heads[lane] # << >>
               /\ state \in {"append", "already"}
               /\ Judge(lane, records, after, key.public) = "ok"
               /\ result.sequence = after
<1> DEFINE local == heads[lane]
           latest == Last(local)
           state == Admission(lane, published[lane], latest)
           after == IF state = "append" THEN Append(published[lane], latest)
                    ELSE published[lane]
           ofLocal == Judge(lane, records, local, key.public)
           ofPublished == Judge(lane, records, after, key.public)
           result == PublishResult(lane, records)
           level == CoverageLevel(latest.count, Len(records))
<1>1. state \in {"append", "rollback", "conflict", "already"}
  BY AdmissionIsOne
<1>2. ofLocal \in Outcomes
  BY JudgeIsOutcome DEF Typed
<1>3. after \in Seq(Head0) \/ local = << >>
  BY LastIsIn, AppendIsSeq DEF Typed
<1>4. ofPublished \in Outcomes \/ local = << >>
  BY <1>3, JudgeIsOutcome
<1>5. result = CASE local = << >> -> [status |-> "failed", sequence |-> published[lane]]
         [] local # << >> /\ ofLocal # "ok" -> [status |-> ofLocal, sequence |-> published[lane]]
         [] local # << >> /\ ofLocal = "ok" /\ state \in {"rollback", "conflict"} ->
              [status |-> state, sequence |-> published[lane]]
         [] local # << >> /\ ofLocal = "ok" /\ state \in {"append", "already"} ->
              IF ofPublished # "ok"
              THEN [status |-> ofPublished, sequence |-> published[lane]]
              ELSE [status |-> level, sequence |-> after]
  BY DEF PublishResult, Admission
<1> HIDE DEF local, latest, state, after, ofLocal, ofPublished, result, level
<1>6. \/ result.status \notin {"ok", "warn"} /\ result.sequence = published[lane]
      \/ /\ local # << >> /\ state \in {"append", "already"}
         /\ ofPublished = "ok" /\ result.sequence = after
  BY <1>1, <1>2, <1>4, <1>5 DEF Outcomes
<1> QED BY <1>6 DEF local, latest, state, after, ofPublished, result

LEMMA PublishedStays ==
  ASSUME Typed, NEW lane \in Lanes, NEW records
  PROVE  LET s == PublishResult(lane, records).sequence
         IN \/ s = published[lane]
            \/ /\ heads[lane] # << >> /\ s = Append(published[lane], Last(heads[lane]))
               /\ Admission(lane, published[lane], Last(heads[lane])) = "append"
BY PublishOutcomes

LEMMA PublishTyped ==
  ASSUME Typed, ReaderStep
  PROVE  published' \in [Lanes -> Seq(Head0)]
<1>1. \A lane \in Lanes : \A records :
         PublishResult(lane, records).sequence \in Seq(Head0)
  <2> TAKE lane \in Lanes
  <2> TAKE records
  <2> DEFINE s == PublishResult(lane, records).sequence
  <2>1. published[lane] \in Seq(Head0) /\ heads[lane] \in Seq(Head0)
    BY DEF Typed
  <2>2. CASE s = published[lane]
    BY <2>1, <2>2
  <2>3. CASE heads[lane] # << >> /\ s = Append(published[lane], Last(heads[lane]))
    BY <2>1, <2>3, LastIsIn, AppendIsSeq
  <2> QED BY <2>2, <2>3, PublishedStays
<1>2. CASE Publish
  BY <1>1, <1>2 DEF Publish, Typed, Lanes
<1>3. CASE PublishGrants
  BY <1>1, <1>3 DEF PublishGrants, Typed, Lanes
<1>4. CASE UNCHANGED published
  BY <1>4 DEF Typed
<1> QED BY <1>2, <1>3, <1>4 DEF ReaderStep, Verify, VerifyPublished, DoctorStatus, ReadGrants,
           VerifyGrantLogHeads, VerifyPublishedGrants

LEMMA StepTyped == Typed /\ [Next]_vars => Typed'
<1> SUFFICES ASSUME Typed, [Next]_vars PROVE Typed'
  OBVIOUS
<1>1. ASSUME NEW l \in Lanes, NEW r \in Record, Grow(l, r) PROVE Typed'
  <2>1. Append(log[l], r) \in Seq(Record)
    BY AppendIsSeq DEF Typed
  <2> QED BY <1>1, <2>1 DEF Grow, Typed
<1>2. ASSUME NEW l \in Lanes, Tamper(l) PROVE Typed'
  <2>1. log[l] \in Seq(Record)
    BY DEF Typed
  <2>2. log' \in [Lanes -> Seq(Record)]
    <3>1. ASSUME NEW i \in DOMAIN log[l], NEW r \in work.records,
                 log' = [log EXCEPT ![l][i] = r]
          PROVE  log' \in [Lanes -> Seq(Record)]
      <4>1. r \in Record /\ i \in 1..Len(log[l])
        BY <2>1, LenProperties DEF Typed
      <4>2. [log[l] EXCEPT ![i] = r] \in Seq(Record)
        BY <2>1, <4>1, ExceptSeq
      <4> QED BY <3>1, <4>2 DEF Typed
    <3>2. ASSUME log[l] # << >>, log' = [log EXCEPT ![l] = Front(log[l])]
          PROVE  log' \in [Lanes -> Seq(Record)]
      BY <2>1, <3>2, FrontIsSeq DEF Typed
    <3> QED BY <1>2, <3>1, <3>2 DEF Tamper
  <2> QED BY <1>2, <2>2 DEF Tamper, Typed
<1>3. ASSUME NEW l \in Lanes, DropHead(l) PROVE Typed'
  <2>1. Front(heads[l]) \in Seq(Head0)
    BY <1>3, FrontIsSeq DEF DropHead, Typed
  <2> QED BY <1>3, <2>1 DEF DropHead, Typed
<1>4. CASE Keygen
  BY <1>4 DEF Keygen, Typed
<1>5. CASE RemoveKey
  BY <1>5 DEF RemoveKey, Typed
<1>6. ASSUME NEW p \in Signers, Start(p) \/ SignerStep(p) PROVE Typed'
  <2>1. UNCHANGED <<work, log, published, key, faults>> /\ overlap' \in BOOLEAN
    BY <1>6 DEF Start, SignerStep, LoadEvents, SignEvents, SignGrants, SignGrantHead, Typed
  <2> QED BY <1>6, <2>1, SignerTyped DEF Typed
<1>7. ASSUME NEW kind \in Kinds, Begin(kind) PROVE Typed'
  BY <1>7 DEF Begin, Typed
<1>8. CASE ReaderStep
  <2>1. UNCHANGED <<work, log, heads, key, signer, faults, overlap>>
    BY <1>8 DEF ReaderStep, Publish, PublishGrants, Verify, VerifyPublished, DoctorStatus,
           ReadGrants, VerifyGrantLogHeads, VerifyPublishedGrants
  <2> QED BY <1>8, <2>1, PublishTyped DEF Typed
<1>9. CASE UNCHANGED vars
  BY <1>9 DEF vars, Typed
<1> QED BY <1>1, <1>2, <1>3, <1>4, <1>5, <1>6, <1>7, <1>8, <1>9 DEF Next

-----------------------------------------------------------------------------
(* verify-published and publish catch a log that lost a published head.     *)

\* A head of the published sequence is not a prefix of what was read.
Lost(lane, records) ==
  \E i \in DOMAIN published[lane] : ~IsPrefix(published[lane][i].digest, records)

\* What a reader that watches the published sequence carries from one read to
\* the next: a loss it started with is still there to be seen in what it read.
Watching ==
  /\ reader \in Command
  /\ reader.kind # "verify" \/ reader.pc = "events" => reader.snap \in Seq(Record)
  /\ reader.kind = "verify" /\ reader.pc = "grants" => reader.snap \in Seq(Head0)
  /\ reader.kind \in {"published", "publish"} =>
       /\ reader.pc = "events" /\ reader.sick => Lost("events", reader.snap)
       /\ reader.pc = "lane" => ~reader.sick
       /\ reader.pc = "grants" /\ reader.sick => Lost("grants", reader.snap)
       /\ reader.pc = "idle" /\ reader.sick => reader.status \notin {"ok", "warn"}

\* A sequence with a lost head, however it is extended, does not verify.
LEMMA LostIsJudged ==
  ASSUME Typed, NEW lane \in Lanes, NEW records \in Seq(Record), Lost(lane, records),
         NEW hs \in Seq(Head0), NEW public,
         hs = published[lane] \/ \E h \in Head0 : hs = Append(published[lane], h)
  PROVE  Judge(lane, records, hs, public) # "ok"
<1>1. PICK i \in DOMAIN published[lane] : ~IsPrefix(published[lane][i].digest, records)
  BY DEF Lost
<1>2. published[lane] \in Seq(Head0)
  BY DEF Typed
<1>3. i \in DOMAIN hs /\ hs[i] = published[lane][i]
  <2>1. CASE hs = published[lane]
    BY <2>1
  <2>2. ASSUME NEW h \in Head0, hs = Append(published[lane], h)
        PROVE  i \in DOMAIN hs /\ hs[i] = published[lane][i]
    BY <1>2, <2>2, AppendProperties, LenProperties
  <2> QED BY <2>1, <2>2
<1> QED BY <1>1, <1>3, VerifiedArePrefixes

LEMMA ReportIs ==
  ASSUME reader \in Command, NEW st \in Verdicts
  PROVE  /\ Report(st) \in Command /\ Report(st).pc = "idle" /\ Report(st).status = st
         /\ Report(st).kind = reader.kind /\ Report(st).sick = reader.sick
         /\ Report(st).snap = << >>
BY EmptySeq DEF Report, Command

LEMMA OnwardIs ==
  ASSUME reader \in Command, NEW st \in Verdicts
  PROVE  /\ Onward(st) \in Command /\ Onward(st).pc = "lane" /\ Onward(st).kind = reader.kind
         /\ Onward(st).sick = reader.sick /\ Onward(st).snap = << >>
BY EmptySeq DEF Onward, Command

\* A reader ends with a report that does not hide a loss it started with.
LEMMA ReportWatches ==
  ASSUME Watching, NEW st \in Verdicts, reader' = Report(st),
         reader.sick /\ reader.kind \in {"published", "publish"} => st \notin {"ok", "warn"}
  PROVE  Watching'
<1>1. << >> \in Seq(Record)
  BY EmptySeq
<1>2. /\ reader' \in Command /\ reader'.pc = "idle" /\ reader'.status = st
      /\ reader'.kind = reader.kind /\ reader'.sick = reader.sick /\ reader'.snap = << >>
  BY ReportIs DEF Watching
<1> QED BY <1>1, <1>2 DEF Watching

\* A reader goes on to the grant lane only without a loss.
LEMMA OnwardWatches ==
  ASSUME Watching, NEW st \in Verdicts, reader' = Onward(st),
         reader.kind \in {"published", "publish"} => ~reader.sick
  PROVE  Watching'
<1>1. << >> \in Seq(Record)
  BY EmptySeq
<1>2. /\ reader' \in Command /\ reader'.pc = "lane"
      /\ reader'.kind = reader.kind /\ reader'.sick = reader.sick /\ reader'.snap = << >>
  BY OnwardIs DEF Watching
<1> QED BY <1>1, <1>2 DEF Watching

LEMMA CoverageIs ==
  ASSUME NEW a, NEW b PROVE CoverageLevel(a, b) \in {"ok", "warn"}
BY DEF CoverageLevel

LEMMA VerdictsOf ==
  Outcomes \subseteq Verdicts /\ {"ok", "warn", "none", "failed", "rollback", "conflict"} \subseteq Verdicts
BY DEF Outcomes, Verdicts

\* publish of one lane: a verdict, and a bad one when a published head is lost.
LEMMA PublishResultIs ==
  ASSUME Typed, NEW lane \in Lanes, NEW records \in Seq(Record)
  PROVE  LET st == PublishResult(lane, records).status
         IN st \in Verdicts /\ (Lost(lane, records) => st \notin {"ok", "warn"})
<1> DEFINE st == PublishResult(lane, records).status
           latest == Last(heads[lane])
           state == Admission(lane, published[lane], latest)
           after == IF state = "append" THEN Append(published[lane], latest)
                    ELSE published[lane]
<1>1. st \in Verdicts
  <2>1. Judge(lane, records, heads[lane], key.public) \in Verdicts
    BY JudgeIsOutcome, VerdictsOf DEF Typed
  <2>2. heads[lane] # << >> => after \in Seq(Head0)
    BY LastIsIn, AppendIsSeq DEF Typed
  <2>3. heads[lane] # << >> => Judge(lane, records, after, key.public) \in Verdicts
    BY <2>2, JudgeIsOutcome, VerdictsOf
  <2>4. state \in {"append", "rollback", "conflict", "already"}
    BY AdmissionIsOne
  <2>5. CoverageLevel(latest.count, Len(records)) \in Verdicts
    BY CoverageIs, VerdictsOf
  <2>6. {"failed", "rollback", "conflict"} \subseteq Verdicts
    BY VerdictsOf
  <2> QED BY <2>1, <2>3, <2>4, <2>5, <2>6 DEF PublishResult, Admission
<1>2. ASSUME Lost(lane, records), st \in {"ok", "warn"} PROVE FALSE
  <2>1. /\ heads[lane] # << >> /\ state \in {"append", "already"}
        /\ Judge(lane, records, after, key.public) = "ok"
    BY <1>2, PublishOutcomes
  <2>2. heads[lane] \in Seq(Head0) /\ published[lane] \in Seq(Head0)
    BY DEF Typed
  <2>3. latest \in Head0
    BY <2>1, <2>2, LastIsIn
  <2>4. after \in Seq(Head0)
    BY <2>2, <2>3, AppendIsSeq
  <2> QED BY <1>2, <2>1, <2>3, <2>4, LostIsJudged
<1> QED BY <1>1, <1>2

\* Another command's step changes neither the published sequence nor the reader.
LEMMA OnlyReadersWatch ==
  ASSUME Next, ~ReaderStep, \A kind \in Kinds : ~Begin(kind)
  PROVE  UNCHANGED <<published, reader>>
BY DEF Next, Grow, Tamper, DropHead, Keygen, RemoveKey, Start, SignerStep, LoadEvents,
       SignEvents, SignGrants, SignGrantHead

LEMMA StepWatching == Typed /\ Watching /\ [Next]_vars => Watching'
<1> SUFFICES ASSUME Typed, Watching, [Next]_vars PROVE Watching'
  OBVIOUS
<1>1. log["events"] \in Seq(Record) /\ log["grants"] \in Seq(Record) /\ "events" \in Lanes
      /\ heads["events"] \in Seq(Head0) /\ heads["grants"] \in Seq(Head0)
      /\ published["events"] \in Seq(Head0) /\ published["grants"] \in Seq(Head0)
      /\ "grants" \in Lanes
  BY DEF Typed, Lanes
<1>2. reader \in Command /\ reader.level \in Verdicts
  BY DEF Watching, Command
<1>3. ASSUME NEW kind \in Kinds, Begin(kind) PROVE Watching'
  BY <1>1, <1>3, VerdictsOf DEF Begin, Watching, Command, Broken, Lost
<1>4. CASE Publish
  <2> DEFINE st == PublishResult("events", reader.snap).status
  <2>1. reader.snap \in Seq(Record) /\ (reader.sick => Lost("events", reader.snap))
    BY <1>4 DEF Publish, Watching
  <2>2. st \in Verdicts /\ (reader.sick => st \notin {"ok", "warn"})
    BY <1>1, <2>1, PublishResultIs
  <2> HIDE DEF st
  <2>3. reader' = IF st \in {"ok", "warn"} THEN Onward(st) ELSE Report(st)
    BY <1>4 DEF Publish, st
  <2> QED BY <2>2, <2>3, ReportWatches, OnwardWatches
<1>5. CASE PublishGrants
  <2> DEFINE st == PublishResult("grants", reader.snap).status
  <2>1. reader.snap \in Seq(Record) /\ (reader.sick => Lost("grants", reader.snap))
    BY <1>5 DEF PublishGrants, Watching
  <2>2. st \in Verdicts /\ (reader.sick => st \notin {"ok", "warn"})
    BY <1>1, <2>1, PublishResultIs
  <2> HIDE DEF st
  <2>3. reader' = Report(IF st = "ok" THEN reader.level ELSE st)
    BY <1>5 DEF PublishGrants, st
  <2> QED BY <1>2, <2>2, <2>3, ReportWatches
<1>6. CASE Verify
  <2> DEFINE st == VerifyHeads(reader.snap, heads["events"], key.public)
             c == CoverageLevel(Last(heads["events"]).count, Len(reader.snap))
  <2>1. st \in Verdicts /\ c \in Verdicts /\ "none" \in Verdicts
    BY <1>1, JudgeIsOutcome, VerdictsOf, CoverageIs DEF Judge
  <2> HIDE DEF st, c
  <2>2. reader.kind = "verify"
    BY <1>6 DEF Verify
  <2>3. reader' = Report("none") \/ reader' = Onward(c) \/ reader' = Report(st)
    BY <1>6 DEF Verify, st, c
  <2> QED BY <2>1, <2>2, <2>3, ReportWatches, OnwardWatches
<1>7. CASE VerifyPublished
  <2> DEFINE st == VerifyHeads(reader.snap, published["events"], key.public)
             c == CoverageLevel(Last(published["events"]).count, Len(reader.snap))
  <2>1. reader.snap \in Seq(Record) /\ (reader.sick => Lost("events", reader.snap))
    BY <1>7 DEF VerifyPublished, Watching
  <2>2. st \in Outcomes /\ (Lost("events", reader.snap) => st # "ok")
    BY <1>1, <2>1, JudgeIsOutcome, LostIsJudged DEF Judge
  <2>3. c \in Verdicts /\ "failed" \in Verdicts /\ Outcomes \subseteq Verdicts
    BY VerdictsOf, CoverageIs
  <2> HIDE DEF st, c
  <2>4. \/ reader' = Report("failed")
        \/ st = "ok" /\ reader' = Onward(c)
        \/ published["events"] # << >> /\ st # "ok" /\ reader' = Report(st)
    BY <1>7 DEF VerifyPublished, MonitoredHeads, st, c
  <2>5. CASE reader' = Report("failed")
    BY <2>3, <2>5, ReportWatches
  <2>6. CASE st = "ok" /\ reader' = Onward(c)
    BY <2>1, <2>2, <2>3, <2>6, OnwardWatches
  <2>7. CASE st # "ok" /\ reader' = Report(st)
    <3>1. st \in Verdicts /\ st \notin {"ok", "warn"}
      BY <2>2, <2>3, <2>7 DEF Outcomes
    <3> QED BY <2>7, <3>1, ReportWatches
  <2> QED BY <2>4, <2>5, <2>6, <2>7
<1>8. CASE DoctorStatus
  <2> DEFINE st == VerifyHeads(reader.snap, heads["events"], key.public)
             c == CoverageLevel(Last(heads["events"]).count, Len(reader.snap))
  <2>1. st \in Verdicts /\ c \in Verdicts /\ "warn" \in Verdicts
    BY <1>1, JudgeIsOutcome, VerdictsOf, CoverageIs DEF Judge
  <2> HIDE DEF st, c
  <2>2. reader.kind = "doctor"
    BY <1>8 DEF DoctorStatus
  <2>3. reader' = Report("warn") \/ reader' = Report(c) \/ reader' = Report(st)
    BY <1>8 DEF DoctorStatus, st, c
  <2> QED BY <2>1, <2>2, <2>3, ReportWatches
<1>9. CASE ReadGrants
  <2>1. reader.pc = "lane" /\ UNCHANGED published
    BY <1>9 DEF ReadGrants
  <2>2. reader.kind \in {"published", "publish"} => ~reader.sick
    BY <2>1 DEF Watching
  <2>3. CASE reader' = Report(reader.level)
    BY <1>2, <2>2, <2>3, ReportWatches
  <2>4. CASE /\ reader.kind = "verify"
             /\ reader' = [reader EXCEPT !.pc = "grants", !.snap = heads["grants"]]
    BY <1>1, <2>4 DEF Watching, Command
  <2>5. CASE /\ reader.kind # "verify"
             /\ reader' = [reader EXCEPT !.pc = "grants", !.snap = log["grants"],
                                         !.sick = reader.sick \/ Broken("grants")]
    <3> DEFINE sick == reader.sick \/ Broken("grants")
    <3>1. sick \in BOOLEAN
      OBVIOUS
    <3>2. ~reader.sick /\ sick => Lost("grants", log["grants"])
      BY DEF Broken, Lost
    <3> HIDE DEF sick
    <3>3. /\ reader' \in Command /\ reader'.pc = "grants" /\ reader'.snap = log["grants"]
          /\ reader'.kind = reader.kind /\ reader'.sick = sick
      BY <1>1, <1>2, <2>5, <3>1 DEF Command, sick
    <3>4. Lost("grants", log["grants"])' <=> Lost("grants", log["grants"])
      BY <1>9 DEF ReadGrants, Lost
    <3>5. reader'.kind \in {"published", "publish"} /\ reader'.sick
            => Lost("grants", reader.snap)'
      BY <1>9, <2>2, <3>2, <3>3, <3>4 DEF ReadGrants, Lost
    <3> QED BY <1>1, <2>5, <3>3, <3>5 DEF Watching
  <2>6. work.size["grants"] = 0 \/ work.size["grants"] > 0
    BY DEF Typed
  <2> QED BY <1>9, <2>3, <2>4, <2>5, <2>6 DEF ReadGrants
<1>10. CASE VerifyGrantLogHeads
  <2> DEFINE st == VerifyGrantHeads(log["grants"], reader.snap, key.public)
  <2>1. reader.kind = "verify" /\ reader.snap \in Seq(Head0)
    BY <1>10 DEF VerifyGrantLogHeads, Watching
  <2>2. st \in Verdicts
    <3>1. st = Judge("grants", log["grants"], reader.snap, key.public)
      BY DEF Judge
    <3> QED BY <2>1, <3>1, JudgeIsOutcome, VerdictsOf
  <2> HIDE DEF st
  <2>3. reader' = Report(IF st = "ok" THEN reader.level ELSE st)
    BY <1>10 DEF VerifyGrantLogHeads, st
  <2> QED BY <1>2, <2>1, <2>2, <2>3, ReportWatches
<1>11. CASE VerifyPublishedGrants
  <2> DEFINE st == VerifyGrantHeads(reader.snap, published["grants"], key.public)
             c == CoverageLevel(Last(published["grants"]).count, Len(reader.snap))
             x == IF c = "warn" THEN "warn" ELSE reader.level
  <2>1. reader.snap \in Seq(Record) /\ (reader.sick => Lost("grants", reader.snap))
    BY <1>11 DEF VerifyPublishedGrants, Watching
  <2>2. st \in Outcomes /\ (Lost("grants", reader.snap) => st # "ok")
    <3>1. st = Judge("grants", reader.snap, published["grants"], key.public)
      BY DEF Judge
    <3> QED BY <1>1, <2>1, <3>1, JudgeIsOutcome, LostIsJudged
  <2>3. x \in Verdicts /\ "failed" \in Verdicts /\ Outcomes \subseteq Verdicts
    BY <1>2, VerdictsOf
  <2> HIDE DEF st, x
  <2>4. \/ reader' = Report("failed")
        \/ st = "ok" /\ reader' = Report(x)
        \/ st # "ok" /\ reader' = Report(st)
    BY <1>11 DEF VerifyPublishedGrants, MonitoredHeads, st, x
  <2>5. CASE reader' = Report("failed")
    BY <2>3, <2>5, ReportWatches
  <2>6. CASE st = "ok" /\ reader' = Report(x)
    BY <2>1, <2>2, <2>3, <2>6, ReportWatches
  <2>7. CASE st # "ok" /\ reader' = Report(st)
    <3>1. st \in Verdicts /\ st \notin {"ok", "warn"}
      BY <2>2, <2>3, <2>7 DEF Outcomes
    <3> QED BY <2>7, <3>1, ReportWatches
  <2> QED BY <2>4, <2>5, <2>6, <2>7
<1>12. CASE UNCHANGED <<published, reader>>
  BY <1>12 DEF Watching, Lost
<1> QED BY <1>3, <1>4, <1>5, <1>6, <1>7, <1>8, <1>9, <1>10, <1>11, <1>12, OnlyReadersWatch
        DEF ReaderStep, vars

\* verify-published and publish never accept a log that had already lost a
\* published head when they read it: witness.rs verify_published_with_grants and
\* publish_with_grants, for any interleaving with signers, writers and faults.
THEOREM PublishedLossIsCaught == Spec => []PublishedCatches
<1>1. Init => Watching
  BY EmptySeq DEF Init, Watching, Command, Kinds, Verdicts
<1>2. Watching => PublishedCatches
  BY DEF Watching, PublishedCatches
<1> QED BY <1>1, <1>2, InitTyped, StepTyped, StepWatching, PTL DEF Spec

-----------------------------------------------------------------------------
(* Honest logs verify.                                                      *)

\* What a signer has read of a log, and the heads signed so far.
Covers(records, snap, hs) ==
  /\ Len(snap) =< Len(records) /\ snap = SubSeq(records, 1, Len(snap))
  /\ \A i \in DOMAIN hs : hs[i].count =< Len(snap)

\* With honest logs and no two signers at once: one key, made before anything
\* is signed with it; heads that fit the log; and a signer that holds a prefix
\* of the event log which no head is ahead of.
OneKey ==
  /\ key.secret = key.public
  /\ key.public = 0 => \A l \in Lanes : heads[l] = << >> /\ published[l] = << >>
  /\ \A p \in Signers : Running(p) => key.public # 0 /\ signer[p].key = key.public

OneSigner ==
  /\ \A p, q \in Signers : Running(p) /\ Running(q) => p = q
  /\ \A p \in Signers : signer[p].pc = "events"
       => Covers(log["events"], signer[p].snap, heads["events"])

AllFit ==
  \A l \in Lanes : /\ Fits(log[l], heads[l], key.public)
                   /\ Fits(log[l], published[l], key.public)

Orderly == honest /\ ~overlap => OneKey /\ OneSigner /\ AllFit

LEMMA PrefixOfGrown ==
  ASSUME NEW records \in Seq(Record), NEW r \in Record, NEW n \in Nat, n =< Len(records)
  PROVE  /\ SubSeq(Append(records, r), 1, n) = SubSeq(records, 1, n)
         /\ Len(Append(records, r)) = Len(records) + 1
<1> DEFINE new == Append(records, r)
<1>1. new \in Seq(Record) /\ Len(new) = Len(records) + 1 /\ Len(records) \in Nat
      /\ \A i \in 1..Len(records) : new[i] = records[i]
  BY AppendProperties, LenProperties
<1> HIDE DEF new
<1>2. \A i \in 1..n : i \in Nat /\ i >= 1 /\ i =< Len(records)
  BY <1>1
<1>3. /\ SubSeq(new, 1, n) \in Seq(Record) /\ SubSeq(records, 1, n) \in Seq(Record)
      /\ Len(SubSeq(new, 1, n)) = n /\ Len(SubSeq(records, 1, n)) = n
      /\ \A i \in 1..n : SubSeq(new, 1, n)[i] = new[i] /\ SubSeq(records, 1, n)[i] = records[i]
  BY <1>1
<1>4. \A i \in 1..n : SubSeq(new, 1, n)[i] = SubSeq(records, 1, n)[i]
  BY <1>1, <1>2, <1>3
<1>5. SubSeq(new, 1, n) = SubSeq(records, 1, n)
  BY <1>3, <1>4, SeqEqual
<1> QED BY <1>1, <1>5 DEF new

LEMMA FitsGrow ==
  ASSUME NEW records \in Seq(Record), NEW r \in Record, NEW hs \in Seq(Head0), NEW public,
         Fits(records, hs, public)
  PROVE  Fits(Append(records, r), hs, public)
<1>1. ASSUME NEW i \in DOMAIN hs
      PROVE  /\ hs[i].count =< Len(Append(records, r))
             /\ hs[i].digest = SubSeq(Append(records, r), 1, hs[i].count)
  <2>1. hs[i].count \in Nat /\ hs[i].count =< Len(records) /\ Len(records) \in Nat
    <3>1. hs[i] \in Head0
      BY ElementOfSeq, LenProperties
    <3> QED BY <3>1, LenProperties DEF Head0, SomeHead, Fits
  <2>2. hs[i].digest = SubSeq(records, 1, hs[i].count)
    BY DEF Fits
  <2> QED BY <2>1, <2>2, PrefixOfGrown
<1> QED BY <1>1 DEF Fits

LEMMA FitsNext ==
  ASSUME NEW records \in Seq(Record), NEW hs \in Seq(Head0), NEW public, NEW h \in Head0,
         Fits(records, hs, public), h.count =< Len(records), h.key = public,
         h.digest = SubSeq(records, 1, h.count), \A i \in DOMAIN hs : hs[i].count =< h.count
  PROVE  Fits(records, Append(hs, h), public)
<1> DEFINE new == Append(hs, h)
           n == Len(hs) + 1
<1>1. n \in Nat /\ DOMAIN hs = 1..Len(hs) /\ DOMAIN new = 1..n /\ new[n] = h
      /\ Len(hs) \in Nat /\ \A i \in DOMAIN hs : new[i] = hs[i]
  BY AppendProperties, LenProperties
<1>2. \A i \in DOMAIN new : i \in DOMAIN hs \/ i = n
  BY <1>1
<1>3. h.count \in Nat
  BY DEF Head0, SomeHead
<1> HIDE DEF new, n
<1>4. ASSUME NEW i \in DOMAIN new
      PROVE  /\ new[i].count =< Len(records) /\ new[i].key = public
             /\ new[i].digest = SubSeq(records, 1, new[i].count)
  BY <1>1, <1>2 DEF Fits
<1>5. ASSUME NEW i \in DOMAIN new, NEW j \in DOMAIN new, i =< j
      PROVE  new[i].count =< new[j].count
  <2>1. CASE i \in DOMAIN hs /\ j \in DOMAIN hs
    BY <1>1, <1>5, <2>1 DEF Fits
  <2>2. CASE i \in DOMAIN hs /\ j = n
    BY <1>1, <2>2
  <2>3. CASE i = n /\ j \in DOMAIN hs
    BY <1>1, <1>5, <2>3 DEF n
  <2>4. CASE i = n /\ j = n
    BY <1>1, <1>3, <2>4
  <2> QED BY <1>2, <2>1, <2>2, <2>3, <2>4
<1> QED BY <1>4, <1>5 DEF Fits, new

LEMMA FitsEmpty ==
  ASSUME NEW records, NEW public
  PROVE  Fits(records, << >>, public)
<1>1. DOMAIN << >> = {}
  OBVIOUS
<1> QED BY <1>1 DEF Fits

LEMMA CoversGrown ==
  ASSUME NEW records \in Seq(Record), NEW r \in Record, NEW snap \in Seq(Record), NEW hs,
         Covers(records, snap, hs)
  PROVE  Covers(Append(records, r), snap, hs)
<1>1. Len(snap) \in Nat /\ Len(records) \in Nat
  BY LenProperties
<1> QED BY <1>1, PrefixOfGrown DEF Covers

\* A signed head over a covered prefix fits.
LEMMA SignedFits ==
  ASSUME NEW records \in Seq(Record), NEW snap \in Seq(Record), NEW hs \in Seq(Head0),
         NEW public \in Nat, Fits(records, hs, public), Covers(records, snap, hs)
  PROVE  Fits(records, Append(hs, SignHead(snap, public)), public)
<1> DEFINE h == SignHead(snap, public)
<1>1. h \in Head0
  BY SignedIsHead
<1>2. h.count = Len(snap) /\ h.key = public /\ h.digest = snap
  BY DEF SignHead, Digest
<1> HIDE DEF h
<1>3. Fits(records, Append(hs, h), public)
  BY <1>1, <1>2, FitsNext DEF Covers
<1> QED BY <1>3 DEF h

\* The whole log covers every head that fits it.
LEMMA WholeCovers ==
  ASSUME NEW records \in Seq(Record), NEW hs, NEW public, Fits(records, hs, public)
  PROVE  Covers(records, records, hs)
<1>1. Len(records) \in Nat /\ SubSeq(records, 1, Len(records)) = records
  BY LenProperties, SubSeqFull
<1> QED BY <1>1 DEF Covers, Fits

\* A fault or an overlap is never forgotten.
LEMMA HonestBefore ==
  ASSUME Typed, [Next]_vars, honest', ~overlap'
  PROVE  /\ honest /\ ~overlap
         /\ \A l \in Lanes : ~Tamper(l) /\ ~DropHead(l)
         /\ ~RemoveKey
<1>1. faults \in Nat /\ faults' = 0
  BY DEF Typed, honest
<1>2. (\A l \in Lanes : ~Tamper(l) /\ ~DropHead(l)) /\ ~RemoveKey
  BY <1>1 DEF Tamper, DropHead, RemoveKey
<1>3. faults' = faults /\ (overlap' = overlap \/ \E p \in Signers : Start(p))
  BY <1>2 DEF Next, vars, Grow, Keygen, Start, SignerStep, LoadEvents, SignEvents, SignGrants,
         SignGrantHead, Begin, ReaderStep, Publish, PublishGrants, Verify, VerifyPublished,
         DoctorStatus, ReadGrants, VerifyGrantLogHeads, VerifyPublishedGrants
<1>4. ASSUME NEW p \in Signers, Start(p) PROVE overlap => overlap'
  BY <1>4, Zenon DEF Start
<1>5. ~overlap
  BY <1>3, <1>4
<1> QED BY <1>1, <1>2, <1>3, <1>5 DEF honest

\* What one signer's step does to the others.
LEMMA OtherSigners ==
  ASSUME Typed, NEW p \in Signers, Start(p) \/ SignerStep(p), NEW q \in Signers \ {p}
  PROVE  signer'[q] = signer[q]
BY DEF Typed, Start, SignerStep, LoadEvents, SignEvents, SignGrants, SignGrantHead

LEMMA FieldsKept ==
  ASSUME NEW P \in Process, NEW pc, NEW n, NEW s, NEW l, NEW h
  PROVE  /\ LET Q == [P EXCEPT !.pc = pc] IN Q.pc = pc /\ Q.key = P.key
         /\ LET Q == [P EXCEPT !.pc = pc, !.signed = n, !.last[l] = h]
            IN Q.pc = pc /\ Q.key = P.key
         /\ LET Q == [P EXCEPT !.pc = pc, !.failed = TRUE, !.last[l] = h]
            IN Q.pc = pc /\ Q.key = P.key
         /\ LET Q == [P EXCEPT !.pc = pc, !.snap = s] IN Q.pc = pc /\ Q.key = P.key
         /\ LET Q == [P EXCEPT !.pc = pc, !.snap = s, !.errors = n]
            IN Q.pc = pc /\ Q.key = P.key
         /\ LET Q == [P EXCEPT !.pc = pc, !.snap = s, !.errors = n, !.last[l] = h]
            IN Q.pc = pc /\ Q.key = P.key
BY DEF Process

LEMMA SignerKeeps ==
  ASSUME Typed, NEW p \in Signers, SignerStep(p)
  PROVE  /\ signer'[p].key = signer[p].key /\ Running(p)
         /\ (signer'[p].pc = "events") => LoadEvents(p)
<1> DEFINE P == signer[p]
<1>1. P \in Process /\ \A Q : [signer EXCEPT ![p] = Q][p] = Q
  BY DEF Typed
<1>2. CASE LoadEvents(p)
  BY <1>1, <1>2 DEF LoadEvents, Running, Typed, Process
<1>3. CASE SignEvents(p)
  <2> DEFINE head == SignHead(P.snap, P.key)
             A == [P EXCEPT !.pc = "midway", !.signed = P.signed + 1,
                            !.last["events"] = LastSigned(p, head, TRUE)]
             B == [P EXCEPT !.pc = IF p = "sign" THEN "off" ELSE "midway", !.failed = TRUE,
                            !.last["events"] = LastSigned(p, head, FALSE)]
             C == [P EXCEPT !.pc = "midway"]
  <2>1. A.pc = "midway" /\ A.key = P.key
    BY <1>1, FieldsKept
  <2>2. B.pc \in {"off", "midway"} /\ B.key = P.key
    BY <1>1, FieldsKept
  <2>3. C.pc = "midway" /\ C.key = P.key
    BY <1>1, FieldsKept
  <2>4. signer' \in {[signer EXCEPT ![p] = Q] : Q \in {A, B, C}}
    BY <1>3 DEF SignEvents
  <2> HIDE DEF A, B, C
  <2>5. signer'[p] \in {A, B, C}
    BY <1>1, <2>4
  <2> QED BY <1>3, <2>1, <2>2, <2>3, <2>5 DEF SignEvents, Running
<1>4. CASE SignGrants(p)
  <2> DEFINE n == IF P.failed THEN P.errors + 1 ELSE 0
             A == [P EXCEPT !.pc = "grants", !.snap = log["grants"]]
             B == [P EXCEPT !.pc = EndTick(p, P.failed), !.snap = << >>, !.errors = n]
  <2>1. A.pc = "grants" /\ A.key = P.key
    BY <1>1, FieldsKept
  <2>2. B.pc = EndTick(p, P.failed) /\ B.key = P.key
    BY <1>1, FieldsKept
  <2>3. EndTick(p, P.failed) # "events"
    BY DEF EndTick
  <2>4. signer' \in {[signer EXCEPT ![p] = Q] : Q \in {A, B}}
    BY <1>4 DEF SignGrants
  <2> HIDE DEF A, B
  <2>5. signer'[p] \in {A, B}
    BY <1>1, <2>4
  <2> QED BY <1>4, <2>1, <2>2, <2>3, <2>5 DEF SignGrants, Running
<1>5. CASE SignGrantHead(p)
  <2> DEFINE n == IF P.failed THEN P.errors + 1 ELSE 0
             A == [P EXCEPT !.pc = EndTick(p, P.failed), !.snap = << >>, !.errors = n,
                            !.last["grants"] = SignHead(P.snap, P.key)]
             B == [P EXCEPT !.pc = EndTick(p, TRUE), !.snap = << >>, !.errors = P.errors + 1]
  <2>1. A.pc = EndTick(p, P.failed) /\ A.key = P.key
    BY <1>1, FieldsKept
  <2>2. B.pc = EndTick(p, TRUE) /\ B.key = P.key
    BY <1>1, FieldsKept
  <2>3. EndTick(p, P.failed) # "events" /\ EndTick(p, TRUE) # "events"
    BY DEF EndTick
  <2>4. signer' \in {[signer EXCEPT ![p] = Q] : Q \in {A, B}}
    BY <1>5 DEF SignGrantHead
  <2> HIDE DEF A, B
  <2>5. signer'[p] \in {A, B}
    BY <1>1, <2>4
  <2> QED BY <1>5, <2>1, <2>2, <2>3, <2>5 DEF SignGrantHead, Running
<1> QED BY <1>2, <1>3, <1>4, <1>5 DEF SignerStep

\* publish: the appended head is not behind the published ones.
LEMMA AdmittedFollows ==
  ASSUME NEW lane, NEW records, NEW pub \in Seq(Head0), NEW latest \in Head0, NEW public,
         Fits(records, pub, public), Admission(lane, pub, latest) = "append",
         NEW i \in DOMAIN pub
  PROVE  pub[i].count =< latest.count
<1>1. pub # << >>
  OBVIOUS
<1>2. Last(pub) \in Head0 /\ Len(pub) \in DOMAIN pub /\ Last(pub) = pub[Len(pub)]
      /\ i =< Len(pub) /\ pub[i] \in Head0
  BY <1>1, LastIsIn, LenProperties, ElementOfSeq
<1>3. pub[i].count \in Nat /\ Last(pub).count \in Nat /\ latest.count \in Nat
  BY <1>2 DEF Head0, SomeHead
<1>4. pub[i].count =< Last(pub).count
  BY <1>2 DEF Fits
<1>5. Last(pub).count =< latest.count
  BY <1>1, <1>3 DEF Admission, PublicationState, GrantsPublicationState
<1> QED BY <1>3, <1>4, <1>5

LEMMA PublishedFits ==
  ASSUME Typed, AllFit, NEW lane \in Lanes, NEW records
  PROVE  Fits(log[lane], PublishResult(lane, records).sequence, key.public)
<1> DEFINE s == PublishResult(lane, records).sequence
           latest == Last(heads[lane])
<1>1. heads[lane] \in Seq(Head0) /\ published[lane] \in Seq(Head0) /\ log[lane] \in Seq(Record)
      /\ Fits(log[lane], heads[lane], key.public) /\ Fits(log[lane], published[lane], key.public)
  BY DEF Typed, AllFit
<1>2. CASE s = published[lane]
  BY <1>1, <1>2
<1>3. CASE /\ heads[lane] # << >> /\ s = Append(published[lane], latest)
           /\ Admission(lane, published[lane], latest) = "append"
  <2>1. latest \in Head0 /\ latest.count =< Len(log[lane]) /\ latest.key = key.public
        /\ latest.digest = SubSeq(log[lane], 1, latest.count)
    BY <1>1, <1>3, LastIsIn DEF Fits
  <2>2. \A i \in DOMAIN published[lane] : published[lane][i].count =< latest.count
    BY <1>1, <1>3, <2>1, AdmittedFollows
  <2> HIDE DEF latest
  <2> QED BY <1>1, <1>3, <2>1, <2>2, FitsNext
<1> QED BY <1>2, <1>3, PublishedStays

LEMMA StepOrderly == Typed /\ Orderly /\ [Next]_vars => Orderly'
<1> SUFFICES ASSUME Typed, Orderly, [Next]_vars, honest', ~overlap'
             PROVE  (OneKey /\ OneSigner /\ AllFit)'
  BY DEF Orderly
<1>1. OneKey /\ OneSigner /\ AllFit
  BY HonestBefore DEF Orderly
<1>2. /\ \A l \in Lanes : log[l] \in Seq(Record) /\ heads[l] \in Seq(Head0)
                          /\ published[l] \in Seq(Head0)
      /\ key.public \in Nat /\ "events" \in Lanes /\ "grants" \in Lanes
      /\ \A p \in Signers : signer[p] \in Process /\ signer[p].snap \in Seq(Record)
  BY DEF Typed, Lanes, Process
<1>3. ASSUME NEW l \in Lanes, NEW r \in Record, Grow(l, r)
      PROVE  (OneKey /\ OneSigner /\ AllFit)'
  <2>1. UNCHANGED <<heads, published, key, signer>>
        /\ log' = [log EXCEPT ![l] = Append(log[l], r)]
    BY <1>3 DEF Grow
  <2>2. OneKey'
    BY <1>1, <2>1 DEF OneKey, Running
  <2>3. \A m \in Lanes : log'[m] = IF m = l THEN Append(log[l], r) ELSE log[m]
    BY <2>1 DEF Typed
  <2>4. AllFit'
    BY <1>1, <1>2, <2>1, <2>3, FitsGrow DEF AllFit
  <2>5. ASSUME NEW p \in Signers, signer[p].pc = "events"
        PROVE  Covers(log'["events"], signer[p].snap, heads["events"])
    <3>1. Covers(log["events"], signer[p].snap, heads["events"])
      BY <1>1, <2>5 DEF OneSigner
    <3> QED BY <1>2, <2>3, <3>1, CoversGrown
  <2>6. OneSigner'
    BY <1>1, <2>1, <2>5 DEF OneSigner, Running
  <2> QED BY <2>2, <2>4, <2>6
<1>4. CASE Keygen
  <2>1. UNCHANGED <<log, heads, published, signer>> /\ key.secret = 0
        /\ key' = [secret |-> key.public + 1, public |-> key.public + 1]
    BY <1>4 DEF Keygen
  <2>2. key.public = 0 /\ \A l \in Lanes : heads[l] = << >> /\ published[l] = << >>
    BY <1>1, <2>1 DEF OneKey
  <2>3. key'.secret = 1 /\ key'.public = 1
    BY <2>1, <2>2
  <2>4. OneKey'
    BY <1>1, <2>1, <2>2, <2>3 DEF OneKey, Running
  <2>5. AllFit'
    BY <2>1, <2>2, FitsEmpty DEF AllFit
  <2> QED BY <1>1, <2>1, <2>4, <2>5 DEF OneSigner, Running
<1>5. ASSUME NEW p \in Signers, Start(p) PROVE (OneKey /\ OneSigner /\ AllFit)'
  <2>1. UNCHANGED <<log, heads, published, key>> /\ key.secret # 0
        /\ \A q \in Signers : ~Running(q)
    BY <1>5 DEF Start
  <2>2. signer'[p].pc = "ready" /\ signer'[p].key = key.secret
    BY <1>2, <1>5 DEF Start, Typed, Process
  <2>3. \A q \in Signers \ {p} : signer'[q] = signer[q]
    BY <1>5, OtherSigners
  <2>4. OneKey'
    BY <1>1, <2>1, <2>2, <2>3 DEF OneKey, Running
  <2>5. OneSigner'
    BY <1>1, <2>1, <2>2, <2>3 DEF OneSigner, Running
  <2> QED BY <1>1, <2>1, <2>4, <2>5 DEF AllFit
<1>6. ASSUME NEW p \in Signers, SignerStep(p) PROVE (OneKey /\ OneSigner /\ AllFit)'
  <2>1. UNCHANGED <<log, published, key>>
    BY <1>6 DEF SignerStep, LoadEvents, SignEvents, SignGrants, SignGrantHead
  <2>2. /\ signer'[p].key = signer[p].key /\ Running(p)
        /\ (signer'[p].pc = "events") => LoadEvents(p)
    BY <1>6, SignerKeeps
  <2>3. \A q \in Signers \ {p} : signer'[q] = signer[q] /\ ~Running(q)
    BY <1>1, <1>6, <2>2, OtherSigners DEF OneSigner
  <2>4. key.public # 0 /\ signer[p].key = key.public
    BY <1>1, <2>2 DEF OneKey
  <2>5. OneKey'
    BY <1>1, <2>1, <2>2, <2>3, <2>4 DEF OneKey, Running
  <2>6. \A l \in Lanes : Fits(log[l], heads'[l], key.public)
    <3>1. CASE UNCHANGED heads
      BY <1>1, <3>1 DEF AllFit
    <3>2. CASE signer[p].pc = "events" /\ AppendHead("events", SignHead(signer[p].snap, signer[p].key))
      <4>1. Covers(log["events"], signer[p].snap, heads["events"])
        BY <1>1, <3>2 DEF OneSigner
      <4>2. Fits(log["events"], Append(heads["events"], SignHead(signer[p].snap, key.public)),
                 key.public)
        BY <1>1, <1>2, <4>1, SignedFits DEF AllFit
      <4> QED BY <1>1, <2>4, <3>2, <4>2 DEF AppendHead, AllFit, Typed
    <3>3. CASE AppendHead("grants", SignHead(log["grants"], signer[p].key))
      <4>1. Covers(log["grants"], log["grants"], heads["grants"])
        BY <1>1, <1>2, WholeCovers DEF AllFit
      <4>2. Fits(log["grants"], Append(heads["grants"], SignHead(log["grants"], key.public)),
                 key.public)
        BY <1>1, <1>2, <4>1, SignedFits DEF AllFit
      <4> QED BY <1>1, <2>4, <3>3, <4>2 DEF AppendHead, AllFit, Typed
    <3> QED BY <1>6, <3>1, <3>2, <3>3
            DEF SignerStep, LoadEvents, SignEvents, SignGrants, SignGrantHead
  <2>7. AllFit'
    BY <1>1, <2>1, <2>6 DEF AllFit
  <2>8. CASE LoadEvents(p)
    <3>1. UNCHANGED heads /\ signer'[p].snap = log["events"]
      BY <1>2, <2>8 DEF LoadEvents, Typed, Process
    <3>2. Covers(log["events"], log["events"], heads["events"])
      BY <1>1, <1>2, WholeCovers DEF AllFit
    <3>3. OneSigner'
      BY <1>1, <2>1, <2>3, <3>1, <3>2 DEF OneSigner, Running
    <3> QED BY <2>5, <2>7, <3>3
  <2>9. CASE ~LoadEvents(p)
    <3>1. \A q \in Signers : signer'[q].pc # "events"
      BY <2>2, <2>3, <2>9 DEF Running
    <3>2. OneSigner'
      BY <2>3, <3>1 DEF OneSigner, Running
    <3> QED BY <2>5, <2>7, <3>2
  <2> QED BY <2>8, <2>9
<1>7. CASE ReaderStep
  <2>1. UNCHANGED <<log, heads, key, signer>>
    BY <1>7 DEF ReaderStep, Publish, PublishGrants, Verify, VerifyPublished, DoctorStatus,
           ReadGrants, VerifyGrantLogHeads, VerifyPublishedGrants
  <2>2. OneSigner'
    BY <1>1, <2>1 DEF OneSigner, Running
  <2>3. \/ UNCHANGED published
        \/ \E l \in Lanes : \E records :
              published' = [published EXCEPT ![l] = PublishResult(l, records).sequence]
    BY <1>2, <1>7 DEF ReaderStep, Publish, PublishGrants, Verify, VerifyPublished, DoctorStatus,
           ReadGrants, VerifyGrantLogHeads, VerifyPublishedGrants
  <2>4. CASE UNCHANGED published
    BY <1>1, <2>1, <2>2, <2>4 DEF OneKey, AllFit, Running
  <2>5. ASSUME NEW l \in Lanes, NEW records,
               published' = [published EXCEPT ![l] = PublishResult(l, records).sequence]
        PROVE  OneKey' /\ AllFit'
    <3>1. \A m \in Lanes : published'[m] = IF m = l THEN PublishResult(l, records).sequence
                                           ELSE published[m]
      BY <2>5 DEF Typed
    <3>2. AllFit'
      BY <1>1, <2>1, <3>1, PublishedFits DEF AllFit
    <3>3. heads[l] = << >> => PublishResult(l, records).sequence = published[l]
      BY PublishedStays
    <3> QED BY <1>1, <2>1, <3>1, <3>2, <3>3 DEF OneKey, Running
  <2> QED BY <2>2, <2>3, <2>4, <2>5
<1>8. CASE UNCHANGED <<log, heads, published, key, signer>>
  BY <1>1, <1>8 DEF OneKey, OneSigner, AllFit, Running
<1> QED BY <1>3, <1>4, <1>5, <1>6, <1>7, <1>8, HonestBefore DEF Next, vars, Begin

\* With honest logs, one signer at a time and one key, the local and the
\* published heads of both lanes verify in every state: witness.rs
\* serve_witness, sign_witness_head, publish and the verifiers.
THEOREM HonestLogsVerify == Spec => []HonestVerifies
<1>1. Init => Orderly
  <2> SUFFICES ASSUME Init PROVE OneKey /\ OneSigner /\ AllFit
    BY DEF Orderly
  <2>1. \A l \in Lanes : heads[l] = << >> /\ published[l] = << >>
    BY DEF Init
  <2>2. \A p \in Signers : signer[p].pc = "off"
    BY DEF Init
  <2> QED BY <2>1, <2>2, FitsEmpty DEF Init, OneKey, OneSigner, AllFit, Running
<1>2. Typed /\ Orderly => HonestVerifies
  BY FittingVerifies DEF Typed, Orderly, AllFit, HonestVerifies
<1> QED BY <1>1, <1>2, InitTyped, StepTyped, StepOrderly, PTL DEF Spec
=============================================================================
