--------------------------- MODULE McpDaemonProofs ---------------------------
(***************************************************************************)
(* Proofs about McpDaemon, for any number of connections, streams, events,  *)
(* challenges and rotations and any workload.                               *)
(***************************************************************************)
EXTENDS McpDaemon, TLAPS

-----------------------------------------------------------------------------
\* What each group of steps leaves alone.
LEMMA ProcessFrame == ProcessStep => UNCHANGED <<work, identityVars, log, issued, answers, sigs>>
BY DEF ProcessStep, StartDaemon, Crash, Connect, handshakeVars, identityVars

LEMMA HandshakeFrame ==
  HandshakeStep => UNCHANGED <<work, identityVars, log, serving, req, outcome, notifierVars>>
BY DEF HandshakeStep, Tick, SignChallenge, Hello, Prove

LEMMA OperatorFrame ==
  OperatorStep => UNCHANGED <<work, log, serving, handshakeVars, req, outcome, notifierVars>>
BY DEF OperatorStep, Revoke, RotateSource

LEMMA LocalFrame ==
  LocalStep => \E u \in work.streams : EnvWrite(u)
BY DEF LocalStep, CliWrite, StdioWrite, HttpPost

LEMMA RequestFrame ==
  RequestStep => UNCHANGED <<work, identityVars, serving, handshakeVars, sub, poll>>
BY DEF RequestStep, RefuseReadOnly, Enforce, Commit, CommitConflicts, CommitFails, BeginWrite,
       BeginRead, Begin, Reply, notifierVars

LEMMA SubscriptionFrame ==
  SubscriptionStep => UNCHANGED <<work, identityVars, log, serving, handshakeVars, outcome, poll>>
BY DEF SubscriptionStep, SubscribeInsert, SubscribeHead, HandleUnsubscribe, notifierVars

LEMMA NotifierFrame ==
  NotifierStep => UNCHANGED <<work, identityVars, log, serving, handshakeVars, req, outcome>>
BY DEF NotifierStep, PollCopy, PollLoad, PollSkip, PollSettle

-----------------------------------------------------------------------------
(* Possession.                                                              *)

\* A challenge in progress is the connection's own and unanswered.
ChallengeIsOwn ==
    \A c \in Conn : session[c].state = "challenged" =>
        /\ session[c].nonce \in 1..Len(issued)
        /\ issued[session[c].nonce] = c
        /\ answers[session[c].nonce] = 0

\* A proof names a nonce that was issued.
ProofIsIssued ==
    \A c \in Conn : session[c].state = "authenticated" =>
        session[c].nonce \in 1..Len(issued)

SessionShape ==
    [state: {"closed", "fresh", "challenged", "authenticated", "failed"},
     nonce: Nat, key: Nat, age: Nat]

ChallengesTyped ==
    /\ session \in [Conn -> SessionShape]
    /\ issued \in Seq(Conn) /\ answers \in Seq(Nat) /\ Len(answers) = Len(issued)
    /\ sigs \subseteq [nonce: Nat, key: Nat] /\ key \in Nat

\* A session that grows older keeps everything else.
LEMMA Aged ==
  ASSUME NEW s \in SessionShape
  PROVE  [s EXCEPT !.age = @ + 1] \in SessionShape
<1>1. s.age + 1 \in Nat
  BY DEF SessionShape
<1> QED
  BY <1>1 DEF SessionShape

OwnInv == ChallengesTyped /\ ChallengeIsOwn /\ ProofIsIssued /\ ProofIsOwn

LEMMA OwnHandshake ==
  ASSUME OwnInv, HandshakeStep
  PROVE  OwnInv'
<1> USE DEF OwnInv, ChallengesTyped
<1>0. key' = key
  BY HandshakeFrame DEF identityVars
<1> USE <1>0
<1>1. CASE Tick
  <2>1. UNCHANGED <<issued, answers, sigs>> /\ session' \in [Conn -> SessionShape]
    <3>1. UNCHANGED <<issued, answers, sigs>>
      BY <1>1 DEF Tick
    <3>2. ASSUME NEW c \in Conn PROVE session'[c] \in SessionShape
      <4>1. session[c] \in SessionShape
        OBVIOUS
      <4>2. [session[c] EXCEPT !.age = @ + 1] \in SessionShape
        BY <4>1, Aged
      <4>3. session'[c] \in {session[c], [session[c] EXCEPT !.age = @ + 1]}
        BY <1>1 DEF Tick
      <4> QED
        BY <4>1, <4>2, <4>3
    <3> QED
      BY <1>1, <3>1, <3>2 DEF Tick
  <2>2. \A c \in Conn : /\ session'[c].state = session[c].state
                        /\ session'[c].nonce = session[c].nonce
                        /\ session'[c].key = session[c].key
    BY <1>1 DEF Tick, SessionShape
  <2> QED
    BY <2>1, <2>2 DEF ChallengeIsOwn, ProofIsIssued, ProofIsOwn
<1>2. ASSUME NEW c \in Conn, SignChallenge(c) PROVE OwnInv'
  <2>1. session[c].nonce \in Nat
    BY <1>2 DEF SessionShape
  <2>2. sigs' = sigs \cup {Signature(session[c].nonce)} /\ UNCHANGED <<session, issued, answers>>
    BY <1>2 DEF SignChallenge
  <2>3. sigs' \subseteq [nonce: Nat, key: Nat]
    BY <2>1, <2>2 DEF Signature
  <2> QED
    BY <2>2, <2>3 DEF ChallengeIsOwn, ProofIsIssued, ProofIsOwn
<1>3. ASSUME NEW c \in Conn, NEW k \in 1..key, Hello(c, k) PROVE OwnInv'
  <2>1. CASE ~VerifySessionHello(k)
    <3>1. session' = [session EXCEPT ![c] = Failed] /\ UNCHANGED <<issued, answers, sigs>>
      BY <1>3, <2>1 DEF Hello
    <3>2. Failed \in SessionShape /\ Failed.state = "failed"
      BY DEF Failed, Closed, NoNonce, SessionShape
    <3>3. session'[c] = Failed /\ \A d \in Conn \ {c} : session'[d] = session[d]
      BY <3>1
    <3> QED
      BY <3>1, <3>2, <3>3 DEF ChallengeIsOwn, ProofIsIssued, ProofIsOwn
  <2>2. CASE VerifySessionHello(k)
    <3> DEFINE n == Len(issued) + 1
    <3>1. /\ issued' = Append(issued, c) /\ answers' = Append(answers, 0)
          /\ session' = [session EXCEPT ![c] = Challenged(n, k)] /\ UNCHANGED sigs
      BY <1>3, <2>2 DEF Hello
    <3>2. /\ Challenged(n, k) \in SessionShape /\ Challenged(n, k).state = "challenged"
          /\ Challenged(n, k).nonce = n
      BY <3>1 DEF Challenged, SessionShape
    <3>3. /\ issued' \in Seq(Conn) /\ answers' \in Seq(Nat) /\ Len(issued') = n /\ Len(answers') = n
          /\ issued'[n] = c /\ answers'[n] = 0
          /\ \A m \in 1..Len(issued) : issued'[m] = issued[m] /\ answers'[m] = answers[m]
          /\ n = Len(issued) + 1 /\ Len(issued) \in Nat
      BY <3>1
    <3>4. session' \in [Conn -> SessionShape]
      BY <3>1, <3>2
    <3>5. session'[c] = Challenged(n, k) /\ \A d \in Conn \ {c} : session'[d] = session[d]
      BY <3>1
    <3> HIDE DEF n
    <3>6. ChallengeIsOwn'
      <4> SUFFICES ASSUME NEW d \in Conn, session'[d].state = "challenged"
                   PROVE  /\ session'[d].nonce \in 1..Len(issued')
                          /\ issued'[session'[d].nonce] = d
                          /\ answers'[session'[d].nonce] = 0
        BY DEF ChallengeIsOwn
      <4>1. CASE d = c
        BY <3>2, <3>3, <3>5, <4>1
      <4>2. CASE d # c
        <5>1. session'[d] = session[d]
          BY <3>5, <4>2
        <5>2. /\ session[d].nonce \in 1..Len(issued) /\ issued[session[d].nonce] = d
              /\ answers[session[d].nonce] = 0
          BY <5>1 DEF ChallengeIsOwn
        <5> QED
          BY <3>3, <5>1, <5>2
      <4> QED
        BY <4>1, <4>2
    <3>7. ProofIsIssued' /\ ProofIsOwn'
      BY <3>1, <3>2, <3>3, <3>5 DEF ProofIsIssued, ProofIsOwn
    <3> QED
      BY <3>1, <3>3, <3>4, <3>6, <3>7
  <2> QED
    BY <2>1, <2>2
<1>4. ASSUME NEW c \in Conn, NEW sig \in sigs, Prove(c, sig) PROVE OwnInv'
  <2> DEFINE n == session[c].nonce
             r == ProveResult(session[c], sig)
  <2>1. /\ session[c].state = "challenged" /\ session' = [session EXCEPT ![c] = r]
        /\ answers' = [answers EXCEPT ![n] = @ + 1] /\ UNCHANGED <<issued, sigs>>
    BY <1>4 DEF Prove
  <2>2. n \in 1..Len(issued) /\ issued[n] = c /\ answers[n] = 0
    BY <2>1 DEF ChallengeIsOwn
  <2>3. \/ r = Failed
        \/ r = Authenticated(sig) /\ sig.nonce = n /\ sig.key = session[c].key
    BY DEF ProveResult, VerifySessionProve
  <2>4. /\ r \in SessionShape /\ r.state \in {"failed", "authenticated"}
        /\ r.state = "authenticated" => r.nonce = n /\ r = Authenticated(sig)
    <3>1. Failed \in SessionShape /\ Failed.state = "failed"
      BY DEF Failed, Closed, NoNonce, SessionShape
    <3>2. sig.nonce \in Nat /\ sig.key \in Nat
      OBVIOUS
    <3>3. /\ Authenticated(sig) \in SessionShape /\ Authenticated(sig).state = "authenticated"
          /\ Authenticated(sig).nonce = sig.nonce
      BY <3>2 DEF Authenticated, SessionShape
    <3> HIDE DEF r
    <3> QED
      BY <2>3, <3>1, <3>3
  <2>5. r.state = "authenticated" => [nonce |-> r.nonce, key |-> r.key] \in sigs
    <3>1. [nonce |-> sig.nonce, key |-> sig.key] = sig
      OBVIOUS
    <3> QED
      BY <2>4, <3>1 DEF Authenticated
  <2>6. /\ answers' \in Seq(Nat) /\ Len(answers') = Len(answers) /\ answers'[n] = 1
        /\ \A m \in 1..Len(issued) : m # n => answers'[m] = answers[m]
    BY <2>1, <2>2
  <2>7. session'[c] = r /\ \A d \in Conn \ {c} : session'[d] = session[d]
    BY <2>1
  <2>8. session' \in [Conn -> SessionShape]
    BY <2>1, <2>4
  <2> HIDE DEF n, r
  <2>9. ChallengeIsOwn'
    BY <2>1, <2>2, <2>4, <2>6, <2>7 DEF ChallengeIsOwn
  <2>10. ProofIsIssued' /\ ProofIsOwn'
    BY <2>1, <2>2, <2>4, <2>5, <2>6, <2>7 DEF ProofIsIssued, ProofIsOwn
  <2> QED
    BY <2>1, <2>6, <2>8, <2>9, <2>10
<1> QED
  BY <1>1, <1>2, <1>3, <1>4 DEF HandshakeStep

\* Connecting and dying leave no session that is challenged or authenticated.
LEMMA OwnProcess ==
  ASSUME OwnInv, ProcessStep
  PROVE  OwnInv'
<1> USE DEF OwnInv, ChallengesTyped
<1>1. UNCHANGED <<issued, answers, sigs, key>>
  BY ProcessFrame DEF identityVars
<1>2. \A c \in Conn : session'[c] = session[c] \/ session'[c] \in {Fresh, Closed}
  BY DEF ProcessStep, StartDaemon, Crash, Connect, handshakeVars
<1>3. /\ Fresh \in SessionShape /\ Closed \in SessionShape
      /\ Fresh.state = "fresh" /\ Closed.state = "closed"
  BY DEF Fresh, Closed, NoNonce, SessionShape
<1>4. session' \in [Conn -> SessionShape]
  <2>1. StartDaemon \/ Crash \/ \E c \in Conn : Connect(c)
    BY DEF ProcessStep
  <2>2. CASE StartDaemon
    BY <2>2 DEF StartDaemon, handshakeVars
  <2>3. CASE Crash
    BY <1>3, <2>3 DEF Crash
  <2>4. ASSUME NEW c \in Conn, Connect(c) PROVE session' \in [Conn -> SessionShape]
    BY <1>3, <2>4 DEF Connect
  <2> QED
    BY <2>1, <2>2, <2>3, <2>4
<1>5. \A c \in Conn : session'[c].state \in {"challenged", "authenticated"}
                      => session'[c] = session[c]
  BY <1>2, <1>3
<1> QED
  BY <1>1, <1>4, <1>5 DEF ChallengeIsOwn, ProofIsIssued, ProofIsOwn

LEMMA OwnKept ==
  ASSUME OwnInv, UNCHANGED handshakeVars, key' \in Nat
  PROVE  OwnInv'
BY DEF OwnInv, ChallengesTyped, ChallengeIsOwn, ProofIsIssued, ProofIsOwn, handshakeVars

LEMMA OwnInit == Init => OwnInv
<1> SUFFICES ASSUME Init PROVE OwnInv
  OBVIOUS
<1>1. Closed \in SessionShape /\ Closed.state = "closed"
  BY DEF Closed, NoNonce, SessionShape
<1>2. ChallengesTyped
  BY <1>1 DEF Init, ChallengesTyped
<1> QED
  BY <1>1, <1>2 DEF Init, OwnInv, ChallengeIsOwn, ProofIsIssued, ProofIsOwn

LEMMA OwnStep == OwnInv /\ [Next]_vars => OwnInv'
<1> SUFFICES ASSUME OwnInv, [Next]_vars PROVE OwnInv'
  OBVIOUS
<1>0. key \in Nat
  BY DEF OwnInv, ChallengesTyped
<1>1. CASE UNCHANGED vars
  BY <1>0, <1>1, OwnKept DEF vars, handshakeVars
<1>2. CASE ProcessStep
  BY <1>2, OwnProcess
<1>3. CASE HandshakeStep
  BY <1>3, OwnHandshake
<1>4. CASE OperatorStep
  <2>1. key' \in Nat
    BY <1>0, <1>4 DEF OperatorStep, Revoke, RotateSource
  <2> QED
    BY <1>4, <2>1, OperatorFrame, OwnKept
<1>5. CASE LocalStep
  <2>1. PICK u \in work.streams : EnvWrite(u)
    BY <1>5, LocalFrame
  <2> QED
    BY <1>0, <2>1, OwnKept DEF EnvWrite, identityVars
<1>6. CASE RequestStep
  BY <1>0, <1>6, RequestFrame, OwnKept DEF identityVars
<1>7. CASE SubscriptionStep
  BY <1>0, <1>7, SubscriptionFrame, OwnKept DEF identityVars
<1>8. CASE NotifierStep
  BY <1>0, <1>8, NotifierFrame, OwnKept DEF identityVars
<1> QED
  BY <1>1, <1>2, <1>3, <1>4, <1>5, <1>6, <1>7, <1>8 DEF Next

\* handle_hello and handle_prove: whatever connections open, die, repeat or
\* overhear, an authenticated one signed a nonce issued to it, in the first
\* answer to that nonce.
THEOREM PossessionIsProven == Spec => []ProofIsOwn
<1>1. OwnInv => ProofIsOwn
  BY DEF OwnInv
<1> QED
  BY <1>1, OwnInit, OwnStep, PTL DEF Spec

-----------------------------------------------------------------------------
(* The log and the requests in flight.                                      *)

ReqShape == [phase: {"idle", "begun", "enforced", "committed", "head"},
             kind: Kind \cup {"none"}, stream: Stream \cup {"none"}, before: Nat]
LogShape == [stream: Stream \cup {"none"}, conn: Conn \cup {Local}, key: Nat, live: BOOLEAN]

WorkTyped == work \in Workloads
ReqTyped == req \in [Conn -> ReqShape]
LogTyped == log \in Seq(LogShape) /\ key \in Nat /\ active \in BOOLEAN

LEMMA StreamsOfWork ==
  ASSUME WorkTyped PROVE work.streams \subseteq Stream
BY DaemonAssumption DEF WorkTyped

LEMMA EventTyped ==
  ASSUME LogTyped, NEW u \in Stream \cup {"none"}, NEW c \in Conn \cup {Local}
  PROVE  /\ Event(u, c) \in LogShape
         /\ Event(u, c).conn = c /\ Event(u, c).key = key /\ Event(u, c).live = active
         /\ Event(u, c).stream = u
BY DEF LogTyped, Event, LogShape

\* Requests keep their shape through every request step.
LEMMA ReqRequest ==
  ASSUME WorkTyped, ReqTyped, LogTyped, RequestStep
  PROVE  ReqTyped'
<1> USE DEF ReqTyped
<1>1. Idle \in ReqShape
  BY DEF Idle, ReqShape
<1>2. Len(log) \in Nat /\ Len(log) + 1 \in Nat
  BY DEF LogTyped
<1>3. PICK c \in Conn :
        \/ RefuseReadOnly(c) \/ Enforce(c)
        \/ Commit(c) \/ CommitConflicts(c) \/ CommitFails(c)
        \/ \E u \in work.streams : BeginWrite(c, u) \/ BeginRead(c, u)
        \/ \E reread \in BOOLEAN : Reply(c, reread)
  BY DEF RequestStep
<1>4. req[c] \in ReqShape
  OBVIOUS
<1>5. CASE req' = [req EXCEPT ![c] = Idle]
  BY <1>1, <1>5
<1>6. CASE RefuseReadOnly(c) \/ CommitFails(c) \/ \E reread \in BOOLEAN : Reply(c, reread)
  BY <1>5, <1>6 DEF RefuseReadOnly, CommitFails, Reply, Told
<1>7. CASE Enforce(c)
  <2>1. [req[c] EXCEPT !.phase = "enforced"] \in ReqShape
    BY <1>4 DEF ReqShape
  <2>2. CASE req' = [req EXCEPT ![c].phase = "enforced"]
    BY <2>1, <2>2
  <2> QED
    BY <1>5, <1>7, <2>2 DEF Enforce, Reject, Told
<1>8. CASE Commit(c) \/ CommitConflicts(c)
  <2>1. [req[c] EXCEPT !.phase = "committed"] \in ReqShape
    BY <1>4 DEF ReqShape
  <2>2. [req[c] EXCEPT !.phase = "begun"] \in ReqShape
    BY <1>4 DEF ReqShape
  <2> QED
    BY <1>5, <1>8, <2>1, <2>2 DEF Commit, CommitConflicts, Reject, Told
<1>9. ASSUME NEW u \in work.streams, NEW k \in {"write", "read"}, Begin(c, k, u)
      PROVE  ReqTyped'
  <2>1. [phase |-> "begun", kind |-> k, stream |-> u, before |-> Len(log)] \in ReqShape
    BY <1>2, StreamsOfWork DEF ReqShape, Kind
  <2> QED
    BY <1>5, <1>9, <2>1 DEF Begin, Told
<1> QED
  BY <1>3, <1>6, <1>7, <1>8, <1>9 DEF BeginWrite, BeginRead

LEMMA ReqStep ==
  ASSUME WorkTyped, ReqTyped, LogTyped, [Next]_vars
  PROVE  ReqTyped'
<1> USE DEF ReqTyped
<1>1. CASE UNCHANGED req
  BY <1>1
<1>2. Idle \in ReqShape
  BY DEF Idle, ReqShape
<1>3. CASE ProcessStep
  BY <1>1, <1>2, <1>3 DEF ProcessStep, StartDaemon, Crash, Connect
<1>4. CASE LocalStep
  BY <1>1, <1>4, LocalFrame DEF EnvWrite
<1>5. CASE SubscriptionStep
  <2>1. PICK c \in Conn : \/ SubscribeInsert(c)
                         \/ \E u \in work.streams : SubscribeHead(c, u) \/ HandleUnsubscribe(c, u)
    BY <1>5 DEF SubscriptionStep
  <2>2. CASE SubscribeInsert(c)
    BY <1>2, <2>2 DEF SubscribeInsert
  <2>3. ASSUME NEW u \in work.streams, SubscribeHead(c, u) PROVE ReqTyped'
    <3>1. Len(log) \in Nat
      BY DEF LogTyped
    <3>2. [phase |-> "head", kind |-> "subscribe", stream |-> u, before |-> Len(log)]
            \in ReqShape
      BY <3>1, StreamsOfWork DEF ReqShape, Kind
    <3> QED
      BY <2>3, <3>2 DEF SubscribeHead
  <2>4. ASSUME NEW u \in work.streams, HandleUnsubscribe(c, u) PROVE ReqTyped'
    BY <1>1, <2>4 DEF HandleUnsubscribe
  <2> QED
    BY <2>1, <2>2, <2>3, <2>4
<1>6. CASE RequestStep
  BY <1>6, ReqRequest
<1> QED
  BY <1>1, <1>3, <1>4, <1>5, <1>6, HandshakeFrame, OperatorFrame, NotifierFrame DEF Next, vars

\* The event of connection c reaches the log, whatever its client is told.
Lands(c) ==
    /\ Commit(c) \/ CommitFails(c)
    /\ req[c].phase = "enforced" /\ req' \in [Conn -> ReqShape]
    /\ req'[c].phase \notin {"begun", "enforced"}
    /\ \A d \in Conn \ {c} : req'[d] = req[d]
    /\ log' = Append(log, Event(req[c].stream, c))
    /\ Owe(req[c].stream)
    /\ UNCHANGED <<sub, poll>>

\* The log grows by one event of a writer that is enforced, or of a local one.
LEMMA LogSteps ==
  ASSUME WorkTyped, ReqTyped, LogTyped, [Next]_vars
  PROVE  /\ WorkTyped' /\ LogTyped'
         /\ \/ UNCHANGED log
            \/ /\ UNCHANGED <<key, active, req, outcome, sub, poll>> /\ active
               /\ \E u \in Stream : log' = Append(log, Event(u, Local)) /\ Owe(u)
            \/ \E c \in Conn : Lands(c) /\ UNCHANGED <<key, active>>
<1>1. CASE UNCHANGED <<work, key, active, log>>
  BY <1>1 DEF WorkTyped, LogTyped
<1>2. CASE OperatorStep
  <2>1. UNCHANGED <<work, log>>
    BY <1>2, OperatorFrame
  <2>2. key' \in Nat
    BY <1>2 DEF OperatorStep, Revoke, RotateSource, LogTyped
  <2>3. active' \in BOOLEAN
    BY <1>2, Zenon DEF OperatorStep, Revoke, RotateSource
  <2> QED
    BY <2>1, <2>2, <2>3 DEF WorkTyped, LogTyped
<1>3. CASE LocalStep
  <2>1. PICK u \in work.streams : EnvWrite(u)
    BY <1>3, LocalFrame
  <2>2. u \in Stream
    BY <2>1, StreamsOfWork
  <2>3. /\ log' = Append(log, Event(u, Local)) /\ active /\ Owe(u)
        /\ UNCHANGED <<work, key, active, req, outcome, sub, poll>>
    BY <2>1 DEF EnvWrite, identityVars
  <2>4. Event(u, Local) \in LogShape
    BY <2>2, EventTyped
  <2>5. LogTyped' /\ WorkTyped'
    BY <2>3, <2>4 DEF LogTyped, WorkTyped
  <2> QED
    BY <2>2, <2>3, <2>5
<1>4. CASE RequestStep
  <2>1. UNCHANGED <<work, key, active>>
    BY <1>4, RequestFrame DEF identityVars
  <2>2. UNCHANGED log \/ \E c \in Conn : Commit(c) \/ CommitFails(c)
    BY <1>4 DEF RequestStep, RefuseReadOnly, Enforce, CommitConflicts, BeginWrite, BeginRead,
                Begin, Reply
  <2>4. ASSUME NEW c \in Conn, Commit(c) \/ CommitFails(c)
        PROVE  UNCHANGED log \/ Lands(c)
    <3>1. CASE Commit(c)
      BY <1>4, <2>4, <3>1, ReqRequest DEF Commit, Persist, Lands, ReqTyped, ReqShape
    <3>2. CASE CommitFails(c)
      BY <1>4, <2>4, <3>2, ReqRequest DEF CommitFails, Persist, Told, Lands, ReqTyped, Idle
    <3> QED
      BY <2>4, <3>1, <3>2
  <2>3. ASSUME NEW c \in Conn, Lands(c) PROVE LogTyped'
    <3>1. log' = Append(log, Event(req[c].stream, c))
      BY <2>3 DEF Lands
    <3>2. req[c].stream \in Stream \cup {"none"}
      BY DEF ReqTyped, ReqShape
    <3>3. Event(req[c].stream, c) \in LogShape
      BY <3>2, EventTyped
    <3> QED
      BY <2>1, <3>1, <3>3 DEF LogTyped
  <2> QED
    BY <1>1, <2>1, <2>2, <2>3, <2>4 DEF WorkTyped
<1> QED
  BY <1>1, <1>2, <1>3, <1>4, ProcessFrame, HandshakeFrame, SubscriptionFrame, NotifierFrame
     DEF Next, vars, identityVars

LEMMA BaseInit == Init => WorkTyped /\ ReqTyped /\ LogTyped
<1> SUFFICES ASSUME Init PROVE WorkTyped /\ ReqTyped /\ LogTyped
  OBVIOUS
<1>1. Idle \in ReqShape
  BY DEF Idle, ReqShape
<1>2. active \in BOOLEAN
  BY Zenon DEF Init
<1> QED
  BY <1>1, <1>2 DEF Init, WorkTyped, ReqTyped, LogTyped

-----------------------------------------------------------------------------
(* Revocation.                                                              *)

\* An event landed after the revoke of the current grant: the grant is still
\* revoked, and its connection has no entitlement left over from before.
LateWriteIsSpent ==
    \A i \in 1..Len(log) :
        /\ log[i].key <= key
        /\ ~log[i].live => log[i].conn \in Conn
        /\ ~log[i].live /\ log[i].key = key =>
             ~active /\ req[log[i].conn].phase # "enforced"

LatencyInv == WorkTyped /\ ReqTyped /\ LogTyped /\ LateWriteIsSpent /\ RevocationLatency

\* A connection is entitled anew only under an active grant.
LEMMA EnforcedWhenActive ==
  ASSUME ReqTyped, Next
  PROVE  \A c \in Conn : req'[c].phase = "enforced" => req[c].phase = "enforced" \/ active
<1>1. CASE UNCHANGED req
  BY <1>1
<1>2. Idle.phase = "idle"
  BY DEF Idle
<1>3. CASE ProcessStep
  BY <1>1, <1>2, <1>3 DEF ProcessStep, StartDaemon, Crash, Connect
<1>4. CASE LocalStep
  BY <1>1, <1>4, LocalFrame DEF EnvWrite
<1>5. CASE SubscriptionStep
  BY <1>2, <1>5 DEF SubscriptionStep, SubscribeInsert, SubscribeHead, HandleUnsubscribe, ReqTyped
<1>6. CASE RequestStep
  <2>1. PICK c \in Conn :
          \/ RefuseReadOnly(c) \/ Enforce(c)
          \/ Commit(c) \/ CommitConflicts(c) \/ CommitFails(c)
          \/ \E u \in work.streams : BeginWrite(c, u) \/ BeginRead(c, u)
          \/ \E reread \in BOOLEAN : Reply(c, reread)
    BY <1>6 DEF RequestStep
  <2>2. CASE Enforce(c)
    BY <1>2, <2>2 DEF Enforce, EnforceWrite, Reject, Told, ReqTyped
  <2>3. CASE Commit(c) \/ CommitConflicts(c)
    BY <1>2, <2>3 DEF Commit, CommitConflicts, Reject, Told, ReqTyped, ReqShape
  <2>4. CASE RefuseReadOnly(c) \/ CommitFails(c) \/ \E reread \in BOOLEAN : Reply(c, reread)
    BY <1>2, <2>4 DEF RefuseReadOnly, CommitFails, Reply, Told, ReqTyped
  <2>5. CASE \E u \in work.streams : BeginWrite(c, u) \/ BeginRead(c, u)
    BY <1>2, <2>5 DEF BeginWrite, BeginRead, Begin, Told, ReqTyped
  <2> QED
    BY <2>1, <2>2, <2>3, <2>4, <2>5
<1> QED
  BY <1>1, <1>3, <1>4, <1>5, <1>6, HandshakeFrame, OperatorFrame, NotifierFrame DEF Next

LEMMA LatencyStep == LatencyInv /\ [Next]_vars => LatencyInv'
<1> SUFFICES ASSUME LatencyInv, [Next]_vars PROVE LatencyInv'
  OBVIOUS
<1> USE DEF LatencyInv
<1>1. WorkTyped' /\ ReqTyped' /\ LogTyped'
  BY ReqStep, LogSteps
<1>2. CASE UNCHANGED <<log, req, key, active>>
  BY <1>1, <1>2 DEF LateWriteIsSpent, RevocationLatency
<1>3. CASE Next /\ UNCHANGED <<log, key, active>>
  <2>1. \A c \in Conn : req'[c].phase = "enforced" => req[c].phase = "enforced" \/ active
    BY <1>3, EnforcedWhenActive
  <2>2. LateWriteIsSpent'
    BY <1>3, <2>1 DEF LateWriteIsSpent
  <2> QED
    BY <1>1, <1>3, <2>2 DEF RevocationLatency
<1>4. CASE OperatorStep
  <2>1. UNCHANGED <<log, req>>
    BY <1>4, OperatorFrame
  <2>2. CASE Revoke
    BY <1>1, <2>1, <2>2 DEF Revoke, LateWriteIsSpent, RevocationLatency
  <2>3. CASE RotateSource
    <3>1. key' = key + 1 /\ key \in Nat
      BY <2>3 DEF RotateSource, LogTyped
    <3>2. ASSUME NEW i \in 1..Len(log) PROVE log[i].key \in Nat
      <4>1. log[i] \in LogShape
        BY DEF LogTyped
      <4> QED
        BY <4>1 DEF LogShape
    <3>3. LateWriteIsSpent'
      BY <2>1, <3>1, <3>2 DEF LateWriteIsSpent
    <3> QED
      BY <1>1, <2>1, <3>3 DEF RevocationLatency
  <2> QED
    BY <1>4, <2>2, <2>3 DEF OperatorStep
<1>5. ASSUME NEW e \in LogShape, log' = Append(log, e), UNCHANGED <<key, active>>,
             e.key = key, e.live = active,
             ~active => e.conn \in Conn /\ req[e.conn].phase = "enforced"
                          /\ req'[e.conn].phase # "enforced",
             \A c \in Conn : req'[c].phase = "enforced" => req[c].phase = "enforced"
      PROVE  LatencyInv'
  <2> DEFINE n == Len(log) + 1
  <2>1. /\ Len(log') = n /\ log'[n] = e /\ n = Len(log) + 1 /\ Len(log) \in Nat
        /\ \A i \in 1..Len(log) : log'[i] = log[i]
    BY <1>5 DEF LogTyped
  <2> HIDE DEF n
  <2>2. LateWriteIsSpent'
    <3> SUFFICES ASSUME NEW i \in 1..Len(log')
                 PROVE  /\ log'[i].key <= key'
                        /\ ~log'[i].live => log'[i].conn \in Conn
                        /\ ~log'[i].live /\ log'[i].key = key' =>
                             ~active' /\ req'[log'[i].conn].phase # "enforced"
      BY DEF LateWriteIsSpent
    <3>1. CASE i = n
      BY <1>5, <2>1, <3>1 DEF LogTyped
    <3>2. CASE i # n
      <4>1. i \in 1..Len(log) /\ log'[i] = log[i]
        BY <2>1, <3>2
      <4> QED
        BY <1>5, <4>1 DEF LateWriteIsSpent
    <3> QED
      BY <3>1, <3>2
  <2>3. RevocationLatency'
    <3> SUFFICES ASSUME NEW i \in 1..Len(log'), NEW j \in 1..Len(log'), i < j, ~log'[i].live,
                        ~log'[j].live, log'[i].key = log'[j].key
                 PROVE  log'[i].conn # log'[j].conn
      BY DEF RevocationLatency
    <3>1. i \in 1..Len(log) /\ log'[i] = log[i]
      BY <2>1
    <3>2. CASE j = n
      BY <1>5, <2>1, <3>1, <3>2 DEF LateWriteIsSpent
    <3>3. CASE j # n
      <4>1. j \in 1..Len(log) /\ log'[j] = log[j]
        BY <2>1, <3>3
      <4> QED
        BY <3>1, <4>1 DEF RevocationLatency
    <3> QED
      BY <3>2, <3>3
  <2> QED
    BY <1>1, <2>2, <2>3
<1>6. ASSUME NEW u \in Stream, log' = Append(log, Event(u, Local)),
             UNCHANGED <<key, active, req>>, active
      PROVE  LatencyInv'
  <2>1. /\ Event(u, Local) \in LogShape /\ Event(u, Local).key = key
        /\ Event(u, Local).live = active
    BY EventTyped
  <2> QED
    BY <1>5, <1>6, <2>1
<1>7. ASSUME NEW c \in Conn, Lands(c), UNCHANGED <<key, active>>
      PROVE  LatencyInv'
  <2>1. req[c].stream \in Stream \cup {"none"}
    BY DEF ReqTyped, ReqShape
  <2>2. /\ Event(req[c].stream, c) \in LogShape /\ Event(req[c].stream, c).key = key
        /\ Event(req[c].stream, c).live = active /\ Event(req[c].stream, c).conn = c
    BY <2>1, EventTyped
  <2>3. /\ req[c].phase = "enforced" /\ req'[c].phase # "enforced"
        /\ \A d \in Conn : req'[d].phase = "enforced" => req[d].phase = "enforced"
    BY <1>7 DEF Lands
  <2>4. log' = Append(log, Event(req[c].stream, c))
    BY <1>7 DEF Lands
  <2> QED
    BY <1>5, <1>7, <2>2, <2>3, <2>4
<1>8. CASE UNCHANGED log /\ ~UNCHANGED <<key, active>>
  BY <1>4, <1>8, ProcessFrame, HandshakeFrame, LocalFrame, RequestFrame, SubscriptionFrame,
     NotifierFrame DEF Next, vars, identityVars, EnvWrite
<1> QED
  BY <1>2, <1>3, <1>6, <1>7, <1>8, LogSteps DEF vars

\* enforce_write re-reads the active grants for each write: between a revoke and
\* the next grant, a connection lands at most one write.
THEOREM RevocationReaches == Spec => []RevocationLatency
<1>1. Init => LatencyInv
  BY BaseInit DEF Init, LatencyInv, LateWriteIsSpent, RevocationLatency
<1>2. LatencyInv => RevocationLatency
  BY DEF LatencyInv
<1> QED
  BY <1>1, <1>2, LatencyStep, PTL DEF Spec

-----------------------------------------------------------------------------
(* What clients are told.                                                   *)

\* The events of connection c past the first n of log l.
Since(l, c, n) == {i \in (n + 1)..Len(l) : l[i].conn = c}

\* What the client of c was told, o, is true of log l.
Agrees(o, l, c) ==
    /\ o.before \in Nat
    /\ o.told = "none" => o.receipt = {}
    /\ o.told \in {"refused", "rejected", "failed"} => Since(l, c, o.before) = {}
    /\ o.told = "accepted" => Since(l, c, o.before) # {}
    /\ o.told # "none" => \A i, j \in Since(l, c, o.before) : i = j
    /\ o.receipt # {} => Since(l, c, o.before) \subseteq o.receipt

\* The request q in flight on c began on a log no longer than l.  Until its append
\* the connection has written nothing since, after it one event; and its client
\* has not been told anything yet.
Counts(q, o, l, c) ==
    /\ q.phase # "idle" => q.before <= Len(l)
    /\ q.phase = "head" => q.kind # "write"
    /\ q.phase \in {"begun", "enforced", "committed"} => o.told = "none"
    /\ q.phase \in {"begun", "enforced"} => Since(l, c, q.before) = {}
    /\ q.phase = "committed" => \E i \in Nat : Since(l, c, q.before) = {i}

AnswersAgree ==
    /\ outcome = [c \in Conn |-> outcome[c]]
    /\ \A c \in Conn : Agrees(outcome[c], log, c) /\ Counts(req[c], outcome[c], log, c)

OutcomeInv == WorkTyped /\ ReqTyped /\ LogTyped /\ AnswersAgree

LEMMA AgreementIsTruth == AnswersAgree => OutcomeIsTrue
BY DEF AnswersAgree, Agrees, OutcomeIsTrue, Written, Since

\* An event of another writer is in no account of connection c; its own is.
LEMMA SinceAppended ==
  ASSUME NEW l \in Seq(LogShape), NEW e \in LogShape, NEW c, NEW n \in Nat
  PROVE  /\ e.conn # c => Since(Append(l, e), c, n) = Since(l, c, n)
         /\ e.conn = c /\ n <= Len(l) =>
              Since(Append(l, e), c, n) = Since(l, c, n) \cup {Len(l) + 1}
<1> DEFINE m == Append(l, e)
<1>1. /\ Len(l) \in Nat /\ Len(m) = Len(l) + 1 /\ m[Len(l) + 1] = e
      /\ \A i \in 1..Len(l) : m[i] = l[i]
  OBVIOUS
<1> HIDE DEF m
<1>2. \A i : i \in (n + 1)..Len(m) <=>
               \/ i \in (n + 1)..Len(l)
               \/ i = Len(l) + 1 /\ n <= Len(l)
  BY <1>1
<1>3. \A i \in (n + 1)..Len(l) : m[i] = l[i] /\ i # Len(l) + 1
  BY <1>1
<1>4. /\ e.conn # c => Since(m, c, n) = Since(l, c, n)
      /\ e.conn = c /\ n <= Len(l) => Since(m, c, n) = Since(l, c, n) \cup {Len(l) + 1}
  BY <1>1, <1>2, <1>3 DEF Since
<1> QED
  BY <1>4 DEF m

\* Nothing has been written since now.
LEMMA SinceNow ==
  ASSUME NEW l \in Seq(LogShape), NEW c
  PROVE  Since(l, c, Len(l)) = {}
<1>1. Len(l) \in Nat
  OBVIOUS
<1> QED
  BY <1>1 DEF Since

\* The log has grown by nothing, or by an event of connection c.
GrowsBy(c) == log' = log \/ \E e \in LogShape : log' = Append(log, e) /\ e.conn = c

\* The requests and the answers of all connections but c stand.
LEMMA OthersStand ==
  ASSUME OutcomeInv, NEW c, GrowsBy(c), NEW d \in Conn, d # c
  PROVE  Agrees(outcome[d], log', d) /\ Counts(req[d], outcome[d], log', d)
<1>1. /\ Agrees(outcome[d], log, d) /\ Counts(req[d], outcome[d], log, d)
      /\ log \in Seq(LogShape) /\ req[d].before \in Nat
  BY DEF OutcomeInv, AnswersAgree, LogTyped, ReqTyped, ReqShape
<1>2. CASE log' = log
  BY <1>1, <1>2
<1>3. ASSUME NEW e \in LogShape, log' = Append(log, e), e.conn = c
      PROVE  Agrees(outcome[d], log', d) /\ Counts(req[d], outcome[d], log', d)
  <2>1. \A n \in Nat : Since(log', d, n) = Since(log, d, n)
    BY <1>1, <1>3, SinceAppended
  <2>2. Len(log') = Len(log) + 1 /\ Len(log) \in Nat
    BY <1>1, <1>3
  <2>3. Since(log', d, req[d].before) = Since(log, d, req[d].before)
    BY <1>1, <2>1
  <2>4. Agrees(outcome[d], log', d)
    BY <1>1, <2>1 DEF Agrees
  <2>5. Counts(req[d], outcome[d], log', d)
    BY <1>1, <2>2, <2>3 DEF Counts
  <2> QED
    BY <2>4, <2>5
<1> QED
  BY <1>2, <1>3 DEF GrowsBy

\* So a step of one connection needs an account of that connection only.
LEMMA OneMoves ==
  ASSUME OutcomeInv, NEW c \in Conn, GrowsBy(c), NEW q, NEW o,
         req' = [req EXCEPT ![c] = q], outcome' = [outcome EXCEPT ![c] = o],
         Agrees(o, log', c), Counts(q, o, log', c)
  PROVE  AnswersAgree'
<1>1. outcome = [d \in Conn |-> outcome[d]] /\ DOMAIN req = Conn
  BY DEF OutcomeInv, AnswersAgree, ReqTyped
<1>2. ASSUME NEW d \in Conn
      PROVE  Agrees(outcome'[d], log', d) /\ Counts(req'[d], outcome'[d], log', d)
  <2>1. CASE d = c
    BY <1>1, <2>1
  <2>2. CASE d # c
    <3>1. req'[d] = req[d] /\ outcome'[d] = outcome[d]
      BY <1>1, <2>2
    <3> QED
      BY <2>2, <3>1, OthersStand
  <2> QED
    BY <2>1, <2>2
<1> QED
  BY <1>1, <1>2 DEF AnswersAgree

\* A caller told something that is true of the log, and its request over.
LEMMA ToldStep ==
  ASSUME OutcomeInv, NEW c \in Conn, GrowsBy(c), NEW what, NEW before, NEW receipt,
         Told(c, what, before, receipt),
         Agrees([told |-> what, before |-> before, receipt |-> receipt], log', c)
  PROVE  AnswersAgree'
<1> DEFINE o == [told |-> what, before |-> before, receipt |-> receipt]
<1>1. outcome' = [outcome EXCEPT ![c] = o] /\ req' = [req EXCEPT ![c] = Idle]
  BY DEF Told
<1>2. Agrees(o, log', c)
  OBVIOUS
<1> HIDE DEF o
<1>3. Counts(Idle, o, log', c)
  BY DEF Counts, Idle
<1> QED
  BY <1>1, <1>2, <1>3, OneMoves

\* A caller told that its request wrote nothing, when it has not.
LEMMA ToldNothing ==
  ASSUME OutcomeInv, NEW c \in Conn, UNCHANGED log, NEW what \in {"refused", "rejected", "failed"},
         NEW before \in Nat, Told(c, what, before, {}), Since(log, c, before) = {}
  PROVE  AnswersAgree'
<1>1. Agrees([told |-> what, before |-> before, receipt |-> {}], log', c)
  BY DEF Agrees
<1>2. GrowsBy(c)
  BY DEF GrowsBy
<1> QED
  BY <1>1, <1>2, ToldStep

\* The request of connection c, rejected by its operation before the append.
LEMMA Rejected ==
  ASSUME OutcomeInv, NEW c \in Conn, UNCHANGED log, req[c].phase \in {"begun", "enforced"}, Reject(c)
  PROVE  AnswersAgree'
<1>1. req[c].before \in Nat /\ Since(log, c, req[c].before) = {}
  BY DEF OutcomeInv, AnswersAgree, Counts, ReqTyped, ReqShape
<1> QED
  BY <1>1, ToldNothing DEF Reject

\* A request that goes from one phase to another, its client not told anything.
LEMMA PhaseMoves ==
  ASSUME OutcomeInv, NEW c \in Conn, GrowsBy(c), UNCHANGED outcome,
         req[c].phase \in {"begun", "enforced"},
         NEW phase \in {"begun", "enforced", "committed"},
         req' = [req EXCEPT ![c].phase = phase],
         phase = "committed" <=> log' # log
  PROVE  AnswersAgree'
<1> DEFINE q == [req[c] EXCEPT !.phase = phase]
           n == req[c].before
<1>1. /\ Agrees(outcome[c], log, c) /\ Counts(req[c], outcome[c], log, c)
      /\ outcome = [d \in Conn |-> outcome[d]] /\ log \in Seq(LogShape) /\ req[c] \in ReqShape /\ n \in Nat
  BY DEF OutcomeInv, AnswersAgree, LogTyped, ReqTyped, ReqShape
<1>2. q.phase = phase /\ q.before = n /\ req' = [req EXCEPT ![c] = q]
  BY <1>1 DEF ReqShape
<1>3. /\ outcome[c].told = "none" /\ outcome[c].receipt = {} /\ n <= Len(log)
      /\ Since(log, c, n) = {}
  BY <1>1 DEF Counts, Agrees
<1> HIDE DEF q, n
<1>4. Agrees(outcome[c], log', c)
  BY <1>1, <1>3 DEF Agrees
<1>5. Counts(q, outcome[c], log', c)
  <2>1. CASE log' = log
    BY <1>2, <1>3, <2>1 DEF Counts
  <2>2. ASSUME NEW e \in LogShape, log' = Append(log, e), e.conn = c, log' # log
        PROVE  Counts(q, outcome[c], log', c)
    <3>1. Since(log', c, n) = {Len(log) + 1} /\ Len(log') = Len(log) + 1 /\ Len(log) \in Nat
      BY <1>1, <1>3, <2>2, SinceAppended
    <3>2. n <= Len(log') /\ Len(log) + 1 \in Nat
      BY <1>1, <1>3, <3>1
    <3> QED
      BY <1>2, <1>3, <2>2, <3>1, <3>2 DEF Counts
  <2> QED
    BY <2>1, <2>2 DEF GrowsBy
<1>6. outcome' = [outcome EXCEPT ![c] = outcome[c]]
  BY <1>1
<1> QED
  BY <1>2, <1>4, <1>5, <1>6, OneMoves

\* The event that Persist appends is the connection's own.
LEMMA PersistGrows ==
  ASSUME OutcomeInv, NEW c \in Conn, Persist(c)
  PROVE  GrowsBy(c) /\ log' # log
<1>1. req[c].stream \in Stream \cup {"none"} /\ LogTyped
  BY DEF OutcomeInv, ReqTyped, ReqShape
<1>2. Event(req[c].stream, c) \in LogShape /\ Event(req[c].stream, c).conn = c
  BY <1>1, EventTyped
<1>3. log' = Append(log, Event(req[c].stream, c)) /\ log \in Seq(LogShape)
  BY <1>1 DEF Persist, LogTyped
<1>4. Len(log') = Len(log) + 1 /\ Len(log) \in Nat
  BY <1>2, <1>3
<1> QED
  BY <1>2, <1>3, <1>4 DEF GrowsBy

LEMMA OutcomeRequest ==
  ASSUME OutcomeInv, RequestStep
  PROVE  AnswersAgree'
<1>1. PICK c \in Conn :
        \/ RefuseReadOnly(c) \/ Enforce(c)
        \/ Commit(c) \/ CommitConflicts(c) \/ CommitFails(c)
        \/ \E u \in work.streams : BeginWrite(c, u) \/ BeginRead(c, u)
        \/ \E reread \in BOOLEAN : Reply(c, reread)
  BY DEF RequestStep
<1>2. /\ Len(log) \in Nat /\ log \in Seq(LogShape) /\ Since(log, c, Len(log)) = {}
      /\ req[c] \in ReqShape /\ req[c].before \in Nat /\ Counts(req[c], outcome[c], log, c)
  BY SinceNow DEF OutcomeInv, AnswersAgree, LogTyped, ReqTyped, ReqShape
<1>3. CASE RefuseReadOnly(c)
  BY <1>2, <1>3, ToldNothing DEF RefuseReadOnly
<1>4. CASE Enforce(c)
  <2>1. UNCHANGED log /\ req[c].phase = "begun" /\ GrowsBy(c)
    BY <1>4 DEF Enforce, GrowsBy
  <2>2. CASE Reject(c)
    BY <2>1, <2>2, Rejected
  <2>3. CASE req' = [req EXCEPT ![c].phase = "enforced"] /\ UNCHANGED outcome
    BY <2>1, <2>3, PhaseMoves
  <2> QED
    BY <1>4, <2>2, <2>3 DEF Enforce
<1>5. CASE Commit(c)
  <2>1. /\ req[c].phase = "enforced" /\ req' = [req EXCEPT ![c].phase = "committed"]
        /\ UNCHANGED outcome /\ Persist(c)
    BY <1>5 DEF Commit
  <2> QED
    BY <2>1, PersistGrows, PhaseMoves
<1>6. CASE CommitConflicts(c)
  <2>1. UNCHANGED log /\ req[c].phase = "enforced" /\ GrowsBy(c)
    BY <1>6 DEF CommitConflicts, GrowsBy
  <2>2. CASE Reject(c)
    BY <2>1, <2>2, Rejected
  <2>3. CASE req' = [req EXCEPT ![c].phase = "begun"] /\ UNCHANGED outcome
    BY <2>1, <2>3, PhaseMoves
  <2> QED
    BY <1>6, <2>2, <2>3 DEF CommitConflicts
<1>7. CASE CommitFails(c)
  <2>1. /\ req[c].phase = "enforced" /\ Told(c, "commit_failed", req[c].before, {})
        /\ Persist(c) \/ UNCHANGED log
    BY <1>7 DEF CommitFails
  <2>2. Since(log, c, req[c].before) = {} /\ req[c].before <= Len(log)
    BY <1>2, <2>1 DEF Counts
  <2>3. \A i, j \in Since(log', c, req[c].before) : i = j
    <3>1. CASE UNCHANGED log
      BY <2>2, <3>1
    <3>2. CASE Persist(c)
      <4>1. PICK e \in LogShape : log' = Append(log, e) /\ e.conn = c
        BY <3>2, PersistGrows DEF GrowsBy
      <4>2. Since(log', c, req[c].before) = {} \cup {Len(log) + 1}
        BY <1>2, <2>2, <4>1, SinceAppended
      <4> QED
        BY <4>2
    <3> QED
      BY <2>1, <3>1, <3>2
  <2>4. Agrees([told |-> "commit_failed", before |-> req[c].before, receipt |-> {}], log', c)
    BY <1>2, <2>3 DEF Agrees
  <2>5. GrowsBy(c)
    BY <2>1, PersistGrows DEF GrowsBy
  <2> QED
    BY <2>1, <2>4, <2>5, ToldStep
<1>8. ASSUME NEW reread \in BOOLEAN, Reply(c, reread)
      PROVE  AnswersAgree'
  <2> DEFINE receipt == IF reread /\ req[c].kind = "write"
                        THEN AcceptedEventsSince(req[c].before) ELSE {}
  <2>1. /\ req[c].phase = "committed" /\ UNCHANGED log /\ GrowsBy(c)
        /\ Told(c, "accepted", req[c].before, receipt)
    BY <1>8 DEF Reply, AnswerAfterCommit, GrowsBy
  <2>2. PICK i \in Nat : Since(log, c, req[c].before) = {i}
    BY <1>2, <2>1 DEF Counts
  <2>3. receipt # {} => Since(log, c, req[c].before) \subseteq receipt
    BY DEF AcceptedEventsSince, Since
  <2> HIDE DEF receipt
  <2>4. Agrees([told |-> "accepted", before |-> req[c].before, receipt |-> receipt], log', c)
    BY <1>2, <2>1, <2>2, <2>3 DEF Agrees
  <2> QED
    BY <2>1, <2>4, ToldStep
<1>9. ASSUME NEW u, NEW k, Begin(c, k, u)
      PROVE  AnswersAgree'
  <2> DEFINE q == [phase |-> "begun", kind |-> k, stream |-> u, before |-> Len(log)]
  <2>1. UNCHANGED log /\ GrowsBy(c)
    BY <1>9 DEF Begin, GrowsBy
  <2>2. CASE Told(c, "failed", Len(log), {})
    BY <1>2, <2>1, <2>2, ToldNothing
  <2>3. CASE req' = [req EXCEPT ![c] = q] /\ outcome' = [outcome EXCEPT ![c] = NoOutcome]
    <3>1. Agrees(NoOutcome, log', c)
      BY DEF Agrees, NoOutcome
    <3>2. Counts(q, NoOutcome, log', c)
      BY <1>2, <2>1 DEF Counts, NoOutcome
    <3> QED
      BY <2>1, <2>3, <3>1, <3>2, OneMoves
  <2> QED
    BY <1>9, <2>2, <2>3 DEF Begin
<1> QED
  BY <1>1, <1>3, <1>4, <1>5, <1>6, <1>7, <1>8, <1>9 DEF BeginWrite, BeginRead

\* A daemon that dies tells its callers only that it is gone.
LEMMA OutcomeProcess ==
  ASSUME OutcomeInv, ProcessStep
  PROVE  AnswersAgree'
<1>1. UNCHANGED log
  BY ProcessFrame
<1>2. CASE Crash
  <2>1. outcome' = [c \in Conn |-> outcome'[c]] /\ \A c \in Conn : req'[c] = Idle
    BY <1>2 DEF Crash
  <2>2. ASSUME NEW c \in Conn PROVE Agrees(outcome'[c], log', c)
    <3>1. CASE outcome'[c] = outcome[c]
      BY <1>1, <3>1 DEF OutcomeInv, AnswersAgree
    <3>2. CASE /\ req[c].phase # "idle" /\ req[c].kind = "write"
               /\ outcome'[c] = [told |-> "lost", before |-> req[c].before, receipt |-> {}]
      <4>1. req[c] \in ReqShape /\ req[c].before \in Nat /\ Counts(req[c], outcome[c], log, c)
        BY DEF OutcomeInv, AnswersAgree, ReqTyped, ReqShape
      <4>2. req[c].phase \in {"begun", "enforced", "committed"}
        BY <3>2, <4>1 DEF OutcomeInv, ReqTyped, ReqShape, Counts
      <4>3. \A i, j \in Since(log, c, req[c].before) : i = j
        BY <4>1, <4>2 DEF Counts
      <4> QED
        BY <1>1, <3>2, <4>1, <4>3 DEF Agrees
    <3> QED
      BY <1>2, <3>1, <3>2 DEF Crash
  <2>3. \A c \in Conn : Counts(req'[c], outcome'[c], log', c)
    BY <2>1 DEF Counts, Idle
  <2> QED
    BY <2>1, <2>2, <2>3 DEF AnswersAgree
<1>3. CASE UNCHANGED <<req, outcome>>
  BY <1>1, <1>3 DEF OutcomeInv, AnswersAgree
<1>4. ASSUME NEW c \in Conn, Connect(c) PROVE AnswersAgree'
  <2>1. /\ req' = [req EXCEPT ![c] = req[c]] /\ outcome' = [outcome EXCEPT ![c] = NoOutcome]
        /\ GrowsBy(c)
    BY <1>1, <1>4 DEF Connect, OutcomeInv, ReqTyped, GrowsBy
  <2>2. Agrees(NoOutcome, log', c)
    BY DEF Agrees, NoOutcome
  <2>3. Counts(req[c], NoOutcome, log', c)
    BY <1>1 DEF Counts, NoOutcome, OutcomeInv, AnswersAgree
  <2> QED
    BY <2>1, <2>2, <2>3, OneMoves
<1> QED
  BY <1>2, <1>3, <1>4 DEF ProcessStep, StartDaemon

\* A subscribe is a request that commits nothing.
LEMMA OutcomeSubscription ==
  ASSUME OutcomeInv, SubscriptionStep
  PROVE  AnswersAgree'
<1>1. UNCHANGED <<log, outcome>>
  BY SubscriptionFrame
<1>2. PICK c \in Conn : \/ SubscribeInsert(c)
                       \/ \E u \in work.streams : SubscribeHead(c, u) \/ HandleUnsubscribe(c, u)
  BY DEF SubscriptionStep
<1>3. ASSUME NEW q, req' = [req EXCEPT ![c] = q], q.phase \in {"idle", "head"},
             q.phase = "head" => q.before <= Len(log) /\ q.kind # "write"
      PROVE  AnswersAgree'
  <2>1. /\ Agrees(outcome[c], log', c) /\ outcome' = [outcome EXCEPT ![c] = outcome[c]]
        /\ GrowsBy(c)
    BY <1>1 DEF OutcomeInv, AnswersAgree, GrowsBy
  <2>2. Counts(q, outcome[c], log', c)
    BY <1>1, <1>3 DEF Counts
  <2> QED
    BY <1>3, <2>1, <2>2, OneMoves
<1>4. CASE SubscribeInsert(c)
  <2>1. req' = [req EXCEPT ![c] = Idle] /\ Idle.phase = "idle"
    BY <1>4 DEF SubscribeInsert, Idle
  <2> QED
    BY <1>3, <2>1
<1>5. ASSUME NEW u, SubscribeHead(c, u) PROVE AnswersAgree'
  <2> DEFINE q == [phase |-> "head", kind |-> "subscribe", stream |-> u, before |-> Len(log)]
  <2>1. req' = [req EXCEPT ![c] = q]
    BY <1>5 DEF SubscribeHead
  <2>2. q.phase = "head" /\ q.before <= Len(log) /\ q.kind # "write"
    BY DEF OutcomeInv, LogTyped
  <2> HIDE DEF q
  <2> QED
    BY <1>3, <2>1, <2>2
<1>6. ASSUME NEW u, HandleUnsubscribe(c, u) PROVE AnswersAgree'
  BY <1>1, <1>6 DEF HandleUnsubscribe, OutcomeInv, AnswersAgree
<1> QED
  BY <1>2, <1>4, <1>5, <1>6

\* A local writer is none of the connections.
LEMMA OutcomeLocal ==
  ASSUME OutcomeInv, LocalStep
  PROVE  AnswersAgree'
<1>1. PICK u \in work.streams : EnvWrite(u)
  BY LocalFrame
<1>2. UNCHANGED <<req, outcome>> /\ log' = Append(log, Event(u, Local)) /\ u \in Stream
  BY <1>1, StreamsOfWork DEF EnvWrite, OutcomeInv
<1>3. Event(u, Local) \in LogShape /\ Event(u, Local).conn = Local
  BY <1>2, EventTyped DEF OutcomeInv
<1>4. GrowsBy(Local) /\ \A c \in Conn : c # Local
  BY <1>2, <1>3, DaemonAssumption DEF GrowsBy
<1>5. \A c \in Conn : Agrees(outcome[c], log', c) /\ Counts(req[c], outcome[c], log', c)
  BY <1>4, OthersStand
<1> QED
  BY <1>2, <1>5 DEF AnswersAgree, OutcomeInv

LEMMA OutcomeStep == OutcomeInv /\ [Next]_vars => OutcomeInv'
<1> SUFFICES ASSUME OutcomeInv, [Next]_vars PROVE OutcomeInv'
  OBVIOUS
<1>1. WorkTyped' /\ ReqTyped' /\ LogTyped'
  BY ReqStep, LogSteps DEF OutcomeInv
<1>2. CASE UNCHANGED <<log, req, outcome>>
  BY <1>1, <1>2 DEF OutcomeInv, AnswersAgree
<1> QED
  BY <1>1, <1>2, OutcomeProcess, OutcomeSubscription, OutcomeRequest, OutcomeLocal,
     HandshakeFrame, OperatorFrame, NotifierFrame DEF Next, vars, OutcomeInv

\* run_write_tool and map_tool_reply: with daemons that die, loads, appends and
\* re-reads that fail, a client told "accepted" has its event in the log, one told
\* that nothing was written has none there, and none is there twice.
THEOREM ClientsAreToldTheTruth == Spec => []OutcomeIsTrue
<1>1. Init => OutcomeInv
  BY BaseInit DEF Init, OutcomeInv, AnswersAgree, Agrees, Counts, NoOutcome, Idle
<1>2. OutcomeInv => OutcomeIsTrue
  BY AgreementIsTruth DEF OutcomeInv
<1> QED
  BY <1>1, <1>2, OutcomeStep, PTL DEF Spec

-----------------------------------------------------------------------------
(* Notifications.                                                           *)

\* daemon_notifier_loop: no event a client is owed is behind the baseline, where
\* no later poll looks; so the next poll that gets through reports it.  This is
\* the safety half of NotifiesInTheEnd.
NothingPassedOver ==
    \A c \in Conn : \A i \in owed[c] : i > sub[c].seen /\ log[i].stream \in sub[c].uris

Uri == Stream \cup {"none"}
SubShape == [uris: SUBSET Uri, seen: Int]
PollShape == [phase: {"idle", "copied", "loaded"}, uris: SUBSET Uri, seen: Int, head: Int]

\* One connection's subscription s, poll p and owed events o, over log l.
\* A subscriber has a baseline, and no baseline is ahead of the log.
BaselineIsBehind(s, l) ==
    NoBaseline <= s.seen /\ s.seen <= Len(l) /\ (s.uris # {} => s.seen >= 0)

\* Nothing owed is behind the baseline.
OwedIsAhead(s, o, l) == \A i \in o : i > s.seen /\ l[i].stream \in s.uris

\* A poll under way will report everything owed that it has read.
PollWillReport(p, o, l) ==
    p.phase # "idle" =>
        /\ 0 <= p.seen /\ p.seen <= Len(l)
        /\ p.phase = "loaded" => p.seen <= p.head /\ p.head <= Len(l)
        /\ \A i \in o : /\ i > p.seen
                        /\ p.phase = "copied" \/ i <= p.head => l[i].stream \in p.uris

Accounts(s, p, o, l) ==
    /\ s \in SubShape /\ p \in PollShape /\ o \in SUBSET (1..Len(l))
    /\ BaselineIsBehind(s, l) /\ OwedIsAhead(s, o, l) /\ PollWillReport(p, o, l)

NotifierInv ==
    /\ OutcomeInv
    /\ DOMAIN sub = Conn /\ DOMAIN poll = Conn /\ DOMAIN owed = Conn
    /\ \A c \in Conn : Accounts(sub[c], poll[c], owed[c], log)

LEMMA AccountsAnew ==
  ASSUME NEW l \in Seq(LogShape) PROVE Accounts(NoSubscription, PollIdle, {}, l)
<1>1. NoSubscription \in SubShape /\ PollIdle \in PollShape
  BY DEF NoSubscription, PollIdle, SubShape, PollShape, NoBaseline
<1> QED
  BY <1>1 DEF Accounts, BaselineIsBehind, OwedIsAhead, PollWillReport, NoSubscription, PollIdle,
              NoBaseline

\* An append is owed to a subscriber, except in the window of a poll that copied
\* the record before the subscription.
LEMMA AccountsAppend ==
  ASSUME NEW l \in Seq(LogShape), NEW e \in LogShape, NEW s, NEW p, NEW o, NEW o2,
         Accounts(s, p, o, l),
         o2 = IF e.stream \in s.uris /\ ~(p.phase = "copied" /\ e.stream \notin p.uris)
              THEN o \cup {Len(l) + 1} ELSE o
  PROVE  Accounts(s, p, o2, Append(l, e))
<1> DEFINE m == Append(l, e)
<1>1. /\ Len(l) \in Nat /\ Len(m) = Len(l) + 1 /\ m[Len(l) + 1] = e
      /\ \A i \in 1..Len(l) : m[i] = l[i]
  OBVIOUS
<1> HIDE DEF m
<1>2. /\ s.seen \in Int /\ p.seen \in Int /\ p.head \in Int /\ o \subseteq 1..Len(l)
      /\ p.phase \in {"idle", "copied", "loaded"}
  BY DEF Accounts, SubShape, PollShape
<1>3. o2 \in SUBSET (1..Len(m)) /\ BaselineIsBehind(s, m)
  <2>1. o2 \subseteq o \cup {Len(l) + 1}
    OBVIOUS
  <2>2. 1..Len(l) \subseteq 1..Len(m) /\ Len(l) + 1 \in 1..Len(m)
    BY <1>1
  <2>3. o2 \subseteq 1..Len(m)
    BY <1>2, <2>1, <2>2
  <2>4. NoBaseline <= s.seen /\ s.seen <= Len(l) /\ (s.uris # {} => s.seen >= 0)
    BY DEF Accounts, BaselineIsBehind
  <2>5. s.seen <= Len(m)
    BY <1>1, <1>2, <2>4
  <2> QED
    BY <2>3, <2>4, <2>5 DEF BaselineIsBehind
<1>4. OwedIsAhead(s, o2, m)
  <2> SUFFICES ASSUME NEW i \in o2 PROVE i > s.seen /\ m[i].stream \in s.uris
    BY DEF OwedIsAhead
  <2>1. CASE i \in o
    BY <1>1, <1>2, <2>1 DEF Accounts, OwedIsAhead
  <2>2. CASE i \notin o
    BY <1>1, <1>2, <2>2 DEF Accounts, BaselineIsBehind
  <2> QED
    BY <2>1, <2>2
<1>5. PollWillReport(p, o2, m)
  <2> SUFFICES ASSUME p.phase # "idle"
               PROVE  /\ 0 <= p.seen /\ p.seen <= Len(m)
                      /\ p.phase = "loaded" => p.seen <= p.head /\ p.head <= Len(m)
                      /\ \A i \in o2 :
                           /\ i > p.seen
                           /\ p.phase = "copied" \/ i <= p.head => m[i].stream \in p.uris
    BY DEF PollWillReport
  <2>1. /\ 0 <= p.seen /\ p.seen <= Len(l)
        /\ p.phase = "loaded" => p.seen <= p.head /\ p.head <= Len(l)
        /\ \A i \in o : /\ i > p.seen
                        /\ p.phase = "copied" \/ i <= p.head => l[i].stream \in p.uris
    BY DEF Accounts, PollWillReport
  <2>2. ASSUME NEW i \in o2
        PROVE  /\ i > p.seen
               /\ p.phase = "copied" \/ i <= p.head => m[i].stream \in p.uris
    <3>1. CASE i \in o
      BY <1>1, <1>2, <2>1, <3>1
    <3>2. CASE i \notin o
      <4>1. i = Len(l) + 1 /\ ~(p.phase = "copied" /\ e.stream \notin p.uris)
        BY <3>2
      <4> QED
        BY <1>1, <1>2, <2>1, <4>1
    <3> QED
      BY <3>1, <3>2
  <2> QED
    BY <1>1, <1>2, <2>1, <2>2
<1> QED
  BY <1>3, <1>4, <1>5 DEF Accounts, m

\* The first subscription pins the baseline at a head the log has passed.
LEMMA AccountsSubscribe ==
  ASSUME NEW l \in Seq(LogShape), NEW s, NEW p, NEW o, Accounts(s, p, o, l),
         NEW u \in Uri, NEW head \in Nat, head <= Len(l)
  PROVE  Accounts(Subscribe(s, u, head), p, o, l)
<1> DEFINE t == Subscribe(s, u, head)
<1>1. s.seen \in Int /\ s.uris \subseteq Uri /\ Len(l) \in Nat
  BY DEF Accounts, SubShape
<1>2. t.uris = s.uris \cup {u} /\ t.seen = IF s.seen = NoBaseline THEN head ELSE s.seen
  BY DEF Subscribe
<1>3. t \in SubShape
  BY <1>1 DEF Subscribe, SubShape
<1> HIDE DEF t
<1>4. s.seen >= 0 \/ s.seen = NoBaseline
  BY <1>1 DEF Accounts, BaselineIsBehind, NoBaseline
<1>5. s.seen = NoBaseline => o = {}
  BY <1>1 DEF Accounts, BaselineIsBehind, OwedIsAhead, NoBaseline
<1> QED
  BY <1>1, <1>2, <1>3, <1>4, <1>5 DEF t, Accounts, BaselineIsBehind, OwedIsAhead, NoBaseline

LEMMA AccountsUnsubscribe ==
  ASSUME NEW l \in Seq(LogShape), NEW s, NEW p, NEW o, Accounts(s, p, o, l), NEW u
  PROVE  Accounts(Unsubscribe(s, u), p, {i \in o : l[i].stream # u}, l)
<1> DEFINE t == Unsubscribe(s, u)
           q == {i \in o : l[i].stream # u}
<1>1. s.seen \in Int /\ s.uris \subseteq Uri /\ Len(l) \in Nat /\ q \subseteq o
  BY DEF Accounts, SubShape
<1>2. t.uris = s.uris \ {u} /\ t.seen = IF t.uris = {} THEN NoBaseline ELSE s.seen
  BY DEF Unsubscribe
<1>3. t \in SubShape
  BY <1>1 DEF Unsubscribe, SubShape, NoBaseline
<1>4. \A i \in q : l[i].stream \in t.uris /\ i > s.seen
  BY <1>2 DEF Accounts, OwedIsAhead
<1> HIDE DEF t, q
<1>5. BaselineIsBehind(t, l) /\ OwedIsAhead(t, q, l)
  BY <1>1, <1>2, <1>4 DEF Accounts, BaselineIsBehind, OwedIsAhead, NoBaseline
<1>6. PollWillReport(p, q, l) /\ q \in SUBSET (1..Len(l))
  BY <1>1 DEF Accounts, PollWillReport
<1>7. Accounts(t, p, q, l)
  BY <1>3, <1>5, <1>6 DEF Accounts
<1> QED
  BY <1>7 DEF t, q

LEMMA AccountsCopy ==
  ASSUME NEW l \in Seq(LogShape), NEW s, NEW p, NEW o, Accounts(s, p, o, l), s.uris # {}
  PROVE  Accounts(s, [phase |-> "copied", uris |-> s.uris, seen |-> s.seen, head |-> 0], o, l)
<1> DEFINE q == [phase |-> "copied", uris |-> s.uris, seen |-> s.seen, head |-> 0]
<1>1. q \in PollShape
  BY DEF Accounts, SubShape, PollShape
<1>2. PollWillReport(q, o, l)
  BY DEF Accounts, PollWillReport, OwedIsAhead, BaselineIsBehind
<1> QED
  BY <1>1, <1>2 DEF Accounts

LEMMA PollLoaded ==
  ASSUME NEW p \in PollShape, NEW n \in Nat
  PROVE  [p EXCEPT !.phase = "loaded", !.head = n] \in PollShape
<1>1. [p EXCEPT !.phase = "loaded"] \in PollShape
  BY DEF PollShape
<1>2. ASSUME NEW r \in PollShape PROVE [r EXCEPT !.head = n] \in PollShape
  BY DEF PollShape
<1> QED
  BY <1>1, <1>2

LEMMA AccountsLoad ==
  ASSUME NEW l \in Seq(LogShape), NEW s, NEW p, NEW o, Accounts(s, p, o, l), p.phase = "copied"
  PROVE  Accounts(s, [p EXCEPT !.phase = "loaded", !.head = Len(l)], o, l)
<1> DEFINE q == [p EXCEPT !.phase = "loaded", !.head = Len(l)]
<1>1. p \in PollShape /\ Len(l) \in Nat
  BY DEF Accounts
<1>2. q.phase = "loaded" /\ q.head = Len(l) /\ q.seen = p.seen /\ q.uris = p.uris
  BY <1>1 DEF PollShape
<1>3. q \in PollShape
  BY <1>1, PollLoaded
<1> HIDE DEF q
<1>4. PollWillReport(q, o, l)
  <2>1. /\ 0 <= p.seen /\ p.seen <= Len(l)
        /\ \A i \in o : i > p.seen /\ l[i].stream \in p.uris
    BY DEF Accounts, PollWillReport
  <2> QED
    BY <1>1, <1>2, <2>1 DEF PollWillReport
<1> QED
  BY <1>3, <1>4 DEF Accounts, q

LEMMA AccountsSkip ==
  ASSUME NEW l \in Seq(LogShape), NEW s, NEW p, NEW o, Accounts(s, p, o, l)
  PROVE  Accounts(s, PollIdle, o, l)
<1>1. PollIdle \in PollShape
  BY DEF PollIdle, PollShape, NoBaseline
<1> QED
  BY <1>1 DEF Accounts, PollWillReport, PollIdle

\* A poll that moves the baseline has reported every owed event it moves it past.
LEMMA AccountsSettle ==
  ASSUME NEW l \in Seq(LogShape), NEW s, NEW p, NEW o, Accounts(s, p, o, l), p.phase = "loaded"
  PROVE  Accounts([s EXCEPT !.seen = p.head], PollIdle, o \ Changed(p, l), l)
<1> DEFINE t == [s EXCEPT !.seen = p.head]
           q == o \ Changed(p, l)
<1>1. /\ s \in SubShape /\ p \in PollShape /\ Len(l) \in Nat /\ o \in SUBSET (1..Len(l))
      /\ p.seen \in Int /\ p.head \in Int
  BY DEF Accounts, PollShape
<1>2. t \in SubShape /\ t.seen = p.head /\ t.uris = s.uris
  BY <1>1 DEF SubShape
<1>3. /\ 0 <= p.seen /\ p.seen <= p.head /\ p.head <= Len(l)
      /\ \A i \in o : i > p.seen /\ (i <= p.head => l[i].stream \in p.uris)
  BY DEF Accounts, PollWillReport
<1>4. \A i \in q : i \in o /\ i > p.head
  <2> SUFFICES ASSUME NEW i \in o, i \notin Changed(p, l), ~(i > p.head) PROVE FALSE
    OBVIOUS
  <2>1. i \in Int /\ i <= p.head /\ i > p.seen /\ l[i].stream \in p.uris
    BY <1>1, <1>3
  <2>2. i \in (p.seen + 1)..p.head
    BY <1>1, <2>1
  <2> QED
    BY <1>1, <1>3, <2>1, <2>2 DEF Changed, NoBaseline
<1> HIDE DEF t, q
<1>5. BaselineIsBehind(t, l)
  BY <1>1, <1>2, <1>3 DEF BaselineIsBehind, NoBaseline
<1>6. OwedIsAhead(t, q, l)
  BY <1>2, <1>4 DEF Accounts, OwedIsAhead
<1>7. PollIdle \in PollShape /\ PollWillReport(PollIdle, q, l)
  BY DEF PollIdle, PollShape, NoBaseline, PollWillReport
<1>8. Accounts(t, PollIdle, q, l)
  BY <1>1, <1>2, <1>4, <1>5, <1>6, <1>7 DEF Accounts
<1> QED
  BY <1>8 DEF t, q

LEMMA NotifierAppend ==
  ASSUME NotifierInv, OutcomeInv', NEW e \in LogShape, log' = Append(log, e), Owe(e.stream),
         UNCHANGED <<sub, poll>>
  PROVE  NotifierInv'
<1>1. log \in Seq(LogShape)
  BY DEF NotifierInv, OutcomeInv, LogTyped
<1>2. /\ DOMAIN owed' = Conn
      /\ \A c \in Conn :
           owed'[c] = IF e.stream \in sub[c].uris
                         /\ ~(poll[c].phase = "copied" /\ e.stream \notin poll[c].uris)
                      THEN owed[c] \cup {Len(log) + 1} ELSE owed[c]
  BY DEF Owe, InPollWindow
<1>3. ASSUME NEW c \in Conn PROVE Accounts(sub'[c], poll'[c], owed'[c], log')
  <2>1. Accounts(sub[c], poll[c], owed[c], log)
    BY DEF NotifierInv
  <2>2. Accounts(sub[c], poll[c], owed'[c], Append(log, e))
    BY <1>1, <1>2, <2>1, AccountsAppend
  <2> QED
    BY <2>2
<1> QED
  BY <1>2, <1>3 DEF NotifierInv

LEMMA NotifierStays ==
  ASSUME NotifierInv, OutcomeInv', UNCHANGED <<log, notifierVars>> PROVE NotifierInv'
BY DEF NotifierInv, notifierVars

LEMMA NotifierPolls ==
  ASSUME NotifierInv, OutcomeInv', NotifierStep PROVE NotifierInv'
<1>1. PICK c \in Conn : PollCopy(c) \/ PollLoad(c) \/ PollSkip(c) \/ PollSettle(c)
  BY DEF NotifierStep
<1>2. /\ Accounts(sub[c], poll[c], owed[c], log) /\ log \in Seq(LogShape) /\ UNCHANGED log
      /\ DOMAIN sub = Conn /\ DOMAIN poll = Conn /\ DOMAIN owed = Conn
  BY NotifierFrame DEF NotifierInv, OutcomeInv, LogTyped
<1>3. CASE PollCopy(c)
  <2> DEFINE p == [phase |-> "copied", uris |-> sub[c].uris, seen |-> sub[c].seen, head |-> 0]
  <2>1. Accounts(sub[c], p, owed[c], log)
    BY <1>2, <1>3, AccountsCopy DEF PollCopy
  <2>2. poll' = [poll EXCEPT ![c] = p] /\ UNCHANGED <<sub, owed>>
    BY <1>3 DEF PollCopy
  <2> HIDE DEF p
  <2> QED
    BY <1>2, <2>1, <2>2 DEF NotifierInv
<1>4. CASE PollLoad(c)
  <2> DEFINE p == [poll[c] EXCEPT !.phase = "loaded", !.head = Len(log)]
  <2>1. Accounts(sub[c], p, owed[c], log)
    BY <1>2, <1>4, AccountsLoad DEF PollLoad
  <2>2. poll' = [poll EXCEPT ![c] = p] /\ UNCHANGED <<sub, owed>>
    BY <1>4 DEF PollLoad
  <2> HIDE DEF p
  <2> QED
    BY <1>2, <2>1, <2>2 DEF NotifierInv
<1>5. CASE PollSkip(c)
  <2>1. Accounts(sub[c], PollIdle, owed[c], log)
    BY <1>2, AccountsSkip
  <2>2. poll' = [poll EXCEPT ![c] = PollIdle] /\ UNCHANGED <<sub, owed>>
    BY <1>5 DEF PollSkip
  <2> QED
    BY <1>2, <2>1, <2>2 DEF NotifierInv
<1>6. CASE PollSettle(c)
  <2> DEFINE s == [sub[c] EXCEPT !.seen = poll[c].head]
             o == owed[c] \ Changed(poll[c], log)
  <2>1. Accounts(s, PollIdle, o, log)
    BY <1>2, <1>6, AccountsSettle DEF PollSettle
  <2>2. /\ sub' = [sub EXCEPT ![c] = s] /\ owed' = [owed EXCEPT ![c] = o]
        /\ poll' = [poll EXCEPT ![c] = PollIdle]
    BY <1>6 DEF PollSettle
  <2> HIDE DEF s, o
  <2> QED
    BY <1>2, <2>1, <2>2 DEF NotifierInv
<1> QED
  BY <1>1, <1>3, <1>4, <1>5, <1>6

LEMMA NotifierSubscription ==
  ASSUME NotifierInv, OutcomeInv', SubscriptionStep PROVE NotifierInv'
<1>1. PICK c \in Conn :
        SubscribeInsert(c) \/ \E u \in work.streams : SubscribeHead(c, u) \/ HandleUnsubscribe(c, u)
  BY DEF SubscriptionStep
<1>2. /\ Accounts(sub[c], poll[c], owed[c], log) /\ log \in Seq(LogShape) /\ UNCHANGED log
      /\ DOMAIN sub = Conn /\ DOMAIN poll = Conn /\ DOMAIN owed = Conn
  BY SubscriptionFrame DEF NotifierInv, OutcomeInv, LogTyped
<1>3. CASE SubscribeInsert(c)
  <2> DEFINE s == Subscribe(sub[c], req[c].stream, req[c].before)
  <2>1. req[c].stream \in Uri /\ req[c].before \in Nat
    BY DEF NotifierInv, OutcomeInv, ReqTyped, ReqShape, Uri
  <2>2. req[c].before <= Len(log)
    BY <1>3 DEF SubscribeInsert, NotifierInv, OutcomeInv, AnswersAgree, Counts
  <2>3. Accounts(s, poll[c], owed[c], log)
    BY <1>2, <2>1, <2>2, AccountsSubscribe
  <2>4. sub' = [sub EXCEPT ![c] = s] /\ UNCHANGED <<poll, owed>>
    BY <1>3 DEF SubscribeInsert
  <2> HIDE DEF s
  <2> QED
    BY <1>2, <2>3, <2>4 DEF NotifierInv
<1>4. ASSUME NEW u, SubscribeHead(c, u) PROVE NotifierInv'
  BY <1>4, NotifierStays DEF SubscribeHead
<1>5. ASSUME NEW u, HandleUnsubscribe(c, u) PROVE NotifierInv'
  <2> DEFINE s == Unsubscribe(sub[c], u)
             o == {i \in owed[c] : log[i].stream # u}
  <2>1. Accounts(s, poll[c], o, log)
    BY <1>2, AccountsUnsubscribe
  <2>2. sub' = [sub EXCEPT ![c] = s] /\ owed' = [owed EXCEPT ![c] = o] /\ UNCHANGED poll
    BY <1>5 DEF HandleUnsubscribe
  <2> HIDE DEF s, o
  <2> QED
    BY <1>2, <2>1, <2>2 DEF NotifierInv
<1> QED
  BY <1>1, <1>3, <1>4, <1>5

LEMMA NotifierStepKeeps == NotifierInv /\ [Next]_vars => NotifierInv'
<1> SUFFICES ASSUME NotifierInv, [Next]_vars PROVE NotifierInv'
  OBVIOUS
<1>1. OutcomeInv /\ OutcomeInv' /\ log \in Seq(LogShape)
  BY OutcomeStep DEF NotifierInv, OutcomeInv, LogTyped
<1>2. CASE UNCHANGED <<log, notifierVars>>
  BY <1>1, <1>2, NotifierStays
<1>3. ASSUME NEW u \in Uri, NEW w \in Conn \cup {Local}, log' = Append(log, Event(u, w)), Owe(u),
             UNCHANGED <<sub, poll>>
      PROVE  NotifierInv'
  <2>1. Event(u, w) \in LogShape /\ Event(u, w).stream = u
    BY <1>1, EventTyped DEF OutcomeInv, Uri, Event
  <2> QED
    BY <1>1, <1>3, <2>1, NotifierAppend
<1>4. CASE LocalStep
  <2>1. PICK u \in work.streams : EnvWrite(u)
    BY <1>4, LocalFrame
  <2>2. u \in Uri
    BY <1>1, StreamsOfWork DEF OutcomeInv, Uri
  <2> QED
    BY <1>3, <2>1, <2>2 DEF EnvWrite
<1>5. CASE Crash
  <2>1. /\ UNCHANGED log /\ DOMAIN sub' = Conn /\ DOMAIN poll' = Conn /\ DOMAIN owed' = Conn
        /\ \A c \in Conn : sub'[c] = NoSubscription /\ poll'[c] = PollIdle /\ owed'[c] = {}
    BY <1>5 DEF Crash
  <2> QED
    BY <1>1, <2>1, AccountsAnew DEF NotifierInv
<1>6. CASE ProcessStep /\ ~Crash
  BY <1>1, <1>6, NotifierStays DEF ProcessStep, StartDaemon, Connect
<1>7. CASE RequestStep
  <2>1. ASSUME NEW c \in Conn, Persist(c), UNCHANGED <<sub, poll>> PROVE NotifierInv'
    <3>1. req[c].stream \in Uri
      BY <1>1 DEF OutcomeInv, ReqTyped, ReqShape, Uri
    <3> QED
      BY <1>3, <2>1, <3>1 DEF Persist
  <2>2. \/ \E c \in Conn : Persist(c) /\ UNCHANGED <<sub, poll>>
        \/ UNCHANGED <<log, notifierVars>>
    BY <1>7 DEF RequestStep, RefuseReadOnly, Enforce, Commit, CommitConflicts, CommitFails,
                BeginWrite, BeginRead, Begin, Reply, notifierVars
  <2> QED
    BY <1>2, <2>1, <2>2
<1> QED
  BY <1>1, <1>2, <1>4, <1>5, <1>6, <1>7, NotifierPolls, NotifierSubscription, HandshakeFrame,
     OperatorFrame DEF Next, vars, notifierVars

\* daemon_notifier_loop against writers, subscribers, unreadable stores and a
\* daemon that dies: no poll moves the baseline past an event the client is owed.
THEOREM NoPollPassesAnEvent == Spec => []NothingPassedOver
<1>1. Init => NotifierInv
  <2> SUFFICES ASSUME Init PROVE NotifierInv
    OBVIOUS
  <2>1. OutcomeInv
    BY BaseInit DEF Init, OutcomeInv, AnswersAgree, Agrees, Counts, NoOutcome, Idle
  <2>2. log \in Seq(LogShape)
    BY <2>1 DEF OutcomeInv, LogTyped
  <2> QED
    BY <2>1, <2>2, AccountsAnew DEF Init, NotifierInv
<1>2. NotifierInv => NothingPassedOver
  BY DEF NotifierInv, Accounts, OwedIsAhead, NothingPassedOver
<1> QED
  BY <1>1, <1>2, NotifierStepKeeps, PTL DEF Spec
=============================================================================
