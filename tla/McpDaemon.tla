------------------------------ MODULE McpDaemon ------------------------------
(***************************************************************************)
(* The MCP daemon (crates/dent8-cli/src/mcp.rs), its blocking client        *)
(* (mcp_client.rs) and the identity files they share.  Each connection has  *)
(* a handshake state owned by its request loop, at most one request in      *)
(* flight, and a notifier.  A write is several steps: the access gate and   *)
(* the read of the log before it, enforce_write on files re-read for this   *)
(* write, attestation and append, and the reply.  An append may fail before *)
(* or after its one event landed (batches of several, and the part of one   *)
(* that a file may keep, are in ConcurrentWriters).  An operator may revoke *)
(* or rotate the source's grant, another process may write, and the daemon  *)
(* may die, between any two of them.                                        *)
(***************************************************************************)
EXTENDS ResourceSubscription, FiniteSets

CONSTANTS Conn,        \* client connections
          Workloads,   \* [kinds, streams, backend] records
          MaxEvents,   \* bound on the log
          MaxNonces,   \* bound on challenges issued
          MaxKeys,     \* bound on source keys (first key and rotations)
          Ttl          \* SESSION_CHALLENGE_TTL_MS, in ticks

Local == "local"       \* a writer that is not a connection of this daemon
Kind == {"hello", "prove", "write", "read", "subscribe", "unsubscribe"}

ASSUME DaemonAssumption ==
    /\ Local \notin Conn
    /\ Workloads \subseteq [kinds: [Conn \cup {Local} -> SUBSET Kind],
                            streams: SUBSET Stream, backend: {"file", "database"}]
    /\ MaxEvents \in Nat /\ MaxNonces \in Nat /\ MaxKeys \in Nat \ {0} /\ Ttl \in Nat

VARIABLES work,        \* the workload of this behaviour
          key,         \* the source's key and grant, as a rotation count
          active,      \* whether active-grants.json names that grant
          log,         \* the event store
          serving,     \* the daemon process is alive
          session,     \* HandshakeState of each connection
          issued,      \* the connection each nonce was issued to
          answers,     \* prove frames evaluated against each nonce
          sigs,        \* session-challenge signatures made so far
          req,         \* the request in flight on each connection
          outcome,     \* what the client was last told, of which request
          sub, poll,   \* subscription record and notifier of each connection
          owed         \* events each client is still owed a notification of

identityVars == <<key, active>>
handshakeVars == <<session, issued, answers, sigs>>
notifierVars == <<sub, poll, owed>>
vars == <<work, key, active, log, serving, session, issued, answers, sigs,
          req, outcome, sub, poll, owed>>

NoNonce == 0

\* HandshakeState.  Challenged keeps the nonce, the key of the verified hello
\* and how long ago it was issued; Authenticated keeps the identity paths, and
\* here also the signature that proved possession.
Closed == [state |-> "closed", nonce |-> NoNonce, key |-> 0, age |-> 0]
Fresh == [Closed EXCEPT !.state = "fresh"]
Failed == [Closed EXCEPT !.state = "failed"]
Challenged(n, k) == [state |-> "challenged", nonce |-> n, key |-> k, age |-> 0]
Authenticated(sig) == [state |-> "authenticated", nonce |-> sig.nonce,
                       key |-> sig.key, age |-> 0]

Idle == [phase |-> "idle", kind |-> "none", stream |-> "none", before |-> 0]

\* An answer keeps the length of the log its request began on.
NoOutcome == [told |-> "none", before |-> 0, receipt |-> {}]

Init ==
    /\ work \in Workloads
    /\ key = 1 /\ active = TRUE
    /\ log = <<>>
    /\ serving = FALSE
    /\ session = [c \in Conn |-> Closed]
    /\ issued = <<>> /\ answers = <<>> /\ sigs = {}
    /\ req = [c \in Conn |-> Idle]
    /\ outcome = [c \in Conn |-> NoOutcome]
    /\ sub = [c \in Conn |-> NoSubscription]
    /\ poll = [c \in Conn |-> PollIdle]
    /\ owed = [c \in Conn |-> {}]

-----------------------------------------------------------------------------
(* The daemon process and its connections.                                  *)

\* serve_daemon: prepare_socket_path clears the stale socket, then the accept
\* loop runs.
StartDaemon ==
    /\ ~serving
    /\ serving' = TRUE
    /\ UNCHANGED <<work, identityVars, log, handshakeVars, req, outcome, notifierVars>>

\* serve_connection, for a peer of the same user; another user's is refused.  Its
\* client has been told nothing yet.
Connect(c) ==
    /\ serving
    /\ session[c].state = "closed"
    /\ session' = [session EXCEPT ![c] = Fresh]
    /\ outcome' = [outcome EXCEPT ![c] = NoOutcome]
    /\ UNCHANGED <<work, identityVars, log, serving, issued, answers, sigs, req,
                   notifierVars>>

\* The process dies: its connections, subscriptions and requests in flight go
\* with it.  A client that was waiting reads "daemon closed the connection".
Crash ==
    /\ serving
    /\ serving' = FALSE
    /\ session' = [c \in Conn |-> Closed]
    /\ outcome' = [c \in Conn |->
         IF req[c].phase = "idle" \/ req[c].kind # "write" THEN outcome[c]
         ELSE [told |-> "lost", before |-> req[c].before, receipt |-> {}]]
    /\ req' = [c \in Conn |-> Idle]
    /\ sub' = [c \in Conn |-> NoSubscription]
    /\ poll' = [c \in Conn |-> PollIdle]
    /\ owed' = [c \in Conn |-> {}]
    /\ UNCHANGED <<work, identityVars, log, issued, answers, sigs>>

\* The request loop reads its next frame only when no request is in flight.
Ready(c, k) ==
    /\ session[c].state # "closed"
    /\ req[c].phase = "idle"
    /\ k \in work.kinds[c]

-----------------------------------------------------------------------------
(* The session challenge.                                                   *)

\* verify_session_hello: the presented grant must verify, be the active one,
\* and match the daemon's own key file.
VerifySessionHello(k) == active /\ k = key

\* handle_hello with the grant of key k: success always starts a new
\* challenge, whatever the state was; every failure lands in Failed.
Hello(c, k) ==
    /\ Ready(c, "hello")
    /\ IF VerifySessionHello(k)
       THEN /\ Len(issued) < MaxNonces
            /\ issued' = Append(issued, c)
            /\ answers' = Append(answers, 0)
            /\ session' = [session EXCEPT ![c] = Challenged(Len(issued) + 1, k)]
       ELSE /\ session' = [session EXCEPT ![c] = Failed]
            /\ UNCHANGED <<issued, answers>>
    /\ UNCHANGED <<work, identityVars, log, serving, sigs, req, outcome, notifierVars>>

\* sign_session_challenge, with the key file as it is now.
Signature(nonce) == [nonce |-> nonce, key |-> key]

\* connect_with_identity in the client: the nonce its hello was answered with is
\* signed for the prove.
SignChallenge(c) ==
    /\ session[c].state = "challenged"
    /\ sigs' = sigs \cup {Signature(session[c].nonce)}
    /\ sigs' # sigs
    /\ UNCHANGED <<work, identityVars, log, serving, session, issued, answers, req,
                   outcome, notifierVars>>

\* Mutant: the signature is not bound to the nonce of this challenge.
VerifySessionProve_AnyNonce(ch, sig) == sig.key = ch.key

\* verify_session_prove: the message is rebuilt from the stored nonce and hello.
VerifySessionProve(ch, sig) == sig.key = ch.key /\ sig.nonce = ch.nonce

\* handle_prove on a challenge: it is consumed, pass or fail.
ProveResult(ch, sig) ==
    IF ch.age <= Ttl /\ VerifySessionProve(ch, sig)
    THEN Authenticated(sig) ELSE Failed

\* A prove frame carries any signature some client made.  Outside Challenged
\* it is out of sequence and changes nothing.
Prove(c, sig) ==
    /\ Ready(c, "prove")
    /\ session[c].state = "challenged"
    /\ session' = [session EXCEPT ![c] = ProveResult(session[c], sig)]
    /\ answers' = [answers EXCEPT ![session[c].nonce] = @ + 1]
    /\ UNCHANGED <<work, identityVars, log, serving, issued, sigs, req, outcome,
                   notifierVars>>

\* Time passes for every outstanding challenge.
Tick ==
    /\ \E c \in Conn : session[c].state = "challenged" /\ session[c].age <= Ttl
    /\ session' = [c \in Conn |->
         IF session[c].state = "challenged" /\ session[c].age <= Ttl
         THEN [session[c] EXCEPT !.age = @ + 1] ELSE session[c]]
    /\ UNCHANGED <<work, identityVars, log, serving, issued, answers, sigs, req,
                   outcome, notifierVars>>

-----------------------------------------------------------------------------
(* The identity files, changed by the operator's own commands.              *)

\* dent8 identity revoke: the active-grants entry goes.
Revoke ==
    /\ active
    /\ active' = FALSE
    /\ UNCHANGED <<work, key, log, serving, handshakeVars, req, outcome, notifierVars>>

\* dent8 identity rotate-source: a new key and grant replace the old in place,
\* and the new grant is the active one.
RotateSource ==
    /\ key < MaxKeys
    /\ key' = key + 1
    /\ active' = TRUE
    /\ UNCHANGED <<work, log, serving, handshakeVars, req, outcome, notifierVars>>

-----------------------------------------------------------------------------
(* Appends, and whom they concern.                                          *)

\* A subscription made while a poll was between its copy and its read is not
\* in that poll's copy, and the poll moves the baseline past a change of it
\* without a notification: the notifier owes such a change to nobody.
InPollWindow(c, u) == poll[c].phase = "copied" /\ u \notin poll[c].uris

\* The next event, of stream u, is owed to the connections subscribed to u.
Owe(u) ==
    owed' = [c \in Conn |->
               IF u \in sub[c].uris /\ ~InPollWindow(c, u)
               THEN owed[c] \cup {Len(log) + 1} ELSE owed[c]]

Event(u, c) == [stream |-> u, conn |-> c, key |-> key, live |-> active]

\* A write under WriteIdentity::Env, by a process that is not this daemon.
EnvWrite(u) ==
    /\ "write" \in work.kinds[Local]
    /\ active
    /\ Len(log) < MaxEvents
    /\ log' = Append(log, Event(u, Local))
    /\ Owe(u)
    /\ UNCHANGED <<work, identityVars, serving, handshakeVars, req, outcome, sub, poll>>

\* run_write with no daemon socket set: the command line writes by itself.
CliWrite(u) == EnvWrite(u)

\* mcp serve over stdio: each request runs in the server's own identity.
StdioWrite(u) == EnvWrite(u)

HttpRequest == [hostIsLocal: BOOLEAN, bearer: BOOLEAN, post: BOOLEAN]

HttpAdmits(r) == r.hostIsLocal /\ r.bearer /\ r.post

\* mcp serve --http: an admitted JSON-RPC body is dispatched inside the
\* server's runtime, where a database backend cannot start its own (the task
\* panics and nothing is written); the file backend writes like stdio.
HttpPost(u, r) ==
    /\ HttpAdmits(r)
    /\ work.backend = "file"
    /\ EnvWrite(u)

-----------------------------------------------------------------------------
(* Requests.                                                                *)

\* access_for of HandshakeState::write_identity.
AccessFull(c) == session[c].state = "authenticated"

Told(c, what, before, receipt) ==
    /\ outcome' = [outcome EXCEPT ![c] =
         [told |-> what, before |-> before, receipt |-> receipt]]
    /\ req' = [req EXCEPT ![c] = Idle]

\* handle: a write tool on a read-only connection is refused before dispatch.
\* (resources/read on one returns the receipt and records nothing.)
RefuseReadOnly(c) ==
    /\ Ready(c, "write")
    /\ ~AccessFull(c)
    /\ Told(c, "refused", Len(log), {})
    /\ UNCHANGED <<work, identityVars, log, serving, handshakeVars, notifierVars>>

Begin(c, k, u) ==
    /\ Ready(c, k)
    /\ AccessFull(c)
    /\ \/ /\ req' = [req EXCEPT ![c] = [phase |-> "begun", kind |-> k, stream |-> u,
                                        before |-> Len(log)]]
          /\ outcome' = [outcome EXCEPT ![c] = NoOutcome]
       \/ Told(c, "failed", Len(log), {})         \* the store could not be read
    /\ UNCHANGED <<work, identityVars, log, serving, handshakeVars, notifierVars>>

\* A write tool, dispatched: run_write_tool counts the log before the operation.
BeginWrite(c, u) == Begin(c, "write", u)

\* resources/read on a write-capable connection: the receipt of a fact that
\* exists, then the audit event of the retrieval.
BeginRead(c, u) ==
    /\ \E i \in 1..Len(log) : log[i].stream = u
    /\ Begin(c, "read", u)

\* Mutant: the grant is trusted as it was when the connection authenticated.
EnforceWrite_AtHandshake(c) == session[c].key <= key

\* enforce_write for this connection's identity paths, read afresh.
EnforceWrite(c) == active

\* An answer of the operation that nothing was written: unentitled, refused by
\* the firewall, or out of attempts.
Reject(c) == Told(c, "rejected", req[c].before, {})

\* enforce_write_authority and the firewall: on to the append, or an answer.
Enforce(c) ==
    /\ req[c].phase = "begun"
    /\ \/ /\ EnforceWrite(c)
          /\ req' = [req EXCEPT ![c].phase = "enforced"]
          /\ UNCHANGED outcome
       \/ Reject(c)
    /\ UNCHANGED <<work, identityVars, log, serving, handshakeVars, notifierVars>>

\* append_events: attest with the key file as it is now, then persist.
Persist(c) ==
    /\ Len(log) < MaxEvents
    /\ log' = Append(log, Event(req[c].stream, c))
    /\ Owe(req[c].stream)

Commit(c) ==
    /\ req[c].phase = "enforced"
    /\ Persist(c)
    /\ req' = [req EXCEPT ![c].phase = "committed"]
    /\ UNCHANGED <<work, identityVars, serving, handshakeVars, outcome, sub, poll>>

\* The backend reports a conflict: nothing was persisted, and with_write_retry
\* runs a write tool's operation again from its gate until it gives up.  The
\* audit event of a read has no retry.
CommitConflicts(c) ==
    /\ req[c].phase = "enforced"
    /\ \/ /\ req[c].kind = "write"
          /\ req' = [req EXCEPT ![c].phase = "begun"]
          /\ UNCHANGED outcome
       \/ Reject(c)
    /\ UNCHANGED <<work, identityVars, log, serving, handshakeVars, notifierVars>>

\* append_events fails otherwise, before or after the event landed (a write or a
\* transaction's commit whose acknowledgement is what failed): the answer is a
\* rejection with the code of a failed commit, and nothing is tried again.
CommitFails(c) ==
    /\ req[c].phase = "enforced"
    /\ Persist(c) \/ UNCHANGED <<log, owed>>
    /\ Told(c, "commit_failed", req[c].before, {})
    /\ UNCHANGED <<work, identityVars, serving, handshakeVars, sub, poll>>

\* Mutant: a failed re-read after the commit is answered as a failure.
AnswerAfterCommit_Failed(reread) == IF reread THEN "accepted" ELSE "failed"

\* run_write_tool: a committed write stays accepted when the re-read that
\* would list its events fails.
AnswerAfterCommit(reread) == "accepted"

\* accepted_events_since: whatever the log gained since the count taken before
\* the operation, the events of other writers included.
AcceptedEventsSince(before) == (before + 1)..Len(log)

\* The answer of a write lists its events; that of a read is the fact's receipt,
\* which names none.
Reply(c, reread) ==
    /\ req[c].phase = "committed"
    /\ Told(c, AnswerAfterCommit(reread), req[c].before,
            IF reread /\ req[c].kind = "write" THEN AcceptedEventsSince(req[c].before)
            ELSE {})
    /\ UNCHANGED <<work, identityVars, log, serving, handshakeVars, notifierVars>>

-----------------------------------------------------------------------------
(* Subscriptions and the notifier.                                          *)

\* handle_resources_subscribe: store_head first, then the insert under the lock.
SubscribeHead(c, u) ==
    /\ Ready(c, "subscribe")
    /\ u \notin sub[c].uris
    /\ req' = [req EXCEPT ![c] = [phase |-> "head", kind |-> "subscribe", stream |-> u,
                                  before |-> Len(log)]]
    /\ UNCHANGED <<work, identityVars, log, serving, handshakeVars, outcome, notifierVars>>

SubscribeInsert(c) ==
    /\ req[c].phase = "head"
    /\ sub' = [sub EXCEPT ![c] = Subscribe(@, req[c].stream, req[c].before)]
    /\ req' = [req EXCEPT ![c] = Idle]
    /\ UNCHANGED <<work, identityVars, log, serving, handshakeVars, outcome, poll, owed>>

HandleUnsubscribe(c, u) ==
    /\ Ready(c, "unsubscribe")
    /\ u \in sub[c].uris
    /\ sub' = [sub EXCEPT ![c] = Unsubscribe(@, u)]
    /\ owed' = [owed EXCEPT ![c] = {i \in @ : log[i].stream # u}]
    /\ UNCHANGED <<work, identityVars, log, serving, handshakeVars, req, outcome, poll>>

\* The store is worth polling only while it can report something: a poll of
\* nothing new changes no state but the notifier's own.
PollCopy(c) ==
    /\ poll[c].phase = "idle"
    /\ sub[c].uris # {}
    /\ poll' = [poll EXCEPT ![c] = [phase |-> "copied", uris |-> sub[c].uris,
                                    seen |-> sub[c].seen, head |-> 0]]
    /\ UNCHANGED <<work, identityVars, log, serving, handshakeVars, req, outcome, sub, owed>>

PollLoad(c) ==
    /\ poll[c].phase = "copied"
    /\ poll' = [poll EXCEPT ![c].phase = "loaded", ![c].head = Len(log)]
    /\ UNCHANGED <<work, identityVars, log, serving, handshakeVars, req, outcome, sub, owed>>

\* An unreadable store skips the tick.
PollSkip(c) ==
    /\ poll[c].phase = "copied"
    /\ poll' = [poll EXCEPT ![c] = PollIdle]
    /\ UNCHANGED <<work, identityVars, log, serving, handshakeVars, req, outcome, sub, owed>>

PollSettle(c) ==
    /\ poll[c].phase = "loaded"
    /\ sub' = [sub EXCEPT ![c].seen = poll[c].head]
    /\ owed' = [owed EXCEPT ![c] = @ \ Changed(poll[c], log)]
    /\ poll' = [poll EXCEPT ![c] = PollIdle]
    /\ UNCHANGED <<work, identityVars, log, serving, handshakeVars, req, outcome>>

-----------------------------------------------------------------------------
ProcessStep == StartDaemon \/ Crash \/ \E c \in Conn : Connect(c)

HandshakeStep ==
    \/ Tick
    \/ \E c \in Conn : \/ SignChallenge(c)
                      \/ \E k \in 1..key : Hello(c, k)
                      \/ \E sig \in sigs : Prove(c, sig)

OperatorStep == Revoke \/ RotateSource

LocalStep ==
    \E u \in work.streams : \/ CliWrite(u) \/ StdioWrite(u)
                            \/ \E r \in HttpRequest : HttpPost(u, r)

RequestStep ==
    \E c \in Conn :
      \/ RefuseReadOnly(c) \/ Enforce(c)
      \/ Commit(c) \/ CommitConflicts(c) \/ CommitFails(c)
      \/ \E u \in work.streams : BeginWrite(c, u) \/ BeginRead(c, u)
      \/ \E reread \in BOOLEAN : Reply(c, reread)

SubscriptionStep ==
    \E c \in Conn :
      \/ SubscribeInsert(c)
      \/ \E u \in work.streams : SubscribeHead(c, u) \/ HandleUnsubscribe(c, u)

NotifierStep ==
    \E c \in Conn : PollCopy(c) \/ PollLoad(c) \/ PollSkip(c) \/ PollSettle(c)

Next ==
    \/ ProcessStep \/ HandshakeStep \/ OperatorStep \/ LocalStep
    \/ RequestStep \/ SubscriptionStep \/ NotifierStep

\* The notifier is woken every RESOURCE_POLL_INTERVAL and its tasks run; an
\* unreadable store is transient (another writer's lock), so a notifier that
\* keeps trying reads it in the end.
Fairness ==
    \A c \in Conn : /\ WF_vars(PollCopy(c))
                    /\ SF_vars(PollLoad(c))
                    /\ WF_vars(PollSettle(c))

Spec == Init /\ [][Next]_vars /\ Fairness

-----------------------------------------------------------------------------
SessionType ==
    [state: {"closed", "fresh", "challenged", "authenticated", "failed"},
     nonce: 0..MaxNonces, key: 0..MaxKeys, age: 0..(Ttl + 1)]

\* Every connection is in a state of HandshakeState, at one step of one
\* request; a subscribed connection always has a baseline, so a poll never
\* takes the branch that re-baselines in silence.
TypeOK ==
    /\ work \in Workloads /\ key \in 1..MaxKeys /\ active \in BOOLEAN /\ serving \in BOOLEAN
    /\ log \in Seq([stream: Stream, conn: Conn \cup {Local}, key: 1..MaxKeys, live: BOOLEAN])
    /\ session \in [Conn -> SessionType]
    /\ issued \in Seq(Conn) /\ DOMAIN answers = DOMAIN issued
    /\ sigs \subseteq [nonce: 1..MaxNonces, key: 1..MaxKeys]
    /\ req \in [Conn -> [phase: {"idle", "begun", "enforced", "committed", "head"},
                         kind: Kind \cup {"none"}, stream: Stream \cup {"none"},
                         before: 0..MaxEvents]]
    /\ sub \in [Conn -> SubscriptionState] /\ poll \in [Conn -> PollState]
    /\ \A c \in Conn : /\ \A i \in owed[c] : i \in DOMAIN log /\ log[i].stream \in sub[c].uris
                       /\ sub[c].uris # {} => sub[c].seen # NoBaseline

\* Possession is proven on the connection it is used on: whoever is
\* authenticated signed a nonce issued to that very connection, so a signature
\* overheard or replayed from another one never authenticates; and it was the
\* first answer to that nonce, none is guessed at twice (handle_prove).
ProofIsOwn ==
    \A c \in Conn : session[c].state = "authenticated" =>
        /\ issued[session[c].nonce] = c
        /\ [nonce |-> session[c].nonce, key |-> session[c].key] \in sigs
        /\ answers[session[c].nonce] = 1

\* Revocation reaches a live connection with a latency of one write: between
\* a revoke and the next grant a connection lands at most the one write whose
\* entitlement was checked before the revoke (enforce_write re-reads
\* active-grants.json for each write).
RevocationLatency ==
    \A i, j \in 1..Len(log) :
        /\ i < j /\ ~log[i].live /\ ~log[j].live /\ log[i].key = log[j].key
        => log[i].conn # log[j].conn

\* What the last request of connection c left in the log: a connection has one
\* request at a time.
Written(c) == {i \in (outcome[c].before + 1)..Len(log) : log[i].conn = c}

\* What the client is told agrees with the log: refused, rejected and failed
\* mean that its request left nothing there; accepted means that the request's
\* event is there, and a receipt that lists events lists it.  A failed commit and
\* a daemon that died say nothing either way, but no answer stands for two
\* events: what may have landed is not tried again (run_write_tool,
\* with_write_retry, record_mcp_resource_retrieval, map_tool_reply).
OutcomeIsTrue ==
    \A c \in Conn :
        /\ outcome[c].told \in {"refused", "rejected", "failed"} => Written(c) = {}
        /\ outcome[c].told = "accepted" => Written(c) # {}
        /\ outcome[c].told # "none" => \A i, j \in Written(c) : i = j
        /\ outcome[c].receipt # {} => Written(c) \subseteq outcome[c].receipt

\* The notifiers catch up: once writes pause, every change made while a
\* client was subscribed is reported or the subscription ends, unless the
\* change fell in the window of a poll already under way when the stream was
\* subscribed (daemon_notifier_loop).
NotifiesInTheEnd == (\E c \in Conn : owed[c] # {}) ~> (\A c \in Conn : owed[c] = {})
=============================================================================
