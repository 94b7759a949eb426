----------------------------- MODULE HttpServer -----------------------------
(***************************************************************************)
(* The http_server.* namespace (src/lua_httpserver.cpp): one thread that   *)
(* accepts, a fixed pool of workers that own the sockets, and the game     *)
(* thread, which answers parsed requests once a frame by calling route     *)
(* handlers.  A worker waits a limited time for that answer, and a stream  *)
(* route turns its socket into an event stream that keeps the worker.      *)
(*                                                                         *)
(* One action is one critical section, with the code of its thread that    *)
(* touches nothing shared: a response is written and the socket closed in  *)
(* the step that decides what to write.  A connection is named by its      *)
(* socket.  One path is enough: what a request finds depends on the method *)
(* and on what is registered.  The order of two routes that both match is  *)
(* left open.                                                              *)
(*                                                                         *)
(* Left out: the wire format, and the failures of socket(), bind() and     *)
(* listen(), which change nothing.                                         *)
(***************************************************************************)
EXTENDS Queues, FiniteSets

CONSTANTS Workers,     \* the WORKER_COUNT threads of the pool
          Sockets,     \* connections in the life of the process
          Plugins,     \* indices into LuaEngine::plugins()
          Methods,     \* methods of requests and routes
          Get,         \* the one a stream answers to
          None,        \* no socket, no answer yet
          MaxQueue,    \* MAX_CONN_QUEUE
          MaxOutbox,   \* SSE_OUTBOX_MAX
          MaxPushes,   \* bound: messages pushed to somebody
          MaxListens   \* bound: http_server.listen calls

Parameters ==
    /\ Get \in Methods
    /\ None \notin Sockets \cup [sock : Sockets, stream : BOOLEAN]
    /\ MaxQueue \in Nat \ {0} /\ MaxOutbox \in Nat \ {0}
    /\ MaxPushes \in Nat /\ MaxListens \in Nat

ASSUME ServerConstants == Parameters

VARIABLES
    listening,   \* s_listen_fd is a socket
    stopping,    \* s_stopping
    acceptor,    \* s_acceptor, and the socket it holds
    worker,      \* the threads of s_workers, and the sockets they hold
    queue,       \* s_conn_queue
    pending,     \* s_pending
    conn,        \* PendingConn of each socket that was read
    routes,      \* s_routes and s_streams
    clients,     \* s_sse_clients, with the stop flag of each
    outbox,      \* SseClient::outbox
    pc,          \* where the game thread is
    batch,       \* the connections swapped out of s_pending
    handling,    \* the connection whose handler is on the stack
    detached,    \* Meta_Detach has begun
    listens,     \* history: http_server.listen calls
    pushes,      \* history: messages pushed to somebody, the number of the last one
    fate,        \* history: what became of each socket
    received     \* history: messages each running session was sent

pool == <<listening, stopping, acceptor, worker, queue, listens>>
requests == <<pending, conn>>
streams == <<clients, outbox, pushes, received>>
game == <<pc, batch, handling, detached>>
serverVars == <<pool, requests, routes, streams, game, fate>>

Answers == {"handler", "error", "refused", "stream", "reloading"}

Fates == {"outside", "open", "subscribed", "dropped", "bad request", "timeout"} \cup Answers

Conn == [method : Methods, done : BOOLEAN, abandoned : BOOLEAN, res : Answers \cup {None}]

Route == [plugin : Plugins, method : Methods, stream : BOOLEAN]

WorkerStates == {"absent", "ready", "waiting", "reading", "header", "parked",
                 "upgrading", "streaming", "leaving", "exited"}

-----------------------------------------------------------------------------
(* Reading the state                                                       *)

HasSocket(at) ==
    at \in {"reading", "header", "parked", "upgrading", "streaming", "leaving"}

InLua == pc = "lua" /\ ~detached

BetweenFrames == InLua /\ handling = None

Move(w, at) == worker' = [worker EXCEPT ![w].at = at]

\* The worker writes its response, closes the socket and comes back to the top
\* of its loop.
Finish(w, how) ==
    /\ fate' = [fate EXCEPT ![worker[w].sock] = how]
    /\ worker' = [worker EXCEPT ![w] = [at |-> "ready", sock |-> None]]

-----------------------------------------------------------------------------
(* The acceptor                                                            *)

\* select() and accept(): s_stopping was looked at in between.
Accept(s) ==
    /\ acceptor.at = "selecting"
    /\ ~stopping
    /\ fate[s] = "outside"
    /\ acceptor' = [at |-> "accepted", sock |-> s]
    /\ fate' = [fate EXCEPT ![s] = "open"]
    /\ UNCHANGED <<listening, stopping, worker, queue, listens, requests, routes, streams, game>>

\* notify_one; see HttpClient for why waking at the push is the same.
Woken ==
    IF \E w \in Workers : worker[w].at = "waiting"
    THEN {[worker EXCEPT ![w].at = "ready"] : w \in {v \in Workers : worker[v].at = "waiting"}}
    ELSE {worker}

\* (mutant) The flood check is missing its `continue'.
EnqueueClosed ==
    /\ acceptor.at = "accepted"
    /\ acceptor' = [at |-> "selecting", sock |-> None]
    /\ queue' = Append(queue, acceptor.sock)
    /\ worker' \in Woken
    /\ fate' = IF Len(queue) >= MaxQueue THEN [fate EXCEPT ![acceptor.sock] = "dropped"] ELSE fate
    /\ UNCHANGED <<listening, stopping, listens, requests, routes, streams, game>>

\* The queue is bounded; who comes to a full one is closed.
Enqueue ==
    /\ acceptor.at = "accepted"
    /\ acceptor' = [at |-> "selecting", sock |-> None]
    /\ IF Len(queue) >= MaxQueue
       THEN /\ fate' = [fate EXCEPT ![acceptor.sock] = "dropped"]
            /\ UNCHANGED <<queue, worker>>
       ELSE /\ queue' = Append(queue, acceptor.sock)
            /\ worker' \in Woken
            /\ UNCHANGED fate
    /\ UNCHANGED <<listening, stopping, listens, requests, routes, streams, game>>

AcceptorExits ==
    /\ acceptor.at = "selecting"
    /\ stopping
    /\ acceptor' = [at |-> "exited", sock |-> None]
    /\ UNCHANGED <<listening, stopping, worker, queue, listens, requests, routes, streams, game, fate>>

-----------------------------------------------------------------------------
(* Workers: worker_loop and handle_connection                              *)

Take(w) ==
    /\ worker[w].at = "ready"
    /\ ~stopping
    /\ queue # <<>>
    /\ worker' = [worker EXCEPT ![w] = [at |-> "reading", sock |-> Head(queue)]]
    /\ queue' = Tail(queue)
    /\ UNCHANGED <<listening, stopping, acceptor, listens, requests, routes, streams, game, fate>>

Wait(w) ==
    /\ worker[w].at = "ready"
    /\ ~stopping
    /\ queue = <<>>
    /\ Move(w, "waiting")
    /\ UNCHANGED <<listening, stopping, acceptor, queue, listens, requests, routes, streams, game, fate>>

Exit(w) ==
    /\ worker[w].at = "ready"
    /\ stopping
    /\ Move(w, "exited")
    /\ UNCHANGED <<listening, stopping, acceptor, queue, listens, requests, routes, streams, game, fate>>

\* read_request has another header line, before RECV_TIMEOUT_MS were over ...
HeaderLine(w) ==
    /\ worker[w].at = "reading"
    /\ Move(w, "header")
    /\ UNCHANGED <<listening, stopping, acceptor, queue, listens, requests, routes, streams, game, fate>>

\* ... and reads on: nobody counts the lines, and s_stopping is not looked at.
NextLine(w) ==
    /\ worker[w].at = "header"
    /\ Move(w, "reading")
    /\ UNCHANGED <<listening, stopping, acceptor, queue, listens, requests, routes, streams, game, fate>>

\* read_request succeeds, and the connection is queued for the game thread.
Read(w) ==
    /\ worker[w].at = "reading"
    /\ pending' = Append(pending, worker[w].sock)
    /\ \E m \in Methods :
          conn' = [conn EXCEPT ![worker[w].sock] =
                      [method |-> m, done |-> FALSE, abandoned |-> FALSE, res |-> None]]
    /\ Move(w, "parked")
    /\ UNCHANGED <<listening, stopping, acceptor, queue, listens, routes, streams, game, fate>>

\* Malformed, too large, or the peer was silent for RECV_TIMEOUT_MS.
ReadFails(w) ==
    /\ worker[w].at = "reading"
    /\ Finish(w, "bad request")
    /\ UNCHANGED <<listening, stopping, acceptor, queue, listens, requests, routes, streams, game>>

\* The answer is there; a stream goes on to run_sse_session.
Answered(w) ==
    /\ worker[w].at = "parked"
    /\ conn[worker[w].sock].done
    /\ LET res == conn[worker[w].sock].res
       IN  IF res = "stream"
           THEN Move(w, "upgrading") /\ UNCHANGED fate
           ELSE Finish(w, res)
    /\ UNCHANGED <<listening, stopping, acceptor, queue, listens, requests, routes, streams, game>>

\* (mutant) The time is up, and the answer that came with it is not looked at.
GiveUpBlindly(w) ==
    /\ worker[w].at = "parked"
    /\ conn' = [conn EXCEPT ![worker[w].sock].abandoned = TRUE]
    /\ Finish(w, "timeout")
    /\ UNCHANGED <<listening, stopping, acceptor, queue, listens, pending, routes, streams, game>>

\* (mutant) A wait without a limit.
GiveUpNever(w) == FALSE

\* RESPONSE_WAIT_MS have gone by.
GiveUp(w) ==
    /\ worker[w].at = "parked"
    /\ ~conn[worker[w].sock].done
    /\ conn' = [conn EXCEPT ![worker[w].sock].abandoned = TRUE]
    /\ Finish(w, "timeout")
    /\ UNCHANGED <<listening, stopping, acceptor, queue, listens, pending, routes, streams, game>>

-----------------------------------------------------------------------------
(* Workers: run_sse_session                                                *)

Subscribe(w) ==
    /\ worker[w].at = "upgrading"
    /\ clients' = [s \in DOMAIN clients \cup {worker[w].sock} |->
                      IF s = worker[w].sock THEN FALSE ELSE clients[s]]
    /\ fate' = [fate EXCEPT ![worker[w].sock] = "subscribed"]
    /\ Move(w, "streaming")
    /\ UNCHANGED <<listening, stopping, acceptor, queue, listens, requests, routes,
                   outbox, pushes, received, game>>

\* The headers cannot be sent.
UpgradeFails(w) ==
    /\ worker[w].at = "upgrading"
    /\ Finish(w, "dropped")
    /\ UNCHANGED <<listening, stopping, acceptor, queue, listens, requests, routes, streams, game>>

MustLeave(w) == stopping \/ clients[worker[w].sock]

\* (mutant) The newest message is taken first.
SendNewest(w) ==
    /\ worker[w].at = "streaming"
    /\ ~MustLeave(w)
    /\ LET s == worker[w].sock
           waiting == outbox[s]
       IN  /\ waiting # <<>>
           /\ received' = [received EXCEPT ![s] = Append(@, waiting[Len(waiting)])]
           /\ outbox' = [outbox EXCEPT ![s] = SubSeq(@, 1, Len(@) - 1)]
    /\ UNCHANGED <<pool, requests, routes, clients, pushes, game, fate>>

\* The oldest message is taken, and sent.
Send(w) ==
    /\ worker[w].at = "streaming"
    /\ ~MustLeave(w)
    /\ LET s == worker[w].sock
       IN  /\ outbox[s] # <<>>
           /\ received' = [received EXCEPT ![s] = Append(@, Head(outbox[s]))]
           /\ outbox' = [outbox EXCEPT ![s] = Tail(@)]
    /\ UNCHANGED <<pool, requests, routes, clients, pushes, game, fate>>

\* Told to stop.
StreamStops(w) ==
    /\ worker[w].at = "streaming"
    /\ MustLeave(w)
    /\ Move(w, "leaving")
    /\ UNCHANGED <<listening, stopping, acceptor, queue, listens, requests, routes, streams, game, fate>>

\* The peer is gone: a message, or the ping of an idle stream, is not sent.
SendFails(w) ==
    /\ worker[w].at = "streaming"
    /\ ~MustLeave(w)
    /\ outbox' = [outbox EXCEPT ![worker[w].sock] = IF @ = <<>> THEN <<>> ELSE Tail(@)]
    /\ Move(w, "leaving")
    /\ UNCHANGED <<listening, stopping, acceptor, queue, listens, requests, routes,
                   clients, pushes, received, game, fate>>

\* The subscriber is taken out of s_sse_clients.
LeaveSession(w) ==
    /\ worker[w].at = "leaving"
    /\ clients' = [s \in DOMAIN clients \ {worker[w].sock} |-> clients[s]]
    /\ outbox' = [outbox EXCEPT ![worker[w].sock] = <<>>]
    /\ received' = [received EXCEPT ![worker[w].sock] = <<>>]
    /\ Finish(w, "stream")
    /\ UNCHANGED <<listening, stopping, acceptor, queue, listens, requests, routes,
                   pushes, game>>

-----------------------------------------------------------------------------
(* What Lua code does                                                      *)

\* http_server.route and http_server.stream.
AddRoute(r) ==
    /\ InLua
    /\ r.stream => r.method = Get
    /\ routes' = routes \cup {r}
    /\ UNCHANGED <<pool, requests, streams, game, fate>>

RemovePlugin(p) ==
    /\ InLua
    /\ routes' = {r \in routes : r.plugin # p}
    /\ UNCHANGED <<pool, requests, streams, game, fate>>

\* (mutant) A full outbox refuses the new message instead.
PushDroppingNew ==
    /\ InLua
    /\ DOMAIN clients # {}
    /\ pushes < MaxPushes
    /\ pushes' = pushes + 1
    /\ outbox' = [s \in Sockets |->
          IF s \notin DOMAIN clients \/ Len(outbox[s]) >= MaxOutbox THEN outbox[s]
          ELSE Append(outbox[s], pushes + 1)]
    /\ UNCHANGED <<pool, requests, routes, clients, received, game, fate>>

\* http_server.push: a slow subscriber loses its oldest message.  A message
\* without a subscriber leaves no trace.
PushMessage ==
    /\ InLua
    /\ DOMAIN clients # {}
    /\ pushes < MaxPushes
    /\ pushes' = pushes + 1
    /\ outbox' = [s \in Sockets |->
          IF s \notin DOMAIN clients THEN outbox[s]
          ELSE Append(IF Len(outbox[s]) >= MaxOutbox THEN Tail(outbox[s]) ELSE outbox[s],
                      pushes + 1)]
    /\ UNCHANGED <<pool, requests, routes, clients, received, game, fate>>

\* http_server.listen, where nobody listens yet.
Listen ==
    /\ InLua
    /\ ~listening
    /\ listens < MaxListens
    /\ listens' = listens + 1
    /\ listening' = TRUE
    /\ stopping' = FALSE
    /\ acceptor' = [at |-> "selecting", sock |-> None]
    /\ worker' = [w \in Workers |-> [at |-> "ready", sock |-> None]]
    /\ UNCHANGED <<queue, requests, routes, streams, game, fate>>

-----------------------------------------------------------------------------
(* stop_listening                                                          *)

\* s_stopping, and everyone who waits for a connection wakes up.
Stopped ==
    /\ stopping' = TRUE
    /\ worker' = [w \in Workers |->
          IF worker[w].at = "waiting" THEN [worker[w] EXCEPT !.at = "ready"] ELSE worker[w]]
    /\ pc' = "stopping"

\* http_server.stop: between frames, or from a handler while its own connection
\* waits for the answer.
Stop ==
    /\ InLua
    /\ listening
    /\ Stopped
    /\ UNCHANGED <<listening, acceptor, queue, listens, requests, routes, streams,
                   batch, handling, detached, fate>>

StopClients ==
    /\ pc = "stopping"
    /\ clients' = [s \in DOMAIN clients |-> TRUE]
    /\ pc' = "joining"
    /\ UNCHANGED <<pool, requests, routes, outbox, pushes, received, batch, handling, detached, fate>>

\* The joins, and the connections nobody took are closed.
Joined ==
    /\ pc = "joining"
    /\ acceptor.at = "exited"
    /\ \A w \in Workers : worker[w].at = "exited"
    /\ listening' = FALSE
    /\ acceptor' = [at |-> "absent", sock |-> None]
    /\ worker' = [w \in Workers |-> [at |-> "absent", sock |-> None]]
    /\ fate' = [s \in Sockets |-> IF s \in Elements(queue) THEN "dropped" ELSE fate[s]]
    /\ queue' = <<>>
    /\ pc' = "lua"
    /\ UNCHANGED <<stopping, listens, requests, routes, streams, batch, handling, detached>>

-----------------------------------------------------------------------------
(* cslua_httpserver_run                                                    *)

StartDrain ==
    /\ BetweenFrames
    /\ pending # <<>>
    /\ batch' = pending
    /\ pending' = <<>>
    /\ pc' = "drain"
    /\ UNCHANGED <<pool, conn, routes, streams, handling, detached, fate>>

Matching(s) == {r \in routes : r.method = conn[s].method}

\* Streams come first.
Matched(s) ==
    IF \E r \in Matching(s) : r.stream THEN {r \in Matching(s) : r.stream} ELSE Matching(s)

\* conn->res, conn->done and the notify, unless the worker has given up.
Publish(s, res) ==
    conn' = IF conn[s].abandoned THEN conn
            ELSE [conn EXCEPT ![s].res = res, ![s].done = TRUE]

\* The worker gave up before its request came up.
SkipAbandoned ==
    /\ pc = "drain"
    /\ batch # <<>>
    /\ conn[Head(batch)].abandoned
    /\ batch' = Tail(batch)
    /\ UNCHANGED <<pool, requests, routes, streams, pc, handling, detached, fate>>

\* (mutant) Nobody is told that there is no such route.
RefuseSilently ==
    /\ pc = "drain"
    /\ batch # <<>>
    /\ Matching(Head(batch)) = {}
    /\ batch' = Tail(batch)
    /\ UNCHANGED <<pool, requests, routes, streams, pc, handling, detached, fate>>

\* 404 or 405.
Refuse ==
    /\ pc = "drain"
    /\ batch # <<>>
    /\ Matching(Head(batch)) = {}
    /\ Publish(Head(batch), "refused")
    /\ batch' = Tail(batch)
    /\ UNCHANGED <<pool, pending, routes, streams, pc, handling, detached, fate>>

\* The handler is called; `stream' is what was matched.
CallHandler ==
    /\ pc = "drain"
    /\ batch # <<>>
    /\ ~conn[Head(batch)].abandoned
    /\ \E r \in Matched(Head(batch)) : handling' = [sock |-> Head(batch), stream |-> r.stream]
    /\ batch' = Tail(batch)
    /\ pc' = "lua"
    /\ UNCHANGED <<pool, requests, routes, streams, detached, fate>>

\* The handler returns, or throws; only a guard can upgrade.
HandlerReturns ==
    /\ InLua
    /\ handling # None
    /\ \E res \in {"handler", "error"} \cup (IF handling.stream THEN {"stream"} ELSE {}) :
          Publish(handling.sock, res)
    /\ handling' = None
    /\ pc' = "drain"
    /\ UNCHANGED <<pool, pending, routes, streams, batch, detached, fate>>

EndDrain ==
    /\ pc = "drain"
    /\ batch = <<>>
    /\ pc' = "lua"
    /\ UNCHANGED <<pool, requests, routes, streams, batch, handling, detached, fate>>

-----------------------------------------------------------------------------
(* The end of a Lua state, and of the process                              *)

\* cslua_httpserver_reset: who is parsed and waiting is answered.
AnswerWaiting ==
    /\ conn' = [s \in Sockets |->
          IF s \in Elements(pending) /\ ~conn[s].abandoned
          THEN [conn[s] EXCEPT !.res = "reloading", !.done = TRUE] ELSE conn[s]]
    /\ pending' = <<>>
    /\ routes' = {}

Reset ==
    /\ BetweenFrames
    /\ AnswerWaiting
    /\ UNCHANGED <<pool, streams, game, fate>>

\* cslua_httpserver_shutdown.
ServerShutdown ==
    /\ BetweenFrames
    /\ AnswerWaiting
    /\ detached' = TRUE
    /\ IF listening THEN Stopped ELSE UNCHANGED <<stopping, worker, pc>>
    /\ UNCHANGED <<listening, acceptor, queue, listens, streams, batch, handling, fate>>

-----------------------------------------------------------------------------
ServerInit ==
    /\ listening = FALSE
    /\ stopping = FALSE
    /\ acceptor = [at |-> "absent", sock |-> None]
    /\ worker = [w \in Workers |-> [at |-> "absent", sock |-> None]]
    /\ queue = <<>>
    /\ pending = <<>>
    /\ conn = [s \in Sockets |-> [method |-> Get, done |-> FALSE, abandoned |-> FALSE, res |-> None]]
    /\ routes = {}
    /\ clients = [s \in {} |-> FALSE]
    /\ outbox = [s \in Sockets |-> <<>>]
    /\ pc = "lua"
    /\ batch = <<>>
    /\ handling = None
    /\ detached = FALSE
    /\ listens = 0
    /\ pushes = 0
    /\ fate = [s \in Sockets |-> "outside"]
    /\ received = [s \in Sockets |-> <<>>]

AcceptorStep == Enqueue \/ AcceptorExits

\* A thread goes on: what it waits for has come, or its timeout has.
Proceed(w) ==
    \/ Take(w) \/ Wait(w) \/ Exit(w)
    \/ HeaderLine(w) \/ NextLine(w) \/ Read(w) \/ ReadFails(w)
    \/ Answered(w) \/ GiveUp(w)
    \/ Subscribe(w) \/ UpgradeFails(w)
    \/ StreamStops(w) \/ LeaveSession(w)

GameStep ==
    StopClients \/ Joined \/ SkipAbandoned \/ Refuse \/ CallHandler \/ EndDrain

ServerNext ==
    \/ \E s \in Sockets : Accept(s)
    \/ AcceptorStep
    \/ \E w \in Workers : Proceed(w) \/ Send(w) \/ SendFails(w)
    \/ \E r \in Route : AddRoute(r)
    \/ \E p \in Plugins : RemovePlugin(p)
    \/ PushMessage \/ Listen \/ Stop
    \/ StartDrain \/ HandlerReturns \/ GameStep
    \/ Reset \/ ServerShutdown

\* Threads are scheduled, each recv and each send has a timeout and so has the
\* wait for an answer.  Nothing is assumed of handlers or of the frame loop, and
\* nothing of peers: a worker goes on, but only through the header lines of its
\* peer, which may come for ever.
Fairness ==
    /\ WF_serverVars(AcceptorStep)
    /\ \A w \in Workers : WF_serverVars(Proceed(w))
    /\ WF_serverVars(GameStep)

ServerSpec == ServerInit /\ [][ServerNext]_serverVars /\ Fairness

-----------------------------------------------------------------------------
(* Correctness                                                             *)

\* The variables have their types, and the queues their bounds.
ServerTypeOK ==
    /\ listening \in BOOLEAN /\ stopping \in BOOLEAN /\ detached \in BOOLEAN
    /\ acceptor \in [at : {"absent", "selecting", "accepted", "exited"}, sock : Sockets \cup {None}]
    /\ worker \in [Workers -> [at : WorkerStates, sock : Sockets \cup {None}]]
    /\ queue \in Seq(Sockets) /\ Len(queue) <= MaxQueue
    /\ pending \in Seq(Sockets) /\ batch \in Seq(Sockets)
    /\ conn \in [Sockets -> Conn]
    /\ routes \subseteq Route
    /\ DOMAIN clients \subseteq Sockets /\ \A s \in DOMAIN clients : clients[s] \in BOOLEAN
    /\ outbox \in [Sockets -> Seq(1..MaxPushes)]
    /\ \A s \in Sockets : Len(outbox[s]) <= MaxOutbox
    /\ pc \in {"lua", "drain", "stopping", "joining"}
    /\ handling \in [sock : Sockets, stream : BOOLEAN] \cup {None}
    /\ listens \in 0..MaxListens /\ pushes \in 0..MaxPushes
    /\ fate \in [Sockets -> Fates]
    /\ received \in [Sockets -> Seq(1..MaxPushes)]

Holders(s) ==
    LET inQueue == Cardinality({k \in 1..Len(queue) : queue[k] = s})
        atWork == Cardinality({w \in Workers : HasSocket(worker[w].at) /\ worker[w].sock = s})
    IN  inQueue + atWork + (IF acceptor.at = "accepted" /\ acceptor.sock = s THEN 1 ELSE 0)

\* A socket that is open is in the hands of one thread or in the queue, and one
\* that is closed in nobody's: none is leaked, closed twice or used after its
\* close, also when the server is stopped and started while peers connect.
OneHolder ==
    \A s \in Sockets : Holders(s) = IF fate[s] \in {"open", "subscribed"} THEN 1 ELSE 0

\* A worker that waits for an answer has not been forgotten: its connection is
\* still to be drained, or on the stack, or answered.
NobodyForgotten ==
    \A w \in Workers : worker[w].at = "parked" =>
        LET s == worker[w].sock
        IN  \/ conn[s].done
            \/ s \in Elements(pending) \cup Elements(batch)
            \/ handling # None /\ handling.sock = s

\* The timeout and the answer exclude each other, and the peer is sent what was
\* decided: a connection is never both given up and answered.
OneVerdict ==
    \A s \in Sockets :
        /\ ~(conn[s].done /\ conn[s].abandoned)
        /\ fate[s] = "timeout" <=> conn[s].abandoned
        /\ fate[s] \in {"handler", "error", "refused", "reloading"} => conn[s].res = fate[s]
        /\ fate[s] \in {"subscribed", "stream"} => conn[s].res = "stream"

\* http_server.push reaches the sessions that run, and no others.
SubscribersAreSessions ==
    DOMAIN clients = {worker[w].sock :
                         w \in {v \in Workers : worker[v].at \in {"streaming", "leaving"}}}

Increasing(seq) == \A j, k \in 1..Len(seq) : j < k => seq[j] < seq[k]

\* Every session that runs is reached by http_server.push and no other is;
\* messages come in the order they were pushed, none twice, and a subscriber who
\* is too slow misses the older ones: what waits for him ends with the last.
StreamInOrder ==
    /\ SubscribersAreSessions
    /\ \A s \in DOMAIN clients :
          /\ Increasing(received[s] \o outbox[s])
          /\ \A k \in 1..Len(outbox[s]) : outbox[s][k] = pushes - Len(outbox[s]) + k

\* Once http_server.stop has returned no thread is left, and no socket is open.
StopLeavesNothing ==
    ~listening =>
        /\ acceptor.at = "absent"
        /\ \A w \in Workers : worker[w].at = "absent"
        /\ \A s \in Sockets : fate[s] \notin {"open", "subscribed"}

\* What holds of sockets and threads between any two steps.
ServerConsistent == ServerTypeOK /\ OneHolder /\ NobodyForgotten /\ OneVerdict /\ StopLeavesNothing

\* What a peer is promised, see RequestLedger: a connection is answered once, or
\* closed without an answer once.
statusBar == [s \in Sockets |->
    IF fate[s] = "outside" THEN "unasked"
    ELSE IF fate[s] = "open" THEN "waiting"
    ELSE IF fate[s] = "dropped" THEN "dropped" ELSE "called"]

Ledger == INSTANCE RequestLedger WITH Requests <- Sockets, status <- statusBar

\* Every step of the threads is a step of the ledger.
KeepsLedger == Ledger!Spec

\* A request that was read is answered, by a handler or by the timeout, even if
\* no frame ever comes: no worker is parked from some moment on.
ParkedIsAnswered ==
    \A w \in Workers : []<>(worker[w].at # "parked")

\* No peer sends header lines for ever.  Each socket is read once and there are
\* finitely many, so this is that from some moment on nobody is at a header line.
HeadersEnd == \A w \in Workers : <>[](worker[w].at # "header")

\* http_server.stop returns, unless a peer sends header lines for ever: also
\* inside the handler of a connection whose worker is among those it joins, and
\* with subscribers and silent peers connected: the game thread is not joining
\* from some moment on.
StopEnds == HeadersEnd => []<>(pc # "joining")

-----------------------------------------------------------------------------
(* A statement the code does not keep                                      *)

\* "wake it so the join below finishes in milliseconds"
\* (lua_httpserver.cpp:853-854): the join returns, whatever peers do.
StopReturns == []<>(pc # "joining")
=============================================================================
