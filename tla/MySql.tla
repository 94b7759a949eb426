-------------------------------- MODULE MySql --------------------------------
(***************************************************************************)
(* The mysql.* namespace (src/lua_mysql.cpp): requests queued by Lua,      *)
(* performed by two workers over connections that several requests share,  *)
(* and called back when the game thread drains the replies.                *)
(*                                                                         *)
(* The queues are those of HttpClient, without a cancel.  What is added is *)
(* the connection: a Lua table names it, its socket is opened by the first *)
(* worker that needs it and used under its use_lock, and both conn:close   *)
(* and the teardown of a plugin take it away.                              *)
(*                                                                         *)
(* One action is one critical section, or one call of the client library.  *)
(* remove_plugin is two: its first section, and its last two together      *)
(* (between them a worker can post, lock or unlock, and each of these      *)
(* touches only one of the two).  A reset is one, as in HttpClient.        *)
(*                                                                         *)
(* Every connection leads to one database: a plugin that is started again  *)
(* connects again to where its migrations were.                            *)
(*                                                                         *)
(* Left out: SQL, parameters and rows; the slots of callbacks, which are   *)
(* taken and released as in HttpClient; s_inflight, a number that lua_list *)
(* shows.                                                                  *)
(***************************************************************************)
EXTENDS Queues

CONSTANTS Workers,         \* the WORKER_COUNT threads of the pool
          Plugins,         \* indices into LuaEngine::plugins()
          None,            \* no job, no callback running, nobody
          Migrations,      \* ids of migrations
          Batches,         \* what conn:migrate is given, lists of migrations
          MaxConns,        \* bound: connections in the life of the process
          MaxRequests,     \* bound: requests in the life of the process
          MaxGenerations   \* bound: Lua states in the life of the process

Ids == 1..MaxRequests

\* callback is FALSE for LUA_NOREF.
Reply == [id : Ids, plugin : Plugins, generation : 1..MaxGenerations + 1,
          callback : BOOLEAN]

\* A Request: a query, or what conn:migrate is to run.
Job == [reply : Reply, conn : 1..MaxConns, steps : Batches \cup {<<>>}]

Parameters ==
    /\ None \notin Workers \cup Reply \cup Job
    /\ Batches \subseteq Seq(Migrations) \ {<<>>}
    /\ MaxConns \in Nat /\ MaxRequests \in Nat
    /\ MaxGenerations \in Nat \ {0}

ASSUME MySqlConstants == Parameters

VARIABLES
    nextId,       \* s_next_id
    generation,   \* s_generation
    pending,      \* s_pending
    done,         \* s_done
    stopping,     \* s_stopping
    worker,       \* what each thread of s_workers is at, and the request it holds
    conns,        \* s_conns
    recorded,     \* the rows of _cslua_migrations
    pc,           \* where the game thread is
    target,       \* the connection or plugin of the close or teardown half done
    batch,        \* the replies swapped out of s_done and not yet looked at
    calling,      \* the reply whose callback is on the stack
    called,       \* history: ids whose callback was started
    raced,        \* history: connections a teardown found in use
    repeated,     \* history: migrations run although they were recorded
    excused       \* history: a batch ran beside another, without all the rows
                  \* that are recorded, or with a migration twice

queues == <<pending, done>>
database == <<recorded, repeated, excused>>
game == <<pc, target, batch, calling>>
vars == <<nextId, generation, queues, stopping, worker, conns, database, game,
          called, raced>>

\* lock is the holder of use_lock.
Conn == [plugin : Plugins, generation : 1..MaxGenerations, open : BOOLEAN,
         closed : BOOLEAN, lock : Workers \cup {None}]

UnderLock == {"locked", "connecting", "querying", "reading", "running", "recording"}

Migrating == {"reading", "running", "recording"}

WorkerStates == {"absent", "ready", "waiting", "locking", "posting", "exited"} \cup UnderLock

GameStates == {"lua", "closing", "remove", "drain", "joining", "down"}

-----------------------------------------------------------------------------
(* Reading the state                                                       *)

Working == {w \in Workers : worker[w].job # None}

InTransit == {job.reply : job \in Elements(pending)}
             \cup {worker[w].job.reply : w \in Working}
             \cup Elements(done) \cup Elements(batch)

\* Those the drain will call when it comes to them.
Armed == {reply \in InTransit : reply.callback /\ reply.generation = generation}

InLua == pc = "lua"
BetweenFrames == InLua /\ calling = None

Idle == [at |-> "ready", job |-> None, todo |-> <<>>]

ConnOf(w) == worker[w].job.conn

-----------------------------------------------------------------------------
(* Workers: the queue                                                      *)

NotifyOne(pool) ==
    IF \E w \in Workers : pool[w].at = "waiting"
    THEN {[pool EXCEPT ![w].at = "ready"] : w \in {v \in Workers : pool[v].at = "waiting"}}
    ELSE {pool}

Take(w) ==
    /\ worker[w].at = "ready"
    /\ ~stopping
    /\ pending # <<>>
    /\ worker' = [worker EXCEPT ![w] = [at |-> "locking", job |-> Head(pending), todo |-> <<>>]]
    /\ pending' = Tail(pending)
    /\ UNCHANGED <<nextId, generation, done, stopping, conns, database, game, called, raced>>

Wait(w) ==
    /\ worker[w].at = "ready"
    /\ ~stopping
    /\ pending = <<>>
    /\ worker' = [worker EXCEPT ![w].at = "waiting"]
    /\ UNCHANGED <<nextId, generation, queues, stopping, conns, database, game, called, raced>>

Exit(w) ==
    /\ worker[w].at = "ready"
    /\ stopping
    /\ worker' = [worker EXCEPT ![w].at = "exited"]
    /\ UNCHANGED <<nextId, generation, queues, stopping, conns, database, game, called, raced>>

Post(w) ==
    /\ worker[w].at = "posting"
    /\ done' = Append(done, worker[w].job.reply)
    /\ worker' = [worker EXCEPT ![w] = Idle]
    /\ UNCHANGED <<nextId, generation, pending, stopping, conns, database, game, called, raced>>

-----------------------------------------------------------------------------
(* Workers: perform and perform_migrate                                    *)

Goto(w, at) == worker' = [worker EXCEPT ![w].at = at]

\* (mutant) The lock is taken by hand, and an early return forgets it.
UnlockForgetting(w, keep) ==
    /\ conns' = [conns EXCEPT ![ConnOf(w)].lock = IF keep THEN None ELSE @,
                              ![ConnOf(w)].open = @ /\ keep]
    /\ worker' = [worker EXCEPT ![w].at = "posting", ![w].todo = <<>>]

\* ~lock_guard at the end of perform, with the socket kept or closed.
Unlock(w, keep) ==
    /\ conns' = [conns EXCEPT ![ConnOf(w)].lock = None, ![ConnOf(w)].open = @ /\ keep]
    /\ worker' = [worker EXCEPT ![w].at = "posting", ![w].todo = <<>>]

Lock(w) ==
    /\ worker[w].at = "locking"
    /\ conns[ConnOf(w)].lock = None
    /\ conns' = [conns EXCEPT ![ConnOf(w)].lock = w]
    /\ Goto(w, "locked")
    /\ UNCHANGED <<nextId, generation, queues, stopping, database, game, called, raced>>

\* What a job does once it has a socket.
FirstCall(w) == IF worker[w].job.steps = <<>> THEN "querying" ELSE "reading"

\* `closed' is read; remove_plugin may write it at any time.
Check(w) ==
    /\ worker[w].at = "locked"
    /\ IF conns[ConnOf(w)].closed THEN Unlock(w, TRUE)
       ELSE /\ Goto(w, IF conns[ConnOf(w)].open THEN FirstCall(w) ELSE "connecting")
            /\ UNCHANGED conns
    /\ UNCHANGED <<nextId, generation, queues, stopping, database, game, called, raced>>

Connected(w) ==
    /\ worker[w].at = "connecting"
    /\ conns' = [conns EXCEPT ![ConnOf(w)].open = TRUE]
    /\ Goto(w, FirstCall(w))
    /\ UNCHANGED <<nextId, generation, queues, stopping, database, game, called, raced>>

\* Refused, or five seconds are over.
ConnectFails(w) ==
    /\ worker[w].at = "connecting"
    /\ Unlock(w, FALSE)
    /\ UNCHANGED <<nextId, generation, queues, stopping, database, game, called, raced>>

\* The query is answered, or fails and the socket is closed.
Query(w) ==
    /\ worker[w].at = "querying"
    /\ \E ok \in BOOLEAN : Unlock(w, ok)
    /\ UNCHANGED <<nextId, generation, queues, stopping, database, game, called, raced>>

\* A worker begins a batch while another is at one over another connection.
Crossing(w) == \E v \in Workers : worker[v].at \in Migrating /\ ConnOf(v) # ConnOf(w)

\* Nothing looks for a migration that a batch is given twice.
Repeating(steps) == \E i, j \in 1..Len(steps) : i # j /\ steps[i] = steps[j]

\* (mutant) What was applied before is not asked for.
ReadNothing(w) ==
    /\ worker[w].at = "reading"
    /\ worker' = [worker EXCEPT ![w].at = "running", ![w].todo = worker[w].job.steps]
    /\ excused' = (excused \/ Crossing(w) \/ Repeating(worker[w].job.steps))
    /\ UNCHANGED <<conns, recorded, repeated>>
    /\ UNCHANGED <<nextId, generation, queues, stopping, game, called, raced>>

\* The rows of _cslua_migrations are fetched, once for the batch.  A result that
\* cannot be stored (mysql_store_result gives NULL) passes for no rows.
ReadApplied(w) ==
    /\ worker[w].at = "reading"
    /\ \E rows \in {recorded, {}} :
          LET todo == Without(worker[w].job.steps, rows)
          IN  /\ excused' = (excused \/ Crossing(w) \/ Repeating(worker[w].job.steps)
                             \/ rows # recorded)
              /\ IF todo = <<>> THEN Unlock(w, TRUE)
                 ELSE /\ worker' = [worker EXCEPT ![w].at = "running", ![w].todo = todo]
                      /\ UNCHANGED conns
    /\ UNCHANGED <<recorded, repeated>>
    /\ UNCHANGED <<nextId, generation, queues, stopping, game, called, raced>>

ReadFails(w) ==
    /\ worker[w].at = "reading"
    /\ Unlock(w, FALSE)
    /\ UNCHANGED <<nextId, generation, queues, stopping, database, game, called, raced>>

\* The SQL of a migration has run, and its row is next.
RunStep(w) ==
    /\ worker[w].at = "running"
    /\ repeated' = repeated \cup ({Head(worker[w].todo)} \cap recorded)
    /\ Goto(w, "recording")
    /\ UNCHANGED <<recorded, excused>>
    /\ UNCHANGED <<nextId, generation, queues, stopping, conns, game, called, raced>>

RecordStep(w) ==
    /\ worker[w].at = "recording"
    /\ Head(worker[w].todo) \notin recorded
    /\ recorded' = recorded \cup {Head(worker[w].todo)}
    /\ IF Tail(worker[w].todo) = <<>> THEN Unlock(w, TRUE)
       ELSE /\ worker' = [worker EXCEPT ![w].at = "running", ![w].todo = Tail(@)]
            /\ UNCHANGED conns
    /\ UNCHANGED <<repeated, excused>>
    /\ UNCHANGED <<nextId, generation, queues, stopping, game, called, raced>>

\* A migration fails, or its row does (a second row of one id always does): the
\* rest of the batch is given up and the socket, good or bad, is kept.
StepFails(w) ==
    /\ worker[w].at \in {"running", "recording"}
    /\ Unlock(w, TRUE)
    /\ UNCHANGED <<nextId, generation, queues, stopping, database, game, called, raced>>

-----------------------------------------------------------------------------
(* What Lua code does                                                      *)

\* mysql.connect touches no socket.
Connect(p) ==
    /\ InLua
    /\ Len(conns) < MaxConns
    /\ conns' = Append(conns, [plugin |-> p, generation |-> generation, open |-> FALSE,
                               closed |-> FALSE, lock |-> None])
    /\ UNCHANGED <<nextId, generation, queues, stopping, worker, database, game, called, raced>>

\* The connections whose table is in the present Lua state.
Usable == {c \in 1..Len(conns) : conns[c].generation = generation}

\* start_workers: the first request of the process starts the whole pool.
Started ==
    IF \A w \in Workers : worker[w].at = "absent" THEN [w \in Workers |-> Idle] ELSE worker

\* conn:query, find, create, update, delete (steps is <<>>) and migrate.  Any
\* plugin may hold the table of any connection.
Ask(p, c, steps) ==
    /\ InLua
    /\ nextId \in Ids
    /\ c \in Usable
    /\ pending' = Append(pending, [conn |-> c, steps |-> steps,
          reply |-> [id |-> nextId, plugin |-> p, generation |-> generation, callback |-> TRUE]])
    /\ nextId' = nextId + 1
    /\ stopping' = (stopping /\ Started = worker)
    /\ worker' \in NotifyOne(Started)
    /\ UNCHANGED <<generation, done, conns, database, game, called, raced>>

\* Nothing is left for conn:close to do.
Shut(c) == conns[c].closed /\ ~conns[c].open /\ conns[c].lock = None

\* conn:close waits for use_lock, on the game thread.
Close(c) ==
    /\ InLua
    /\ c \in Usable
    /\ ~Shut(c)
    /\ pc' = "closing"
    /\ target' = c
    /\ UNCHANGED <<nextId, generation, queues, stopping, worker, conns, database,
                   batch, calling, called, raced>>

CloseLocked ==
    /\ pc = "closing"
    /\ conns[target].lock = None
    /\ conns' = [conns EXCEPT ![target].closed = TRUE, ![target].open = FALSE]
    /\ pc' = "lua"
    /\ target' = None
    /\ UNCHANGED <<nextId, generation, queues, stopping, worker, database,
                   batch, calling, called, raced>>

-----------------------------------------------------------------------------
(* Teardown of a plugin                                                    *)

RemovePlugin(p) ==
    /\ InLua
    /\ pending' = Without(pending, {job \in Elements(pending) : job.reply.plugin = p})
    /\ pc' = "remove"
    /\ target' = p
    /\ UNCHANGED <<nextId, generation, done, stopping, worker, conns, database,
                   batch, calling, called, raced>>

OwnedBy(p) == {c \in 1..Len(conns) : conns[c].plugin = p /\ ~conns[c].closed}

\* (mutant) Sockets are closed without a look at use_lock.
TakeAwayAnyway(p) ==
    /\ conns' = [c \in 1..Len(conns) |->
          IF c \in OwnedBy(p) THEN [conns[c] EXCEPT !.closed = TRUE, !.open = FALSE]
          ELSE conns[c]]
    /\ UNCHANGED raced

\* An idle connection is closed; one in use is only marked.
TakeAway(p) ==
    /\ conns' = [c \in 1..Len(conns) |->
          IF c \in OwnedBy(p)
          THEN [conns[c] EXCEPT !.closed = TRUE, !.open = @ /\ conns[c].lock # None]
          ELSE conns[c]]
    /\ raced' = raced \cup {c \in OwnedBy(p) : conns[c].lock # None}

\* The replies, of whichever Lua state, and the connections.
RemoveReplies ==
    /\ pc = "remove"
    /\ done' = [k \in 1..Len(done) |->
                  IF done[k].plugin = target THEN [done[k] EXCEPT !.callback = FALSE] ELSE done[k]]
    /\ TakeAway(target)
    /\ pc' = "lua"
    /\ target' = None
    /\ UNCHANGED <<nextId, generation, pending, stopping, worker, database, batch, calling, called>>

-----------------------------------------------------------------------------
(* cslua_mysql_run, once a frame                                           *)

StartDrain ==
    /\ BetweenFrames
    /\ done # <<>>
    /\ batch' = done
    /\ done' = <<>>
    /\ pc' = "drain"
    /\ UNCHANGED <<nextId, generation, pending, stopping, worker, conns, database,
                   target, calling, called, raced>>

\* (mutant) The generation of a reply is not looked at.
UnwantedAnyState(reply) == ~reply.callback

Unwanted(reply) == ~reply.callback \/ reply.generation # generation

SkipReply ==
    /\ pc = "drain"
    /\ batch # <<>>
    /\ Unwanted(Head(batch))
    /\ batch' = Tail(batch)
    /\ UNCHANGED <<nextId, generation, queues, stopping, worker, conns, database,
                   pc, target, calling, called, raced>>

CallBack ==
    /\ pc = "drain"
    /\ batch # <<>>
    /\ ~Unwanted(Head(batch))
    /\ calling' = Head(batch)
    /\ called' = called \cup {Head(batch).id}
    /\ batch' = Tail(batch)
    /\ pc' = "lua"
    /\ UNCHANGED <<nextId, generation, queues, stopping, worker, conns, database,
                   target, raced>>

Returned ==
    /\ InLua
    /\ calling # None
    /\ calling' = None
    /\ pc' = "drain"
    /\ UNCHANGED <<nextId, generation, queues, stopping, worker, conns, database,
                   target, batch, called, raced>>

EndDrain ==
    /\ pc = "drain"
    /\ batch = <<>>
    /\ pc' = "lua"
    /\ UNCHANGED <<nextId, generation, queues, stopping, worker, conns, database,
                   target, batch, calling, called, raced>>

-----------------------------------------------------------------------------
(* The end of a Lua state, and of the process                              *)

\* cslua_mysql_reset; the registry refs die with the Lua state.
Disown ==
    /\ generation' = generation + 1
    /\ pending' = <<>>
    /\ done' = <<>>

Reset ==
    /\ BetweenFrames
    /\ generation < MaxGenerations
    /\ Disown
    /\ UNCHANGED <<nextId, stopping, worker, conns, database, game, called, raced>>

\* Meta_Detach: cslua_mysql_shutdown as far as its joins.
Shutdown ==
    /\ BetweenFrames
    /\ Disown
    /\ stopping' = TRUE
    /\ worker' = [w \in Workers |->
          IF worker[w].at = "waiting" THEN [worker[w] EXCEPT !.at = "ready"] ELSE worker[w]]
    /\ pc' = "joining"
    /\ UNCHANGED <<nextId, conns, database, target, batch, calling, called, raced>>

\* The joins, and the sockets that are left.
Joined ==
    /\ pc = "joining"
    /\ \A w \in Workers : worker[w].at \in {"absent", "exited"}
    /\ worker' = [w \in Workers |-> [Idle EXCEPT !.at = "absent"]]
    /\ conns' = [c \in 1..Len(conns) |-> [conns[c] EXCEPT !.open = FALSE]]
    /\ pc' = "down"
    /\ UNCHANGED <<nextId, generation, queues, stopping, database,
                   target, batch, calling, called, raced>>

-----------------------------------------------------------------------------
Init ==
    /\ nextId = 1
    /\ generation = 1
    /\ pending = <<>>
    /\ done = <<>>
    /\ stopping = FALSE
    /\ worker = [w \in Workers |-> [Idle EXCEPT !.at = "absent"]]
    /\ conns = <<>>
    /\ recorded = {}
    /\ pc = "lua"
    /\ target = None
    /\ batch = <<>>
    /\ calling = None
    /\ called = {}
    /\ raced = {}
    /\ repeated = {}
    /\ excused = FALSE

WorkerStep(w) ==
    \/ Take(w) \/ Wait(w) \/ Exit(w) \/ Post(w)
    \/ Lock(w) \/ Check(w) \/ Connected(w) \/ ConnectFails(w) \/ Query(w)
    \/ ReadApplied(w) \/ ReadFails(w) \/ RunStep(w) \/ RecordStep(w) \/ StepFails(w)

LuaStep ==
    \/ \E p \in Plugins : Connect(p) \/ RemovePlugin(p)
    \/ \E p \in Plugins, c \in 1..MaxConns, steps \in Batches \cup {<<>>} : Ask(p, c, steps)
    \/ \E c \in 1..MaxConns : Close(c)

\* What the game thread goes through by itself once it has begun.
GameStep == CloseLocked \/ RemoveReplies \/ SkipReply \/ CallBack \/ EndDrain \/ Joined

Next ==
    \/ \E w \in Workers : WorkerStep(w)
    \/ LuaStep
    \/ GameStep
    \/ StartDrain
    \/ Returned
    \/ Reset
    \/ Shutdown

\* Threads are scheduled, and every call of the client library ends (a connect
\* after five seconds, a read or write after ten).  Nothing is assumed of Lua
\* code or of the frame loop.
Fairness ==
    /\ \A w \in Workers : WF_vars(WorkerStep(w))
    /\ WF_vars(GameStep)

Spec == Init /\ [][Next]_vars /\ Fairness

-----------------------------------------------------------------------------
(* Correctness                                                             *)

\* The variables have their types, and a worker is at a migration while one is
\* left to run.
TypeOK ==
    /\ nextId \in 1..MaxRequests + 1
    /\ generation \in 1..MaxGenerations + 1
    /\ pending \in Seq(Job) /\ done \in Seq(Reply) /\ batch \in Seq(Reply)
    /\ stopping \in BOOLEAN
    /\ worker \in [Workers -> [at : WorkerStates, job : Job \cup {None}, todo : Seq(Migrations)]]
    /\ \A w \in Workers : worker[w].at \in {"running", "recording"} <=> worker[w].todo # <<>>
    /\ conns \in Seq(Conn)
    /\ recorded \subseteq Migrations /\ repeated \subseteq Migrations
    /\ excused \in BOOLEAN
    /\ pc \in GameStates
    /\ target \in 1..MaxConns \cup Plugins \cup {None}
    /\ calling \in Reply \cup {None}
    /\ called \subseteq Ids
    /\ raced \subseteq 1..MaxConns

\* A worker between two calls of the client library has its connection to
\* itself, and the socket is still there: neither conn:close nor a teardown nor
\* the other worker closes a handle that is in use.
HandleIsHeld ==
    \A w \in Workers : worker[w].at \in UnderLock =>
        /\ conns[ConnOf(w)].lock = w
        /\ worker[w].at \notin {"locked", "connecting"} => conns[ConnOf(w)].open

\* A closed connection that nobody uses has no socket: no request that was on
\* its way reopens it.  Only where a teardown met a worker in the middle of a
\* request is the socket left for the end of the process.
ClosedStaysShut ==
    \A c \in 1..Len(conns) :
        (conns[c].closed /\ conns[c].lock = None /\ c \notin raced) => ~conns[c].open

\* What holds of connections between any two steps.
Consistent == TypeOK /\ HandleIsHeld /\ ClosedStaysShut

\* A migration that is recorded is not run again, by whatever batches, failures
\* and reloads, unless batches ran over two connections at a time, the rows of
\* one were lost on their way, or one named a migration twice.
MigratedOnce == ~excused => repeated = {}

\* What the namespace promises, see RequestLedger.
statusBar ==
    LET waiting == {reply.id : reply \in Armed}
    IN  [id \in Ids |->
            IF id >= nextId THEN "unasked"
            ELSE IF id \in called THEN "called"
            ELSE IF id \in waiting THEN "waiting" ELSE "dropped"]

Ledger == INSTANCE RequestLedger WITH Requests <- Ids, status <- statusBar

\* Every step of the threads is a step of the ledger: a request is called back
\* once or dropped once, never one after the other.
KeepsLedger == Ledger!Spec

Blocked == pc \in {"closing", "joining"}

\* The game thread is never stuck: conn:close gets the lock, whoever else is
\* after the connection, and shutdown joins its workers.  (No wait lasts for ever
\* if and only if, again and again, there is none.)
GameThreadGoesOn == []<>~Blocked

\* A worker gets a connection to use.
Enters(w) == worker[w].at = "locking" /\ worker'[w].at # "locking"

NotBegun == Elements(pending) \cup {worker[w].job : w \in {v \in Workers : worker[v].at = "locking"}}

\* What the documentation says of two requests on one connection: they are
\* performed in the order they were made.
InTurn ==
    [][\A w \in Workers : Enters(w) =>
          \A job \in NotBegun : job.conn = ConnOf(w) =>
                job.reply.id >= worker[w].job.reply.id]_vars
=============================================================================
