----------------------------- MODULE HttpClient -----------------------------
(***************************************************************************)
(* The http.* namespace (src/lua_http.cpp): requests queued by Lua on the  *)
(* game thread, performed by a pool of workers, and called back when the   *)
(* game thread drains the replies once a frame.                            *)
(*                                                                         *)
(* One action is one critical section, with the code of its thread that    *)
(* touches nothing shared.  http.cancel and the teardown of a plugin take  *)
(* two locks one after the other and are two actions each.  The three      *)
(* sections of a reset are one: only a worker runs beside them, and what   *)
(* it can do in between (take a request before the first, post a reply     *)
(* before the second) gives a state it also reaches on either side.        *)
(*                                                                         *)
(* A callback is a slot of the Lua registry, and the registry belongs to   *)
(* one Lua state: a reset replaces it, and slot numbers start afresh.      *)
(*                                                                         *)
(* Left out: transport, headers and bodies; the timeout of a transfer is   *)
(* the reason why a worker always posts (fairness of Post).                *)
(***************************************************************************)
EXTENDS Queues

CONSTANTS Workers,         \* the WORKER_COUNT threads of the pool
          Plugins,         \* indices into LuaEngine::plugins()
          Refs,            \* slots of the Lua registry
          NoRef,           \* LUA_NOREF
          Free,            \* content of an unused slot
          None,            \* no job, no callback running, no target
          MaxRequests,     \* bound: requests in the life of the process
          MaxGenerations   \* bound: Lua states in the life of the process

Ids == 1..MaxRequests

\* A Request, and the Response made of it: the fields that outlive the transfer.
Job == [id : Ids, plugin : Plugins, generation : 1..MaxGenerations + 1,
        callback : Refs \cup {NoRef}]

ASSUME HttpConstants ==
    /\ NoRef \notin Refs
    /\ Free \notin Ids
    /\ None \notin Job
    /\ MaxRequests \in Nat
    /\ MaxGenerations \in Nat \ {0}

VARIABLES
    nextId,       \* s_next_id
    generation,   \* s_generation
    inflight,     \* s_inflight
    pending,      \* s_pending
    done,         \* s_done
    stopping,     \* s_stopping
    worker,       \* what each thread of s_workers is at, and the request it holds
    registry,     \* the registry of the present Lua state
    pc,           \* where the game thread is
    target,       \* the id or plugin of the cancel or teardown half done
    batch,        \* the replies swapped out of s_done and not yet looked at
    calling,      \* the reply whose callback is on the stack
    called,       \* history: ids whose callback was started
    cancelled,    \* history: ids for which http.cancel returned true
    abandoned,    \* history: ids not called when the teardown of their plugin ended
    tainted       \* history: a slot number of a dead Lua state was released into
                  \* the present registry

queues == <<pending, done>>
game == <<pc, target, batch, calling>>
history == <<called, cancelled, abandoned, tainted>>
httpVars == <<nextId, generation, inflight, pending, done, stopping, worker,
          registry, pc, target, batch, calling, called, cancelled, abandoned, tainted>>

WorkerStates == {"absent", "ready", "waiting", "performing", "exited"}
GameStates == {"lua", "cancel", "remove", "drain", "joining", "down"}

-----------------------------------------------------------------------------
(* Reading the state                                                       *)

OnTheWire == {worker[w].job : w \in {v \in Workers : worker[v].at = "performing"}}

\* Every request that is somewhere between http.get and its callback.
InTransit == Elements(pending) \cup OnTheWire \cup Elements(done) \cup Elements(batch)

\* Those the drain will call when it comes to them.
Armed == {job \in InTransit : job.callback # NoRef /\ job.generation = generation}

\* luaL_unref of a set of refs; LUA_NOREF is ignored.
Released(refs) == [r \in Refs |-> IF r \in refs THEN Free ELSE registry[r]]

RefsOf(jobs) == {job.callback : job \in jobs}
IdsOf(jobs) == {job.id : job \in jobs}

\* Lua code has the game thread: between two drains, or inside a callback.
InLua == pc = "lua"
BetweenFrames == InLua /\ calling = None

-----------------------------------------------------------------------------
(* Workers                                                                 *)

\* start_workers: the first request of the process starts the whole pool.
Started ==
    IF \A w \in Workers : worker[w].at = "absent"
    THEN [w \in Workers |-> [at |-> "ready", job |-> None]]
    ELSE worker

\* (mutant) The push without s_wake.notify_one().
NotifyNobody(pool) == {pool}

\* One waiter is woken, if there is one.  A worker does not begin to wait while
\* a request is queued, so waking at the push or just after it is the same.
NotifyOne(pool) ==
    IF \E w \in Workers : pool[w].at = "waiting"
    THEN {[pool EXCEPT ![w].at = "ready"] : w \in {v \in Workers : pool[v].at = "waiting"}}
    ELSE {pool}

Take(w) ==
    /\ worker[w].at = "ready"
    /\ ~stopping
    /\ pending # <<>>
    /\ worker' = [worker EXCEPT ![w] = [at |-> "performing", job |-> Head(pending)]]
    /\ pending' = Tail(pending)
    /\ UNCHANGED <<nextId, generation, inflight, done, stopping, registry, game, history>>

\* s_wake.wait with a false predicate.
Wait(w) ==
    /\ worker[w].at = "ready"
    /\ ~stopping
    /\ pending = <<>>
    /\ worker' = [worker EXCEPT ![w].at = "waiting"]
    /\ UNCHANGED <<nextId, generation, inflight, queues, stopping, registry, game, history>>

Exit(w) ==
    /\ worker[w].at = "ready"
    /\ stopping
    /\ worker' = [worker EXCEPT ![w].at = "exited"]
    /\ UNCHANGED <<nextId, generation, inflight, queues, stopping, registry, game, history>>

\* The transfer ends, well or badly, and the reply is queued.
Post(w) ==
    /\ worker[w].at = "performing"
    /\ done' = Append(done, worker[w].job)
    /\ worker' = [worker EXCEPT ![w] = [at |-> "ready", job |-> None]]
    /\ UNCHANGED <<nextId, generation, inflight, pending, stopping, registry, game, history>>

-----------------------------------------------------------------------------
(* http.get, http.post, http.request                                       *)

Ask(p) ==
    /\ InLua
    /\ nextId \in Ids
    /\ \E r \in {s \in Refs : registry[s] = Free} :
          /\ registry' = [registry EXCEPT ![r] = nextId]
          /\ pending' = Append(pending, [id |-> nextId, plugin |-> p,
                                         generation |-> generation, callback |-> r])
    /\ nextId' = nextId + 1
    /\ inflight' = inflight + 1
    /\ stopping' = (stopping /\ Started = worker)
    /\ worker' \in NotifyOne(Started)
    /\ UNCHANGED <<generation, done, game, history>>

-----------------------------------------------------------------------------
(* http.cancel                                                             *)

\* The search of s_pending.  Any plugin may name any id.
Cancel(id) ==
    /\ InLua
    /\ id < nextId
    /\ LET found == {job \in Elements(pending) : job.id = id}
       IN  IF found # {}
           THEN /\ pending' = Without(pending, found)
                /\ registry' = Released(RefsOf(found))
                /\ inflight' = inflight - 1
                /\ cancelled' = cancelled \cup {id}
                /\ UNCHANGED game
           ELSE /\ pc' = "cancel"
                /\ target' = id
                /\ UNCHANGED <<pending, registry, inflight, cancelled, batch, calling>>
    /\ UNCHANGED <<nextId, generation, done, stopping, worker, called, abandoned, tainted>>

\* The replies with the callback of some of them forgotten.
Disarmed(seq, unwanted) ==
    [k \in 1..Len(seq) |->
        IF seq[k] \in unwanted THEN [seq[k] EXCEPT !.callback = NoRef] ELSE seq[k]]

\* (mutant) The reply is found and reported, and left armed.
CancelReplyArmed ==
    /\ pc = "cancel"
    /\ cancelled' = cancelled \cup IdsOf({job \in Elements(done) : job.id = target})
    /\ pc' = "lua"
    /\ target' = None
    /\ UNCHANGED <<nextId, generation, inflight, queues, stopping, worker, registry,
                   batch, calling, called, abandoned, tainted>>

\* The search of s_done.  The ref is forgotten, not released.
CancelReply ==
    /\ pc = "cancel"
    /\ LET found == {job \in Elements(done) : job.id = target}
       IN  /\ done' = Disarmed(done, found)
           /\ cancelled' = cancelled \cup IdsOf(found)
    /\ pc' = "lua"
    /\ target' = None
    /\ UNCHANGED <<nextId, generation, inflight, pending, stopping, worker, registry,
                   batch, calling, called, abandoned, tainted>>

-----------------------------------------------------------------------------
(* Teardown of a plugin: lua_unload, lua_reload of one, a failed load      *)

\* The erased requests stay counted in s_inflight.
RemovePlugin(p) ==
    /\ InLua
    /\ LET doomed == {job \in Elements(pending) : job.plugin = p}
       IN  /\ pending' = Without(pending, doomed)
           /\ registry' = Released(RefsOf(doomed))
    /\ pc' = "remove"
    /\ target' = p
    /\ UNCHANGED <<nextId, generation, inflight, done, stopping, worker, batch, calling, history>>

\* Every reply of the plugin, whichever Lua state asked for it, is released from
\* the registry of the present one.
RemoveReplies ==
    /\ pc = "remove"
    /\ LET doomed == {job \in Elements(done) : job.plugin = target}
       IN  /\ registry' = Released(RefsOf(doomed))
           /\ tainted' = (tainted \/ \E job \in doomed :
                             job.callback # NoRef /\ job.generation # generation)
           /\ done' = Disarmed(done, doomed)
    /\ abandoned' = abandoned \cup IdsOf({job \in InTransit : job.plugin = target})
    /\ pc' = "lua"
    /\ target' = None
    /\ UNCHANGED <<nextId, generation, inflight, pending, stopping, worker,
                   batch, calling, called, cancelled>>

-----------------------------------------------------------------------------
(* cslua_http_run, once a frame                                            *)

\* The replies of a dead Lua state are subtracted too, from what the new one has
\* in flight; the count is held at zero.
StartDrain ==
    /\ BetweenFrames
    /\ done # <<>>
    /\ batch' = done
    /\ done' = <<>>
    /\ inflight' = IF inflight < Len(done) THEN 0 ELSE inflight - Len(done)
    /\ pc' = "drain"
    /\ UNCHANGED <<nextId, generation, pending, stopping, worker, registry,
                   target, calling, history>>

\* (mutant) The generation of a reply is not looked at.
UnwantedAnyState(job) == job.callback = NoRef

Unwanted(job) == job.callback = NoRef \/ job.generation # generation

SkipReply ==
    /\ pc = "drain"
    /\ batch # <<>>
    /\ Unwanted(Head(batch))
    /\ batch' = Tail(batch)
    /\ UNCHANGED <<nextId, generation, inflight, queues, stopping, worker, registry,
                   pc, target, calling, history>>

CallBack ==
    /\ pc = "drain"
    /\ batch # <<>>
    /\ ~Unwanted(Head(batch))
    /\ calling' = Head(batch)
    /\ called' = called \cup {Head(batch).id}
    /\ batch' = Tail(batch)
    /\ pc' = "lua"
    /\ UNCHANGED <<nextId, generation, inflight, queues, stopping, worker, registry,
                   target, cancelled, abandoned, tainted>>

\* The pcall is over, with or without an error.
Returned ==
    /\ InLua
    /\ calling # None
    /\ registry' = Released({calling.callback})
    /\ calling' = None
    /\ pc' = "drain"
    /\ UNCHANGED <<nextId, generation, inflight, queues, stopping, worker,
                   target, batch, history>>

EndDrain ==
    /\ pc = "drain"
    /\ batch = <<>>
    /\ pc' = "lua"
    /\ UNCHANGED <<nextId, generation, inflight, queues, stopping, worker, registry,
                   target, batch, calling, history>>

-----------------------------------------------------------------------------
(* The end of a Lua state, and of the process                              *)

\* cslua_http_reset, and the new registry of the state that follows.
Disown ==
    /\ generation' = generation + 1
    /\ pending' = <<>>
    /\ done' = <<>>
    /\ inflight' = 0
    /\ registry' = [r \in Refs |-> Free]
    /\ tainted' = FALSE

Reset ==
    /\ BetweenFrames
    /\ generation < MaxGenerations
    /\ Disown
    /\ UNCHANGED <<nextId, stopping, worker, game, called, cancelled, abandoned>>

\* (mutant) s_stopping is set and nobody is woken.
ShutdownSilent ==
    /\ BetweenFrames
    /\ Disown
    /\ stopping' = TRUE
    /\ pc' = "joining"
    /\ UNCHANGED <<nextId, worker, target, batch, calling, called, cancelled, abandoned>>

\* Meta_Detach: cslua_http_shutdown as far as its joins.
Shutdown ==
    /\ BetweenFrames
    /\ Disown
    /\ stopping' = TRUE
    /\ worker' = [w \in Workers |->
          IF worker[w].at = "waiting" THEN [worker[w] EXCEPT !.at = "ready"] ELSE worker[w]]
    /\ pc' = "joining"
    /\ UNCHANGED <<nextId, target, batch, calling, called, cancelled, abandoned>>

Joined ==
    /\ pc = "joining"
    /\ \A w \in Workers : worker[w].at \in {"absent", "exited"}
    /\ worker' = [w \in Workers |-> [at |-> "absent", job |-> None]]
    /\ pc' = "down"
    /\ UNCHANGED <<nextId, generation, inflight, queues, stopping, registry,
                   target, batch, calling, history>>

-----------------------------------------------------------------------------
HttpInit ==
    /\ nextId = 1
    /\ generation = 1
    /\ inflight = 0
    /\ pending = <<>>
    /\ done = <<>>
    /\ stopping = FALSE
    /\ worker = [w \in Workers |-> [at |-> "absent", job |-> None]]
    /\ registry = [r \in Refs |-> Free]
    /\ pc = "lua"
    /\ target = None
    /\ batch = <<>>
    /\ calling = None
    /\ called = {}
    /\ cancelled = {}
    /\ abandoned = {}
    /\ tainted = FALSE

WorkerStep(w) == Take(w) \/ Wait(w) \/ Exit(w) \/ Post(w)

LuaStep ==
    \/ \E p \in Plugins : Ask(p) \/ RemovePlugin(p)
    \/ \E id \in Ids : Cancel(id)

\* What the game thread goes through by itself once it has begun.
GameStep == CancelReply \/ RemoveReplies \/ SkipReply \/ CallBack \/ EndDrain \/ Joined

HttpNext ==
    \/ \E w \in Workers : WorkerStep(w)
    \/ LuaStep
    \/ GameStep
    \/ StartDrain
    \/ Returned
    \/ Reset
    \/ Shutdown

\* Threads are scheduled and transfers end (the timeout of the transport); a
\* callback returns and the next frame comes, however often Lua code has used
\* the namespace in between.
HttpFairness ==
    /\ \A w \in Workers : WF_httpVars(WorkerStep(w))
    /\ WF_httpVars(GameStep)
    /\ SF_httpVars(StartDrain)
    /\ SF_httpVars(Returned)

HttpSpec == HttpInit /\ [][HttpNext]_httpVars /\ HttpFairness

-----------------------------------------------------------------------------
(* Correctness                                                             *)

\* The fields hold what the code can put there; s_inflight falls below zero only
\* by a request cancelled after a stale reply was subtracted in its place.
HttpTypeOK ==
    /\ nextId \in 1..MaxRequests + 1
    /\ generation \in 1..MaxGenerations + 1
    /\ inflight \in -MaxRequests..MaxRequests
    /\ pending \in Seq(Job) /\ done \in Seq(Job) /\ batch \in Seq(Job)
    /\ stopping \in BOOLEAN
    /\ worker \in [Workers -> [at : WorkerStates, job : Job \cup {None}]]
    /\ registry \in [Refs -> Ids \cup {Free}]
    /\ pc \in GameStates
    /\ target \in Ids \cup Plugins \cup {None}
    /\ calling \in Job \cup {None}
    /\ called \subseteq Ids /\ cancelled \subseteq Ids /\ abandoned \subseteq Ids
    /\ tainted \in BOOLEAN

NoneTwice(seq) == \A i, j \in 1..Len(seq) : seq[i].id = seq[j].id => i = j

Places == <<IdsOf(Elements(pending)), IdsOf(OnTheWire), IdsOf(Elements(done)),
            IdsOf(Elements(batch)), called>>

\* A request is in one place: two workers never hold the same one, the drain and
\* the queues never both, and a request called back is nowhere any more.  So no
\* interleaving of workers, cancels and drains can call a callback twice.
OnePlace ==
    /\ NoneTwice(pending) /\ NoneTwice(done) /\ NoneTwice(batch)
    /\ \A v, w \in Workers :
          /\ worker[v].at = "performing" /\ worker[w].at = "performing"
          /\ worker[v].job.id = worker[w].job.id
          => v = w
    /\ \A i, j \in DOMAIN Places : i # j => Places[i] \cap Places[j] = {}

\* The slot a reply names holds the closure of that request, from http.get to
\* the end of the callback, whatever the generations before it left on the wire.
ClosuresAreTheirOwn ==
    \A job \in Armed \cup ({calling} \ {None}) : registry[job.callback] = job.id

\* The same, unless a reply of an earlier Lua state has been released into this
\* registry: no other path hands a waiting request's slot to another closure.
ArmedHasClosure == tainted \/ ClosuresAreTheirOwn

\* A request whose http.cancel returned true is armed nowhere.
CancelIsFinal == \A job \in Armed : job.id \notin cancelled

\* What holds of the queues between any two steps.
HttpConsistent == HttpTypeOK /\ OnePlace /\ ArmedHasClosure /\ CancelIsFinal

\* What the namespace promises, see RequestLedger.
statusBar == [id \in Ids |->
    IF id >= nextId THEN "unasked"
    ELSE IF id \in called THEN "called"
    ELSE IF \E job \in Armed : job.id = id THEN "waiting" ELSE "dropped"]

Ledger == INSTANCE RequestLedger WITH Requests <- Ids, status <- statusBar

\* Every step of the threads is a step of the ledger: a request is called back
\* once or dropped once, never one after the other.
KeepsLedger == Ledger!Spec

\* No request waits for ever: its callback runs, or it is cancelled or disowned.
EveryAskSettles == \A id \in Ids : []<>(statusBar[id] # "waiting")

\* cslua_http_shutdown comes back.
ShutdownEnds == pc = "joining" ~> pc = "down"

\* What the documentation says of an unloaded plugin: its callbacks do not run.
DisarmedNeverCalled ==
    [][\A id \in abandoned : id \in called' => id \in called]_httpVars
=============================================================================
