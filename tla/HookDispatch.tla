---------------------------- MODULE HookDispatch ----------------------------
(***************************************************************************)
(* The event system of cs-lua (src/lua_events.cpp): handler lists, nested  *)
(* dispatch, and what a handler may do to the lists while they are walked. *)
(*                                                                         *)
(* Everything runs on the game thread, so there is no interleaving of      *)
(* threads; the concurrency is re-entrancy.  A walk over one list calls a  *)
(* Lua handler, and before that handler returns it may add and remove      *)
(* handlers of any list, fire another event (hook.run, or a native that    *)
(* makes the game fire one), or have a whole plugin torn down (lua_unload  *)
(* through sv.exec).  The model is a stack of walks, one frame for each    *)
(* LuaEvents::run / run_custom / l_run that has not returned.              *)
(*                                                                         *)
(* A std::vector<Handler> is a set of handler records here.  The vector is *)
(* only ever extended by push_back and compacted by erase, so the order of *)
(* its entries is the order of their registration numbers `n' and the      *)
(* index of an entry is the number of entries with a smaller `n'.          *)
(*                                                                         *)
(* Left out: the fields of the event table, profiling, error reporting (a  *)
(* handler that throws returns like any other), and hook.list.             *)
(***************************************************************************)
EXTENDS Integers, Sequences, FiniteSets

CONSTANTS Plugins,       \* plugins whose code registers handlers
          EngineEvents,  \* events with a slot in m_handlers
          CustomEvents,  \* names that become keys of m_custom
          Ids,           \* the id argument of hook.add
          Refs,          \* slots of the Lua registry
          NoRef,         \* LUA_NOREF
          NoPlugin,      \* no handler of this walk is running
          Free,          \* content of an unused registry slot
          MaxHandlers,   \* bound: registrations in the life of one Lua state
          MaxDepth       \* bound: nested dispatches

Events == EngineEvents \cup CustomEvents

ASSUME HookConstants ==
    /\ EngineEvents \cap CustomEvents = {}
    /\ NoRef \notin Refs
    /\ NoPlugin \notin Plugins
    /\ Free \notin Plugins \X Events \X Ids
    /\ MaxHandlers \in Nat
    /\ MaxDepth \in Nat

VARIABLES
    lists,        \* m_handlers and m_custom: the entries of each event's vector
    keys,         \* the names present in m_custom
    registered,   \* number given to the last handler pushed
    registry,     \* the Lua registry: which closure each slot holds
    dispatching,  \* m_dispatching
    stack         \* the walks that have not returned, innermost last

vars == <<lists, keys, registered, registry, dispatching, stack>>

Closure == Plugins \X Events \X Ids

Handler == [n : 1..MaxHandlers, plugin : Plugins, id : Ids,
            ref : Refs \cup {NoRef}, dead : BOOLEAN]

\* handler = 0: the walk is between two entries; otherwise the number of the
\* handler whose Lua code is running, with the plugin its PluginScope names.
\* called is history: the handlers this walk has called.
Frame == [event : Events, at : Nat, handler : 0..MaxHandlers,
          plugin : Plugins \cup {NoPlugin}, called : SUBSET (1..MaxHandlers)]

-----------------------------------------------------------------------------
(* Reading the state                                                       *)

Top == stack[Len(stack)]

\* hook.add, hook.remove and hook.run act for the plugin whose code runs: the
\* innermost handler's, or, outside any walk, a loading plugin or a timer's.
Running(p) == stack # <<>> => (Top.handler # 0 /\ Top.plugin = p)

\* The game can fire an event (the fire_* functions) between frames or from
\* inside a handler.
CanFire == stack # <<>> => Top.handler # 0

Position(h, list) == Cardinality({g \in list : g.n < h.n})

\* The live entry the duplicate scan of l_add, and the search of l_remove, stop at.
Own(e, p, i) == {h \in lists[e] : ~h.dead /\ h.plugin = p /\ h.id = i}

FreeRefs == {r \in Refs : registry[r] = Free}

-----------------------------------------------------------------------------
(* Bookkeeping                                                             *)

Buried(h) == [h EXCEPT !.dead = TRUE, !.ref = NoRef]

\* The tombstone loop: a doomed entry loses its ref and is marked dead.
Bury(doomed) ==
    [e \in Events |-> {IF h \in doomed THEN Buried(h) ELSE h : h \in lists[e]}]

\* (mutant) The tombstone is set and the ref forgotten.
UnrefNothing(doomed) == registry

\* luaL_unref of every doomed entry's ref.
Unref(doomed) ==
    [r \in Refs |-> IF \E h \in doomed : h.ref = r THEN Free ELSE registry[r]]

Compacted(ls) == [e \in Events |-> {h \in ls[e] : ~h.dead}]

\* (mutant) No look at the dispatch depth.
SweepAlways(ls, d) ==
    /\ lists' = Compacted(ls)
    /\ keys' = {c \in keys : \E h \in ls[c] : ~h.dead}

\* LuaEvents::sweep over the lists ls at dispatch depth d.
Sweep(ls, d) ==
    \/ /\ d > 0
       /\ lists' = ls
       /\ UNCHANGED keys
    \/ /\ d <= 0
       /\ lists' = Compacted(ls)
       /\ keys' = {c \in keys : \E h \in ls[c] : ~h.dead}

-----------------------------------------------------------------------------
(* hook.add                                                                *)

\* Same plugin, same id: the entry stays where it is and gets the new closure.
\* The old ref is released first, so luaL_ref may hand the same slot out again.
Replace(p, e, i) ==
    /\ Running(p)
    /\ \E h \in Own(e, p, i), r \in Refs :
          /\ r = h.ref \/ r \in FreeRefs
          /\ registry' = [Unref({h}) EXCEPT ![r] = <<p, e, i>>]
          /\ lists' = [lists EXCEPT ![e] = (@ \ {h}) \cup {[h EXCEPT !.ref = r]}]
    /\ UNCHANGED <<keys, registered, dispatching, stack>>

\* Otherwise a new entry goes to the back; m_custom[name] makes the key.
PushBack(p, e, i) ==
    /\ Running(p)
    /\ Own(e, p, i) = {}
    /\ registered < MaxHandlers
    /\ \E r \in FreeRefs :
          /\ registry' = [registry EXCEPT ![r] = <<p, e, i>>]
          /\ lists' = [lists EXCEPT ![e] = @ \cup
                {[n |-> registered + 1, plugin |-> p, id |-> i, ref |-> r, dead |-> FALSE]}]
    /\ registered' = registered + 1
    /\ keys' = keys \cup ({e} \cap CustomEvents)
    /\ UNCHANGED <<dispatching, stack>>

-----------------------------------------------------------------------------
(* hook.remove and the teardown of a plugin                                *)

\* Only the caller's own handler; a name nobody registered leaves all as it was.
Remove(p, e, i) ==
    /\ Running(p)
    /\ registry' = Unref(Own(e, p, i))
    /\ Sweep(Bury(Own(e, p, i)), dispatching)
    /\ UNCHANGED <<registered, dispatching, stack>>

Belonging(q) == UNION {{h \in lists[e] : h.plugin = q /\ ~h.dead} : e \in Events}

\* (mutant) Erases at once, as the timers of an unloaded plugin are.
RemovePluginErasing(q) ==
    /\ CanFire
    /\ registry' = Unref(Belonging(q))
    /\ lists' = Compacted(Bury(Belonging(q)))
    /\ UNCHANGED <<keys, registered, dispatching, stack>>

\* LuaEvents::remove_plugin: between frames, or from inside a handler.
RemovePlugin(q) ==
    /\ CanFire
    /\ registry' = Unref(Belonging(q))
    /\ Sweep(Bury(Belonging(q)), dispatching)
    /\ UNCHANGED <<registered, dispatching, stack>>

\* LuaEvents::clear, just before lua_close: the registry dies with the state.
Clear ==
    /\ stack = <<>>
    /\ lists' = [e \in Events |-> {}]
    /\ keys' = {}
    /\ dispatching' = 0
    /\ registry' = [r \in Refs |-> Free]
    /\ registered' = 0
    /\ UNCHANGED stack

-----------------------------------------------------------------------------
(* Dispatch                                                                *)

\* DispatchScope and the start of dispatch_list.
StartWalk(e) ==
    /\ Len(stack) < MaxDepth
    /\ dispatching' = dispatching + 1
    /\ stack' = Append(stack, [event |-> e, at |-> 0, handler |-> 0,
                               plugin |-> NoPlugin, called |-> {}])
    /\ UNCHANGED <<lists, keys, registered, registry>>

\* LuaEvents::run, and run_custom for a network message.  Nothing in the list:
\* the event table is not even built.
Fire(e) ==
    /\ CanFire
    /\ lists[e] # {}
    /\ e \in CustomEvents => e \in keys
    /\ StartWalk(e)

\* hook.run by plugin code: walks whatever m_custom.find returns.
HookRun(p, c) ==
    /\ Running(p)
    /\ c \in keys
    /\ StartWalk(c)

Advance(f) == stack' = [stack EXCEPT ![Len(stack)] = f]

\* The walk stands at the entry its index names.
AtEntry(h) ==
    /\ stack # <<>>
    /\ Top.handler = 0
    /\ h \in lists[Top.event]
    /\ Position(h, lists[Top.event]) = Top.at

SkipDead ==
    \E h \in UNION {lists[e] : e \in Events} :
        /\ AtEntry(h)
        /\ h.dead
        /\ Advance([Top EXCEPT !.at = @ + 1])
        /\ UNCHANGED <<lists, keys, registered, registry, dispatching>>

\* PluginScope, lua_rawgeti and lua_pcall: control passes to the handler.
Call ==
    \E h \in UNION {lists[e] : e \in Events} :
        /\ AtEntry(h)
        /\ ~h.dead
        /\ Advance([Top EXCEPT !.handler = h.n, !.plugin = h.plugin,
                               !.called = @ \cup {h.n}])
        /\ UNCHANGED <<lists, keys, registered, registry, dispatching>>

\* The handler returns, by itself or by an error pcall caught, and the event
\* was not cancelled.
Return ==
    /\ stack # <<>>
    /\ Top.handler # 0
    /\ Advance([Top EXCEPT !.handler = 0, !.plugin = NoPlugin, !.at = @ + 1])
    /\ UNCHANGED <<lists, keys, registered, registry, dispatching>>

\* ~DispatchScope, then the sweep that follows it in run, run_custom and l_run.
EndWalk ==
    /\ dispatching' = dispatching - 1
    /\ stack' = SubSeq(stack, 1, Len(stack) - 1)
    /\ Sweep(lists, dispatching - 1)
    /\ UNCHANGED <<registered, registry>>

\* A handler returns after writing e.cancelled: the rest is not called.
ReturnCancelled ==
    /\ stack # <<>>
    /\ Top.handler # 0
    /\ EndWalk

\* The index has passed the last entry, appended ones included.
Exhausted ==
    /\ stack # <<>>
    /\ Top.handler = 0
    /\ Top.at >= Cardinality(lists[Top.event])
    /\ EndWalk

-----------------------------------------------------------------------------
Init ==
    /\ lists = [e \in Events |-> {}]
    /\ keys = {}
    /\ registered = 0
    /\ registry = [r \in Refs |-> Free]
    /\ dispatching = 0
    /\ stack = <<>>

Next ==
    \/ \E p \in Plugins, e \in Events, i \in Ids :
          \/ Replace(p, e, i)
          \/ PushBack(p, e, i)
          \/ Remove(p, e, i)
    \/ \E q \in Plugins : RemovePlugin(q)
    \/ Clear
    \/ \E e \in Events : Fire(e)
    \/ \E p \in Plugins, c \in CustomEvents : HookRun(p, c)
    \/ SkipDead
    \/ Call
    \/ Return
    \/ ReturnCancelled
    \/ Exhausted

Spec == Init /\ [][Next]_vars

-----------------------------------------------------------------------------
(* Correctness                                                             *)

\* The variables have their types; handlers are numbered in the order they came.
TypeOK ==
    /\ lists \in [Events -> SUBSET Handler]
    /\ keys \subseteq CustomEvents
    /\ registered \in 0..MaxHandlers
    /\ registry \in [Refs -> Closure \cup {Free}]
    /\ dispatching \in Nat
    /\ stack \in Seq(Frame)

\* A live entry's ref names the closure registered for that very plugin, event
\* and id, no two live entries share a slot, a tombstone holds none, and every
\* used slot belongs to a live entry: whatever order adds, replacements,
\* removals and teardowns come in, lua_rawgeti never fetches another handler's
\* function and no closure outlives its subscription.
RefsMatchHandlers ==
    /\ \A e \in Events : \A h \in lists[e] :
          IF h.dead THEN h.ref = NoRef
                    ELSE h.ref \in Refs /\ registry[h.ref] = <<h.plugin, e, h.id>>
    /\ \A e1, e2 \in Events : \A h1 \in lists[e1], h2 \in lists[e2] :
          (h1.ref = h2.ref /\ h1.ref # NoRef) => (e1 = e2 /\ h1 = h2)
    /\ \A r \in Refs : registry[r] # Free =>
          \E e \in Events : \E h \in lists[e] : h.ref = r

\* A plugin has at most one live handler under one id of one event, which is
\* what keeps a repeated hook.add from doubling a subscription.
OneSubscription ==
    \A e \in Events : \A h1, h2 \in lists[e] :
        (~h1.dead /\ ~h2.dead /\ h1.plugin = h2.plugin /\ h1.id = h2.id) => h1 = h2

\* Tombstones exist only while something is being walked, and m_custom holds
\* exactly the names somebody listens to: every path that buries an entry also
\* reaches a sweep that can erase it.
QuiescentClean ==
    /\ dispatching = Len(stack)
    /\ stack = <<>> =>
          \A e \in Events : \A h \in lists[e] : ~h.dead
    /\ keys = {c \in CustomEvents : lists[c] # {}}

\* What holds of the lists between any two steps.
Consistent == TypeOK /\ RefsMatchHandlers /\ OneSubscription /\ QuiescentClean

\* A step inside a walk keeps every entry and adds only behind the last one.
OnlyGrows ==
    (stack # <<>> /\ stack' # <<>>) =>
        \A e \in Events :
           /\ \A h \in lists[e] : \E g \in lists'[e] : g.n = h.n
           /\ \A g \in lists'[e] : \/ \E h \in lists[e] : h.n = g.n
                                   \/ \A h \in lists[e] : h.n < g.n

\* While a walk is in progress entries neither vanish nor move: every list only
\* grows at its back, so an index, a Handler & and a map iterator held across a
\* handler's call stay good.
ListsOnlyGrowUnderWalk == [][OnlyGrows]_vars

\* Nobody is skipped and nobody is called twice: behind the index of a walk
\* every live handler has been called by that walk, and none ahead of it has.
NobodySkipped ==
    \A k \in 1..Len(stack) :
        LET f == stack[k]
        IN  \A h \in lists[f.event] :
               /\ (~h.dead /\ Position(h, lists[f.event]) < f.at) => h.n \in f.called
               /\ h.n \in f.called =>
                     Position(h, lists[f.event]) < f.at + (IF f.handler = 0 THEN 0 ELSE 1)
=============================================================================
