------------------------------- MODULE Timers -------------------------------
(***************************************************************************)
(* The timer.* namespace (src/lua_timers.cpp): one vector of timers, a     *)
(* pass over it from every StartFrame, and callbacks that change the       *)
(* vector while the pass is walking it.                                    *)
(*                                                                         *)
(* Time is the server clock in frames.  It restarts with every map.  Lua   *)
(* code runs between passes or inside a callback; it may belong to any     *)
(* plugin, since a callback can fire an event another plugin handles, and  *)
(* it may have a plugin torn down (lua_unload through sv.exec).            *)
(*                                                                         *)
(* Left out: floating point, and a change of map while a callback runs.    *)
(***************************************************************************)
EXTENDS Queues

CONSTANTS Plugins,     \* indices into LuaEngine::plugins()
          Names,       \* names given to timer.create; the empty one may be among them
          NoName,      \* the empty name, which anonymous timers have
          Refs,        \* slots of the Lua registry
          Free,        \* content of an unused slot
          Delays,      \* what timer.after may be given, 0 included
          FrameFirst,  \* environment: a frame runs between a reload and the next map
          MaxTimers,   \* bound: timers in the life of one Lua state
          MaxClock     \* bound: frames of one map

Ids == 1..MaxTimers

ASSUME TimerConstants ==
    /\ Free \notin Ids
    /\ Delays \subseteq Nat
    /\ FrameFirst \in BOOLEAN
    /\ MaxTimers \in Nat
    /\ MaxClock \in Nat

VARIABLES
    timers,      \* s_timers
    nextId,      \* s_next_id
    clock,       \* gpGlobals->time
    last,        \* s_last_now
    registry,    \* the Lua registry: which timer's closure each slot holds
    pc,          \* "idle"; "walk" between two timers of a pass; "callback"
    at,          \* the index of the pass
    owner,       \* history: id of the timer whose callback runs
    disturbed    \* history: a teardown erased timers during this pass

vars == <<timers, nextId, clock, last, registry, pc, at, owner, disturbed>>

Periods == Delays \ {0}

Timer == [id : Ids, ref : Refs, plugin : Plugins, next : Nat, interval : Nat,
          dead : BOOLEAN, name : Names \cup {NoName}, persist : BOOLEAN]

-----------------------------------------------------------------------------
(* Reading the state                                                       *)

Indices == 1..Len(timers)

InLua == pc \in {"idle", "callback"}

FreeRefs == {r \in Refs : registry[r] = Free}

Entries == {timers[k] : k \in Indices}

RefsOf(entries) == {t.ref : t \in entries}

Released(refs) == [r \in Refs |-> IF r \in refs THEN Free ELSE registry[r]]

\* (mutant) The timer whose callback runs is not found.
FindNamedOther(p, name) ==
    {k \in Indices : /\ ~timers[k].dead /\ timers[k].id # owner
                     /\ timers[k].plugin = p /\ timers[k].name = name}

Named(p, name) ==
    {k \in Indices : ~timers[k].dead /\ timers[k].plugin = p /\ timers[k].name = name}

\* find_named: the first one, if there is one.  With the empty name it is the
\* plugin's first anonymous timer.
FindNamed(p, name) == {k \in Named(p, name) : \A j \in Named(p, name) : k <= j}

Due(t) == ~t.dead /\ t.next <= clock

\* Take these timers out of the vector, with their closures.
Erase(gone) ==
    /\ timers' = Without(timers, gone)
    /\ registry' = Released(RefsOf(gone))

-----------------------------------------------------------------------------
(* Operations of Lua code                                                  *)

\* add_timer, for timer.after, timer.every and a timer.create of a new name.
Add(p, delay, interval, name, persist) ==
    /\ nextId \in Ids
    /\ \E r \in FreeRefs :
          /\ registry' = [registry EXCEPT ![r] = nextId]
          /\ timers' = Append(timers,
                [id |-> nextId, ref |-> r, plugin |-> p, next |-> clock + delay,
                 interval |-> interval, dead |-> FALSE, name |-> name, persist |-> persist])
    /\ nextId' = nextId + 1
    /\ UNCHANGED <<clock, last, pc, at, owner, disturbed>>

After(p, delay, persist) == InLua /\ Add(p, delay, 0, NoName, persist)

Every(p, period, persist) == InLua /\ Add(p, period, period, NoName, persist)

\* timer.create: replaces the plugin's live timer of that name where it stands.
Create(p, name, period, once, persist) ==
    /\ InLua
    /\ IF FindNamed(p, name) = {}
       THEN Add(p, period, IF once THEN 0 ELSE period, name, persist)
       ELSE /\ \E k \in FindNamed(p, name), r \in Refs :
                  /\ r = timers[k].ref \/ r \in FreeRefs
                  /\ registry' = [Released({timers[k].ref}) EXCEPT ![r] = timers[k].id]
                  /\ timers' = [timers EXCEPT ![k].ref = r,
                                              ![k].next = clock + period,
                                              ![k].interval = IF once THEN 0 ELSE period,
                                              ![k].persist = persist]
            /\ UNCHANGED <<nextId, clock, last, pc, at, owner, disturbed>>

\* timer.cancel and timer.destroy leave a tombstone.
Kill(k) ==
    /\ timers' = [timers EXCEPT ![k].dead = TRUE]
    /\ UNCHANGED <<nextId, clock, last, registry, pc, at, owner, disturbed>>

\* Any plugin may name any id.
Cancel(id) == InLua /\ \E k \in Indices : timers[k].id = id /\ ~timers[k].dead /\ Kill(k)

Destroy(p, name) == InLua /\ \E k \in FindNamed(p, name) : Kill(k)

\* Erases at once, a pass in progress or not; `at' stays as it is.
RemovePlugin(p) ==
    /\ InLua
    /\ Erase({t \in Entries : t.plugin = p})
    /\ disturbed' = (disturbed \/ (pc = "callback" /\ timers' # timers))
    /\ UNCHANGED <<nextId, clock, last, pc, at, owner>>

-----------------------------------------------------------------------------
(* The pass                                                                *)

\* A frame: the clock moves and StartFrame runs cslua_timers_run.
Tick ==
    /\ pc = "idle"
    /\ clock < MaxClock
    /\ clock' = clock + 1
    /\ last' = clock + 1
    /\ pc' = IF timers = <<>> THEN "idle" ELSE "walk"
    /\ at' = IF timers = <<>> THEN 0 ELSE 1
    /\ disturbed' = FALSE
    /\ UNCHANGED <<timers, nextId, registry, owner>>

\* Dead, or not due yet.
Pass ==
    /\ pc = "walk"
    /\ at \in Indices
    /\ ~Due(timers[at])
    /\ at' = at + 1
    /\ UNCHANGED <<timers, nextId, clock, last, registry, pc, owner, disturbed>>

\* (mutant) A repeating timer is not armed again.
CallUnarmed ==
    /\ pc = "walk"
    /\ at \in Indices
    /\ Due(timers[at])
    /\ timers' = IF timers[at].interval > 0 THEN timers ELSE [timers EXCEPT ![at].dead = TRUE]
    /\ owner' = timers[at].id
    /\ pc' = "callback"
    /\ UNCHANGED <<nextId, clock, last, registry, at, disturbed>>

\* A repeating timer is armed again, and one that fires once is dead, before
\* the callback starts.
Call ==
    /\ pc = "walk"
    /\ at \in Indices
    /\ Due(timers[at])
    /\ timers' = IF timers[at].interval > 0
                 THEN [timers EXCEPT ![at].next = clock + timers[at].interval]
                 ELSE [timers EXCEPT ![at].dead = TRUE]
    /\ owner' = timers[at].id
    /\ pc' = "callback"
    /\ UNCHANGED <<nextId, clock, last, registry, at, disturbed>>

Return ==
    /\ pc = "callback"
    /\ pc' = "walk"
    /\ at' = at + 1
    /\ owner' = 0
    /\ UNCHANGED <<timers, nextId, clock, last, registry, disturbed>>

\* (mutant) The index is moved on before the timer is killed.
ReturnErrorLate ==
    /\ pc = "callback"
    /\ timers' = IF at + 1 \in Indices THEN [timers EXCEPT ![at + 1].dead = TRUE] ELSE timers
    /\ pc' = "walk"
    /\ at' = at + 1
    /\ owner' = 0
    /\ UNCHANGED <<nextId, clock, last, registry, disturbed>>

\* The callback threw: whatever stands at the index now is killed.  Past the end
\* the write hits the slack of the vector, where nothing lives.
ReturnError ==
    /\ pc = "callback"
    /\ timers' = IF at \in Indices THEN [timers EXCEPT ![at].dead = TRUE] ELSE timers
    /\ pc' = "walk"
    /\ at' = at + 1
    /\ owner' = 0
    /\ UNCHANGED <<nextId, clock, last, registry, disturbed>>

\* The sweep at the end of a pass.
EndPass ==
    /\ pc = "walk"
    /\ at > Len(timers)
    /\ Erase({t \in Entries : t.dead})
    /\ pc' = "idle"
    /\ at' = 0
    /\ disturbed' = FALSE
    /\ UNCHANGED <<nextId, clock, last, owner>>

-----------------------------------------------------------------------------
(* Maps and Lua states                                                     *)

LeftAt(t, now) == IF t.next < now THEN 0 ELSE t.next - now

\* (mutant) The wait is measured from the start of the old map.
RebaseFromZero ==
    /\ pc = "idle"
    /\ FrameFirst => last = clock
    /\ clock' = 0
    /\ last' = 0
    /\ LET leave == {t \in Entries : ~t.persist}
           stay == Without(timers, leave)
       IN  /\ timers' = [k \in 1..Len(stay) |-> [stay[k] EXCEPT !.next = LeftAt(stay[k], 0)]]
           /\ registry' = Released(RefsOf(leave))
    /\ UNCHANGED <<nextId, pc, at, owner, disturbed>>

\* ServerActivate: the clock has restarted, and cslua_timers_rebase carries what
\* is left of every wait over to it.
Rebase ==
    /\ pc = "idle"
    /\ FrameFirst => last = clock
    /\ clock' = 0
    /\ last' = 0
    /\ LET leave == {t \in Entries : ~t.persist}
           stay == Without(timers, leave)
       IN  /\ timers' = [k \in 1..Len(stay) |-> [stay[k] EXCEPT !.next = LeftAt(stay[k], last)]]
           /\ registry' = Released(RefsOf(leave))
    /\ UNCHANGED <<nextId, pc, at, owner, disturbed>>

\* cslua_timers_clear, on a lua_reload; the clock of the server goes on.
Clear ==
    /\ pc = "idle"
    /\ timers' = <<>>
    /\ nextId' = 1
    /\ last' = 0
    /\ registry' = [r \in Refs |-> Free]
    /\ UNCHANGED <<clock, pc, at, owner, disturbed>>

-----------------------------------------------------------------------------
Init ==
    /\ timers = <<>>
    /\ nextId = 1
    /\ clock = 0
    /\ last = 0
    /\ registry = [r \in Refs |-> Free]
    /\ pc = "idle"
    /\ at = 0
    /\ owner = 0
    /\ disturbed = FALSE

Next ==
    \/ \E p \in Plugins, persist \in BOOLEAN :
          \/ \E d \in Delays : After(p, d, persist)
          \/ \E d \in Periods : Every(p, d, persist)
          \/ \E n \in Names, d \in Periods, once \in BOOLEAN : Create(p, n, d, once, persist)
    \/ \E id \in Ids : Cancel(id)
    \/ \E p \in Plugins, n \in Names : Destroy(p, n)
    \/ \E p \in Plugins : RemovePlugin(p)
    \/ Tick \/ Pass \/ Call \/ Return \/ ReturnError \/ EndPass
    \/ Rebase
    \/ Clear

Spec == Init /\ [][Next]_vars

-----------------------------------------------------------------------------
(* Correctness                                                             *)

\* The variables have their types; the clock last seen is the present one, or zero.
TypeOK ==
    /\ timers \in Seq(Timer)
    /\ nextId \in 1..MaxTimers + 1
    /\ clock \in 0..MaxClock
    /\ last \in {0, clock}
    /\ registry \in [Refs -> Ids \cup {Free}]
    /\ pc \in {"idle", "walk", "callback"}
    /\ at \in Nat
    /\ owner \in 0..MaxTimers
    /\ disturbed \in BOOLEAN

\* Every timer in the vector, dead ones included, has the slot it names to
\* itself, and every used slot is a timer's: a callback is never fetched through
\* a released slot, and none outlives its timer.
RefsMatchTimers ==
    /\ \A k \in Indices : registry[timers[k].ref] = timers[k].id
    /\ \A r \in Refs : registry[r] # Free => \E k \in Indices : timers[k].ref = r
    /\ \A j, k \in Indices : timers[j].id = timers[k].id => j = k

\* A plugin has one live timer of a name, also when the name is set again from
\* the callback of the timer that carries it.
OneTimerPerName ==
    \A j, k \in Indices :
        (/\ ~timers[j].dead /\ ~timers[k].dead
         /\ timers[j].plugin = timers[k].plugin
         /\ timers[j].name = timers[k].name /\ timers[j].name # NoName) => j = k

\* What holds of the vector between any two steps.
Consistent == TypeOK /\ RefsMatchTimers /\ OneTimerPerName

\* Nobody who is due is left behind by a pass that no teardown disturbed,
\* whatever the callbacks add, replace and cancel.
NothingDueBehind ==
    (pc # "idle" /\ ~disturbed) => \A k \in Indices : k < at => ~Due(timers[k])

ErrorKillsOwner ==
    ReturnError => \A k \in Indices :
                       (~timers[k].dead /\ timers'[k].dead) => timers[k].id = owner

\* A callback that throws costs its own timer only, in a pass no teardown
\* disturbed: the sweep and what the callback adds and replaces shift nothing.
ErrorKillsOnlyTheThrower == [][~disturbed => ErrorKillsOwner]_vars

Live == {timers[k].id : k \in {j \in Indices : ~timers[j].dead}}

TimerOf(id) == timers[CHOOSE k \in Indices : timers[k].id = id]

\* What is left to wait, the period and the persistence of every live timer.
Waits == [id \in Live |-> LeftAt(TimerOf(id), clock)]

Repeats == [id \in Live |-> TimerOf(id).interval]

Survives == [id \in Live |-> TimerOf(id).persist]

Promise == INSTANCE TimerPromise WITH
    Timers <- Ids,
    left <- Waits,
    every <- Repeats,
    keeps <- Survives

\* A timer waits as many frames as was asked, over changes of map too, and fires
\* no more often than that.
KeepsPromise == Promise!Spec
=============================================================================
