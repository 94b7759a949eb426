--------------------------- MODULE PluginLifecycle ---------------------------
(***************************************************************************)
(* Loading, unloading and reloading plugins (src/lua_engine.cpp and the    *)
(* lua_* commands of src/commands.cpp).                                    *)
(*                                                                         *)
(* One Lua state runs every plugin, on one thread, so an operation is not  *)
(* interrupted but it is re-entered: on_unload handlers and the handlers   *)
(* of module:plugin_unload run in the middle of a teardown, a load runs    *)
(* the plugin's own files, and any of that code can register things, fire  *)
(* events and (sv.cmd and sv.exec) run the lua_* commands.  The model is   *)
(* the stack of what has not returned.                                     *)
(*                                                                         *)
(* A plugin's slot is its name, since slots are only appended.  What it    *)
(* registered with events, timers, commands, db, http, httpserver and      *)
(* mysql is one set: the seven remove_plugin calls run no Lua.  An         *)
(* incarnation is one execution of a plugin's files, with the environment  *)
(* table made for it.                                                      *)
(*                                                                         *)
(* Left out: lua_load of a new folder from code that a load or a teardown  *)
(* has called (m_plugins grows, and may move away under the LuaPlugin &    *)
(* that is held across it), a full reload from inside Lua code (it closes  *)
(* the state it runs on), lua_check, m_loading, and the requests of a      *)
(* plugin that are already with a worker (HttpClient).                     *)
(***************************************************************************)
EXTENDS Integers, Sequences, FiniteSets

CONSTANTS Names,        \* folders under plugins/
          Installed,    \* those present when the server starts
          NoPlugin,     \* the index -1
          Careful,      \* environment: the rules Respects states
          MaxLoads,     \* bound: incarnations
          MaxUnloads,   \* bound: on_unload registrations
          MaxDepth      \* bound: nested activities

Incarnations == 1..MaxLoads

ASSUME LifecycleConstants ==
    /\ Installed \subseteq Names
    /\ NoPlugin \notin Names /\ "full" \notin Names
    /\ Careful \in BOOLEAN
    /\ MaxLoads \in Nat /\ MaxUnloads \in Nat /\ MaxDepth \in Nat

VARIABLES
    known,       \* names with a slot in m_plugins
    loaded,      \* LuaPlugin::loaded
    failed,      \* LuaPlugin::failed
    env,         \* the incarnation env_ref belongs to, 0 before the first
    unloadRefs,  \* LuaPlugin::unload_refs
    regs,        \* what is registered, and which incarnation's closure it is
    current,     \* m_current
    stack,       \* activities that have not returned, innermost last
    booting,     \* slots init() has not loaded yet
    requested,   \* m_pending_full_reload and m_pending_plugin_reload
    loads,       \* history: incarnations so far
    onUnloads,   \* history: on_unload registrations so far
    ran,         \* history: on_unload handlers that were started
    alive        \* history: plugins whose files ran and that were not torn down

vars == <<known, loaded, failed, env, unloadRefs, regs, current, stack, booting,
          requested, loads, onUnloads, ran, alive>>

slots == <<known, loaded, failed, env>>
history == <<loads, onUnloads, ran, alive>>

UnloadHandler == [n : 1..MaxUnloads, inc : Incarnations]

Registration == [slot : Names, inc : Incarnations]

Activities == {"code", "load", "unload", "notify", "shutdown", "boot"}

\* prev is what PluginScope restores, k the on_unload handlers still to run, and
\* then what follows a teardown, or a load.
Activity == [what : Activities, slot : Names \cup {NoPlugin}, inc : 0..MaxLoads,
             prev : Names \cup {NoPlugin}, k : 0..MaxUnloads,
             then : {"none", "unload", "reload", "start"}]

FullReload == "full"

-----------------------------------------------------------------------------
(* Reading the state                                                       *)

Idle == stack = <<>>

Top == stack[Len(stack)]

Doing(what) == ~Idle /\ Top.what = what

CodeRuns == Doing("code") \/ Doing("load")

Busy == \E k \in 1..Len(stack) : stack[k].what # "code"

\* The console, or Lua code: also a handler that a teardown has called.
CanCommand == CodeRuns \/ Idle

RunningCodeOf(n) == \E k \in 1..Len(stack) : stack[k].slot = n /\ stack[k].what \in {"code", "load"}

BeingStopped(n) == \E k \in 1..Len(stack) : stack[k].what \in {"unload", "notify"} /\ stack[k].slot = n

\* What a careful operator and careful plugins keep to: a plugin is stopped only
\* while none of its code is running, and only a loaded one is reloaded, or asked
\* to be reloaded, and not while it is being stopped or before init has come to
\* it.
Respects(n) == Careful => ~RunningCodeOf(n) /\ ~BeingStopped(n) /\ loaded[n] /\ n \notin booting

MayRequest(n) == Careful => loaded[n] /\ ~BeingStopped(n)

Push(frame) == stack' = Append(stack, frame)

Below == SubSeq(stack, 1, Len(stack) - 1)

HasRoom == Len(stack) < MaxDepth

ScopeOf(n, inc, what, then) ==
    [what |-> what, slot |-> n, inc |-> inc, prev |-> current, k |-> 0, then |-> then]

TearingDown(n, then) ==
    [what |-> "unload", slot |-> n, inc |-> 0, prev |-> NoPlugin,
     k |-> Len(unloadRefs[n]), then |-> then]

Engine(what) ==
    [what |-> what, slot |-> NoPlugin, inc |-> 0, prev |-> NoPlugin, k |-> 0, then |-> "none"]

-----------------------------------------------------------------------------
(* Plugin code                                                             *)

\* An event, a timer or a reply calls what is registered: from the frame loop,
\* nested in Lua code, or as a handler of module:plugin_unload.
Dispatch ==
    /\ HasRoom
    /\ Idle \/ CodeRuns \/ Doing("notify") \/ Doing("shutdown")
    /\ \E r \in regs :
          /\ Push(ScopeOf(r.slot, r.inc, "code", "none"))
          /\ current' = r.slot
    /\ UNCHANGED <<slots, unloadRefs, regs, booting, requested, history>>

\* hook.add, timer.every, cmd.add, db.open, ...: tagged with m_current.
Register ==
    /\ CodeRuns
    /\ regs' = regs \cup {[slot |-> current, inc |-> Top.inc]}
    /\ UNCHANGED <<slots, unloadRefs, current, stack, booting, requested, history>>

\* plugin.on_unload.  One registered while its plugin is being announced as
\* unloading comes too late to run and is not dropped either.
OnUnload ==
    /\ CodeRuns
    /\ onUnloads < MaxUnloads
    /\ Careful => \A k \in 1..Len(stack) : stack[k].what = "notify" => stack[k].slot # current
    /\ onUnloads' = onUnloads + 1
    /\ unloadRefs' = [unloadRefs EXCEPT ![current] =
                          Append(@, [n |-> onUnloads + 1, inc |-> Top.inc])]
    /\ UNCHANGED <<slots, regs, current, stack, booting, requested, loads, ran, alive>>

\* The code returns, or throws into the pcall; ~PluginScope.
Leave ==
    /\ Doing("code")
    /\ current' = Top.prev
    /\ stack' = Below
    /\ UNCHANGED <<slots, unloadRefs, regs, booting, requested, history>>

-----------------------------------------------------------------------------
(* load_plugin                                                             *)

\* A new environment, and the two files run in it.
Start(n, rest, then) ==
    /\ loads < MaxLoads
    /\ loads' = loads + 1
    /\ env' = [env EXCEPT ![n] = loads + 1]
    /\ alive' = alive \cup {n}
    /\ stack' = Append(rest, ScopeOf(n, loads + 1, "load", then))
    /\ current' = n

\* (mutant) Only the slot is started again.
FlagNotSet == loaded

\* lua_load of an unloaded plugin ends by setting the flag, failed or not.
FlagAfterLoad == IF Top.then = "start" THEN [loaded EXCEPT ![Top.slot] = TRUE] ELSE loaded

LoadEnds ==
    /\ Doing("load")
    /\ loaded' = FlagAfterLoad
    /\ current' = Top.prev
    /\ stack' = Below
    /\ UNCHANGED <<known, failed, env, unloadRefs, regs, booting, requested, history>>

\* (mutant) What the files registered before the error stays.
LoadFailsKeeping ==
    /\ Doing("load")
    /\ failed' = [failed EXCEPT ![Top.slot] = TRUE]
    /\ unloadRefs' = [unloadRefs EXCEPT ![Top.slot] = <<>>]
    /\ loaded' = FlagAfterLoad
    /\ current' = Top.prev
    /\ stack' = Below
    /\ alive' = alive \ {Top.slot}
    /\ UNCHANGED <<known, env, regs, booting, requested, loads, onUnloads, ran>>

\* A file throws, or the manifest does not declare: unload_plugin(index, false).
LoadFails ==
    /\ Doing("load")
    /\ failed' = [failed EXCEPT ![Top.slot] = TRUE]
    /\ unloadRefs' = [unloadRefs EXCEPT ![Top.slot] = <<>>]
    /\ regs' = {r \in regs : r.slot # Top.slot}
    /\ loaded' = FlagAfterLoad
    /\ current' = Top.prev
    /\ stack' = Below
    /\ alive' = alive \ {Top.slot}
    /\ UNCHANGED <<known, env, booting, requested, loads, onUnloads, ran>>

-----------------------------------------------------------------------------
(* unload_plugin                                                           *)

\* (mutant) First in, first out.
RunUnloadHandlerForward ==
    /\ Doing("unload")
    /\ Top.k > 0
    /\ HasRoom
    /\ LET h == unloadRefs[Top.slot][Len(unloadRefs[Top.slot]) + 1 - Top.k]
       IN  /\ stack' = Append([stack EXCEPT ![Len(stack)].k = @ - 1],
                              ScopeOf(Top.slot, h.inc, "code", "none"))
           /\ ran' = ran \cup {h}
    /\ current' = Top.slot
    /\ UNCHANGED <<slots, unloadRefs, regs, booting, requested, loads, onUnloads, alive>>

\* The next on_unload handler, from the last to the first.
RunUnloadHandler ==
    /\ Doing("unload")
    /\ Top.k > 0
    /\ HasRoom
    /\ LET h == unloadRefs[Top.slot][Top.k]
       IN  /\ stack' = Append([stack EXCEPT ![Len(stack)].k = @ - 1],
                              ScopeOf(Top.slot, h.inc, "code", "none"))
           /\ ran' = ran \cup {h}
    /\ current' = Top.slot
    /\ UNCHANGED <<slots, unloadRefs, regs, booting, requested, loads, onUnloads, alive>>

\* Their refs go, those added meanwhile unrun; then module:plugin_unload fires.
Announce ==
    /\ Doing("unload")
    /\ Top.k = 0
    /\ unloadRefs' = [unloadRefs EXCEPT ![Top.slot] = <<>>]
    /\ stack' = [stack EXCEPT ![Len(stack)].what = "notify"]
    /\ UNCHANGED <<slots, regs, current, booting, requested, history>>

\* The seven remove_plugin calls, and what the teardown was for.
Remove ==
    /\ Doing("notify")
    /\ regs' = {r \in regs : r.slot # Top.slot}
    /\ \/ /\ Top.then = "unload"
          /\ loaded' = [loaded EXCEPT ![Top.slot] = FALSE]
          /\ stack' = Below
          /\ alive' = alive \ {Top.slot}
          /\ UNCHANGED <<failed, env, loads, current>>
       \/ /\ Top.then = "reload"
          /\ failed' = [failed EXCEPT ![Top.slot] = FALSE]
          /\ Start(Top.slot, Below, "reload")
          /\ UNCHANGED loaded
    /\ UNCHANGED <<known, unloadRefs, booting, requested, onUnloads, ran>>

-----------------------------------------------------------------------------
(* Commands and requests                                                   *)

\* lua_load of a folder without a slot, or of an unloaded plugin.  A careful plugin
\* does not load itself while it is being loaded.
CmdLoad(n) ==
    /\ CanCommand
    /\ HasRoom
    /\ IF n \in known THEN ~loaded[n] /\ (Careful => ~RunningCodeOf(n)) ELSE ~Busy
    /\ known' = known \cup {n}
    /\ loaded' = IF n \in known THEN loaded ELSE [loaded EXCEPT ![n] = TRUE]
    /\ failed' = [failed EXCEPT ![n] = FALSE]
    /\ Start(n, stack, IF n \in known THEN "start" ELSE "none")
    /\ UNCHANGED <<unloadRefs, regs, booting, requested, onUnloads, ran>>

CmdUnload(n) ==
    /\ CanCommand
    /\ HasRoom
    /\ n \in known
    /\ loaded[n]
    /\ Respects(n)
    /\ Careful => requested # n
    /\ Push(TearingDown(n, "unload"))
    /\ UNCHANGED <<slots, unloadRefs, regs, current, booting, requested, history>>

\* reload_plugin: unloaded plugins are torn down and started too.
ReloadPlugin(n) ==
    /\ n \in known
    /\ Push(TearingDown(n, "reload"))

CmdReload(n) ==
    /\ CanCommand
    /\ HasRoom
    /\ Respects(n)
    /\ ReloadPlugin(n)
    /\ UNCHANGED <<slots, unloadRefs, regs, current, booting, requested, history>>

\* plugin.reload and plugin.reload_all: there is one request, the last one.
Request ==
    /\ CodeRuns
    /\ \/ requested' = FullReload
       \/ \E n \in known : MayRequest(n) /\ requested' = n
    /\ UNCHANGED <<slots, unloadRefs, regs, current, stack, booting, history>>

\* process_pending_reload, at the top of a frame: a single plugin.
PendingPlugin ==
    /\ Idle
    /\ requested \in Names
    /\ ReloadPlugin(requested)
    /\ requested' = NoPlugin
    /\ UNCHANGED <<slots, unloadRefs, regs, current, booting, history>>

\* The same for everything, and lua_reload without an argument: shutdown()
\* begins by firing module:plugin_unload, once, for all.
Shutdown ==
    /\ Idle
    /\ requested \notin Names
    /\ Push(Engine("shutdown"))
    /\ requested' = IF requested = FullReload THEN NoPlugin ELSE requested
    /\ UNCHANGED <<slots, unloadRefs, regs, current, booting, history>>

\* The rest of shutdown(), and init() up to the first load.
CloseState ==
    /\ Doing("shutdown")
    /\ known' = Names
    /\ loaded' = [n \in Names |-> TRUE]
    /\ failed' = [n \in Names |-> FALSE]
    /\ env' = [n \in Names |-> 0]
    /\ unloadRefs' = [n \in Names |-> <<>>]
    /\ regs' = {}
    /\ current' = NoPlugin
    /\ stack' = <<Engine("boot")>>
    /\ booting' = Names
    /\ alive' = {}
    /\ UNCHANGED <<requested, loads, onUnloads, ran>>

\* init() loads one slot after the other.
BootNext ==
    /\ Doing("boot")
    /\ \E n \in booting :
          /\ Start(n, stack, "none")
          /\ booting' = booting \ {n}
    /\ UNCHANGED <<known, loaded, failed, unloadRefs, regs, requested, onUnloads, ran>>

BootEnds ==
    /\ Doing("boot")
    /\ booting = {}
    /\ stack' = <<>>
    /\ UNCHANGED <<slots, unloadRefs, regs, current, booting, requested, history>>

-----------------------------------------------------------------------------
Init ==
    /\ known = Installed
    /\ loaded = [n \in Names |-> TRUE]
    /\ failed = [n \in Names |-> FALSE]
    /\ env = [n \in Names |-> 0]
    /\ unloadRefs = [n \in Names |-> <<>>]
    /\ regs = {}
    /\ current = NoPlugin
    /\ stack = <<Engine("boot")>>
    /\ booting = Installed
    /\ requested = NoPlugin
    /\ loads = 0
    /\ onUnloads = 0
    /\ ran = {}
    /\ alive = {}

Next ==
    \/ Dispatch \/ Register \/ OnUnload \/ Leave
    \/ LoadEnds \/ LoadFails
    \/ RunUnloadHandler \/ Announce \/ Remove
    \/ \E n \in Names : CmdLoad(n) \/ CmdUnload(n) \/ CmdReload(n)
    \/ Request \/ PendingPlugin
    \/ Shutdown \/ CloseState \/ BootNext \/ BootEnds

Spec == Init /\ [][Next]_vars

-----------------------------------------------------------------------------
(* Correctness                                                             *)

\* The variables have their types; what is registered has an owner.
TypeOK ==
    /\ known \subseteq Names
    /\ loaded \in [Names -> BOOLEAN]
    /\ failed \in [Names -> BOOLEAN]
    /\ env \in [Names -> 0..MaxLoads]
    /\ unloadRefs \in [Names -> Seq(UnloadHandler)]
    /\ regs \subseteq Registration
    /\ current \in Names \cup {NoPlugin}
    /\ stack \in Seq(Activity)
    /\ booting \subseteq Names
    /\ requested \in Names \cup {NoPlugin, FullReload}
    /\ loads \in 0..MaxLoads
    /\ onUnloads \in 0..MaxUnloads
    /\ ran \subseteq UnloadHandler
    /\ alive \subseteq Names

\* The plugin everything is tagged with is the one whose code runs, however
\* loads, teardowns and dispatches are nested and left.
ScopeNamesRunner ==
    LET scopes == {k \in 1..Len(stack) : stack[k].what \in {"code", "load"}}
    IN  current = IF scopes = {} THEN NoPlugin
                  ELSE stack[CHOOSE k \in scopes : \A j \in scopes : j <= k].slot

\* What is registered, and every on_unload handler, belongs to the incarnation
\* that runs now: a teardown leaves nothing behind that would call the code of
\* an environment already replaced, and an unloaded or failed plugin has nothing
\* registered at all.
NoStaleCode ==
    /\ \A r \in regs : r.inc = env[r.slot] /\ r.slot \in alive
    /\ \A n \in Names : \A k \in 1..Len(unloadRefs[n]) :
          unloadRefs[n][k].inc = env[n] /\ n \in alive

\* What holds between any two steps.
Consistent == TypeOK /\ ScopeNamesRunner /\ NoStaleCode

\* on_unload handlers run once, the last registered first.
HandlersInReverse ==
    [][/\ Doing("unload") /\ Len(stack') > Len(stack) => ran' # ran
       /\ \A h \in ran' : h \notin ran =>
             \A g \in ran : g.inc = h.inc => g.n > h.n]_vars

\* Between frames, `loaded' and `failed' say which plugins are running: what
\* lua_list shows, and what lua_load and lua_unload go by.
LoadedTellsTheTruth ==
    Idle => \A n \in known : n \in alive <=> (loaded[n] /\ ~failed[n])

\* Every on_unload handler of a plugin has run when lua_reload closes the state.
OnUnloadRunsOnReload ==
    [][CloseState => \A n \in Names : \A k \in 1..Len(unloadRefs[n]) :
          unloadRefs[n][k] \in ran]_vars
=============================================================================
