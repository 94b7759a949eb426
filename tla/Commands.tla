------------------------------- MODULE Commands -------------------------------
(***************************************************************************)
(* Commands and exports (src/lua_command.cpp, scripts/core/commands.lua,   *)
(* scripts/core/exports.lua): what plugins declare by name, in two tables  *)
(* of C++ (the server's console, the players' consoles) and two of Lua     *)
(* (registry, which the chat goes by, and exports_registry), and what is   *)
(* left of it when they are torn down, fail to load or are started again.  *)
(*                                                                         *)
(* A closure in the Lua registry is named by what it is, its table, its    *)
(* name and the entry it was made for, since no slot number is kept once   *)
(* it is freed (the ref becomes LUA_NOREF).  A plugin's code is known by   *)
(* its incarnation, one execution of its files.  How loads and teardowns   *)
(* nest is PluginLifecycle's subject; here they are nested no further than *)
(* a careful operator lets them.                                           *)
(*                                                                         *)
(* Left out: arguments, targets and the rights a handler asks for (a       *)
(* refusal changes nothing), versions of exports, and the pointer into     *)
(* s_commands that a trampoline reads again when its handler has failed,   *)
(* for the name in an error message.                                       *)
(***************************************************************************)
EXTENDS Integers, Sequences, FiniteSets

CONSTANTS Plugins,
          Nobody,   \* the index -1, which is "core" to exports.lua
          Names,    \* of commands
          Channels, \* "chat" and "chat_team"
          Careful,  \* environment: the rules Respects and MayExport state
          Asked,    \* bound: the lists of sources that cmd.add is given
          MaxLoads, \* bound: incarnations
          MaxAdds,  \* bound: cmd.add
          MaxDepth  \* bound: nested activities

Tables == {"server", "console"}

Sources == Tables \cup Channels

ASSUME CommandConstants ==
    /\ Nobody \notin Plugins
    /\ Tables \cap Channels = {}
    /\ Asked \subseteq SUBSET Sources
    /\ Careful \in BOOLEAN
    /\ MaxLoads \in Nat /\ MaxAdds \in Nat /\ MaxDepth \in Nat

VARIABLES
    commands, \* s_commands and s_console_commands: never shorter than they were
    held,     \* closures of commands in the Lua registry
    registry, \* the Lua table registry: name -> entry
    exports,  \* exports_registry: the incarnation whose function it is, 0 for none
    loaded,   \* LuaPlugin::loaded
    running,  \* the incarnation of each plugin, 0 when it is torn down or has failed
    stack,    \* activities that have not returned, innermost last
    adds,     \* history: calls of cmd.add so far
    loads     \* history: incarnations so far

vars == <<commands, held, registry, exports, loaded, running, stack, adds, loads>>

tables == <<commands, held, registry>>
plugins == <<loaded, running, loads>>

Owners == Plugins \cup {Nobody}

Incarnations == 1..MaxLoads

\* What a call of cmd.add makes: the incarnation whose code the handler is, and the
\* one in whose scope it was declared, 0 for nobody's.
Entry == [add : 1..MaxAdds, code : Incarnations, since : 0..MaxLoads, sources : Asked]

NoEntry == [add |-> 0, code |-> 0, since |-> 0, sources |-> {}]

\* entry is the one that the closure behind ref was made for; NoEntry is LUA_NOREF.
Absent == [entry |-> NoEntry, plugin |-> Nobody, live |-> FALSE]

Command == [entry : Entry \cup {NoEntry}, plugin : Owners, live : BOOLEAN]

Closure == [table : Tables, name : Names, entry : Entry]

\* scope is m_current, code the incarnation that runs.
Activity == [what : {"load", "code", "unload", "notify"}, scope : Owners,
             code : 0..MaxLoads, again : BOOLEAN]

Idle == stack = <<>>
Top == stack[Len(stack)]
Doing(what) == ~Idle /\ Top.what = what
InLua == Doing("load") \/ Doing("code")
HasRoom == Len(stack) < MaxDepth
Below == SubSeq(stack, 1, Len(stack) - 1)

Code(scope, code) == [what |-> "code", scope |-> scope, code |-> code, again |-> FALSE]

\* The console, or Lua code (sv.exec) that no load or teardown has called.
CanCommand ==
    /\ HasRoom
    /\ \A k \in 1..Len(stack) : stack[k].what = "code"

\* A plugin is stopped while none of its code runs, and only a loaded one is reloaded.
Respects(p) ==
    Careful => /\ loaded[p]
               /\ \A k \in 1..Len(stack) : stack[k].scope # p /\ stack[k].code # running[p]

\* Nothing is exported by a plugin whose exports have been dropped for good.
MayExport ==
    Careful => \A k \in 1..Len(stack) : stack[k].what = "notify" => stack[k].scope # Top.scope

-----------------------------------------------------------------------------
(* Declaring                                                               *)

ClosureOf(tn) == [table |-> tn[1], name |-> tn[2], entry |-> commands[tn].entry]

\* (mutant) A name that is taken over keeps its plugin.
DeclaredForTheFirst(tn, e, owner) ==
    [entry |-> e, live |-> TRUE,
     plugin |-> IF commands[tn].live THEN commands[tn].plugin ELSE owner]

\* l_command, l_command_console: a name that exists is taken over.
Declared(tn, e, owner) == [entry |-> e, plugin |-> owner, live |-> TRUE]

\* (mutant) The closure of a name that is taken over is not released.
Kept(ts, ns) == held

\* luaL_unref of what the names had.
Released(ts, ns) == held \ {ClosureOf(tn) : tn \in ts \X ns}

\* cmd.add, for all names of its list: the last one to come has the name.
Add(ns, sources) ==
    /\ InLua
    /\ adds < MaxAdds
    /\ adds' = adds + 1
    /\ LET owner == Top.scope
           e     == [add |-> adds + 1, code |-> Top.code, sources |-> sources,
                     since |-> IF owner = Nobody THEN 0 ELSE running[owner]]
           ts    == sources \cap Tables
       IN  /\ registry' = [n \in Names |-> IF n \in ns THEN e ELSE registry[n]]
           /\ commands' = [tn \in Tables \X Names |->
                  IF tn \in ts \X ns THEN Declared(tn, e, owner) ELSE commands[tn]]
           /\ held' = Released(ts, ns) \cup [table : ts, name : ns, entry : {e}]
    /\ UNCHANGED <<exports, plugins, stack>>

\* cmd.remove: of the Lua table alone.
Withdraw(n) ==
    /\ InLua
    /\ registry[n] # NoEntry
    /\ registry' = [registry EXCEPT ![n] = NoEntry]
    /\ UNCHANGED <<commands, held, exports, plugins, stack, adds>>

\* export; a name that is there is an error, unless it is overridden.
Export(override) ==
    /\ InLua
    /\ MayExport
    /\ exports[Top.scope] = 0 \/ override
    /\ exports' = [exports EXCEPT ![Top.scope] = Top.code]
    /\ UNCHANGED <<tables, plugins, stack, adds>>

-----------------------------------------------------------------------------
(* Running                                                                 *)

\* What the closure of a command runs: the entry of its name, or its own.
Resolves(t, n) == IF registry[n] # NoEntry THEN registry[n] ELSE commands[<<t, n>>].entry

\* run: the handler, unless the rights or the target it asks for refuse it, which
\* changes nothing.
Runs(scope, entry) ==
    /\ HasRoom
    /\ stack' = Append(stack, Code(scope, entry.code))
    /\ UNCHANGED <<tables, exports, plugins, adds>>

\* command_trampoline: at the server's console, or by sv.exec.
Typed(n) ==
    /\ Idle \/ InLua
    /\ commands[<<"server", n>>].live
    /\ Runs(commands[<<"server", n>>].plugin, Resolves("server", n))

\* cslua_command_handle_client: at a player's console.
TypedByPlayer(n) ==
    /\ Idle
    /\ commands[<<"console", n>>].live
    /\ Runs(commands[<<"console", n>>].plugin, Resolves("console", n))

\* The router: a handler of the core, so of nobody's.
Said(channel, n) ==
    /\ Idle
    /\ registry[n] # NoEntry
    /\ channel \in registry[n].sources
    /\ Runs(Nobody, registry[n])

\* A function of a proxy: another plugin's code, in the scope of the caller.
CallExport(o) ==
    /\ InLua
    /\ HasRoom
    /\ exports[o] # 0
    /\ stack' = Append(stack, Code(Top.scope, exports[o]))
    /\ UNCHANGED <<tables, exports, plugins, adds>>

\* A hook, a timer, an on_unload handler.
Dispatch(p) ==
    /\ Idle \/ Doing("notify") \/ (Doing("unload") /\ Top.scope = p)
    /\ HasRoom
    /\ running[p] # 0
    /\ stack' = Append(stack, Code(p, running[p]))
    /\ UNCHANGED <<tables, exports, plugins, adds>>

\* It returns, or throws into the pcall.
Return ==
    /\ Doing("code")
    /\ stack' = Below
    /\ UNCHANGED <<tables, exports, plugins, adds>>

-----------------------------------------------------------------------------
(* Loads and teardowns                                                     *)

Start(p, rest) ==
    /\ loads < MaxLoads
    /\ loads' = loads + 1
    /\ running' = [running EXCEPT ![p] = loads + 1]
    /\ stack' = Append(rest, [what |-> "load", scope |-> p, code |-> loads + 1, again |-> FALSE])

\* lua_load.
Load(p) ==
    /\ CanCommand
    /\ ~loaded[p]
    /\ loaded' = [loaded EXCEPT ![p] = TRUE]
    /\ Start(p, stack)
    /\ UNCHANGED <<tables, exports, adds>>

LoadEnds ==
    /\ Doing("load")
    /\ stack' = Below
    /\ UNCHANGED <<tables, exports, plugins, adds>>

\* (mutant) Players' commands are forgotten.
OwnedAtTheServer(p) ==
    {tn \in Tables \X Names : tn[1] = "server" /\ commands[tn].plugin = p /\ commands[tn].live}

Owned(p) == {tn \in Tables \X Names : commands[tn].plugin = p /\ commands[tn].live}

\* cslua_command_remove_plugin.
RemovePlugin(p) ==
    /\ commands' = [tn \in Tables \X Names |->
           IF tn \in Owned(p) THEN [commands[tn] EXCEPT !.entry = NoEntry, !.live = FALSE]
           ELSE commands[tn]]
    /\ held' = held \ {ClosureOf(tn) : tn \in Owned(p)}

\* A file throws: the handlers of plugin_unload are not told.
LoadFails ==
    /\ Doing("load")
    /\ RemovePlugin(Top.scope)
    /\ running' = [running EXCEPT ![Top.scope] = 0]
    /\ stack' = Below
    /\ UNCHANGED <<registry, exports, loaded, loads, adds>>

\* lua_unload, and lua_reload of one plugin.
Unload(p, again) ==
    /\ CanCommand
    /\ loaded[p] \/ again
    /\ Respects(p)
    /\ stack' = Append(stack, [what |-> "unload", scope |-> p, code |-> 0, again |-> again])
    /\ UNCHANGED <<tables, exports, plugins, adds>>

\* (mutant) They are left for export's override to replace.
NotDropped(p) == exports

\* The core's handler of plugin_unload.
Dropped(p) == [exports EXCEPT ![p] = 0]

\* It is the first one; the handlers of the plugins come after it.
Notify ==
    /\ Doing("unload")
    /\ exports' = Dropped(Top.scope)
    /\ stack' = [stack EXCEPT ![Len(stack)].what = "notify"]
    /\ UNCHANGED <<tables, plugins, adds>>

Unloaded ==
    /\ Doing("notify")
    /\ RemovePlugin(Top.scope)
    /\ \/ /\ ~Top.again
          /\ loaded' = [loaded EXCEPT ![Top.scope] = FALSE]
          /\ running' = [running EXCEPT ![Top.scope] = 0]
          /\ stack' = Below
          /\ UNCHANGED loads
       \/ /\ Top.again
          /\ Start(Top.scope, Below)
          /\ UNCHANGED loaded
    /\ UNCHANGED <<registry, exports, adds>>

\* lua_reload of everything: the commands of C++ become dormant, the tables of Lua
\* go with the state.  The loads of the next one are Load's.
ReloadAll ==
    /\ Idle
    /\ commands' = [tn \in Tables \X Names |-> [commands[tn] EXCEPT !.entry = NoEntry, !.live = FALSE]]
    /\ held' = {}
    /\ registry' = [n \in Names |-> NoEntry]
    /\ exports' = [o \in Owners |-> 0]
    /\ loaded' = [p \in Plugins |-> FALSE]
    /\ running' = [p \in Plugins |-> 0]
    /\ UNCHANGED <<stack, adds, loads>>

-----------------------------------------------------------------------------
\* Every plugin has its slot, and is unloaded.
Init ==
    /\ commands = [tn \in Tables \X Names |-> Absent]
    /\ held = {}
    /\ registry = [n \in Names |-> NoEntry]
    /\ exports = [o \in Owners |-> 0]
    /\ loaded = [p \in Plugins |-> FALSE]
    /\ running = [p \in Plugins |-> 0]
    /\ stack = <<>>
    /\ adds = 0
    /\ loads = 0

Next ==
    \/ \E ns \in (SUBSET Names) \ {{}}, ss \in Asked : Add(ns, ss)
    \/ \E n \in Names : Withdraw(n) \/ Typed(n) \/ TypedByPlayer(n)
                        \/ (\E c \in Channels : Said(c, n))
    \/ \E override \in BOOLEAN : Export(override)
    \/ \E o \in Owners : CallExport(o)
    \/ \E p \in Plugins : Dispatch(p) \/ Load(p) \/ (\E again \in BOOLEAN : Unload(p, again))
    \/ Return \/ LoadEnds \/ LoadFails \/ Notify \/ Unloaded \/ ReloadAll

Spec == Init /\ [][Next]_vars

-----------------------------------------------------------------------------
(* Correctness                                                             *)

\* The variables have their types.
TypeOK ==
    /\ commands \in [Tables \X Names -> Command]
    /\ held \subseteq Closure
    /\ registry \in [Names -> Entry \cup {NoEntry}]
    /\ exports \in [Owners -> 0..MaxLoads]
    /\ loaded \in [Plugins -> BOOLEAN]
    /\ running \in [Plugins -> 0..MaxLoads]
    /\ stack \in Seq(Activity)
    /\ adds \in 0..MaxAdds
    /\ loads \in 0..MaxLoads

\* A live command holds one closure, a dormant one none, and none is left over:
\* whatever is taken over, torn down or failed in between.
LiveHoldsItsClosure ==
    held = {ClosureOf(tn) : tn \in {x \in Tables \X Names : commands[x].live}}

\* What the warning at cmd.add says of the two consoles: after a teardown, a load
\* that fails or a reload a command is dormant until it is declared again.  A live
\* one was declared in the scope of the incarnation that runs now.
DormantUntilDeclared ==
    \A tn \in Tables \X Names : commands[tn].live =>
        LET c == commands[tn]
        IN  IF c.plugin = Nobody THEN c.entry.since = 0
            ELSE c.entry.since = running[c.plugin] /\ c.entry.since # 0

\* What holds between any two steps.
Consistent == TypeOK /\ LiveHoldsItsClosure /\ DormantUntilDeclared

\* A plugin that starts finds nothing of its own exported, so that its calls of
\* export are not refused: also after a load that failed half-way, whose exports
\* nobody has dropped.
ExportsAreNotInTheWay ==
    [][\A p \in Plugins : running'[p] > loads => exports[p] = 0]_vars

-----------------------------------------------------------------------------
(* Statements that the code does not keep.                                 *)

\* The warning at cmd.add, of the chat as well.
ChatDormantToo ==
    \A n \in Names : registry[n].since \in {running[p] : p \in Plugins} \cup {0}

\* The comment at cmd.remove: a command that is removed resolves to nothing.
RemovedResolvesToNothing ==
    \A t \in Tables, n \in Names : commands[<<t, n>>].live => registry[n] # NoEntry

\* A handler is run from the consoles that it was declared for only.
RunWhereDeclared ==
    \A t \in Tables, n \in Names :
        commands[<<t, n>>].live => t \in Resolves(t, n).sources

\* The comment at make_proxy: nobody holds a function of a plugin that is gone.
ExportsOfTheRunning ==
    Idle => \A p \in Plugins : exports[p] # 0 => exports[p] = running[p]
=============================================================================
