# cs-lua in TLA+

cs-lua is a Metamod plugin for Half-Life servers that runs Lua plugins: one Lua
state, on the game thread, driven by the engine's callbacks, with pools of
threads for HTTP, an HTTP server and MySQL. This directory models the parts of it
whose correctness depends on order: what is re-entered, what runs beside the
game thread, what outlives a reload, a map or a player. The modules are
translated from the C++ under `src/src` and the Lua under `src/scripts`; paths
below are in the repository, so `lua_events.cpp` is `src/src/lua_events.cpp`.

To check a run: `tlc -config MCTimers.cfg MCTimers`. To check the proofs:
`tlapm HookProofs.tla`, and likewise for the other modules of proofs.

## 1. Inventory

| component | state | operations | interacts with | correct when |
|---|---|---|---|---|
| hook dispatch (`lua_events.cpp`) | handler vectors `m_handlers`, `m_custom`; depth `m_dispatching` | `hook.add/remove/run`, the `fire_*` of the game, `remove_plugin`, `clear` | every native that makes the game fire an event; the lifecycle | no live handler is skipped or called twice, indexes stay good under nested walks, slots and handlers match |
| game library hooks (`regamedll.cpp`, `rehlds.cpp`, the `fire_*` of `lua_events.cpp`) | which hookchains are registered; one event per call in progress | each hook, `sync_hooks`, `regamedll_shutdown` | the game, hook dispatch, the lifecycle | hook, `fire_*` and `is_cancellable` agree; who listens is heard; the game gets what the handlers left |
| lifecycle (`lua_engine.cpp`, `commands.cpp`, `lua_natives.cpp`) | `m_plugins` with `loaded`, `failed`, `env_ref`, `unload_refs`; `m_current`; the pending reload | `lua_load/unload/reload`, `plugin.reload`, `plugin.on_unload`, `init`, `shutdown` | the `remove_plugin` and `reset` of every component | ownership follows the running code, nothing of a replaced incarnation stays, flags tell the truth |
| timers (`lua_timers.cpp`) | the vector `s_timers`, `s_last_now` | `timer.after/every/create/cancel/destroy`, the pass of a frame, rebase at a change of map | frame loop, lifecycle | a timer waits what was asked, an error costs one timer, nobody due is left behind |
| HTTP client (`lua_http.cpp`) | `s_pending`, `s_done`, workers, `s_inflight`, `s_generation` | ask, cancel, drain, remove_plugin, reset, shutdown | worker threads, frame loop, lifecycle | one callback or none, never after a cancel; nothing waits for ever |
| HTTP server (`lua_httpserver.cpp`) | connection queue, `s_pending`, routes, stream clients with outboxes | listen, stop, route, stream, push, drain, reset, shutdown | acceptor, workers, peers, frame loop | one holder per socket, an answer or a timeout, stop returns |
| MySQL (`lua_mysql.cpp`) | as the client, and connections with `use_lock` | connect, query, migrate, close, drain, teardown | workers, the database | a socket has one user and is not closed under it, order on one connection, a migration once |
| SQLite (`lua_db.cpp`) | `s_dbs`, `s_stmts`, `in_transaction` | open, prepare, write, transaction, close, teardown | lifecycle, other databases | flag and block agree; a block is in the file as a whole or not at all |
| data files (`scripts/lib/datafile.lua`) | a file, its temporary and its backup | load, save | the file system, crashes | after a crash the old or the new contents are on the disk, whole |
| access (`scripts/core/access.lua`) | users, the generation, the rights cache | grant, revoke, reload, save, check | players, data files, time, the map | the cache never answers for a grant that is gone |
| commands (`lua_command.cpp`, `scripts/core/commands.lua`) | two tables in C++, one in Lua | add, remove, run from consoles and chat | lifecycle, access | a live command is the running plugin's, and its closure is held once |
| exports (`scripts/core/exports.lua`) | functions by plugin and name | export, call through a proxy | lifecycle | what is left over is never in the way |
| menus (`lua_menu.cpp`, `scripts/core/ui.lua`) | the open menu of each player, twice | show, select, close, timeout | players, messages | the two tables are about one panel |
| players (`players.cpp`, `dllapi.cpp`, `lua_player.cpp`) | slots, authorization, what is kept by slot | connect, refuse, authorize, disconnect, a new map | events, menus, rights, visibility | events come in order; the next player of a slot inherits nothing |
| messages (`lua_message.cpp`, `lua_msg.cpp`, `cslua_corpse.cpp`, `cslua_netwatch.cpp`) | the message being written, in four places; a ring per player | the engine's begin, fields and end; `msg.send`; panels in pieces; `hide_corpses` | engine, handlers of `msg:*`, players | copy, watch and engine are about one message, and it is whole |
| frame and map loop (`dllapi.cpp`) | clock, polls | `StartFrame`, `ServerActivate`, `ServerDeactivate` | everything above | the order of drains, polls that survive a change of map |
| precache | a list with a limit | add, replay | engine | counter matches table |
| bindings, pure libraries, bootstrap | none of their own | forward or compute | | |

All Lua runs on the game thread. Four things make it hard all the same:

* **re-entrancy**: a handler, timer callback, reply or teardown handler is Lua
  code, and may add, remove, fire, reload or tear down while the C++ that called
  it holds an index, an iterator or a reference;
* **threads**: workers take requests and post results under two locks, while
  the game thread cancels, drains, resets and joins;
* **lifetimes**: a Lua state dies with its registry, and requests on the wire,
  the clock of timers, console commands and the connections of peers survive it;
  a slot outlives its player, and a map the clock;
* **doubled state**: one fact is kept in two places (Lua's menus and C++'s, the
  users and the rights cache, a flag and SQLite's own transaction), changed by
  different callers.

The hazards, each at its line, are listed in `PROJECT.json` with the properties
that watch them, or a note where none does.

## 2. Modules

| module | models |
|---|---|
| `HookDispatch` | the lists, the walks that have not returned as a stack, tombstones and the sweep |
| `GameEvents` | the hookchains, what each fires, who is asked, and what the game goes on with |
| `PluginLifecycle` | the engine's loads and teardowns as a stack of activities |
| `Commands` | commands of consoles and chat, and exports, across loads and teardowns |
| `RequestLedger` | abstract: a request is asked, then called back once or dropped once |
| `Queues` | what an erase leaves of a `std::deque` or `std::vector`, for the modules that have one |
| `HttpClient` | implements `RequestLedger` |
| `HttpServer` | implements `RequestLedger`, for connections |
| `MySql` | implements `RequestLedger`, with the connections its requests share |
| `TimerPromise` | abstract: a timer is a countdown of played frames |
| `Timers` | implements `TimerPromise` |
| `Database` | databases, statements, blocks of `db:transaction` in one another, what is committed |
| `DataFile` | saving a table by three files and two renames, with a crash between any two steps |
| `Access` | extends `DataFile`: the entry of a key, saved and read in, and the rights cache |
| `Players` | slots, the engine's calls about them, and what five places keep by slot |
| `Messages` | messages on their way out: the hooks, the watch, panels in pieces |
| `HookProofs`, `GameAndAccessProofs`, `CommandsProofs`, `DatabaseProofs`, `PlayersAndHttpProofs` (`Players` and `HttpClient`), `LifecycleAndServerProofs` (`PluginLifecycle` and `HttpServer`), `MySqlProofs`, `TimersAndMessagesProofs` | the theorems |
| `MC...` | instances for TLC, with their symmetry |

Every definition that stands for code is listed under `map` in `PROJECT.json`
with its lines. A definition preceded by "(mutant)" is a plausible bug, used to
see that a property notices it. In every module `Consistent` is the conjunction
of the type invariant with the named state properties that must hold between
any two steps; the sections below name its parts. Some modules of theorems extend
two components that have nothing to do with each other, so no name may stand for
two things: `GameEvents`, `HttpClient`, `HttpServer` and `Messages` say `GameInit`,
`HttpSpec`, `ServerConsistent`, `MsgTypeOK` and so on for `Init`, `Spec`,
`Consistent` and `TypeOK`.

### HookDispatch

`lists[e]` is `m_handlers[e]` or `m_custom[e]`. A vector is a set of records
numbered by their registration, because the code only pushes back and erases:
the index of an entry is the number of entries registered before it. `stack` has
a frame for each `run`, `run_custom` and `l_run` on the C++ stack; `Fire` and
`HookRun` push one, `Call` enters a handler, `Return` leaves it, `Exhausted` and
`ReturnCancelled` end the walk and sweep. While a handler runs, any of
`Replace`, `PushBack`, `Remove` (for the running plugin) and `RemovePlugin` (for
any) may happen. `registry` is the part of the Lua registry that holds handlers.

### GameEvents

Four places of the code say what a hookchain does with Lua: the hook itself, the
`fire_*` function, `is_cancellable`, and the table that decides which chains are
hooked. Each is a table of the module, in full, so that `TablesAgree` compares
all of them; a run then follows some of the chains step by step. `stack` holds
the calls of the game that are inside a hook and the loads of plugins;
`GameCalls` enters a chain; `Handle` runs one listener, who may `Cancel` or
`WriteAmount` until `HandlerReturns`; when the walk is over the hook either drops the
call (`Drop`) or goes on to the game (`CallNext`); `GameReturns` fires what comes
after, told of what the game has left of the amount (`Leaves`), and `HookReturns`
leaves. Of an event with a player the tables say if handlers are sure to be
given one. `hooked` is what the registries of the game and
of the engine hold and `installed` the flags of `sync_hook`: `Sync` runs after
loads, and `CloseState` takes every hook of the game out and closes Lua. The
order of handlers in one list is `HookDispatch`'s.

### PluginLifecycle

`stack` holds activities that have not returned: plugin code, a load, a
teardown at each of its stages, `shutdown`, `init`. What a plugin registered is
one set of `(slot, incarnation)` pairs, since the seven `remove_plugin` calls
run no Lua and act alike. Commands come from the console between activities and
from any Lua code, a handler that a teardown has called included, so teardowns
and loads nest in one another. `Careful` states what an operator and plugins
respect (`Respects`, `MayRequest`): a plugin is stopped only when it is loaded,
with none of its code running, not in the middle of its own teardown, and not
before `init` has come to it. With it the flags are true, without it they are not
(section 4). A `lua_load` of a folder without a slot is left out while a load or a
teardown is in progress: `m_plugins` may move under the reference they hold.

### Commands

`commands` is the two vectors of C++, which only grow: a name that is taken over
keeps its row, a name of a plugin that is torn down becomes dormant. `registry`
is the Lua table that the chat goes by. A closure is named by what it was made
for, and `held` is what the Lua registry keeps of them. Code is known by its
incarnation and carries the scope (`m_current`) it was called in, so that what a
chat command or an exported function registers goes where the code puts it.
`Export`, `CallExport` and `Notify` (the core's handler of `plugin_unload`) are
`exports.lua`.

### HttpClient

One action per critical section. A worker is `ready`, `waiting` on `s_wake`,
`performing` a request, or gone. The game thread is in Lua code (between frames
or in a callback), half way through a cancel or a teardown (each takes two locks
in turn), draining, or joining. A job keeps the slot of its callback and the
generation of its Lua state.

### HttpServer

The acceptor holds a socket between `accept` and the queue; a worker reads it,
one header line after another for as long as the peer sends any, parks, and gives
up or writes what the game thread answered; a stream keeps its worker.
`stop_listening` is three steps, because it sets `s_stopping`, then the
flags of streams, then joins. `fate` records what became of each socket: the
properties compare it with who holds it.

### MySql

The queues, workers and drain are those of `HttpClient` without a cancel. `conns`
is `s_conns`: its owner, whether a socket is open (`handle`), `closed`, and the
holder of `use_lock`. A worker goes through `perform` or `perform_migrate` one
call of the client library at a time (`locking`, `locked`, `connecting`,
`querying`; `reading`, `running` and `recording` for a batch of migrations), and
each call may fail the way the code handles: a failed connect or query closes the
socket, a failed migration keeps it, a result that cannot be stored passes for
no rows. `Close` waits for the lock on the game thread; `TakeAway` is the
`try_lock` of teardown, which closes an idle connection and only marks one in
use. `recorded` is the table `_cslua_migrations` of one database. The history
variables name the exceptions of two properties: `raced` (a teardown found the
connection in use) and `excused` (a batch ran beside another one over a second
connection, lost the rows that were recorded, or names a migration twice, which
`l_migrate` does not look for).

### Timers

`pc`, `at` and `owner` are the pass: where it is and whose callback runs.
`Rebase` is a change of map, `Clear` a reload of the Lua state, `RemovePlugin`
erases at once as the code does, also in the middle of a pass. `disturbed` marks
a pass in which it did. The empty name may be one of `Names`: `FindNamed` then
finds the plugin's first anonymous timer, as `find_named` does.

### Database

`dbs` and `stmts` are `s_dbs` and `s_stmts`, `blocks` the calls of
`db:transaction` on the stack. Each database has the flag `in_transaction` and
SQLite's own transaction beside it, with what it has written and not committed;
`disk` is what each file has. The callback of a block is Lua code: it may write,
prepare, open the file again (and get the same handle), close its own handle,
start blocks on other databases, run `BEGIN` and `COMMIT` by hand, fail, or have
a write interrupted by the watchdog, which takes the whole transaction with it.
`ended` remembers the blocks that returned and what they told their caller.
`StopsAtAbort` says that a callback whose write was interrupted fails, as the
error of the native makes it unless it is caught.

### DataFile and Access

`save` is four steps, because the process may die between any two and any of
them may fail: write `.tmp`, drop `.bak`, move the live file to `.bak`, move
`.tmp` to the live file. `full` and `exposed` are the histories that name the
exceptions of `SaveLosesNothing`: a disk that was full (no write is checked) and a
save that nothing protected (begun with no live file to put aside, or over a
`.bak` that could be neither dropped nor replaced).

`Access` is the data of one key: the membership of a group with its term, and
personal rights with theirs. `Grant` and `Revoke` change it and advance the
generation, `Good` says whether a cached record may still answer, saving and
reloading go through `DataFile`, time and changes of map let terms pass. What a cached record
holds is what `Build` computed when it was built, with the generation, the map
and the earliest deadline it compares against later.

### Players

`there` is the engine's client, `info` the module's record, `calls` the calls of
the engine that are running: `ClientConnect`, `ClientDisconnect`, a poll of
`StartFrame`, a change of map. Handlers run inside them, and one of them may have
a player dropped, which is a call inside the call. `menu` is `s_menu_open` with
its keys and deadline, `open` the table of `ui.lua`, `panel` what the client
really has on the screen. `kept[s][kind]` is whose things lie at a slot: those of
its player, of an earlier one, or of none. Assumed of the engine: it calls
`ClientDisconnect` once for a client it has accepted, never for one refused.

### Messages

`hook` is the handlers' copy of the message, `active` and `slot` the watch, and
`engine` what the engine has open; the engine itself is external, and goes down
when a message is begun inside another one or a field comes with none open.
Handlers of `msg:*` run in the hook of the end, with the message still open.
`SendPanel` cuts a panel in pieces of `Chunk` bytes, each a message of its own:
`Screen` is the loop of `send_menu` and `cslua_send_motd`, a recursive function of
its turns, and `Total` the running sums of `dump_slot`.
`sent` remembers what the game sent the player of a slot, for comparison with what
the log of a drop says. What Lua sends passes the hooks by, and so the watch:
`own` remembers who was sent such a message since the game last began one, or
joined. `careless` marks a run in which a handler cancelled a message
or sent one of its own while the engine had one open.


## 3. Runs

| run | question | distinct states |
|---|---|---|
| `MCHookDispatch` | do nested walks survive what handlers do to the lists? | 368,635 |
| `MCGameEvents` | does the game go on with what its handlers left, and is everybody heard? | 1,110,808 |
| `MCPluginLifecycle` | do re-entered loads and teardowns leave the books right? | 830,709 |
| `MCCommands` | is a command dormant when its plugin is gone, and its closure held once? | 1,070,343 |
| `MCHttpClient` | does each request settle once, and does shutdown return? | 154,066 |
| `MCHttpServer` | does each connection have one holder and one outcome, and does stop return? | 478,279 |
| `MCMySql` | is a socket used by one thread and never under its close, and does the game thread go on? | 709,705 |
| `MCTimers` | does a pass survive what callbacks do to the vector, and is the wait what was asked? | 477,001 |
| `MCDatabase` | do flags follow their blocks, and is a block written as a whole? | 474,231 |
| `MCAccess` | is the cache current, and does a crash leave the table that was saved? | 2,436,138 |
| `MCPlayers` | do events come in order, and does a slot forget its player? | 448,339 |
| `MCMessages` | do copy, watch and engine agree on one message, and does a panel end? | 1,116,744 |

Every run passes. An exception that a property makes is part of its formula, as
a history variable that says exactly when it applies; it is repeated here.

### What the runs show

* `MCHookDispatch`. `Consistent` is `TypeOK`, `RefsMatchHandlers` (no slot is
  fetched for another handler, none leaks), `OneSubscription` and
  `QuiescentClean` (tombstones and empty keys do not outlive the outermost walk).
  `NobodySkipped`: behind the index every live handler was called, ahead of it
  none. `ListsOnlyGrowUnderWalk`: an entry never moves under a walk.
* `MCGameEvents`. `GameConsistent` is `GameTypeOK`, `FlagsMatchChains` (what the game
  holds is what `sync_hooks` believes, and nothing is registered twice),
  `NobodyCallsTheDead` (nothing of the game leads to a closed state, and a hook
  of the engine, which stays, finds nobody to run),
  `TablesAgree` and `ListenersAreHeard`. `late` excepts handlers that were added
  while no load was going on: hooks are taken after loads only.
  `GameGetsWhatWasLeft`: the original function runs with the amount the handlers
  of this very call left, and never past an accepted cancel.
  `DroppedOnlyOnDemand`: it is not run only when some handler asked for that.
* `MCPluginLifecycle`. `Consistent` is `TypeOK`, `ScopeNamesRunner` (`m_current` is the
  plugin whose code runs) and `NoStaleCode` (nothing of a replaced incarnation
  is registered). `LoadedTellsTheTruth` and `HandlersInReverse`. All of them for
  an operator who is `Careful`.
* `MCCommands`. `Consistent` is `TypeOK`, `LiveHoldsItsClosure` and
  `DormantUntilDeclared` (a live command of a console was declared by the
  incarnation that runs now). `ExportsAreNotInTheWay`: a plugin that starts has
  nothing exported in its name. Both under `Careful`: a plugin is unloaded or
  reloaded only when it is loaded and none of its code is running, and nobody
  exports in the scope of a plugin whose `plugin_unload` is being handled.
* `MCHttpClient`. `HttpConsistent` is `HttpTypeOK`, `OnePlace`, `ArmedHasClosure` (a
  request that may be called has its closure in its slot; `tainted` excepts a slot
  number that came from an older Lua state) and `CancelIsFinal`. `KeepsLedger` is
  the refinement of `RequestLedger`; under fairness `EveryAskSettles` and
  `ShutdownEnds`.
* `MCHttpServer`. `ServerConsistent` is `ServerTypeOK`, `OneHolder`, `NobodyForgotten`,
  `OneVerdict` (answer or timeout, and the peer is sent the one that was decided)
  and `StopLeavesNothing`. `StreamInOrder`, `KeepsLedger`, and under fairness
  `ParkedIsAnswered`, and `StopEnds` if no peer sends header lines for ever
  (`HeadersEnd`; section 4 has what happens otherwise).
* `MCMySql`. `Consistent` is `TypeOK`, `HandleIsHeld` (between two calls of the
  client library the worker holds the lock and the socket is there) and
  `ClosedStaysShut` (a closed connection is not reopened by a request on its
  way). `ClosedStaysShut` excepts the connections a teardown found in use
  (`raced`): `closed` was set when the worker had already looked, and the socket
  is open until shutdown, as the comment at `lua_mysql.cpp:1367` says.
  `MigratedOnce` excepts what `excused` names, where the code does run a recorded
  migration again. `KeepsLedger`, and under fairness `GameThreadGoesOn`.
* `MCTimers`. `Consistent` is `TypeOK`, `RefsMatchTimers` and `OneTimerPerName`.
  `NothingDueBehind` and `ErrorKillsOnlyTheThrower` in passes no teardown
  disturbed: `remove_plugin` erases entries under the pass, so in a disturbed one
  both fail, a timer may be left for the next frame, and an error may kill the
  timer that moved up. `KeepsPromise` is the refinement of `TimerPromise`, if a
  frame runs between a reload and the next change of map (`FrameFirst`).
* `MCDatabase`. `Consistent` is `TypeOK`, `FlagsMatchBlocks`,
  `StatementsHaveTheirDb` (no statement outlives its database, so that closing
  really closes) and `OneHandlePerFile`. `BlockIsAtomic`: what a block wrote is
  in its file as a whole or not at all, and as its result says, under
  `StopsAtAbort`. A block whose handle was
  closed under it (`closed`) only has to be whole.
* `MCAccess`. `Consistent` is `TypeOK` and `PruningTakesNothing` (reading a file
  in drops no grant that lasts). `CacheIsCurrent` excepts a grant that failed after
  it had changed the entry (`half`) and a player who is found by name and changes
  the name. `SaveLosesNothing` excepts `full` and `exposed` (see DataFile above).
* `MCPlayers`. `Consistent` is `TypeOK`, `RecordsAgree` and `NothingInherited`
  (team, panel, and rights once authorized). `EventsInOrder`: of each player
  handlers hear the coming, at most one authorization, one going. `KeyMeetsItsMenu`
  excepts a custom menu that was noted in Lua and then failed to be shown
  (`misdrawn`).
  Under fairness `AuthorizedInTheEnd`, over changes of map.
* `MCMessages`. `MessagesConsistent` is `MsgTypeOK` and `AllSeeOneMessage`.
  `MessagesAreWhole` is `EngineInTurn` (what is begun at the engine is ended, and
  nothing is begun inside it) and `PanelsAreComplete` (the last piece says that it
  is the last, whatever the length). `AllSeeOneMessage` and
  `EngineInTurn` except runs that are `careless`. `DumpTellsTheWindow`: the log of
  a drop is about this player and the last messages of the game in the window, up
  to the size of the ring. It says nothing of those that Lua sent (section 4).

### Bounds

* `MCHookDispatch`: two plugins, an engine event and a custom one, one id, three
  slots, four registrations, three nested walks. Two events are needed for a walk
  inside a walk of another list, depth three for a walk over a list that is
  already walked twice; three slots and four registrations let a slot be reused
  while a tombstone stands. One id per plugin is enough to meet the duplicate scan.
* `MCGameEvents`: two plugins, two handlers, two calls inside one another, values
  0 and 1, and three chains that stand for the kinds there are: one that is
  dropped when nothing is left of its amount (`trace_attack`), one that nothing
  stops and that has an event after the call, with what handlers wrote
  (`throw_he`), and one of the engine, which is hooked for good and can only be
  cancelled (`cvar_direct_set`). `takedamage` is the first with an event after
  it, as the second has one. `TablesAgree` is about all chains.
  Two handlers are the fewest for one that cancels and one that writes.
* `MCPluginLifecycle`: a plugin that is installed and one that is not, four
  incarnations, two on_unload registrations, four nested activities: enough for
  a teardown that calls code that unloads or starts the other plugin, whose own
  handlers run, and for each plugin to be replaced.
* `MCCommands`: two plugins, one name, chat, three incarnations, two
  declarations, depth two: code of one plugin inside the code of the other, or a
  load or teardown inside either. `Asked` has the list of all sources and that of one
  console: with them a takeover leaves the other console with what it had. Two declarations are
  the fewest for a takeover; the third incarnation is a plugin that comes back.
  Deeper nesting is left to the theorems.
* `MCHttpClient`: two workers, two plugins, two requests, two slots, two Lua
  states. Two requests on two workers give every order of replies; two states
  leave a request on the wire from the first while the second asks.
* `MCHttpServer`: two workers, two sockets, one plugin, method GET, a queue of one,
  an outbox of two, three pushes, two listens. Two messages in an outbox have an
  order and an older one to drop, which the third push does. Either socket may fill the queue, a
  parked one may be joined while the other streams, and the server may be
  stopped and started. Only GET is kept because the method matters solely to
  which route matches, and "no route" is reached without one.
* `MCMySql`: two workers (the program's number), two connections, one plugin, two
  requests, a batch of one migration, two Lua states. Two requests may meet on a
  connection or run side by side; the second may come from the next state, or be
  the retry of a batch whose migration ran and failed, or ran and was not
  recorded. Batches of several migrations, of which a failure leaves some
  recorded, are left to the theorem `MigratedOnceAlways`, which is about batches
  of any length.
* `MCTimers`: two plugins, one name, three slots and three timers in the life of
  a state, a frame of a map beside its first, waits 0 and 1: a timer before, at and
  behind the one whose callback runs, and a change of map before the wait is over.
  With the empty name among the names (`Names = {x, NoName}`) the run passes too,
  with 616,318 states and twice the time; the theorems hold for both.
* `MCDatabase`: two plugins, one file name each, three handles in the life of the
  process, one statement, two writes, two nested blocks, two Lua states. Three
  handles are a block, its nested one, and the file of the first opened again in
  between. Two writes are the fewest for a block to be torn apart.
* `MCAccess`: one slot, one key, two maps, two points in time, four changes, of
  which saves are some. Two maps, which nothing orders (they are a symmetry
  set), let a term end and one come back; time 2 lets a
  group's term and the entry's end one after the other; four changes are a grant,
  a save, a revocation and a second save that may be interrupted. The cache has a
  record for each slot and no operation reads two.
* `MCPlayers`: two slots, plugins acting on the first, one of the kinds of things
  left (`rights`, whose rule has most conditions), a poll every second frame, a call
  inside a call. The second slot is what the poll goes on to after a handler has
  dropped somebody. A panel without a time is one whose time never passes, since
  nothing makes `Expire` happen.
* `MCMessages`: two players, the type that `hide_corpses` swallows, a ring
  of two, a window of one moment, chunks of two bytes and panels of up to five,
  cut at four: an empty panel, one piece, exactly two, and one cut at the cap.
  Three messages overrun the ring. While `hide_corpses` is off its type is handled
  as any other; with a second type beside it, and rings and windows of any size,
  the theorems.

### Fairness

`Timers`, `HookDispatch`, `PluginLifecycle`, `Database`, `GameEvents`,
`Messages`, `Access` and `Commands` assume none and claim no liveness.

`HttpClient`: weak fairness of each worker (threads are scheduled, and a
transfer has a timeout, so `Post` comes), and of the game thread's own steps once
it has begun them. `StartDrain` and `Returned` have strong fairness: a frame
comes again and again and callbacks return, but Lua code that uses the namespace
in between disables the action for a moment, and would otherwise starve it.

`HttpServer`: weak fairness of the acceptor, of each worker (each `recv`, each
`send`, `select` and the wait for an answer have timeouts) and of the steps of
`stop_listening` and of a drain that has begun. Nothing is assumed of the frame
loop or of handlers: `ParkedIsAnswered` holds if no frame ever comes. Nor does the
fairness assume anything of peers. A worker goes on, but `read_request` takes any
number of header lines, with a timeout for each `recv` and no look at `s_stopping`
(`lua_httpserver.cpp:221-239`), so it may go on from line to line for ever.
`StopEnds` therefore names its assumption, `HeadersEnd`: from some moment on no
worker is at a header line. A body is no such case, its length is limited.

`MySql`: weak fairness of each worker (a connect ends after five seconds, a read
or write after ten, and `use_lock` is never held over anything else) and of the
game thread's own steps once it has begun them. Nothing is assumed of frames or
of Lua code.

`Players`: weak fairness of what a running call still has to do (handlers
return), strong fairness of a frame: the engine runs frames on every map, but
other calls come between them. Nothing is assumed of Steam: the property speaks
of players it has answered for.

That no wait lasts for ever is written `[]<>~wait` in `EveryAskSettles`,
`ParkedIsAnswered`, `StopEnds`, `GameThreadGoesOn` and `AuthorizedInTheEnd`. It is
the same as `wait ~> ~wait`, and cheaper to check. `StopEnds` has it behind its
assumption on peers. For `AuthorizedInTheEnd` the wait
is that Steam has answered and handlers have not heard of it; the answer is taken
back only when the player is gone, which handlers have heard of by then.

Deadlock is checked where the system goes on for ever. The runs that say
`CHECK_DEADLOCK FALSE` are those whose system ends with the process
(`MCHttpClient`, `MCHttpServer`, `MCMySql`, `MCGameEvents`, `MCDatabase`) or whose bounds are
used up by something that has begun (`MCPluginLifecycle`, `MCCommands`: incarnations) or ends with
the crash of the server (`MCMessages`).

## 4. Statements the code does not keep

Comments and documentation say some things of the program that the models
refute. No run checks them, so that every run passes; each is a definition, and
TLC finds it violated when it replaces the properties of the cfg that is named,
with the constants that are given. The paths of `docs/` are under
`src/scripts/docs/api`.

| statement | run, and what to change | said by | what the code does |
|---|---|---|---|
| `ClosuresAreTheirOwn` | `MCHttpClient` | `lua_http.cpp:73-74`, `:756-757`: a reply of an older generation is thrown away | `:742` releases its slot number in the registry of the new state, where another callback lives, when a plugin is unloaded before the drain |
| `DisarmedNeverCalled` | `MCHttpClient` (PROPERTY) | `http.py:78-80`: callbacks of an unloaded plugin do not run | `lua_http.cpp:737`: the two queues are disarmed; a request on the wire and the rest of a batch being drained are called |
| `KeepsPromise` | `MCTimers`, `FrameFirst = FALSE`, `Delays = {0, 2}` | `lua_timers.cpp:202-204`: the rest of a wait is carried over to a new map | `:199` zeroes the last time seen; a change of map before the next frame adds the age of the old map to every wait |
| `LoadedTellsTheTruth` | `MCPluginLifecycle`, `Careful = FALSE` | `lua_engine.h:36-38`: `loaded` is false after `lua_unload` until it is started up again | `lua_engine.cpp:462`: `lua_reload` of an unloaded plugin starts it and leaves `loaded` false |
| `OnUnloadRunsOnReload` | `MCPluginLifecycle` (PROPERTY) | `plugin.py:94`: on_unload handlers run on `lua_reload` | `lua_engine.cpp:309-312`: `shutdown` fires `plugin_unload` and does not run them |
| `StopReturns` | `MCHttpServer` (PROPERTY) | `lua_httpserver.cpp:853-854`: the thread joins finish in milliseconds | `:221-239`: a worker reads header lines for as long as its peer sends them and does not look at `s_stopping`; the join at `:862-865` waits for it |
| `InTurn` | `MCMySql` (PROPERTY) | `mysql.py:97-98`: two requests on one connection always go in turn | `lua_mysql.cpp:284`: two workers that took them race for `use_lock`, and the later may be first |
| `BlockIsAtomic` | `MCDatabase`, `StopsAtAbort = FALSE` | `db.py:152`: the block is one transaction | a callback that catches the error of an interrupted write goes on outside the transaction that SQLite has taken away, and what it writes then is on the disk alone |
| `EverySubscriberIsHeard` | `MCGameEvents` | that `hook.add` subscribes, at any time | a handler of an event that nobody listened to, added outside a load, waits for the next load to be heard |
| `PlayersAsPromised` | `MCGameEvents` | `hook.py:485-486`: the `player` of `player:can_hear`; `:26` and the other pages that speak of a player and not of one that may be missing | the hooks of `can_hear`, of radio, of buying and others are fired for slot 0 as well, and `set_player` gives handlers nil (`regamedll.cpp:991-1001`, `lua_player.cpp:1565`) |
| `EveryMessageIsCounted` | `MCMessages` | `cslua_netwatch.h:17-18`: every reliable message that reaches a client is counted, regardless of who wrote it | what Lua sends goes to the engine past the hooks that count |
| `NeverByHalf` | `MCMessages` | `msg.py:113`: either begin and end are both performed or neither is | `cslua_corpse.cpp:94-130`: a handler that cancels supersedes the end alone, and the message stays open at the engine |
| `StartsClean` | `MCPlayers`, also with `Kinds = {"render"}` | `dllapi.cpp:99`: the new occupant of a slot starts clean | rows of `e:render_for` stay with the viewer's slot; what is left at an empty slot by an old player object is the next one's until it is cleared |
| `LoadsAfterCrash` | `MCAccess` | `datafile.lua:145-147`: a crash does not take the list with it | between the two renames there is no live file, and `load` never looks at the `.bak`: the list is on the disk and not found |
| `ChatDormantToo` | `MCCommands` | `cmd.py:94`: a command that is not declared again is a dummy | the table of the chat is not cleared by a teardown (`commands.lua:230`) |
| `RemovedResolvesToNothing` | `MCCommands` | `commands.lua:276-278`: a removed command resolves to nothing | the closure of a console falls back to the entry it was made with |
| `RunWhereDeclared` | `MCCommands` | `cmd.py:17`: console and server are not to be mixed up | a takeover for one console leaves the other one's command, which resolves to the new handler |
| `ExportsOfTheRunning` | `MCCommands` | `exports.lua:52-54`: nobody holds a function of a plugin that is gone | after a load that failed half-way the exports stay, and are called |
| `Consistent` | `MCCommands`, `Careful = FALSE` | as `cmd.py:94` | unloading a plugin from inside its own command |

### Met while modelling

These have no run, because the models leave the detail out or because nothing
in the repository says otherwise:

* lifecycle: a second deferred reload overwrites the first; a load inside a load
  resets `m_loading`; `LuaPlugin &` is held across Lua code that may grow
  `m_plugins`; `unload_plugin` drops the handlers registered by an on_unload
  handler without running them; one registered by the plugin's own handler of
  `plugin_unload` survives the teardown;
* scopes: chat commands and menu handlers run with `m_current` = -1, so what they
  register belongs to nobody; an exported function runs in the scope of its
  caller, though `exports.lua:18-19` says that `plugin.id()` names the plugin
  whose code runs; the trampoline of a command (`lua_command.cpp:48`) reads its
  pointer again after the handler has run, for the name in an error message;
* HTTP and MySQL: `s_inflight` counts what teardown erased and loses what a stale
  reply takes; the teardown of MySQL closes idle sockets, where `mysql.py:111`
  and `lua_mysql.h:38` leave them open until the server stops; `conn:close`
  stops the game thread for as long as a worker holds the connection; two
  connections can run one migration twice, and so can a batch that names it twice;
* players: `hook.py:145` gives authorized before connected, a late answer of Steam
  comes after it; `menu.is_open` says true after the panel has timed out or the map
  changed, until a key is pressed;
* access: which of two grants of equal weight wins depends on the order of the
  groups, where `access.lua:15` names one order; a grant that fails after it has
  changed the entry does not advance the generation;
* data files: no write is checked, so a full disk puts a cut file in the place of
  the live one; a failed `os.remove` and a failed rename together can put an old
  `.bak` over the live file;
* messages: a look-up of `MOTD` or `ShowMenu` that misses is cached for good; the
  watch counts every message to one client, unreliable ones too, where
  `cslua_netwatch.h:4-6` speaks of the reliable queue;
* timers: `timer.create` with an empty name replaces an anonymous timer of the
  plugin, one of `timer.after` say;
  `cslua_now_seconds` is `clock()`, processor time on POSIX, so the watch's
  window is not wall time there.

## 5. Proofs

Each theorem holds for any values of the constants under the named assumption of
the module it is about, which TLC evaluates on every run. The table gives it
beside the module. Where a module of theorems extends two components, each
theorem is about one of them, and its proof uses nothing of the other.

| module | theorem | says |
|---|---|---|
| `HookProofs` (assumes `HookConstants`) | `ConsistentAlways` | `Spec => []Consistent` |
| | `RefsSafe`, `OneSubscriptionSafe`, `QuiescentSafe` | its parts |
| | `ListsOnlyGrow` | `Spec => ListsOnlyGrowUnderWalk` |
| | `NobodySkippedAlways` | `Spec => []NobodySkipped` |
| `GameAndAccessProofs`, of `GameEvents` (`GameEventsConstants`) | `GameConsistentAlways` | `GameSpec => []GameConsistent` |
| | `GameGetsWhatWasLeftAlways` | `GameSpec => []GameGetsWhatWasLeft` |
| | `DroppedOnlyOnDemandAlways` | `GameSpec => DroppedOnlyOnDemand` |
| the same, of `Access` (`DataConstants`, `AccessConstants`) | `ConsistentAlways` | `Spec => []Consistent` |
| | `CacheIsCurrentAlways` | `Spec => []CacheIsCurrent` |
| | `SaveLosesNothingAlways` | `Spec => []SaveLosesNothing` |
| `CommandsProofs` (`CommandConstants`) | `ConsistentAlways` | if `Careful`, `Spec => []Consistent` |
| | `ExportsAlwaysFree` | if `Careful`, `Spec => ExportsAreNotInTheWay` |
| `DatabaseProofs` (`DatabaseConstants`) | `ConsistentAlways` | `Spec => []Consistent` |
| | `BlockIsAtomicAlways` | if `StopsAtAbort`, `Spec => []BlockIsAtomic` |
| `PlayersAndHttpProofs`, of `Players` (`PlayersConstants`) | `ConsistentAlways` | `Spec => []Consistent` |
| | `EventsInOrderAlways` | `Spec => []EventsInOrder` |
| | `KeyMeetsItsMenuAlways` | `Spec => []KeyMeetsItsMenu` |
| the same, of `HttpClient` (`HttpConstants`) | `HttpConsistentAlways` | `HttpSpec => []HttpConsistent` |
| | `HttpImplementsLedger` | `HttpSpec => KeepsLedger` |
| `LifecycleAndServerProofs`, of `PluginLifecycle` (`LifecycleConstants`) | `ConsistentAlways` | if `Careful`, `Spec => []Consistent` |
| | `LoadedTellsTheTruthAlways` | if `Careful`, `Spec => []LoadedTellsTheTruth` |
| | `HandlersInReverseAlways` | if `Careful`, `Spec => HandlersInReverse` |
| the same, of `HttpServer` (`ServerConstants`) | `ServerConsistentAlways` | `ServerSpec => []ServerConsistent` |
| | `StreamInOrderAlways` | `ServerSpec => []StreamInOrder` |
| | `ServerImplementsLedger` | `ServerSpec => KeepsLedger` |
| `MySqlProofs` (`MySqlConstants`) | `MySqlConsistentAlways` | `Spec => []Consistent` |
| | `MigratedOnceAlways` | `Spec => []MigratedOnce` |
| | `MySqlImplementsLedger` | `Spec => KeepsLedger` |
| `TimersAndMessagesProofs`, of `Timers` (`TimerConstants`) | `ConsistentAlways` | `Spec => []Consistent` |
| | `NothingDueBehindAlways` | `Spec => []NothingDueBehind` |
| | `ErrorKillsAlways` | `Spec => ErrorKillsOnlyTheThrower` |
| | `ImplementsPromise` | if `FrameFirst`, `Spec => KeepsPromise` |
| the same, of `Messages` (`MessagesConstants`) | `MessagesConsistentAlways` | `MsgSpec => []MessagesConsistent` |
| | `MessagesAreWholeAlways` | `MsgSpec => []MessagesAreWhole` |
| | `DumpTellsTheWindowAlways` | `MsgSpec => []DumpTellsTheWindow` |

The arguments:

* `HookDispatch`. The inductive invariant is the type invariant, the three state
  properties and `Numbering`: registration numbers are handed out once, so two
  records with one number are one. Without `Numbering` the step that buries or
  replaces an entry could change two; without `RefsMatchHandlers` the step that
  frees a slot could free a live handler's; without `dispatching = Len(stack)` of
  `QuiescentClean` a sweep could compact a list that is being walked.
  `ListsOnlyGrow` follows from one step under it: inside a walk the depth is
  positive, so a sweep leaves the lists alone. For `NobodySkipped` each walk knows
  that its index is within its list and that the entry it names is the one whose
  handler runs (`InPlace`). The index of an entry is a number of entries, and
  depends on their registration numbers alone (`SameBelow`), which a step inside a
  walk keeps, but for a new last one.
* `GameEvents`. `TablesAgree` is about constants, and is proved once for all of the
  chains (`TheTablesAgree`): `TableOfEvents` says of every event what its name
  says of it, `TableOfHooks` that a hook suits its events. What the steps need of
  a chain is `ChainFacts` after that. A call in progress was cancelled by whoever
  was allowed to and goes on with what its handlers left (`SoundCall`);
  `ChainsInPlace` says of both registries what `FlagsMatchChains` says of the
  game's, because a listener of the engine's is heard without `sync_hook`; and
  `ListenersHeard` holds while loads go on and in every phase, which is what a pass
  of `sync_hook` starts from. The proof was refused where the model was wrong: with
  a chain of the engine, calls do go through hooks while Lua is down, and
  `NobodyCallsTheDead` denied it. No run had such a chain; now it has one.
* `Access`. `SaveInOrder` says what the three files hold at each step of a save;
  without it, nothing tells a rename that `.tmp` is the table being saved.
  `CacheInOrder` says what every cached record of this generation is worth on the
  map it was built for, as long as none of its times has come. It speaks of
  records of other maps too, which are of no use now and may be again when the
  map comes back: this is why `CacheIsCurrent` alone is not inductive.
* `Commands`. What is declared belongs to the scope of running code, so the
  invariant has to say that the scope of running code is a plugin that runs.
  `Frames` says what each activity in progress needs of its plugin, and that a
  load or teardown has only code of other plugins below it, which is where
  `Careful` enters; `Books` that a plugin that runs is loaded and one that is not
  loaded has nothing exported, which is what `ExportsAlwaysFree` needs at a load.
* `Database`. `Consistent` is inductive together with `BlocksHaveTheirDb`: the
  database of a block on the stack is in `dbs`, so one opened later is never taken
  for it. For `BlockIsAtomic` the invariant says where each write is. Of a
  running block: in the open transaction of its database, or nowhere when that
  was taken away (`Held`; the callback then fails, which is where `StopsAtAbort`
  enters). Of a block that returned: in its file, or nowhere (`Settled`). And no
  write is in two places (`WritesInOrder`), so a commit of one block is not the
  commit of half another.
* `HttpClient`. A new request may not have the id of an old one (`Handed`), a
  queued request is of the present Lua state, so that a cancel releases its own
  slot (`Queued`), and so is the callback on the stack (`Turns`); with these the
  three properties are inductive. What an erase leaves of a queue is computed by
  recursion over its positions. The library's induction theorems cannot be used,
  but that `<` on the naturals is well-founded can: `Induction` is derived from it
  for a set instead of a formula, and `WithoutPicks` says what stays, in which order.
  For `HttpImplementsLedger` each step is looked at through the ids that will be
  called (`ArmedIds`): one that arms nobody is a `Drop` or a stutter, only `Ask`
  arms, and only `CallBack` calls.
* `MySql`. Who holds a `use_lock` is at work under it (`SqlLocks`) and each request
  has a connection that exists (`SqlHolding`), without which two workers could be
  under one lock. `ClosedStaysShut` speaks of connections that nobody uses; the
  invariant has to say of one in use that its worker has not looked at `closed` yet
  (`SqlBarred`), so that it will give up. For `MigratedOnce`: what a batch has left
  to run is not recorded, and no two batches are past their look at the rows
  (`SqlRows`). The first attempt failed at the step that records a migration, and
  was right to: a batch that names a migration twice runs it twice. The model had
  no such batch in its run; it has the exception now. The theorem is about batches
  of any length, the run has one of length one.
  For the ledger: a request is in one of five places and its id in no other
  (`SqlPlaces`, `SqlHanded`), and only a drain has a batch left (`SqlDrain`).
  The lemmas on queues, and on what a ledger shows (`Shown`), are those of
  `HttpClient`.
* `HttpServer`. `OneHolder` counts; the invariant says it without counting, and for
  each pair of holders: no socket is in two places (`SocketHeldOnce`), and what a
  holder is about to do says what became of its socket (`FatesTold`). A connection
  is asked of the game thread in one place (`AskedOnce`), its worker waits for the
  answer or has given up (`AskedWait`), and who waits is asked or answered
  (`WaitAsked`). Together they say why an answer can be published at all: whoever
  is asked and has not given up is open and parked (`AskedIsOpen`), so `OneVerdict`
  survives the timeout and the answer in either order. That a reload answers
  everybody needs the batch to be empty then (`GameTurns`). For `StreamInOrder`
  the messages of an outbox are numbered to the last one pushed, and those received
  are older than all of them (`Numbered`); a socket without a session has no outbox,
  or a new session would begin with the messages of an old one. For the ledger each
  step is looked at through what became of one socket (`OneIsTold`), but for the end
  of `stop_listening`, which drops all that wait in the queue at once.
* `Players`. The properties speak of the time between two calls of the engine;
  the invariant says of each slot what is true inside them. A slot may be in the
  middle of a connection (`Coming`: handlers do not know of the authorization
  yet) or of a departure (`Leaving`: they have heard of it and the record is still
  there), and `CallsInOrder` says that it is in one of them at most, because
  only drops are made inside other calls, and of other players. A drop inside
  the poll thus leaves every other slot as it was.
* `PluginLifecycle`. Each scope in progress restores the plugin of the scope below
  it (`ScopesInOrder`), which is what makes `m_current` right after any return or
  error. Loads and teardowns may be inside one another, but below one of a plugin
  nothing of that plugin is left to be continued (`AllNested`; this is where
  `Careful` enters), so what it drops is in nobody's way. `AllBacked` says what
  an activity needs of its plugin: code
  runs in the environment of now, a teardown has come past no handler that is
  left. `Books` says that code runs only of plugins that are loaded, or that a
  load in progress will mark as loaded; with no activity left that is
  `LoadedTellsTheTruth`. For `HandlersInReverse`, `RanInOrder` says that a plugin
  whose handlers have begun to run is in a teardown that has come past them; a
  plugin that is started again has a new environment and begins anew.
* `Timers`. Ids of the present Lua state are given once (`Numbered`), without
  which a new timer could share the slot of an old one. A pass that no teardown
  disturbed stands at the timer whose callback runs, and that one is not due any
  more (`InPass`): `NothingDueBehind` needs it when the index moves on, and
  `ErrorKillsAlways` is little else. A teardown does shift the vector under the
  index, which is why both properties leave the rest of such a pass out. Erasing
  is the recursion of `HttpClient` again, and so are the lemmas about it. For
  `ImplementsPromise` the invariant identifies a live timer with its id, and each
  step says which timers of the new vector stem from old ones with the wait they
  had (`Stems`). `FrameFirst` enters at a change of map alone, where the wait is
  measured against the time last seen; section 4 has what happens without it.

* `Messages`. A message that is not swallowed is open at the engine until its end
  (`Begun`); after a careless handler one stays open, and what is begun next brings
  the server down (`Broken`), which is all that is left of the run. `Watching` says
  that the watch counts for one player, and knows nothing of a slot nobody is in,
  so that the next player there begins with an empty ring. For
  `DumpTellsTheWindow` the ring follows the history (`Follows`): from the write
  position backwards it has the newest messages of the window in their order, and
  behind them only records too old to be told. The code adds the ring up from its
  first place, wherever the write position is, so the two sums are of the same
  numbers in different orders: `TotalOfRing` goes around the ring from the oldest
  record on and compares them place by place. A ring that is not full has its
  write position at its count, or what lies between would be told. For
  `MessagesAreWhole` the loop of a panel is followed turn by turn (`OnItsWay`):
  while there is more to send the client holds all that was sent, and a loop of as
  many turns as there are bytes has come to the last piece, as a piece has a byte
  at least. The theorems stand with those of `Timers` for the induction they share.

What stays with TLC: what needs fairness (`EveryAskSettles`, `ShutdownEnds` and
the other liveness properties) and `ENABLED`, which are out of the prover's reach.
Every invariant and every action property that a run checks is a theorem too, and so
are the four refinements, under the hypotheses of the table. Where a model is proved about,
recursion is a recursive function and induction is over a set.

## 6. Not modelled

* Thin bindings (`lua_entity.cpp`, `lua_pev.cpp`, `lua_fx.cpp`, most of
  `lua_player.cpp`): each call reads or writes one field of the engine or of the
  game, and no state stays between calls. A model would restate each line.
* Pure libraries (formatting, encoding, colours, paths; the router's pattern
  match, the parsing of HTTP, the weighing of grants): they compute, and the Lua
  specs under `src/tests` cover them.
* Precache: one list with a limit, filled at load and replayed with a map.
* Bootstrap, platform, documentation, tests: not part of what runs.
* The masks and overrides of visibility per entity, sub-menus, `lua_check`, file
  handles of plugins (`lua_file.cpp`).

Within the modelled components, the header of each module says what it leaves
out. Code outside `src/src` and `src/scripts` is the environment: the engine
(one `ClientDisconnect` for each client it has accepted, one message open at a
time), the game's registries of hooks, SQLite, the MySQL client, the operating
system's files and threads.

## 7. Plan

Done: all modules of section 2, with the proofs of section 5.

Next, in this order:

1. A composition of `PluginLifecycle` with a component whose requests outlive a
   teardown.
2. A small module for precache.
