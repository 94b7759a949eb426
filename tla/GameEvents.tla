------------------------------ MODULE GameEvents ------------------------------
(***************************************************************************)
(* How the game talks to Lua: the hookchains of ReGameDLL and ReHLDS       *)
(* (src/regamedll.cpp, src/rehlds.cpp) and the events that they fire       *)
(* (the fire_ functions of src/lua_events.cpp).                            *)
(*                                                                         *)
(* A hook stands between the game and one of its functions.  It may tell   *)
(* Lua of the call after the fact, ask before it and drop the call, or let *)
(* Lua rewrite what the function is given.  Which it does is said in four  *)
(* places of the code, kept in step by hand: the hook, the fire_ function, *)
(* is_cancellable, and the table that decides which chains are hooked.     *)
(* The tables are here in full; a run follows a part of the chains.        *)
(*                                                                         *)
(* Handlers are Lua: they make the game call other chains, add and remove  *)
(* handlers, and load and unload plugins, all while the hook waits.  Calls *)
(* of the game nest by themselves too: a death is inside of its damage.    *)
(*                                                                         *)
(* The order of handlers in a list is the matter of HookDispatch; here any *)
(* listener who has not been told yet may be next.  Left out: the fields   *)
(* that only carry something to the handlers.                              *)
(***************************************************************************)
EXTENDS Integers, Sequences, FiniteSets

CONSTANTS Plugins,     \* indices into LuaEngine::plugins()
          Chains,      \* the chains that a run follows
          Nobody,      \* no plugin
          MaxValue,    \* bound: amounts that handlers write
          MaxHandlers, \* bound: handlers at a time
          MaxDepth,    \* bound: nested calls of the game and of loads
          MaxStates    \* bound: Lua states in the life of the process

-----------------------------------------------------------------------------
(* The hooks                                                               *)

NoEvent == "none"

\* before, after: the events fired around the call of the game.
\* stop: what of the first keeps the game from being called.
\* writes: the game is given what handlers left in the event.
\* about: "player" when the event is not fired for anybody else.
\* sure: FALSE when the event depends on what the game says it did.
HookOf(chain, before, after, stop, writes, about, sure) ==
    [chain |-> chain, before |-> before, after |-> after, stop |-> stop,
     writes |-> writes, about |-> about, sure |-> sure]

Tell(chain, event, about)     == HookOf(chain, NoEvent, event, "never", FALSE, about, TRUE)
TellDone(chain, event, about) == HookOf(chain, NoEvent, event, "never", FALSE, about, FALSE)
Ask(chain, event, about)      == HookOf(chain, event, NoEvent, "cancelled", FALSE, about, TRUE)
AskAmount(chain, event, post) == HookOf(chain, event, post, "nothing left", TRUE, "player", TRUE)
AskScore(chain, event)        == HookOf(chain, event, NoEvent, "cancelled", TRUE, "player", TRUE)
Offer(chain, event, post, about) == HookOf(chain, event, post, "never", TRUE, about, TRUE)

DamageHooks == {
    Tell("spawn", "player:spawn", "player"),
    AskAmount("trace_attack", "player:trace_attack", NoEvent),
    AskAmount("takedamage", "player:hurt", "player:hurt_post"),
    Tell("killed", "player:death", "player"),
    AskAmount("take_health", "player:heal", NoEvent)}

WeaponHooks == {
    TellDone("fire_bullets", "weapon:fire", "player"),
    TellDone("fire_bullets3", "weapon:fire", "player"),
    TellDone("fire_buckshots", "weapon:fire", "player"),
    Offer("deploy", "weapon:deploy", NoEvent, "player"),
    TellDone("reload", "weapon:reload", "player"),
    TellDone("shotgun_reload", "weapon:reload", "player")}

RoundHooks == {
    Tell("round_start", "round:start", "nobody"),
    Tell("round_end", "round:end", "nobody"),
    Tell("freeze_end", "round:freeze_end", "nobody"),
    Tell("balance_teams", "round:balance_teams", "nobody"),
    Tell("go_to_intermission", "round:intermission", "nobody")}

ThrowHooks == {
    Offer("throw_he", "grenade:throw", "grenade:thrown", "anybody"),
    Ask("throw_generic", "weapon:throw", "anybody")}

BuyHooks == {
    Ask("buy_weapon", "weapon:buy", "anybody"),
    Ask("buy_ammo", "ammo:buy", "anybody"),
    Ask("buy_item", "item:buy", "anybody"),
    Ask("add_account", "player:money_change", "anybody"),
    Ask("give_ammo", "ammo:pickup", "anybody")}

ItemHooks == {
    Ask("give_item", "item:give", "player"),
    Tell("strip_items", "player:strip", "player"),
    Ask("drop_item", "weapon:drop", "anybody"),
    Ask("can_have_item", "player:can_have_item", "anybody"),
    Tell("got_weapon", "weapon:pickup", "player")}

MoveHooks == {
    Tell("jump", "player:jump", "player"),
    Tell("duck", "player:duck", "player"),
    Tell("start_observer", "player:spectate", "player"),
    Ask("radio", "player:radio", "anybody"),
    Ask("can_respawn", "player:respawn_check", "anybody")}

BombHooks == {
    Tell("defuse_start", "bomb:defusing", "player"),
    Offer("throw_smoke", "grenade:throw", "grenade:thrown", "anybody"),
    Offer("throw_flash", "grenade:throw", "grenade:thrown", "anybody"),
    Tell("plant", "bomb:planted", "anybody"),
    Tell("defuse", "bomb:defused", "anybody"),
    Tell("explode", "bomb:exploded", "nobody")}

ExplodeHooks == {
    Ask("explode_he", "grenade:explode", "anybody"),
    Ask("explode_smoke", "grenade:explode", "anybody"),
    Ask("explode_flash", "grenade:explode", "anybody")}

\* hook_dead_weapons hands back to the game what handlers made of its answer.
TeamHooks == {
    Tell("disappear", "player:disappear", "player"),
    Ask("can_switch_team", "player:can_switch_team", "anybody"),
    Tell("shield_give", "player:shield_give", "player"),
    Tell("shield_drop", "player:shield_drop", "player"),
    Tell("give_c4", "bomb:carrier", "anybody"),
    Tell("remove_guns", "round:remove_guns", "nobody"),
    [Tell("dead_weapons", "round:dead_weapons", "anybody") EXCEPT !.writes = TRUE],
    Tell("observer_next", "player:observer_next", "player"),
    Tell("observer_mode", "player:observer_mode", "player")}

\* hook_can_hear_player hands slot 0 on for whoever is no player.
ScoreHooks == {
    AskScore("score_add", "player:score_add"),
    AskScore("team_score_add", "team:score_add"),
    Tell("cleanup", "round:cleanup", "nobody"),
    Tell("userinfo_change", "player:userinfo_change", "player"),
    Ask("can_hear", "player:can_hear", "anybody"),
    Tell("choose_model", "player:choose_model", "player"),
    Ask("choose_team", "player:choose_team", "anybody"),
    Ask("round_respawn", "player:round_respawn", "player"),
    Ask("give_default_items", "player:give_default_items", "player")}

GameHooks == DamageHooks \cup WeaponHooks \cup RoundHooks \cup ThrowHooks \cup BuyHooks
    \cup ItemHooks \cup MoveHooks \cup BombHooks \cup ExplodeHooks \cup TeamHooks \cup ScoreHooks

\* The chains of ReHLDS are hooked once, when the module is attached.
EngineHooks == {
    Ask("cvar_direct_set", "server:cvar_change", "nobody"),
    Tell("create_fake_client", "client:bot_created", "anybody"),
    Tell("precache_generic", "server:precache_generic", "nobody")}

AllHooks == GameHooks \cup EngineHooks

-----------------------------------------------------------------------------
(* The events                                                              *)

\* who: "player" when handlers always get a player, "maybe" when they get nil for
\* slot 0; set_player has nothing to push for it either.
\* reads: the fire_ function reads a field back.
\* verdict: it says whether the event was cancelled, in its result.
EventOf(event, who, reads, verdict) ==
    [event |-> event, who |-> who, reads |-> reads, verdict |-> verdict]

Notices(events, who)   == {EventOf(e, who, FALSE, FALSE) : e \in events}
Questions(events, who) == {EventOf(e, who, FALSE, TRUE) : e \in events}
Amounts(events)        == {EventOf(e, "player", TRUE, TRUE) : e \in events}
Offers(events, who)    == {EventOf(e, who, TRUE, FALSE) : e \in events}

HurtEvents == Amounts({"player:hurt"})
    \cup Notices({"player:spawn", "player:hurt_post", "player:death"}, "player")

WeaponEvents == Notices({"weapon:fire", "weapon:reload"}, "player")
    \cup Offers({"weapon:deploy"}, "player")

RoundEvents == Notices({"round:start", "round:end", "round:freeze_end", "bomb:exploded"}, "none")
    \cup Notices({"bomb:planted", "bomb:defused"}, "maybe")

GrenadeEvents == Offers({"grenade:throw"}, "maybe")
    \cup Notices({"grenade:thrown"}, "maybe")
    \cup Questions({"grenade:explode", "weapon:throw"}, "maybe")

ShopEvents ==
    Questions({"weapon:buy", "ammo:buy", "item:buy", "player:money_change",
               "ammo:pickup", "weapon:drop"}, "maybe")

MoveEvents ==
    Notices({"player:jump", "player:duck", "player:spectate", "bomb:defusing"}, "maybe")
    \cup Questions({"player:radio", "player:respawn_check"}, "maybe")

HealEvents == Amounts({"player:trace_attack", "player:heal"})
    \cup Notices({"round:balance_teams", "round:intermission"}, "none")

ItemEvents == Questions({"item:give", "player:can_have_item", "player:can_switch_team"}, "maybe")
    \cup Notices({"player:strip", "weapon:pickup", "player:disappear"}, "maybe")

TeamEvents ==
    Notices({"player:shield_give", "player:shield_drop", "bomb:carrier",
             "player:observer_next", "player:observer_mode"}, "maybe")
    \cup Notices({"round:remove_guns"}, "none")
    \cup Offers({"round:dead_weapons"}, "maybe")

ScoreEvents == Amounts({"player:score_add", "team:score_add"})

MenuEvents == Notices({"round:cleanup"}, "none")
    \cup Notices({"player:userinfo_change", "player:choose_model"}, "maybe")
    \cup Questions({"player:can_hear", "player:choose_team"}, "maybe")

EngineEvents == Questions({"server:cvar_change"}, "none")
    \cup Notices({"server:precache_generic"}, "none")
    \cup Notices({"client:bot_created"}, "maybe")
    \cup Questions({"player:round_respawn", "player:give_default_items"}, "player")

AllEvents == HurtEvents \cup WeaponEvents \cup RoundEvents \cup GrenadeEvents \cup ShopEvents
    \cup MoveEvents \cup HealEvents \cup ItemEvents \cup TeamEvents \cup ScoreEvents
    \cup MenuEvents \cup EngineEvents

\* is_cancellable, without the events that are not fired by a hook.
Cancellable == {
    "player:hurt", "grenade:explode", "weapon:throw", "weapon:buy", "ammo:buy",
    "item:buy", "player:money_change", "ammo:pickup", "weapon:drop", "player:radio",
    "player:respawn_check", "player:trace_attack", "player:heal", "item:give",
    "player:can_have_item", "player:can_switch_team", "player:score_add",
    "team:score_add", "player:can_hear", "player:choose_team", "server:cvar_change",
    "player:round_respawn", "player:give_default_items"}

Hook == [c \in {h.chain : h \in AllHooks} |-> CHOOSE h \in AllHooks : h.chain = c]

Event == [e \in {v.event : v \in AllEvents} |-> CHOOSE v \in AllEvents : v.event = e]

EventsOf(c) == {Hook[c].before, Hook[c].after} \ {NoEvent}

Events == UNION {EventsOf(c) : c \in Chains}

-----------------------------------------------------------------------------
Parameters ==
    /\ Chains \subseteq {h.chain : h \in AllHooks}
    /\ Nobody \notin Plugins
    /\ MaxValue \in Nat \ {0} /\ MaxDepth \in Nat \ {0}
    /\ MaxHandlers \in Nat /\ MaxStates \in Nat

ASSUME GameEventsConstants == Parameters

VARIABLES
    phase,     \* of the Lua state: "up", "closing" in shutdown, "down", "starting" in init
    states,    \* Lua states so far
    loaded,    \* the plugins that run
    listeners, \* who has a handler of each event
    installed, \* s_installed
    hooked,    \* the chains whose registry has our hook
    fatal,     \* registerHook was called with a hook it already has
    stack,     \* calls of the game and loads that have not returned, innermost last
    late       \* history: who began to listen to a chain that is not hooked yet

gameVars == <<phase, states, loaded, listeners, installed, hooked, fatal, stack, late>>

Values == 0..MaxValue

\* What the game means to apply: damage, a fuse, a score.
Original == 1

\* at: "before" and "after" while the event of that name is being dispatched,
\* "game" while the call goes on, "load" for the load of a plugin.
\* running: whose handler is on the stack.  told: who has had the event.
\* accepted: history, e:cancel() was called and did not refuse.
Frame == [chain : Chains \cup {NoEvent}, at : {"before", "game", "after", "load"},
          running : Plugins \cup {Nobody}, told : SUBSET Plugins, cancelled : BOOLEAN,
          accepted : BOOLEAN, value : Values, given : Values]

Top == stack[Len(stack)]

Below == SubSeq(stack, 1, Len(stack) - 1)

Current(f) == IF f.at = "before" THEN Hook[f.chain].before ELSE Hook[f.chain].after

Dispatching == stack # <<>> /\ Top.at \in {"before", "after"}

\* p is the plugin whose Lua code runs: a handler, its own load, or a timer and
\* the like when nothing is on the stack.
Runs(p) ==
    IF stack = <<>> THEN p \in loaded /\ phase \in {"up", "closing"} ELSE Top.running = p

-----------------------------------------------------------------------------
(* Which chains are hooked                                                 *)

\* (mutant) The event after the call is forgotten.
WantedByFirstOnly(heard, c) ==
    \E e \in EventsOf(c) \ {Hook[c].after} : heard[e] # {}

\* cslua_regamedll_install_hooks: a chain is wanted when somebody listens to one
\* of the events it feeds.
Wanted(heard, c) == \E e \in EventsOf(c) : heard[e] # {}

IsGame(c) == Hook[c] \in GameHooks

\* sync_hook, for every chain of ReGameDLL.
Sync(heard) ==
    LET want == {c \in Chains : IsGame(c) /\ Wanted(heard, c)}
        ours == {c \in Chains : IsGame(c)}
    IN  /\ fatal' = (fatal \/ (want \ installed) \cap hooked # {})
        /\ hooked' = (hooked \cup (want \ installed)) \ ((ours \cap installed) \ want)
        /\ installed' = want
        /\ listeners' = heard
        /\ late' = {}

\* (mutant) The flags are left as they are.
RemoveHooksFlagged ==
    /\ hooked' = {c \in hooked : ~IsGame(c)}
    /\ UNCHANGED installed

RemoveHooks ==
    /\ hooked' = {c \in hooked : ~IsGame(c)}
    /\ installed' = {}

-----------------------------------------------------------------------------
(* What Lua code does                                                      *)

Handlers == UNION {{<<p, e>> : p \in listeners[e]} : e \in Events}

\* A handler that is removed and added again is a new entry of the list, and a
\* walk that is on its way comes to it.
Forgets(p, events) == [i \in DOMAIN stack |->
    IF stack[i].at \in {"before", "after"} /\ Current(stack[i]) \in events
    THEN [stack[i] EXCEPT !.told = @ \ {p}] ELSE stack[i]]

HookAdd(p, e) ==
    /\ Runs(p)
    /\ p \notin listeners[e]
    /\ Cardinality(Handlers) < MaxHandlers
    /\ listeners' = [listeners EXCEPT ![e] = @ \cup {p}]
    /\ late' = IF {c \in Chains : e \in EventsOf(c)} \subseteq hooked THEN late ELSE late \cup {<<p, e>>}
    /\ UNCHANGED <<phase, states, loaded, installed, hooked, fatal, stack>>

HookRemove(p, e) ==
    /\ Runs(p)
    /\ p \in listeners[e]
    /\ listeners' = [listeners EXCEPT ![e] = @ \ {p}]
    /\ late' = late \ {<<p, e>>}
    /\ stack' = Forgets(p, {e})
    /\ UNCHANGED <<phase, states, loaded, installed, hooked, fatal>>

Without(p) == [e \in Events |-> listeners[e] \ {p}]

\* lua_unload, from the console or by Lua code that executes the command.
Unload(p) ==
    /\ phase = "up"
    /\ p \in loaded
    /\ loaded' = loaded \ {p}
    /\ Sync(Without(p))
    /\ stack' = Forgets(p, Events)
    /\ UNCHANGED <<phase, states>>

LoadOf(p) == [chain |-> NoEvent, at |-> "load", running |-> p, told |-> {}, cancelled |-> FALSE,
              accepted |-> FALSE, value |-> 0, given |-> 0]

Loading == {stack[i].running : i \in {j \in DOMAIN stack : stack[j].at = "load"}}

\* lua_load and lua_reload of one plugin, whose handlers go first.
Load(p) ==
    /\ phase = "up"
    /\ p \notin Loading
    /\ Len(stack) < MaxDepth
    /\ listeners' = Without(p)
    /\ late' = {h \in late : h[1] # p}
    /\ loaded' = loaded \cup {p}
    /\ stack' = Append(Forgets(p, Events), LoadOf(p))
    /\ UNCHANGED <<phase, states, installed, hooked, fatal>>

\* The file has run, or has failed and its handlers are withdrawn.
LoadEnds ==
    /\ stack # <<>>
    /\ Top.at = "load"
    /\ stack' = Below
    /\ \/ /\ phase = "up"
          /\ \/ Sync(listeners)
             \/ Sync(Without(Top.running))
       \/ /\ phase = "starting"
          /\ UNCHANGED <<installed, hooked, fatal>>
          /\ \/ UNCHANGED <<listeners, late>>
             \/ listeners' = Without(Top.running) /\ late' = {h \in late : h[1] # Top.running}
    /\ UNCHANGED <<phase, states, loaded>>

-----------------------------------------------------------------------------
(* A call of the game                                                      *)

Enters(c, told, at) ==
    [chain |-> c, at |-> at, running |-> Nobody, told |-> told, cancelled |-> FALSE,
     accepted |-> FALSE, value |-> Original, given |-> Original]

\* Whoever is on top may make the game call: the game itself, or Lua code.
MayCall == stack # <<>> => Top.at = "game" \/ Top.running # Nobody

\* The game comes to a chain that we have hooked.  A call about somebody who is
\* no player goes on untold where the hook says so: such a call is not followed.
GameCalls(c) ==
    /\ MayCall
    /\ c \in hooked
    /\ Len(stack) < MaxDepth
    /\ stack' = Append(stack, Enters(c, {}, IF Hook[c].before # NoEvent THEN "before" ELSE "game"))
    /\ UNCHANGED <<phase, states, loaded, listeners, installed, hooked, fatal, late>>

NotTold(f) == listeners[Current(f)] \ f.told

\* dispatch_list comes to a handler.
Handle(p) ==
    /\ Dispatching
    /\ Top.running = Nobody
    /\ ~Top.cancelled
    /\ p \in NotTold(Top)
    /\ stack' = Append(Below, [Top EXCEPT !.running = p])
    /\ UNCHANGED <<phase, states, loaded, listeners, installed, hooked, fatal, late>>

\* The handler calls e:cancel(), which an event that cannot be cancelled refuses,
\* or sets e.cancelled with its own hand, which nothing refuses.
Cancel ==
    /\ Dispatching
    /\ Top.running # Nobody
    /\ stack' = Append(Below, [Top EXCEPT !.cancelled = TRUE,
                                          !.accepted = @ \/ Current(Top) \in Cancellable])
    /\ UNCHANGED <<phase, states, loaded, listeners, installed, hooked, fatal, late>>

\* The handler writes the field that is read back.
WriteAmount(v) ==
    /\ Dispatching
    /\ Top.running # Nobody
    /\ Event[Current(Top)].reads
    /\ stack' = Append(Below, [Top EXCEPT !.value = v])
    /\ UNCHANGED <<phase, states, loaded, listeners, installed, hooked, fatal, late>>

HandlerReturns ==
    /\ Dispatching
    /\ Top.running # Nobody
    /\ stack' = Append(Below, [Top EXCEPT !.running = Nobody, !.told = @ \cup ({Top.running} \cap listeners[Current(Top)])])
    /\ UNCHANGED <<phase, states, loaded, listeners, installed, hooked, fatal, late>>

WalkIsOver == Dispatching /\ Top.running = Nobody /\ (Top.cancelled \/ NotTold(Top) = {})

\* (mutant) An amount that is left counts, cancelled or not.
StopsByAmount(f) ==
    CASE Hook[f.chain].stop = "cancelled"    -> f.cancelled
      [] Hook[f.chain].stop = "nothing left" -> f.value = 0
      [] OTHER                               -> FALSE

\* (mutant) Whatever was cancelled stops the call, if it can be stopped or not.
StopsWhenever(f) == f.cancelled \/ (Hook[f.chain].stop = "nothing left" /\ f.value = 0)

\* fire_player_hurt and the like make nothing of what a cancelled event has left,
\* or of less than nothing.
Stops(f) ==
    CASE Hook[f.chain].stop = "cancelled"    -> f.cancelled
      [] Hook[f.chain].stop = "nothing left" -> f.cancelled \/ f.value = 0
      [] OTHER                               -> FALSE

\* What callNext is called with.
Gives(f) == IF Hook[f.chain].writes THEN f.value ELSE Original

\* The hook returns in place of the game's function.
Drop ==
    /\ WalkIsOver
    /\ Top.at = "before"
    /\ Stops(Top)
    /\ stack' = Below
    /\ UNCHANGED <<phase, states, loaded, listeners, installed, hooked, fatal, late>>

CallNext ==
    /\ WalkIsOver
    /\ Top.at = "before"
    /\ ~Stops(Top)
    /\ stack' = Append(Below, [Top EXCEPT !.at = "game", !.given = Gives(Top)])
    /\ UNCHANGED <<phase, states, loaded, listeners, installed, hooked, fatal, late>>

\* What the event after the call is told: what the game was given, or what it has
\* made of it, as TakeDamage has its amount by reference.
Leaves(f) == IF f.chain = "takedamage" THEN Values ELSE {f.given}

\* The function has returned.
GameReturns ==
    /\ stack # <<>>
    /\ Top.at = "game"
    /\ \/ /\ Hook[Top.chain].after # NoEvent
          /\ \E v \in Leaves(Top) :
                stack' = Append(Below, [Top EXCEPT !.at = "after", !.told = {}, !.cancelled = FALSE,
                                                   !.accepted = FALSE, !.value = v,
                                                   !.given = Original])
       \/ /\ Hook[Top.chain].after = NoEvent \/ ~Hook[Top.chain].sure
          /\ stack' = Below
    /\ UNCHANGED <<phase, states, loaded, listeners, installed, hooked, fatal, late>>

HookReturns ==
    /\ WalkIsOver
    /\ Top.at = "after"
    /\ stack' = Below
    /\ UNCHANGED <<phase, states, loaded, listeners, installed, hooked, fatal, late>>

-----------------------------------------------------------------------------
(* Shutdown and init                                                       *)

\* plugin_unload is fired, and its handlers still reach the game.
Shutdown ==
    /\ phase = "up"
    /\ stack = <<>>
    /\ phase' = "closing"
    /\ UNCHANGED <<states, loaded, listeners, installed, hooked, fatal, stack, late>>

CloseState ==
    /\ phase = "closing"
    /\ stack = <<>>
    /\ phase' = "down"
    /\ loaded' = {}
    /\ RemoveHooks
    /\ listeners' = [e \in Events |-> {}]
    /\ late' = {}
    /\ UNCHANGED <<states, fatal, stack>>

Start ==
    /\ phase = "down"
    /\ stack = <<>>
    /\ states < MaxStates
    /\ phase' = "starting"
    /\ states' = states + 1
    /\ UNCHANGED <<loaded, listeners, installed, hooked, fatal, stack, late>>

LoadNext(p) ==
    /\ phase = "starting"
    /\ stack = <<>>
    /\ p \notin loaded
    /\ loaded' = loaded \cup {p}
    /\ stack' = <<LoadOf(p)>>
    /\ UNCHANGED <<phase, states, listeners, installed, hooked, fatal, late>>

Started ==
    /\ phase = "starting"
    /\ stack = <<>>
    /\ loaded = Plugins
    /\ phase' = "up"
    /\ Sync(listeners)
    /\ UNCHANGED <<states, loaded, stack>>

GameInit ==
    /\ phase = "down"
    /\ states = 0
    /\ loaded = {}
    /\ listeners = [e \in Events |-> {}]
    /\ installed = {}
    /\ hooked = {c \in Chains : ~IsGame(c)}
    /\ fatal = FALSE
    /\ stack = <<>>
    /\ late = {}

GameNext ==
    \/ \E p \in Plugins, e \in Events : HookAdd(p, e) \/ HookRemove(p, e)
    \/ \E p \in Plugins : Unload(p) \/ Load(p) \/ LoadNext(p) \/ Handle(p)
    \/ LoadEnds
    \/ \E c \in Chains : GameCalls(c)
    \/ Cancel
    \/ \E v \in Values : WriteAmount(v)
    \/ HandlerReturns
    \/ Drop
    \/ CallNext
    \/ GameReturns
    \/ HookReturns
    \/ Shutdown
    \/ CloseState
    \/ Start
    \/ Started

GameSpec == GameInit /\ [][GameNext]_gameVars

-----------------------------------------------------------------------------
(* Correctness                                                             *)

\* The variables have their types.
GameTypeOK ==
    /\ phase \in {"up", "closing", "down", "starting"}
    /\ states \in 0..MaxStates
    /\ loaded \subseteq Plugins
    /\ listeners \in [Events -> SUBSET Plugins]
    /\ installed \subseteq Chains
    /\ hooked \subseteq Chains
    /\ fatal \in BOOLEAN
    /\ stack \in Seq(Frame) /\ Len(stack) <= MaxDepth
    /\ late \subseteq Plugins \X Events

\* The flags of sync_hook tell what the game's registries hold, and no hook is
\* registered twice, which the game would not survive.
FlagsMatchChains ==
    /\ ~fatal
    /\ \A c \in Chains : IsGame(c) => (c \in installed <=> c \in hooked)

\* Nothing leads to Lua while there is no Lua state: the game's own chains are
\* not hooked, and a hook of the engine, which stays, finds no handler.
NobodyCallsTheDead ==
    phase = "down" =>
        /\ installed = {} /\ Handlers = {}
        /\ \A i \in DOMAIN stack : stack[i].running = Nobody

\* The hooks, the fire_ functions and is_cancellable agree: an event whose chain
\* can be stopped says whether it was cancelled and lets handlers do so, an event
\* that cannot stop anything refuses; what a hook passes on is read back; and an
\* event fired for what may be no player gives handlers nil for it.
TablesAgree ==
    \A h \in AllHooks :
        /\ h.before # NoEvent =>
              /\ (h.stop # "never") = (h.before \in Cancellable)
              /\ (h.stop # "never") = Event[h.before].verdict
              /\ h.writes = Event[h.before].reads
        /\ h.after # NoEvent => h.after \notin Cancellable
        /\ \A e \in {h.before, h.after} \ {NoEvent} :
              /\ h.about = "anybody" => Event[e].who = "maybe"
              /\ h.about = "nobody" => Event[e].who = "none"
              /\ h.about = "player" => Event[e].who # "none"

\* Whoever listens is heard: a chain is hooked when somebody listens to an event
\* of it, apart from handlers added while no load was going on.
ListenersAreHeard ==
    phase = "up" /\ Loading = {} =>
        \A c \in Chains : \A e \in EventsOf(c) : \A p \in listeners[e] :
            c \in hooked \/ <<p, e>> \in late

\* What the code keeps between any two steps.
GameConsistent == GameTypeOK /\ FlagsMatchChains /\ NobodyCallsTheDead /\ TablesAgree /\ ListenersAreHeard

\* The game goes on with what the handlers left, all of them: not with an event
\* that one of them was allowed to cancel, and with the amount they left.
GameGetsWhatWasLeft ==
    \A i \in DOMAIN stack :
        stack[i].at = "game" /\ Hook[stack[i].chain].before # NoEvent =>
            /\ ~stack[i].accepted
            /\ Hook[stack[i].chain].stop = "nothing left" => stack[i].given > 0
            /\ Event[Hook[stack[i].chain].before].reads => stack[i].given = stack[i].value

\* A call is dropped only when a handler was allowed to cancel it or left nothing.
\* [stack] is what changes when a hook returns.
DroppedOnlyOnDemand ==
    [][ (Len(stack') < Len(stack) /\ Top.at = "before") =>
          Top.accepted \/ (Event[Current(Top)].reads /\ Top.value = 0) ]_stack

\* The events whose pages say that there may be no player.
MayLackPlayer == {"grenade:throw", "grenade:thrown", "grenade:explode", "bomb:planted",
                  "bomb:defused", "bomb:carrier"}

\* What the pages promise: every other event that has a player has one for sure.
PlayersAsPromised ==
    \A h \in AllHooks : h.about = "anybody" => {h.before, h.after} \subseteq MayLackPlayer \cup {NoEvent}

\* ListenersAreHeard, whenever the handler was added.
EverySubscriberIsHeard ==
    phase = "up" /\ Loading = {} =>
        \A c \in Chains : \A e \in EventsOf(c) : listeners[e] # {} => c \in hooked
=============================================================================
