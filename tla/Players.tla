------------------------------- MODULE Players --------------------------------
(***************************************************************************)
(* Slots and who sits in them.                                             *)
(*                                                                         *)
(* The engine tells of clients that come and go (src/dllapi.cpp); the      *)
(* module keeps a record of each (src/players.cpp), polls for the answer   *)
(* of Steam and for changes of team, and keeps more by slot: the panel on  *)
(* the screen (src/lua_menu.cpp) and Lua's own note of it                  *)
(* (scripts/core/ui.lua), what a client sees of entities                   *)
(* (src/cslua_visibility.cpp), rights (scripts/core/access.lua).  A slot   *)
(* is soon taken again, and all of that must go with its player.           *)
(*                                                                         *)
(* Handlers run inside these calls, and one of them may have a player      *)
(* dropped (sv.cmd, sv.exec), which is a call within the call.             *)
(*                                                                         *)
(* External: the engine calls ClientConnect for a free slot, and on a new  *)
(* map may call it again for a client that stays; and ClientDisconnect     *)
(* once for a client that it has accepted, never for one that is refused.  *)
(***************************************************************************)
EXTENDS Integers, Sequences

CONSTANTS MaxPlayers, \* CSLUA_MAXPLAYERS - 1
          Seen,     \* the slots that plugins act on
          Kinds,    \* what plugins leave there, of "suppress", "render", "rights"
          Interval, \* 0.25 seconds, counted in frames
          MaxAge,   \* bound: frames of a map, later ones count as the last
          MaxDepth  \* bound: calls within calls

ASSUME PlayersConstants ==
    /\ MaxPlayers \in Nat \ {0}
    /\ Seen \subseteq 1..MaxPlayers
    /\ Kinds \subseteq {"suppress", "render", "rights"}
    /\ Interval \in Nat /\ MaxAge \in Nat /\ MaxDepth \in Nat \ {0}

VARIABLES
    there,    \* the engine's client: "free", "connecting", "in", "staying"
    final,    \* Steam has answered: pfnGetPlayerAuthId gives the id
    info,     \* Players::m_players
    menu,     \* s_menu_open, s_menu_keys, and if s_menu_until has passed
    open,     \* the table open of ui.lua
    kept,     \* what is left at a slot, and if its player is still the same
    due,      \* s_next_poll, from the server's clock
    age,      \* the server's clock: it starts with the map
    calls,    \* the calls of the engine that are running, the last one innermost
    told,     \* history: what handlers know of the slot's player
    panel,    \* history: whose panel the client was shown last
    misdrawn  \* history: slots where menu.custom was shown by half

vars == <<there, final, info, menu, open, kept, due, age, calls, told, panel, misdrawn>>

Slots == 1..MaxPlayers

AllKinds == Kinds \cup {"team"}

\* A value left at a slot is of the player who is there, or older.
Whose == {"nobody", "own", "old"}

Key(who) == IF who = "menu" THEN {1} ELSE {2}

NoInfo == [connected |-> FALSE, authorized |-> FALSE]

NoMenu == [open |-> FALSE, keys |-> {}, late |-> FALSE]

Connected == {s \in Slots : info[s].connected}

-----------------------------------------------------------------------------
(* What the calls are made of                                              *)

\* Players::on_connect: an id that is final at once is an authorization.
OnConnect(answered) == [connected |-> TRUE, authorized |-> answered]

\* Players::on_disconnect.
OnDisconnect(record) == NoInfo

\* (mutant) The poll does not ask if the slot has been told already.
PendingAlways(s) == info[s].connected

\* Players::authid_pending.
Pending(s) == info[s].connected /\ ~info[s].authorized

\* Players::refresh_authid is about to answer TRUE: the entity is a client's still,
\* and Steam has answered for it.
Refreshes(s) == Pending(s) /\ there[s] # "free" /\ final[s]

\* What handlers make of one more event about the player of a slot.
After(state, event) ==
    CASE event = "connect"    /\ state = "out"              -> "pending"
      [] event = "again"      /\ state \in {"pending", "known"} -> "pending"
      [] event = "authorized" /\ state = "pending"          -> "known"
      [] event = "connected"  /\ state \in {"pending", "known"} -> state
      [] event = "disconnect" /\ state \in {"pending", "known"} -> "out"
      [] OTHER -> "wrong"

Tell(s, event) == told' = [told EXCEPT ![s] = After(@, event)]

KeptWithout(s, kinds) == [k \in AllKinds |-> IF k \in kinds THEN "nobody" ELSE kept[s][k]]

\* What the player who leaves does not take along is old for the next one.
Aged(s, gone) ==
    [k \in AllKinds |-> IF k \in gone \/ kept[s][k] = "nobody" THEN "nobody" ELSE "old"]

\* (mutant) The last team is not forgotten.
ForgottenAtConnectBut(s) == KeptWithout(s, {})

\* cslua_forget_team.
ForgottenAtConnect(s) == KeptWithout(s, {"team"})

\* core.menu_cleanup and core.access_cleanup, the first handlers of
\* client:disconnect, and core.access_refresh, the first one of client:authorized.
Leaves(s) ==
    /\ Tell(s, "disconnect")
    /\ open' = [open EXCEPT ![s] = "none"]
    /\ kept' = [kept EXCEPT ![s] = KeptWithout(s, {"rights"})]

Authorized(s) ==
    /\ Tell(s, "authorized")
    /\ kept' = [kept EXCEPT ![s] = KeptWithout(s, {"rights"})]

\* Players::on_disconnect clears the whole record, p:suppress_* with it.
Clears(s) ==
    /\ info' = [info EXCEPT ![s] = OnDisconnect(@)]
    /\ kept' = [kept EXCEPT ![s] = Aged(s, {"suppress"})]
    /\ there' = [there EXCEPT ![s] = "free"]
    /\ final' = [final EXCEPT ![s] = FALSE]
    /\ panel' = [panel EXCEPT ![s] = "none"]
    /\ misdrawn' = misdrawn \ {s}

Call(step, s) == [step |-> step, slot |-> s]

Running == calls[Len(calls)]

CallsBelow == SubSeq(calls, 1, Len(calls) - 1)

Idle == calls = <<>>

-----------------------------------------------------------------------------
(* Clients come and go                                                     *)

\* A new client, or one who stays over a change of map and is known already.
ClientConnect(s, answered) ==
    /\ Idle
    /\ there[s] = "free" \/ (there[s] = "staying" /\ answered = final[s])
    /\ there' = [there EXCEPT ![s] = "connecting"]
    /\ final' = [final EXCEPT ![s] = answered]
    /\ info' = [info EXCEPT ![s] = OnConnect(answered)]
    /\ menu' = [menu EXCEPT ![s] = NoMenu]
    /\ kept' = [kept EXCEPT ![s] = ForgottenAtConnect(s)]
    /\ Tell(s, IF there[s] = "free" THEN "connect" ELSE "again")
    /\ calls' = <<Call("connect", s)>>
    /\ UNCHANGED <<open, due, age, panel, misdrawn>>

\* The handlers of client:connect let the client in.
Accept ==
    /\ ~Idle /\ Running.step = "connect"
    /\ calls' = CallsBelow
    /\ LET s == Running.slot
       IN  IF info[s].connected /\ info[s].authorized
           THEN Authorized(s)
           ELSE UNCHANGED <<told, kept>>
    /\ UNCHANGED <<there, final, info, menu, open, due, age, panel, misdrawn>>

\* They do not, and those of client:disconnect are called.
Refuse ==
    /\ ~Idle /\ Running.step = "connect"
    /\ Leaves(Running.slot)
    /\ calls' = Append(CallsBelow, Call("refused", Running.slot))
    /\ UNCHANGED <<there, final, info, menu, due, age, panel, misdrawn>>

RefusedReturns ==
    /\ ~Idle /\ Running.step = "refused"
    /\ Clears(Running.slot)
    /\ calls' = CallsBelow
    /\ UNCHANGED <<menu, open, due, age, told>>

ClientPutInServer(s) ==
    /\ Idle
    /\ there[s] \in {"connecting", "staying"}
    /\ there' = [there EXCEPT ![s] = "in"]
    /\ Tell(s, "connected")
    /\ UNCHANGED <<final, info, menu, open, kept, due, age, calls, panel, misdrawn>>

\* By a handler of another call, too; then the engine drops no client that is
\* being connected or dropped already.
ClientDisconnect(s) ==
    /\ Len(calls) < MaxDepth
    /\ there[s] # "free"
    /\ \A n \in DOMAIN calls :
          calls[n].step \in {"connect", "refused", "leaving"} => calls[n].slot # s
    /\ calls' = Append(calls, Call("leaving", s))
    /\ IF info[s].connected THEN Leaves(s) ELSE UNCHANGED <<told, open, kept>>
    /\ UNCHANGED <<there, final, info, menu, due, age, panel, misdrawn>>

LeavingReturns ==
    /\ ~Idle /\ Running.step = "leaving"
    /\ Clears(Running.slot)
    /\ menu' = [menu EXCEPT ![Running.slot] = NoMenu]
    /\ calls' = CallsBelow
    /\ UNCHANGED <<open, due, age, told>>

\* Steam answers: external.
SteamAnswers(s) ==
    /\ there[s] # "free" /\ ~final[s]
    /\ final' = [final EXCEPT ![s] = TRUE]
    /\ UNCHANGED <<there, info, menu, open, kept, due, age, calls, told, panel, misdrawn>>

-----------------------------------------------------------------------------
(* Frames and maps                                                         *)

\* The polls of StartFrame; the one of teams only when somebody listens.
StartFrame(listening) ==
    /\ Idle
    /\ age' = IF age < MaxAge THEN age + 1 ELSE age
    /\ due' = IF due > 0 THEN due - 1 ELSE Interval
    /\ calls' = IF due = 0 THEN <<Call("poll", 1)>>
                ELSE IF listening THEN <<Call("teams", 1)>> ELSE <<>>
    /\ UNCHANGED <<there, final, info, menu, open, kept, told, panel, misdrawn>>

\* poll_authorization goes on, past the handlers of the event that it fired last.
PollGoesOn(listening) ==
    /\ ~Idle /\ Running.step = "poll"
    /\ LET left == {s \in Slots : s >= Running.slot /\ Refreshes(s)}
       IN  \/ /\ left = {}
              /\ calls' = IF listening THEN Append(CallsBelow, Call("teams", 1)) ELSE CallsBelow
              /\ UNCHANGED <<info, told, kept>>
           \/ \E s \in left :
                 /\ \A t \in left : s <= t
                 /\ info' = [info EXCEPT ![s].authorized = TRUE]
                 /\ Authorized(s)
                 /\ calls' = Append(CallsBelow, Call("poll", s + 1))
    /\ UNCHANGED <<there, final, menu, open, due, age, panel, misdrawn>>

\* poll_team_change at one slot.
TeamsGoOn ==
    /\ ~Idle /\ Running.step = "teams"
    /\ LET s == Running.slot
       IN  /\ kept' = [kept EXCEPT ![s]["team"] =
                          IF s \notin Connected THEN "nobody"
                          ELSE IF @ = "nobody" THEN "own" ELSE @]
           /\ calls' = IF s + 1 \in Slots THEN Append(CallsBelow, Call("teams", s + 1)) ELSE CallsBelow
    /\ UNCHANGED <<there, final, info, menu, open, due, age, told, panel, misdrawn>>

\* ServerDeactivate: handlers of the end of a map.
MapEnds ==
    /\ Idle
    /\ calls' = <<Call("map", 1)>>
    /\ UNCHANGED <<there, final, info, menu, open, kept, due, age, told, panel, misdrawn>>

\* (mutant) The poll waits for a time of the old map.
PollAfterRestartLate == due + age

\* cslua_reset_auth_poll.
PollAfterRestart == 0

\* The rest of it, and ServerActivate on the new map.
MapStarts ==
    /\ ~Idle /\ Running.step = "map"
    /\ calls' = CallsBelow
    /\ kept' = [s \in Slots |-> KeptWithout(s, {"render", "team"})]
    /\ menu' = [s \in Slots |-> NoMenu]
    /\ due' = PollAfterRestart
    /\ age' = 0
    /\ there' = [s \in Slots |-> IF there[s] = "in" THEN "staying" ELSE there[s]]
    /\ UNCHANGED <<final, info, open, told, panel, misdrawn>>

-----------------------------------------------------------------------------
(* What plugins do                                                         *)

\* p:suppress_*, on any player object, of a player who is gone as well; p:can,
\* likewise, fills the cache of rights; e:render_for takes connected players.
Leave(kind, s) ==
    /\ kind = "render" => info[s].connected
    /\ kept' = [kept EXCEPT ![s][kind] = IF info[s].connected THEN "own" ELSE "old"]
    /\ UNCHANGED <<there, final, info, menu, open, due, age, calls, told, panel, misdrawn>>

\* menu._show.  A panel without a time is one whose time never passes.
Panel(s, who) ==
    /\ menu' = [menu EXCEPT ![s] = [open |-> TRUE, keys |-> Key(who), late |-> FALSE]]
    /\ panel' = [panel EXCEPT ![s] = who]
    /\ misdrawn' = misdrawn \ {s}

\* Menu:show and Custom:show.
Show(s) ==
    /\ info[s].connected
    /\ open' = [open EXCEPT ![s] = "menu"]
    /\ Panel(s, "menu")
    /\ UNCHANGED <<there, final, info, kept, due, age, calls, told>>

\* Custom:show when the list of keys makes it fail: noted, and not shown.
ShowFails(s) ==
    /\ info[s].connected
    /\ open' = [open EXCEPT ![s] = "menu"]
    /\ misdrawn' = misdrawn \cup {s}
    /\ UNCHANGED <<there, final, info, menu, kept, due, age, calls, told, panel>>

\* (mutant) Lua's note of the menu before is not dropped.
NoteOfRawKept(s) == open[s]

\* menu.raw_show drops the note first.
NoteOfRaw(s) == "none"

RawShow(s) ==
    /\ open' = [open EXCEPT ![s] = NoteOfRaw(s)]
    /\ IF info[s].connected THEN Panel(s, "raw") ELSE UNCHANGED <<menu, panel, misdrawn>>
    /\ UNCHANGED <<there, final, info, kept, due, age, calls, told>>

\* menu.raw_close, menu.close_all and the close of a menu.
Close(s) ==
    /\ open' = [open EXCEPT ![s] = "none"]
    /\ menu' = [menu EXCEPT ![s] = NoMenu]
    /\ misdrawn' = misdrawn \ {s}
    /\ panel' = [panel EXCEPT ![s] = "none"]
    /\ UNCHANGED <<there, final, info, kept, due, age, calls, told>>

\* The deadline of a panel passes.
Expire(s) ==
    /\ Idle
    /\ menu[s].open /\ ~menu[s].late
    /\ menu' = [menu EXCEPT ![s].late = TRUE]
    /\ UNCHANGED <<there, final, info, open, kept, due, age, calls, told, panel, misdrawn>>

\* cslua_menu_handle_select: a panel out of time is not ours.
SelectTooLate(s) ==
    /\ Idle
    /\ there[s] = "in"
    /\ menu[s].open /\ menu[s].late
    /\ menu' = [menu EXCEPT ![s] = NoMenu]
    /\ UNCHANGED <<there, final, info, open, kept, due, age, calls, told, panel, misdrawn>>

\* A key that was offered; core.menu_select is the first handler.  It picks or
\* closes, or turns a page.
Select(s, key) ==
    /\ Idle
    /\ there[s] = "in"
    /\ menu[s].open /\ ~menu[s].late /\ key \in menu[s].keys
    /\ \/ /\ open' = [open EXCEPT ![s] = "none"]
          /\ menu' = [menu EXCEPT ![s] = NoMenu]
          /\ misdrawn' = misdrawn \ {s}
          /\ panel' = [panel EXCEPT ![s] = "none"]
       \/ /\ open[s] = "menu"
          /\ UNCHANGED open
          /\ Panel(s, "menu")
    /\ UNCHANGED <<there, final, info, kept, due, age, calls, told>>

-----------------------------------------------------------------------------
Init ==
    /\ there = [s \in Slots |-> "free"]
    /\ final = [s \in Slots |-> FALSE]
    /\ info = [s \in Slots |-> NoInfo]
    /\ menu = [s \in Slots |-> NoMenu]
    /\ open = [s \in Slots |-> "none"]
    /\ kept = [s \in Slots |-> [k \in AllKinds |-> "nobody"]]
    /\ due = 0
    /\ age = 0
    /\ calls = <<>>
    /\ told = [s \in Slots |-> "out"]
    /\ panel = [s \in Slots |-> "none"]
    /\ misdrawn = {}

Frame == \E listening \in BOOLEAN : StartFrame(listening)

CallGoesOn ==
    \/ Accept \/ Refuse
    \/ RefusedReturns
    \/ LeavingReturns
    \/ \E listening \in BOOLEAN : PollGoesOn(listening)
    \/ TeamsGoOn
    \/ MapStarts

PluginStep ==
    \E s \in Seen :
        \/ \E kind \in Kinds : Leave(kind, s)
        \/ Show(s) \/ ShowFails(s)
        \/ RawShow(s)
        \/ Close(s)

Next ==
    \/ \E s \in Slots, answered \in BOOLEAN : ClientConnect(s, answered)
    \/ \E s \in Slots : ClientPutInServer(s) \/ ClientDisconnect(s) \/ SteamAnswers(s)
    \/ \E s \in Seen : Expire(s) \/ SelectTooLate(s) \/ (\E key \in {1, 2} : Select(s, key))
    \/ Frame
    \/ CallGoesOn
    \/ MapEnds
    \/ PluginStep

\* Handlers return, and the engine runs frames on every map.
Fairness == WF_vars(CallGoesOn) /\ SF_vars(Frame)

Spec == Init /\ [][Next]_vars /\ Fairness

-----------------------------------------------------------------------------
(* Correctness                                                             *)

\* The variables have their types.
TypeOK ==
    /\ there \in [Slots -> {"free", "connecting", "in", "staying"}]
    /\ final \in [Slots -> BOOLEAN]
    /\ info \in [Slots -> [connected : BOOLEAN, authorized : BOOLEAN]]
    /\ menu \in [Slots -> [open : BOOLEAN, keys : SUBSET {1, 2}, late : BOOLEAN]]
    /\ open \in [Slots -> {"none", "menu"}]
    /\ kept \in [Slots -> [AllKinds -> Whose]]
    /\ due \in 0..Interval + MaxAge
    /\ age \in 0..MaxAge
    /\ calls \in Seq([step : {"connect", "refused", "leaving", "poll", "teams", "map"},
                      slot : 1..MaxPlayers + 1])
    /\ Len(calls) <= MaxDepth
    /\ told \in [Slots -> {"out", "pending", "known", "wrong"}]
    /\ panel \in [Slots -> {"none", "menu", "raw"}]
    /\ misdrawn \subseteq Slots

\* Between the calls of the engine, the module's record of a slot agrees with the
\* engine's, and handlers know as much as the record does.
RecordsAgree ==
    Idle => \A s \in Slots :
        /\ info[s].connected <=> there[s] # "free"
        /\ info[s].authorized => info[s].connected
        /\ told[s] = IF ~info[s].connected THEN "out"
                     ELSE IF info[s].authorized THEN "known" ELSE "pending"

\* Nobody finds the panel or the team of the player who had the slot before, nor,
\* once authorized, that player's rights.
NothingInherited ==
    \A s \in Connected :
        /\ kept[s]["team"] # "old"
        /\ "rights" \in Kinds /\ told[s] = "known" => kept[s]["rights"] # "old"
        /\ menu[s].open => panel[s] # "none"

\* What the code keeps between any two steps.
Consistent == TypeOK /\ RecordsAgree /\ NothingInherited

\* Of every player handlers hear the coming (on a new map perhaps once more), then
\* at most one authorization, and one going: whatever they do, a player being
\* dropped meanwhile included.
EventsInOrder == \A s \in Slots : told[s] # "wrong"

\* A key goes to the menu that offered it: the table of lua_menu.cpp and the one of
\* ui.lua are about the same panel, unless a custom menu has failed half-way.
KeyMeetsItsMenu ==
    Idle => \A s \in Slots \ misdrawn :
        (info[s].connected /\ menu[s].open) =>
            /\ menu[s].keys = Key(panel[s])
            /\ open[s] = "menu" <=> panel[s] = "menu"

\* Once Steam has answered, plugins hear of it, unless the player leaves.  Nothing
\* takes the answer back but the going of the player, which plugins hear of, so a
\* player they never hear of is one who has an answer, and is pending, for ever.
AuthorizedInTheEnd ==
    \A s \in Slots : []<>~(final[s] /\ told[s] \notin {"known", "out"})

\* What src/dllapi.cpp says where a client connects: the new occupant starts clean.
\* It does not hold: see the README.
StartsClean ==
    \A s \in Connected, kind \in AllKinds : kept[s][kind] # "old"
=============================================================================
