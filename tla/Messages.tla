------------------------------- MODULE Messages -------------------------------
(***************************************************************************)
(* Network messages, on their way out.                                     *)
(*                                                                         *)
(* The game writes a message in steps: begin, fields, end.  Each step goes *)
(* through a hook (src/cslua_corpse.cpp) that may swallow a ragdoll, keeps *)
(* the fields for the handlers of "msg:Name", and counts bytes for each    *)
(* player (src/cslua_netwatch.cpp), so that a drop for overflow can be     *)
(* explained.  Handlers are called from the hook of the end, while the     *)
(* message is still open.                                                  *)
(*                                                                         *)
(* Lua sends by one call that begins and ends (src/lua_msg.cpp,            *)
(* src/lua_message.cpp, src/lua_menu.cpp); a long panel is cut in pieces.  *)
(* Metamod hands the module the functions of the engine itself, so what    *)
(* Lua sends does not come through the hooks.                              *)
(*                                                                         *)
(* The engine has one message open at a time and takes the server down     *)
(* when another is begun, or fields come with none open: external.         *)
(***************************************************************************)
EXTENDS Integers, Sequences

CONSTANTS Players,  \* slots
          Types,    \* types of messages
          ClCorpse, \* the type that hide_corpses swallows
          Nobody,   \* no slot: a broadcast
          RingSize, \* RING_SIZE
          Window,   \* WINDOW_SECONDS
          Chunk,    \* MENU_CHUNK, MAX_MOTD_CHUNK
          Cap,      \* MAX_MOTD_LENGTH
          MaxBytes, \* bound: bytes of a message
          MaxText,  \* bound: bytes of a panel
          MaxHides, \* bound: calls of hide_corpses(true) that are not undone
          MaxSent   \* bound: messages to a player in the window

Parameters ==
    /\ ClCorpse \in Types /\ Nobody \notin Players
    /\ RingSize \in Nat \ {0} /\ Window \in Nat /\ Chunk \in Nat \ {0} /\ Cap \in Nat
    /\ MaxBytes \in Nat /\ MaxText \in Nat /\ MaxHides \in Nat /\ MaxSent \in Nat

ASSUME MessagesConstants == Parameters

VARIABLES
    connected,   \* Players::is_connected
    watched,     \* the types somebody listens to
    hides,       \* s_hide_refs
    suppressing, \* s_suppressing
    hook,        \* s_open_hook
    active,      \* s_active_id
    slot,        \* s_slots of cslua_netwatch.cpp
    engine,      \* the message the engine has open
    game,        \* where the game is with its message: "idle", "writing", "handlers"
    crashed,     \* the engine has given up
    panel,       \* the panel that each client puts together
    sent,        \* history: what the game has sent to each player in the window
    own,         \* history: to whom Lua has sent something since the game last began a message,
                 \* in this second
    careless     \* history: a handler has cancelled a message, or sent one of its own

msgVars == <<connected, watched, hides, suppressing, hook, active, slot, engine, game,
          crashed, panel, sent, own, careless>>

Bytes == 0..MaxBytes

\* age is the time since a record was made; older than the window is all the same.
Record == [bytes : Bytes, age : 0..Window + 1]

Blank == [bytes |-> 0, age |-> Window + 1]

NoSlot == [ring |-> [n \in 0..RingSize - 1 |-> Blank], next |-> 0, count |-> 0,
           building |-> FALSE, bytes |-> 0]

Closed == [open |-> FALSE, type |-> ClCorpse, to |-> Nobody, bytes |-> 0]

NoHook == [active |-> FALSE, bytes |-> 0]

-----------------------------------------------------------------------------
(* The engine                                                              *)

EngineBegins(t, to) ==
    /\ crashed' = (crashed \/ engine.open)
    /\ engine' = [open |-> TRUE, type |-> t, to |-> to, bytes |-> 0]

EngineWrites ==
    /\ crashed' = (crashed \/ ~engine.open)
    /\ engine' = [engine EXCEPT !.bytes = @ + 1]

\* A player who is gone by now gets nothing.
EngineEnds ==
    /\ crashed' = (crashed \/ ~engine.open)
    /\ engine' = Closed
    /\ sent' = IF engine.to \in connected
               THEN [sent EXCEPT ![engine.to] = Append(@, [bytes |-> engine.bytes, age |-> 0])]
               ELSE sent

-----------------------------------------------------------------------------
(* The watch                                                               *)

\* Slot::push.
Pushed(s) ==
    [s EXCEPT !.ring[s.next] = [bytes |-> s.bytes, age |-> 0],
              !.next = (@ + 1) % RingSize,
              !.count = IF @ < RingSize THEN @ + 1 ELSE @,
              !.building = FALSE]

\* (mutant) The bytes of the message before stay.
WatchBeginsDirty(to) ==
    IF to \in connected
    THEN active' = to /\ slot' = [slot EXCEPT ![to].building = TRUE]
    ELSE active' = Nobody /\ UNCHANGED slot

\* cslua_netwatch_message_begin: a broadcast is nobody's.
WatchBegins(to) ==
    IF to \in connected
    THEN active' = to /\ slot' = [slot EXCEPT ![to].building = TRUE, ![to].bytes = 0]
    ELSE active' = Nobody /\ UNCHANGED slot

WatchAdds ==
    slot' = IF active # Nobody /\ slot[active].building
            THEN [slot EXCEPT ![active].bytes = @ + 1] ELSE slot

WatchEnds ==
    /\ active' = Nobody
    /\ slot' = IF active # Nobody /\ slot[active].building
               THEN [slot EXCEPT ![active] = Pushed(@)] ELSE slot

\* (mutant) The write position goes back, the records stay.
ForgetPosition(p) ==
    /\ slot' = [slot EXCEPT ![p].next = 0, ![p].building = FALSE]
    /\ active' = IF active = p THEN Nobody ELSE active

\* cslua_netwatch_forget.
Forget(p) ==
    /\ slot' = [slot EXCEPT ![p].next = 0, ![p].count = 0, ![p].building = FALSE]
    /\ active' = IF active = p THEN Nobody ELSE active

Total(seq) ==
    LET sum[n \in 0..Len(seq)] == IF n = 0 THEN 0 ELSE sum[n - 1] + seq[n]
    IN  sum[Len(seq)]

IsRecent(r) == r.age <= Window

\* dump_slot: what the log says of a slot.
Dump(p) ==
    LET s == slot[p]
    IN  [messages |-> Total([n \in 1..s.count |-> IF IsRecent(s.ring[n - 1]) THEN 1 ELSE 0]),
         bytes |-> Total([n \in 1..s.count |->
                             IF IsRecent(s.ring[n - 1]) THEN s.ring[n - 1].bytes ELSE 0])]

-----------------------------------------------------------------------------
(* The hooks, called by the game                                           *)

MessageBegin(t, to) ==
    /\ game = "idle"
    /\ to \in connected => Len(sent[to]) < MaxSent
    /\ to \in connected \cup {Nobody}
    /\ game' = "writing"
    /\ suppressing' = (hides > 0 /\ t = ClCorpse)
    /\ IF suppressing'
       THEN /\ hook' = NoHook
            /\ UNCHANGED <<active, slot, engine, crashed>>
       ELSE /\ WatchBegins(to)
            /\ hook' = IF t \in watched THEN [active |-> TRUE, bytes |-> 0]
                       ELSE NoHook
            /\ EngineBegins(t, to)
    /\ own' = {}
    /\ UNCHANGED <<connected, watched, hides, panel, sent, careless>>

\* (mutant) The fields of a swallowed message are let through.
WriteFieldAlways ==
    /\ game = "writing"
    /\ engine.bytes < MaxBytes
    /\ hook' = IF hook.active THEN [hook EXCEPT !.bytes = @ + 1] ELSE hook
    /\ WatchAdds
    /\ EngineWrites
    /\ UNCHANGED <<connected, watched, hides, suppressing, active, game, panel, sent, own, careless>>

WriteField ==
    /\ game = "writing"
    /\ ~suppressing
    /\ engine.bytes < MaxBytes
    /\ hook' = IF hook.active THEN [hook EXCEPT !.bytes = @ + 1] ELSE hook
    /\ WatchAdds
    /\ EngineWrites
    /\ UNCHANGED <<connected, watched, hides, suppressing, active, game, panel, sent, own, careless>>

\* The message is done: counted and sent.
Ends ==
    /\ game' = "idle"
    /\ WatchEnds
    /\ EngineEnds
    /\ hook' = NoHook
    /\ UNCHANGED <<connected, watched, hides, suppressing, panel, own, careless>>

MessageEnd ==
    /\ game = "writing"
    /\ \/ /\ suppressing
          /\ suppressing' = FALSE
          /\ game' = "idle"
          /\ UNCHANGED <<hook, active, slot, engine, crashed, connected, watched, hides, panel, sent, own, careless>>
       \/ /\ ~suppressing
          /\ hook.active
          /\ game' = "handlers"
          /\ UNCHANGED <<hook, active, slot, engine, crashed, connected, watched, hides,
                         suppressing, panel, sent, own, careless>>
       \/ /\ ~suppressing
          /\ ~hook.active
          /\ Ends

HandlersReturn ==
    /\ game = "handlers"
    /\ Ends

\* A handler has cancelled the message: the engine is not told of its end.
HandlersCancel ==
    /\ game = "handlers"
    /\ game' = "idle"
    /\ hook' = NoHook
    /\ careless' = TRUE
    /\ UNCHANGED <<connected, watched, hides, suppressing, active, slot, engine, crashed,
                   panel, sent, own>>

-----------------------------------------------------------------------------
(* What Lua code does, on its own or in a handler                          *)

LuaRuns == game \in {"idle", "handlers"}

\* ents.hide_corpses, in matching pairs or not.
HideCorpses(hide) ==
    /\ LuaRuns
    /\ hides' = IF hide THEN hides + 1 ELSE IF hides > 0 THEN hides - 1 ELSE 0
    /\ hides' <= MaxHides
    /\ UNCHANGED <<connected, watched, suppressing, hook, active, slot, engine, game, crashed,
                   panel, sent, own, careless>>

\* hook.add("msg:Name") and hook.remove.
Watch(t) ==
    /\ LuaRuns
    /\ watched' = IF t \in watched THEN watched \ {t} ELSE watched \cup {t}
    /\ UNCHANGED <<connected, hides, suppressing, hook, active, slot, engine, game, crashed,
                   panel, sent, own, careless>>

\* (mutant) A piece of full size is never the last.
IsLastIfShort(left) == left < Chunk

IsLast(left) == left <= Chunk

\* A client shows a panel when it has the last piece of it: external.
Client(screen, piece) ==
    IF piece.last
    THEN [parts |-> 0, shown |-> screen.parts + piece.bytes]
    ELSE [screen EXCEPT !.parts = @ + piece.bytes]

\* One turn of the loop of cslua_send_motd and send_menu.
SendsPiece(at, length) ==
    LET left  == length - at.done
        bytes == IF left > Chunk THEN Chunk ELSE left
    IN  [done   |-> at.done + bytes,
         screen |-> Client(at.screen, [bytes |-> bytes, last |-> IsLast(left)])]

\* What becomes of a client with so many bytes in hand, and a panel of so many more.
Screen == [parts \in 0..MaxText |-> [length \in 0..MaxText |->
    LET turn[n \in 0..length] ==
          IF n = 0
          THEN SendsPiece([done |-> 0, screen |-> [parts |-> parts, shown |-> 0]], length)
          ELSE LET at == turn[n - 1]
               IN  IF at.done < length THEN SendsPiece(at, length) ELSE at
    IN  turn[length].screen]]

ShownWhole == [parts |-> 0, whole |-> TRUE]

\* A message of Lua's own, begun and ended in one call, past the hooks: the watch
\* does not see it.
SendsAtOnce(p) ==
    /\ crashed' = (crashed \/ engine.open)
    /\ own' = own \cup {p}
    /\ careless' = (careless \/ game = "handlers")

\* l_msg_send and cslua_send_chat begin no message before everything is checked.
Send(p) ==
    /\ LuaRuns
    /\ p \in connected
    /\ SendsAtOnce(p)
    /\ UNCHANGED <<connected, watched, hides, suppressing, hook, active, slot, engine, game,
                   panel, sent>>

\* A panel of so many bytes: p:motd, cut at its cap, and menu._show.
SendPanel(p, length, capped) ==
    LET shown == IF capped /\ length > Cap THEN Cap ELSE length
    IN  /\ LuaRuns
        /\ p \in connected
        /\ SendsAtOnce(p)
        /\ panel' = [panel EXCEPT ![p] =
              LET screen == Screen[@.parts][shown]
              IN  [parts |-> screen.parts, whole |-> screen.shown = shown]]
        /\ UNCHANGED <<connected, watched, hides, suppressing, hook, active, slot, engine, game,
                       sent>>

-----------------------------------------------------------------------------
(* Players and time                                                        *)

Connect(p) ==
    /\ game = "idle"
    /\ p \notin connected
    /\ connected' = connected \cup {p}
    /\ sent' = [sent EXCEPT ![p] = <<>>]
    /\ panel' = [panel EXCEPT ![p] = ShownWhole]
    /\ UNCHANGED <<watched, hides, suppressing, hook, active, slot, engine, game, crashed,
                   own, careless>>

\* ClientDisconnect, also by sv.exec of a kick in a handler.
Disconnect(p) ==
    /\ LuaRuns
    /\ p \in connected
    /\ connected' = connected \ {p}
    /\ own' = own \ {p}
    /\ Forget(p)
    /\ UNCHANGED <<watched, hides, suppressing, hook, engine, game, crashed, panel, sent, careless>>

Older(r) == [r EXCEPT !.age = IF @ <= Window THEN @ + 1 ELSE @]

\* The oldest come first.
Recent(seq) ==
    LET first == CHOOSE n \in 1..Len(seq) + 1 :
                     /\ \A k \in 1..n - 1 : ~IsRecent(seq[k])
                     /\ \A k \in n..Len(seq) : IsRecent(seq[k])
    IN  SubSeq(seq, first, Len(seq))

SecondPasses ==
    /\ game = "idle"
    /\ slot' = [p \in Players |->
          [slot[p] EXCEPT !.ring = [n \in 0..RingSize - 1 |-> Older(slot[p].ring[n])]]]
    /\ sent' = [p \in Players |-> Recent([n \in 1..Len(sent[p]) |-> Older(sent[p][n])])]
    /\ own' = {}
    /\ UNCHANGED <<connected, watched, hides, suppressing, hook, active, engine, game, crashed,
                   panel, careless>>

MsgInit ==
    /\ connected = {}
    /\ watched = {}
    /\ hides = 0
    /\ suppressing = FALSE
    /\ hook = NoHook
    /\ active = Nobody
    /\ slot = [p \in Players |-> NoSlot]
    /\ engine = Closed
    /\ game = "idle"
    /\ crashed = FALSE
    /\ panel = [p \in Players |-> ShownWhole]
    /\ sent = [p \in Players |-> <<>>]
    /\ own = {}
    /\ careless = FALSE

GameStep ==
    \/ \E t \in Types, to \in Players \cup {Nobody} : MessageBegin(t, to)
    \/ WriteField
    \/ MessageEnd
    \/ HandlersReturn
    \/ HandlersCancel

OtherStep ==
    \/ \E hide \in BOOLEAN : HideCorpses(hide)
    \/ \E t \in Types : Watch(t)
    \/ \E p \in Players : Send(p) \/ Connect(p) \/ Disconnect(p)
    \/ \E p \in Players, length \in 0..MaxText, capped \in BOOLEAN : SendPanel(p, length, capped)
    \/ SecondPasses

\* Bound: after a careless handler only the game goes on, to the crash.
MsgNext ==
    /\ ~crashed
    /\ GameStep \/ (~careless /\ OtherStep)

MsgSpec == MsgInit /\ [][MsgNext]_msgVars

-----------------------------------------------------------------------------
(* Correctness                                                             *)

\* The variables have their types.
MsgTypeOK ==
    /\ connected \subseteq Players
    /\ watched \subseteq Types
    /\ hides \in 0..MaxHides
    /\ suppressing \in BOOLEAN
    /\ hook \in [active : BOOLEAN, bytes : Bytes]
    /\ active \in Players \cup {Nobody}
    /\ slot \in [Players -> [ring : [0..RingSize - 1 -> Record], next : 0..RingSize - 1,
                             count : 0..RingSize, building : BOOLEAN, bytes : Bytes]]
    /\ engine \in [open : BOOLEAN, type : Types, to : Players \cup {Nobody}, bytes : Bytes]
    /\ game \in {"idle", "writing", "handlers"}
    /\ crashed \in BOOLEAN /\ careless \in BOOLEAN
    /\ panel \in [Players -> [parts : 0..MaxText, whole : BOOLEAN]]
    /\ sent \in [Players -> Seq(Record)] /\ \A p \in Players : Len(sent[p]) <= MaxSent
    /\ own \subseteq Players

\* Three places follow the message that is being written, the handlers' copy, the
\* watch of its player and the engine, and they agree on it; a message that is
\* swallowed is in none of them.
AllSeeOneMessage == careless \/
    /\ suppressing => game = "writing" /\ ~hook.active
    /\ (game # "idle" /\ ~suppressing) =>
          /\ hook.active => hook.bytes = engine.bytes
          /\ active # Nobody => engine.to = active /\ slot[active].building
                                /\ slot[active].bytes = engine.bytes
          /\ active = Nobody => engine.to \notin connected \/ ~engine.open
    /\ game = "idle" => active = Nobody /\ ~hook.active /\ \A p \in Players : ~slot[p].building

\* What the code keeps between any two steps.
MessagesConsistent == MsgTypeOK /\ AllSeeOneMessage

\* As long as handlers only look, what is begun at the engine is ended, and nothing
\* is begun or written out of turn, which the server would not survive.
EngineInTurn ==
    careless \/ (~crashed /\ (game = "idle" \/ suppressing => ~engine.open))

\* Whatever its length, a panel comes to its end at the client.
PanelsAreComplete ==
    \A p \in connected : panel[p] = ShownWhole

\* Nothing is begun and left: no message at the engine, and no text in pieces.
MessagesAreWhole == EngineInTurn /\ PanelsAreComplete

\* The promise of scripts/docs/api/msg.py for whatever the handlers do: a message
\* never leaves by half.  A handler that cancels breaks it.
NeverByHalf == game = "idle" => ~engine.open

LastOf(s, n) == IF Len(s) <= n THEN s ELSE SubSeq(s, Len(s) - n + 1, Len(s))

\* Whenever a player is dropped, the log tells of what the game has written to this
\* player, and to nobody before, in the window, up to the size of the ring.  What
\* Lua has sent is not in it.
DumpTellsTheWindow ==
    \A p \in connected :
        LET told == LastOf(sent[p], RingSize)
        IN  Dump(p) = [messages |-> Len(told),
                       bytes |-> Total([n \in 1..Len(told) |-> told[n].bytes])]

\* The promise of cslua_netwatch.h: what reaches a player is counted, regardless of
\* who wrote it.  A message of Lua's own breaks it.
EveryMessageIsCounted ==
    \A p \in connected :
        LET least == Len(sent[p]) + (IF p \in own THEN 1 ELSE 0)
        IN  Dump(p).messages >= IF least < RingSize THEN least ELSE RingSize
=============================================================================
