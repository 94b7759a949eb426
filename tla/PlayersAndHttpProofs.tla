------------------------- MODULE PlayersAndHttpProofs ------------------------
(***************************************************************************)
(* Theorems about Players for any number of slots, whatever the slots that *)
(* plugins act on, and drops inside handlers to any depth; and about       *)
(* HttpClient for every number of workers, plugins, slots, requests and    *)
(* Lua states.  The two have no name in common, and each theorem is about  *)
(* one of them.                                                            *)
(*                                                                         *)
(* Players.  Between the calls of the engine the records agree; IInv says  *)
(* what is true inside them too.  A slot may be in the middle of a         *)
(* connection (Coming) or of a departure (Leaving), where handlers know    *)
(* less or more than the record, and at most in one of them.               *)
(*                                                                         *)
(* HttpClient.  HttpConsistent is not inductive.  OnePlace needs that      *)
(* every id in transit was given out (Handed), or a new request could have *)
(* the id of an old one; ArmedHasClosure that the callback on the stack is *)
(* of the present Lua state (Turns), and that what is queued is too        *)
(* (Queued), so that a cancel releases its own slot and no other; the      *)
(* bounds of s_inflight need that it counts each queued request (Counted). *)
(*                                                                         *)
(* What an erase leaves of a queue is computed by recursion over its       *)
(* positions.  Induction says what comes of it, once: the jobs that stay,  *)
(* each at a position of its own, in their order (WithoutPicks).           *)
(*                                                                         *)
(* A step of the abstract ledger is a change of the ids that will be       *)
(* called (ArmedIds): a step that arms nobody is a Drop or a stutter, and  *)
(* only Ask arms.                                                          *)
(***************************************************************************)
EXTENDS Players, HttpClient, FiniteSetTheorems, WellFoundedInduction, TLAPS

Coming(s) ==
    \E n \in 1..Len(calls) : calls[n].step = "connect" /\ calls[n].slot = s

Leaving(s) ==
    \E n \in 1..Len(calls) : calls[n].step \in {"refused", "leaving"} /\ calls[n].slot = s

AboutOne(c) == c.step \in {"connect", "refused", "leaving"}

\* Handlers have players dropped and no other call of the engine made, and no
\* player is in two of these calls.
CallsInOrder ==
    /\ \A n \in 1..Len(calls) : /\ AboutOne(calls[n]) \/ calls[n].step = "teams" => calls[n].slot \in Slots
                                /\ n > 1 => calls[n].step = "leaving"
    /\ \A m, n \in 1..Len(calls) :
          AboutOne(calls[m]) /\ AboutOne(calls[n]) /\ calls[m].slot = calls[n].slot => m = n

\* The record of a slot, the engine's client, and what handlers know.
RecordInOrder(s) ==
    /\ info[s].connected <=> there[s] # "free"
    /\ info[s].authorized => info[s].connected
    /\ Coming(s) \/ Leaving(s) => info[s].connected
    /\ Leaving(s) => told[s] = "out"
    /\ Coming(s) => told[s] = "pending"
    /\ ~Coming(s) /\ ~Leaving(s) =>
          told[s] = IF ~info[s].connected THEN "out"
                    ELSE IF info[s].authorized THEN "known" ELSE "pending"

\* What a new player finds.
FoundInOrder(s) ==
    info[s].connected =>
        /\ kept[s]["team"] # "old"
        /\ "rights" \in Kinds /\ told[s] = "known" => kept[s]["rights"] # "old"
        /\ menu[s].open => panel[s] # "none"

\* The two tables of panels.
PanelInOrder(s) ==
    s \notin misdrawn /\ info[s].connected /\ ~Leaving(s) /\ menu[s].open =>
        /\ menu[s].keys = Key(panel[s])
        /\ open[s] = "menu" <=> panel[s] = "menu"

InOrder(s) == RecordInOrder(s) /\ FoundInOrder(s) /\ PanelInOrder(s)

IInv == TypeOK /\ CallsInOrder /\ \A s \in Slots : InOrder(s)

-----------------------------------------------------------------------------
(* The calls that are running                                              *)

Steps == {"connect", "refused", "leaving", "poll", "teams", "map"}

Calls == [step : Steps, slot : 1..MaxPlayers + 1]

LEMMA CallsType ==
    ASSUME TypeOK
    PROVE  calls \in Seq(Calls) /\ Len(calls) \in Nat /\ Len(calls) <= MaxDepth
BY DEF TypeOK, Calls, Steps

LEMMA NoCall ==
    ASSUME calls' = <<>>
    PROVE  /\ calls' \in Seq(Calls) /\ Len(calls') <= MaxDepth /\ CallsInOrder'
           /\ \A s \in Slots : ~Coming(s)' /\ ~Leaving(s)'
<1>1. Len(calls') = 0 /\ calls' \in Seq(Calls)
    OBVIOUS
<1> QED BY <1>1, PlayersConstants DEF CallsInOrder, Coming, Leaving

LEMMA OneCall ==
    ASSUME NEW c \in Calls, calls' = <<c>>, AboutOne(c) \/ c.step = "teams" => c.slot \in Slots
    PROVE  /\ calls' \in Seq(Calls) /\ Len(calls') <= MaxDepth /\ CallsInOrder'
           /\ \A s \in Slots : /\ Coming(s)' <=> c.step = "connect" /\ c.slot = s
                               /\ Leaving(s)' <=> c.step \in {"refused", "leaving"} /\ c.slot = s
<1>1. calls' \in Seq(Calls) /\ Len(calls') = 1 /\ calls'[1] = c
    OBVIOUS
<1>2. Len(calls') <= MaxDepth
    BY <1>1, PlayersConstants
<1>3. CallsInOrder'
    BY <1>1 DEF CallsInOrder, AboutOne
<1>4. \A s \in Slots : /\ Coming(s)' <=> c.step = "connect" /\ c.slot = s
                       /\ Leaving(s)' <=> c.step \in {"refused", "leaving"} /\ c.slot = s
    BY <1>1 DEF Coming, Leaving
<1> QED BY <1>1, <1>2, <1>3, <1>4

\* A call that is no drop is the only one.
LEMMA Base ==
    ASSUME IInv, ~Idle, Running.step # "leaving"
    PROVE  /\ CallsBelow = <<>>
           /\ \A c : Append(CallsBelow, c) = <<c>>
           /\ Running \in Calls
           /\ AboutOne(Running) \/ Running.step = "teams" => Running.slot \in Slots
           /\ \A s \in Slots : /\ Coming(s) <=> Running.step = "connect" /\ Running.slot = s
                               /\ Leaving(s) <=> Running.step = "refused" /\ Running.slot = s
<1>1. calls \in Seq(Calls) /\ Len(calls) \in Nat /\ Len(calls) > 0
    BY CallsType DEF IInv, Idle
<1>2. Len(calls) = 1
  <2>1. Len(calls) \in 1..Len(calls)
      BY <1>1
  <2>2. calls[Len(calls)].step # "leaving"
      BY DEF Running
  <2>3. ~(Len(calls) > 1)
      BY <2>1, <2>2 DEF IInv, CallsInOrder
  <2>4. \A n \in Nat : n > 0 /\ ~(n > 1) => n = 1
      OBVIOUS
  <2>5. Len(calls) \in Nat /\ Len(calls) > 0
      BY <1>1
  <2> QED BY <2>3, <2>4, <2>5
<1>3. calls = <<Running>> /\ Running \in Calls
    BY <1>1, <1>2 DEF Running
<1>4. CallsBelow = <<>>
    BY <1>1, <1>2 DEF CallsBelow
<1>5. \A c : Append(CallsBelow, c) = <<c>>
    BY <1>4
<1>6. calls[1] = Running
    BY <1>3
<1>7. AboutOne(Running) \/ Running.step = "teams" => Running.slot \in Slots
    BY <1>2, <1>6 DEF IInv, CallsInOrder
<1>8. \A s \in Slots : /\ Coming(s) <=> Running.step = "connect" /\ Running.slot = s
                       /\ Leaving(s) <=> Running.step = "refused" /\ Running.slot = s
    BY <1>2, <1>6 DEF Coming, Leaving
<1> QED BY <1>3, <1>4, <1>5, <1>7, <1>8

LEMMA Drops ==
    ASSUME IInv, NEW t \in Slots, Len(calls) < MaxDepth, calls' = Append(calls, Call("leaving", t)),
           \A n \in DOMAIN calls : AboutOne(calls[n]) => calls[n].slot # t
    PROVE  /\ calls' \in Seq(Calls) /\ Len(calls') <= MaxDepth /\ CallsInOrder'
           /\ \A s \in Slots : /\ Coming(s)' <=> Coming(s)
                               /\ Leaving(s)' <=> Leaving(s) \/ s = t
           /\ ~Coming(t) /\ ~Leaving(t)
<1> PICK n : n = Len(calls) + 1
    OBVIOUS
<1>1. calls \in Seq(Calls) /\ Len(calls) \in Nat /\ Call("leaving", t) \in Calls
    BY CallsType, PlayersConstants DEF IInv, Call, Calls, Steps, Slots
<1>2. /\ calls' \in Seq(Calls) /\ Len(calls') = n
      /\ calls'[n] = Call("leaving", t) /\ \A m \in 1..Len(calls) : calls'[m] = calls[m]
    BY <1>1
<1>3. calls'[n].step = "leaving" /\ calls'[n].slot = t
    BY <1>2 DEF Call
<1>4. n \in 1..Len(calls') /\ \A m \in 1..Len(calls') : m \in 1..Len(calls) \/ m = n
    BY <1>1, <1>2
<1>5. \A m \in 1..Len(calls) : m \in 1..Len(calls') /\ (AboutOne(calls[m]) => calls[m].slot # t)
    BY <1>1, <1>2
<1>6. Len(calls') <= MaxDepth
    BY <1>1, <1>2, PlayersConstants
<1>7. CallsInOrder'
  <2>1. ASSUME NEW m \in 1..Len(calls')
        PROVE  /\ AboutOne(calls'[m]) \/ calls'[m].step = "teams" => calls'[m].slot \in Slots
               /\ m > 1 => calls'[m].step = "leaving"
      BY <1>2, <1>3, <1>4 DEF IInv, CallsInOrder
  <2>2. ASSUME NEW i \in 1..Len(calls'), NEW j \in 1..Len(calls'),
               AboutOne(calls'[i]), AboutOne(calls'[j]), calls'[i].slot = calls'[j].slot
        PROVE  i = j
    <3>1. CASE i \in 1..Len(calls) /\ j \in 1..Len(calls)
        BY <1>2, <2>2, <3>1 DEF IInv, CallsInOrder
    <3>2. CASE i = n /\ j \in 1..Len(calls)
        BY <1>2, <1>3, <1>5, <2>2, <3>2
    <3>3. CASE i \in 1..Len(calls) /\ j = n
        BY <1>2, <1>3, <1>5, <2>2, <3>3
    <3> QED BY <1>4, <3>1, <3>2, <3>3
  <2> QED BY <2>1, <2>2 DEF CallsInOrder, AboutOne
<1>8. ASSUME NEW s \in Slots
      PROVE  /\ Coming(s)' <=> Coming(s)
             /\ Leaving(s)' <=> Leaving(s) \/ s = t
    BY <1>2, <1>3, <1>4, <1>5 DEF Coming, Leaving
<1>9. ~Coming(t) /\ ~Leaving(t)
    BY <1>5 DEF Coming, Leaving, AboutOne
<1> QED BY <1>2, <1>6, <1>7, <1>8, <1>9

LEMMA DropEnds ==
    ASSUME IInv, ~Idle, Running.step = "leaving", calls' = CallsBelow
    PROVE  /\ calls' \in Seq(Calls) /\ Len(calls') <= MaxDepth /\ CallsInOrder'
           /\ Running.slot \in Slots /\ Leaving(Running.slot)
           /\ \A s \in Slots : s = Running.slot => ~Coming(s)' /\ ~Leaving(s)'
           /\ \A s \in Slots : s # Running.slot => (Coming(s)' <=> Coming(s)) /\ (Leaving(s)' <=> Leaving(s))
<1> PICK n : n = Len(calls)
    OBVIOUS
<1>1. calls \in Seq(Calls) /\ n \in Nat /\ n > 0 /\ n <= MaxDepth
    BY CallsType DEF IInv, Idle
<1>2. /\ calls' \in Seq(Calls) /\ Len(calls') = n - 1
      /\ \A m \in 1..n - 1 : calls'[m] = calls[m]
    BY <1>1 DEF CallsBelow
<1>3. n \in 1..n /\ calls[n] = Running
    BY <1>1 DEF Running
<1>4. \A m \in 1..Len(calls') : m \in 1..n /\ m # n /\ calls'[m] = calls[m]
    BY <1>1, <1>2
<1>5. \A m \in 1..n : m # n => m \in 1..Len(calls')
    BY <1>1, <1>2
<1>6. Len(calls') <= MaxDepth
    BY <1>1, <1>2, PlayersConstants
<1>7. CallsInOrder'
    BY <1>4 DEF IInv, CallsInOrder, AboutOne
<1>8. Running.slot \in Slots /\ Leaving(Running.slot)
    BY <1>3 DEF IInv, CallsInOrder, AboutOne, Leaving
<1>9. \A m \in 1..n : AboutOne(calls[m]) /\ calls[m].slot = Running.slot => m = n
    BY <1>3 DEF IInv, CallsInOrder, AboutOne
<1>10. \A s \in Slots : s = Running.slot => ~Coming(s)' /\ ~Leaving(s)'
    BY <1>4, <1>9 DEF Coming, Leaving, AboutOne
<1>11. ASSUME NEW s \in Slots, s # Running.slot
       PROVE  (Coming(s)' <=> Coming(s)) /\ (Leaving(s)' <=> Leaving(s))
    BY <1>3, <1>4, <1>5, <1>11 DEF Coming, Leaving
<1> QED BY <1>2, <1>6, <1>7, <1>8, <1>10, <1>11

-----------------------------------------------------------------------------
(* Slots                                                                   *)

\* A slot where nothing changes that the invariant speaks of.
LEMMA OtherSlot ==
    ASSUME NEW s \in Slots, InOrder(s), there'[s] = there[s], info'[s] = info[s],
           menu'[s] = menu[s], open'[s] = open[s], kept'[s] = kept[s], told'[s] = told[s],
           panel'[s] = panel[s], s \in misdrawn' <=> s \in misdrawn,
           Coming(s)' <=> Coming(s), Leaving(s)' <=> Leaving(s)
    PROVE  InOrder(s)'
<1>1. RecordInOrder(s)'
    BY DEF InOrder, RecordInOrder
<1>2. FoundInOrder(s)'
    BY DEF InOrder, FoundInOrder
<1>3. PanelInOrder(s)'
    BY DEF InOrder, PanelInOrder
<1> QED BY <1>1, <1>2, <1>3 DEF InOrder

\* The calls do not change.
LEMMA SameCalls ==
    ASSUME IInv, calls' = calls
    PROVE  /\ calls' \in Seq(Calls) /\ Len(calls') <= MaxDepth /\ CallsInOrder'
           /\ \A s \in Slots : (Coming(s)' <=> Coming(s)) /\ (Leaving(s)' <=> Leaving(s))
BY CallsType DEF IInv, CallsInOrder, AboutOne, Coming, Leaving

LEMMA KeptTypes ==
    ASSUME TypeOK, NEW s \in Slots, NEW kinds
    PROVE  /\ KeptWithout(s, kinds) \in [AllKinds -> Whose]
           /\ Aged(s, kinds) \in [AllKinds -> Whose]
           /\ KeptWithout(s, kinds)["team"] = IF "team" \in kinds THEN "nobody" ELSE kept[s]["team"]
           /\ "rights" \in Kinds => KeptWithout(s, kinds)["rights"] = IF "rights" \in kinds THEN "nobody" ELSE kept[s]["rights"]
<1>1. kept[s] \in [AllKinds -> Whose]
    BY DEF TypeOK
<1>2. "team" \in AllKinds /\ ("rights" \in Kinds => "rights" \in AllKinds)
    BY DEF AllKinds
<1>3. KeptWithout(s, kinds) \in [AllKinds -> Whose]
    BY <1>1 DEF KeptWithout, Whose
<1>4. Aged(s, kinds) \in [AllKinds -> Whose]
    BY <1>1 DEF Aged, Whose
<1>5. KeptWithout(s, kinds)["team"] = IF "team" \in kinds THEN "nobody" ELSE kept[s]["team"]
    BY <1>2 DEF KeptWithout
<1>6. "rights" \in Kinds => KeptWithout(s, kinds)["rights"] = IF "rights" \in kinds THEN "nobody" ELSE kept[s]["rights"]
    BY <1>2 DEF KeptWithout
<1> QED BY <1>3, <1>4, <1>5, <1>6

LEMMA ToldTypes ==
    ASSUME NEW state, NEW event PROVE After(state, event) \in {"out", "pending", "known", "wrong"}
BY DEF After

LEMMA ToldFacts ==
    /\ After("out", "connect") = "pending"
    /\ After("pending", "again") = "pending" /\ After("known", "again") = "pending"
    /\ After("pending", "authorized") = "known"
    /\ After("pending", "connected") = "pending" /\ After("known", "connected") = "known"
    /\ After("pending", "disconnect") = "out" /\ After("known", "disconnect") = "out"
BY DEF After

\* What is at a slot has its type.
LEMMA SlotTypes ==
    ASSUME TypeOK, NEW s \in Slots
    PROVE  /\ there[s] \in {"free", "connecting", "in", "staying"} /\ final[s] \in BOOLEAN
           /\ info[s] \in [connected : BOOLEAN, authorized : BOOLEAN]
           /\ menu[s] \in [open : BOOLEAN, keys : SUBSET {1, 2}, late : BOOLEAN]
           /\ open[s] \in {"none", "menu"} /\ kept[s] \in [AllKinds -> Whose]
           /\ told[s] \in {"out", "pending", "known", "wrong"} /\ panel[s] \in {"none", "menu", "raw"}
BY DEF TypeOK

LEMMA NothingRuns ==
    ASSUME Idle
    PROVE  Len(calls) = 0 /\ \A s \in Slots : ~Coming(s) /\ ~Leaving(s)
BY DEF Idle, Coming, Leaving

LEMMA CallTypes ==
    ASSUME NEW step \in Steps, NEW s \in 1..MaxPlayers + 1
    PROVE  Call(step, s) \in Calls /\ Call(step, s).step = step /\ Call(step, s).slot = s
BY DEF Call, Calls

LEMMA SlotIsOne == \A s \in Slots : s \in 1..MaxPlayers + 1
BY PlayersConstants DEF Slots

-----------------------------------------------------------------------------
(* Clients come and go                                                     *)

LEMMA ConnectStep ==
    ASSUME IInv, NEW s \in Slots, NEW answered \in BOOLEAN, ClientConnect(s, answered)
    PROVE  IInv'
<1> USE DEF ClientConnect, Tell
<1>1. TypeOK /\ InOrder(s) /\ \A t \in Slots : ~Coming(t) /\ ~Leaving(t)
    BY NothingRuns DEF IInv
<1>2. /\ Call("connect", s) \in Calls /\ Call("connect", s).step = "connect" /\ Call("connect", s).slot = s
    BY CallTypes, SlotIsOne DEF Steps
<1>3. /\ calls' \in Seq(Calls) /\ Len(calls') <= MaxDepth /\ CallsInOrder'
      /\ \A t \in Slots : /\ Coming(t)' <=> t = s
                          /\ ~Leaving(t)'
  <2>1. calls' = <<Call("connect", s)>>
      OBVIOUS
  <2> QED BY <1>2, <2>1, OneCall
<1>4. told'[s] = "pending"
  <2>1. told[s] = IF ~info[s].connected THEN "out" ELSE IF info[s].authorized THEN "known" ELSE "pending"
      BY <1>1 DEF InOrder, RecordInOrder
  <2>2. CASE there[s] = "free"
      BY <1>1, <2>1, <2>2, ToldFacts DEF InOrder, RecordInOrder, TypeOK
  <2>3. CASE there[s] = "staying"
      BY <1>1, <2>1, <2>3, ToldFacts DEF InOrder, RecordInOrder, TypeOK
  <2> QED BY <2>2, <2>3
<1>5. TypeOK'
  <2>1. OnConnect(answered) \in [connected : BOOLEAN, authorized : BOOLEAN]
      BY DEF OnConnect
  <2>2. ForgottenAtConnect(s) \in [AllKinds -> Whose]
      BY <1>1, KeptTypes DEF ForgottenAtConnect
  <2>3. NoMenu \in [open : BOOLEAN, keys : SUBSET {1, 2}, late : BOOLEAN]
      BY DEF NoMenu
  <2> QED BY <1>1, <1>3, <2>1, <2>2, <2>3, ToldTypes DEF TypeOK, Calls, Steps
<1>6. ASSUME NEW t \in Slots PROVE InOrder(t)'
  <2>1. CASE t # s
    <3>1. InOrder(t)
        BY DEF IInv
    <3> QED BY <1>1, <1>3, <2>1, <3>1, OtherSlot DEF TypeOK
  <2>2. CASE t = s
    <3>1. /\ there'[s] = "connecting" /\ info'[s] = OnConnect(answered) /\ menu'[s] = NoMenu
          /\ kept'[s] = ForgottenAtConnect(s)
        BY <1>1 DEF TypeOK
    <3>2. info'[s].connected /\ ~menu'[s].open /\ kept'[s]["team"] = "nobody"
        BY <1>1, <3>1, KeptTypes DEF OnConnect, NoMenu, ForgottenAtConnect
    <3>3. Coming(s)' /\ ~Leaving(s)'
        BY <1>3
    <3> QED BY <1>4, <2>2, <3>1, <3>2, <3>3 DEF InOrder, RecordInOrder, FoundInOrder, PanelInOrder
  <2> QED BY <2>1, <2>2
<1> QED BY <1>3, <1>5, <1>6 DEF IInv

LEMMA AcceptStep ==
    ASSUME IInv, Accept
    PROVE  IInv'
<1> USE DEF Accept
<1> PICK s : s = Running.slot
    OBVIOUS
<1>1. /\ calls' = <<>> /\ s \in Slots
      /\ \A t \in Slots : (Coming(t) <=> t = s) /\ ~Leaving(t)
    BY Base DEF AboutOne
<1>2. /\ calls' \in Seq(Calls) /\ Len(calls') <= MaxDepth /\ CallsInOrder'
      /\ \A t \in Slots : ~Coming(t)' /\ ~Leaving(t)'
    BY <1>1, NoCall
<1>3. TypeOK /\ InOrder(s) /\ Coming(s) /\ ~Leaving(s)
    BY <1>1 DEF IInv
<1>4. CASE info[s].connected /\ info[s].authorized
  <2> USE DEF Authorized, Tell
  <2>1. told'[s] = "known" /\ kept'[s] = KeptWithout(s, {"rights"})
      BY <1>1, <1>3, <1>4, ToldFacts DEF InOrder, RecordInOrder, TypeOK
  <2>2. TypeOK'
    <3>1. KeptWithout(s, {"rights"}) \in [AllKinds -> Whose]
        BY <1>1, <1>3, KeptTypes
    <3>2. /\ told' = [told EXCEPT ![s] = After(told[s], "authorized")]
          /\ kept' = [kept EXCEPT ![s] = KeptWithout(s, {"rights"})]
        BY <1>4
    <3>3. told' \in [Slots -> {"out", "pending", "known", "wrong"}] /\ kept' \in [Slots -> [AllKinds -> Whose]]
        BY <1>3, <3>1, <3>2, ToldTypes DEF TypeOK
    <3> QED BY <1>2, <1>3, <3>3 DEF TypeOK, Calls, Steps
  <2>3. ASSUME NEW t \in Slots PROVE InOrder(t)'
    <3>1. CASE t # s
      <4>1. InOrder(t)
          BY DEF IInv
      <4>2. told'[t] = told[t] /\ kept'[t] = kept[t]
          BY <1>3, <1>4, <3>1 DEF TypeOK
      <4> QED BY <1>1, <1>2, <3>1, <4>1, <4>2, OtherSlot
    <3>2. CASE t = s
      <4>1. /\ kept'[s]["team"] = kept[s]["team"]
            /\ "rights" \in Kinds => kept'[s]["rights"] = "nobody"
          BY <1>1, <1>3, <2>1, KeptTypes
      <4>2. RecordInOrder(s)'
          BY <1>1, <1>2, <1>3, <1>4, <2>1 DEF InOrder, RecordInOrder
      <4>3. FoundInOrder(s)'
          BY <1>1, <1>3, <4>1 DEF InOrder, FoundInOrder
      <4>4. PanelInOrder(s)'
          BY <1>1, <1>3 DEF InOrder, PanelInOrder
      <4> QED BY <3>2, <4>2, <4>3, <4>4 DEF InOrder
    <3> QED BY <3>1, <3>2
  <2> QED BY <1>2, <2>2, <2>3 DEF IInv
<1>5. CASE ~(info[s].connected /\ info[s].authorized)
  <2>1. UNCHANGED <<told, kept>>
      BY <1>5
  <2>2. TypeOK'
      BY <1>2, <1>3, <2>1 DEF TypeOK, Calls, Steps
  <2>3. ASSUME NEW t \in Slots PROVE InOrder(t)'
    <3>1. CASE t # s
      <4>1. InOrder(t)
          BY DEF IInv
      <4> QED BY <1>1, <1>2, <2>1, <3>1, <4>1, OtherSlot
    <3>2. CASE t = s
      <4>1. RecordInOrder(s)'
          BY <1>1, <1>2, <1>3, <1>5, <2>1 DEF InOrder, RecordInOrder
      <4>2. FoundInOrder(s)' /\ PanelInOrder(s)'
          BY <1>2, <1>3, <2>1 DEF InOrder, FoundInOrder, PanelInOrder
      <4> QED BY <3>2, <4>1, <4>2 DEF InOrder
    <3> QED BY <3>1, <3>2
  <2> QED BY <1>2, <2>2, <2>3 DEF IInv
<1> QED BY <1>4, <1>5

\* What handlers of client:disconnect leave, with the call still running.
LEMMA LeavesFacts ==
    ASSUME TypeOK, NEW s \in Slots, Leaves(s)
    PROVE  /\ told' \in [Slots -> {"out", "pending", "known", "wrong"}]
           /\ open' \in [Slots -> {"none", "menu"}]
           /\ kept' \in [Slots -> [AllKinds -> Whose]]
           /\ told'[s] = After(told[s], "disconnect")
           /\ kept'[s]["team"] = kept[s]["team"]
           /\ \A t \in Slots : t # s => told'[t] = told[t] /\ open'[t] = open[t] /\ kept'[t] = kept[t]
<1>1. /\ told' = [told EXCEPT ![s] = After(told[s], "disconnect")]
      /\ open' = [open EXCEPT ![s] = "none"]
      /\ kept' = [kept EXCEPT ![s] = KeptWithout(s, {"rights"})]
    BY DEF Leaves, Tell
<1>2. /\ KeptWithout(s, {"rights"}) \in [AllKinds -> Whose]
      /\ KeptWithout(s, {"rights"})["team"] = kept[s]["team"]
    BY KeptTypes
<1>3. After(told[s], "disconnect") \in {"out", "pending", "known", "wrong"}
    BY ToldTypes
<1> QED BY <1>1, <1>2, <1>3 DEF TypeOK

LEMMA LeaveInOrder ==
    ASSUME TypeOK, NEW s \in Slots, InOrder(s), info[s].connected, told[s] \in {"pending", "known"},
           Leaves(s), UNCHANGED <<there, info, menu, panel, misdrawn>>, ~Coming(s)', Leaving(s)'
    PROVE  InOrder(s)'
<1>1. told'[s] = "out" /\ kept'[s]["team"] = kept[s]["team"]
    BY LeavesFacts, ToldFacts
<1>2. RecordInOrder(s)'
    BY <1>1 DEF InOrder, RecordInOrder
<1>3. FoundInOrder(s)'
    BY <1>1 DEF InOrder, FoundInOrder
<1>4. PanelInOrder(s)'
    BY DEF PanelInOrder
<1> QED BY <1>2, <1>3, <1>4 DEF InOrder

LEMMA RefuseStep ==
    ASSUME IInv, Refuse
    PROVE  IInv'
<1> PICK s : s = Running.slot
    OBVIOUS
<1>1. /\ calls' = <<Call("refused", s)>> /\ s \in Slots
      /\ \A t \in Slots : (Coming(t) <=> t = s) /\ ~Leaving(t)
      /\ Leaves(s) /\ UNCHANGED <<there, final, info, menu, due, age, panel, misdrawn>>
    BY Base DEF AboutOne, Refuse
<1>2. /\ Call("refused", s) \in Calls /\ Call("refused", s).step = "refused" /\ Call("refused", s).slot = s
    BY <1>1, CallTypes, SlotIsOne DEF Steps
<1>3. /\ calls' \in Seq(Calls) /\ Len(calls') <= MaxDepth /\ CallsInOrder'
      /\ \A t \in Slots : ~Coming(t)' /\ (Leaving(t)' <=> t = s)
    BY <1>1, <1>2, OneCall
<1>4. TypeOK /\ InOrder(s) /\ Coming(s) /\ told[s] = "pending" /\ info[s].connected
    BY <1>1 DEF IInv, InOrder, RecordInOrder
<1>5. TypeOK'
    BY <1>1, <1>3, <1>4, LeavesFacts DEF TypeOK, Calls, Steps
<1>6. ASSUME NEW t \in Slots PROVE InOrder(t)'
  <2>1. CASE t # s
    <3>1. InOrder(t)
        BY DEF IInv
    <3>2. told'[t] = told[t] /\ open'[t] = open[t] /\ kept'[t] = kept[t]
        BY <1>1, <1>4, <2>1, LeavesFacts
    <3> QED BY <1>1, <1>3, <2>1, <3>1, <3>2, OtherSlot
  <2>2. CASE t = s
    <3>1. InOrder(s)'
        BY <1>1, <1>3, <1>4, LeaveInOrder
    <3> QED BY <2>2, <3>1
  <2> QED BY <2>1, <2>2
<1> QED BY <1>3, <1>5, <1>6 DEF IInv

\* What is left of a client at the end of its call.
LEMMA ClearsFacts ==
    ASSUME TypeOK, NEW s \in Slots, Clears(s)
    PROVE  /\ info' \in [Slots -> [connected : BOOLEAN, authorized : BOOLEAN]]
           /\ kept' \in [Slots -> [AllKinds -> Whose]]
           /\ there' \in [Slots -> {"free", "connecting", "in", "staying"}]
           /\ final' \in [Slots -> BOOLEAN]
           /\ panel' \in [Slots -> {"none", "menu", "raw"}]
           /\ misdrawn' \subseteq Slots
           /\ ~info'[s].connected /\ ~info'[s].authorized /\ there'[s] = "free"
           /\ \A t \in Slots : t # s =>
                 /\ info'[t] = info[t] /\ kept'[t] = kept[t] /\ there'[t] = there[t]
                 /\ panel'[t] = panel[t] /\ (t \in misdrawn' <=> t \in misdrawn)
<1>1. Aged(s, {"suppress"}) \in [AllKinds -> Whose]
    BY KeptTypes
<1>2. OnDisconnect(info[s]) \in [connected : BOOLEAN, authorized : BOOLEAN]
    BY DEF OnDisconnect, NoInfo
<1>3. ~OnDisconnect(info[s]).connected /\ ~OnDisconnect(info[s]).authorized
    BY DEF OnDisconnect, NoInfo
<1>4. /\ info' = [info EXCEPT ![s] = OnDisconnect(info[s])]
      /\ kept' = [kept EXCEPT ![s] = Aged(s, {"suppress"})]
      /\ there' = [there EXCEPT ![s] = "free"]
      /\ final' = [final EXCEPT ![s] = FALSE]
      /\ panel' = [panel EXCEPT ![s] = "none"]
      /\ misdrawn' = misdrawn \ {s}
    BY DEF Clears
<1> QED BY <1>1, <1>2, <1>3, <1>4 DEF TypeOK

LEMMA ClearInOrder ==
    ASSUME TypeOK, NEW s \in Slots, InOrder(s), Leaving(s), Clears(s), told' = told,
           ~Coming(s)', ~Leaving(s)'
    PROVE  InOrder(s)'
<1>1. ~info'[s].connected /\ ~info'[s].authorized /\ there'[s] = "free"
    BY ClearsFacts
<1>2. RecordInOrder(s)'
    BY <1>1 DEF InOrder, RecordInOrder
<1> QED BY <1>1, <1>2 DEF InOrder, FoundInOrder, PanelInOrder

LEMMA RefusedStep ==
    ASSUME IInv, RefusedReturns
    PROVE  IInv'
<1> PICK s : s = Running.slot
    OBVIOUS
<1>1. /\ calls' = <<>> /\ s \in Slots
      /\ \A t \in Slots : ~Coming(t) /\ (Leaving(t) <=> t = s)
      /\ Clears(s) /\ UNCHANGED <<menu, open, due, age, told>>
    BY Base DEF AboutOne, RefusedReturns
<1>2. /\ calls' \in Seq(Calls) /\ Len(calls') <= MaxDepth /\ CallsInOrder'
      /\ \A t \in Slots : ~Coming(t)' /\ ~Leaving(t)'
    BY <1>1, NoCall
<1>3. TypeOK /\ InOrder(s)
    BY <1>1 DEF IInv
<1>4. TypeOK'
    BY <1>1, <1>2, <1>3, ClearsFacts DEF TypeOK, Calls, Steps
<1>5. ASSUME NEW t \in Slots PROVE InOrder(t)'
  <2>1. CASE t # s
    <3>1. InOrder(t)
        BY DEF IInv
    <3>2. /\ info'[t] = info[t] /\ kept'[t] = kept[t] /\ there'[t] = there[t]
          /\ panel'[t] = panel[t] /\ (t \in misdrawn' <=> t \in misdrawn)
        BY <1>1, <1>3, <2>1, ClearsFacts
    <3> QED BY <1>1, <1>2, <2>1, <3>1, <3>2, OtherSlot
  <2>2. CASE t = s
    <3>1. InOrder(s)'
        BY <1>1, <1>2, <1>3, ClearInOrder
    <3> QED BY <2>2, <3>1
  <2> QED BY <2>1, <2>2
<1> QED BY <1>2, <1>4, <1>5 DEF IInv

LEMMA PutInServerStep ==
    ASSUME IInv, NEW s \in Slots, ClientPutInServer(s)
    PROVE  IInv'
<1> USE DEF ClientPutInServer, Tell
<1>1. TypeOK /\ InOrder(s) /\ \A t \in Slots : ~Coming(t) /\ ~Leaving(t)
    BY NothingRuns DEF IInv
<1>2. /\ calls' \in Seq(Calls) /\ Len(calls') <= MaxDepth /\ CallsInOrder'
      /\ \A t \in Slots : (Coming(t)' <=> Coming(t)) /\ (Leaving(t)' <=> Leaving(t))
    BY SameCalls
<1>3. told'[s] = told[s] /\ told[s] \in {"pending", "known"}
  <2>1. told[s] \in {"pending", "known"}
      BY <1>1 DEF InOrder, RecordInOrder
  <2>2. told'[s] = After(told[s], "connected")
      BY <1>1 DEF TypeOK
  <2> QED BY <2>1, <2>2, ToldFacts
<1>4. TypeOK'
  <2>1. told' \in [Slots -> {"out", "pending", "known", "wrong"}]
      BY <1>1, ToldTypes DEF TypeOK
  <2> QED BY <1>1, <1>2, <2>1 DEF TypeOK, Calls, Steps
<1>5. ASSUME NEW t \in Slots PROVE InOrder(t)'
  <2>1. CASE t # s
    <3>1. InOrder(t)
        BY DEF IInv
    <3>2. there'[t] = there[t] /\ told'[t] = told[t]
        BY <1>1, <2>1 DEF TypeOK
    <3> QED BY <1>2, <2>1, <3>1, <3>2, OtherSlot
  <2>2. CASE t = s
    <3>1. there'[s] # "free" /\ there[s] # "free"
        BY <1>1 DEF TypeOK
    <3>2. RecordInOrder(s)'
        BY <1>1, <1>2, <1>3, <3>1 DEF InOrder, RecordInOrder
    <3>3. FoundInOrder(s)' /\ PanelInOrder(s)'
        BY <1>1, <1>2, <1>3 DEF InOrder, FoundInOrder, PanelInOrder
    <3> QED BY <2>2, <3>2, <3>3 DEF InOrder
  <2> QED BY <2>1, <2>2
<1> QED BY <1>2, <1>4, <1>5 DEF IInv

LEMMA DisconnectStep ==
    ASSUME IInv, NEW s \in Slots, ClientDisconnect(s)
    PROVE  IInv'
<1>1. \A n \in DOMAIN calls : AboutOne(calls[n]) => calls[n].slot # s
    BY DEF ClientDisconnect, AboutOne
<1>2. /\ calls' \in Seq(Calls) /\ Len(calls') <= MaxDepth /\ CallsInOrder'
      /\ \A t \in Slots : (Coming(t)' <=> Coming(t)) /\ (Leaving(t)' <=> Leaving(t) \/ t = s)
      /\ ~Coming(s) /\ ~Leaving(s)
    BY <1>1, Drops DEF ClientDisconnect
<1>3. TypeOK /\ InOrder(s)
    BY DEF IInv
<1>4. info[s].connected /\ told[s] \in {"pending", "known"}
    BY <1>2, <1>3 DEF InOrder, RecordInOrder, ClientDisconnect
<1>5. Leaves(s) /\ UNCHANGED <<there, final, info, menu, due, age, panel, misdrawn>>
    BY <1>4 DEF ClientDisconnect
<1>6. TypeOK'
    BY <1>2, <1>3, <1>5, LeavesFacts DEF TypeOK, Calls, Steps
<1>7. ASSUME NEW t \in Slots PROVE InOrder(t)'
  <2>1. CASE t # s
    <3>1. InOrder(t)
        BY DEF IInv
    <3>2. told'[t] = told[t] /\ open'[t] = open[t] /\ kept'[t] = kept[t]
        BY <1>3, <1>5, <2>1, LeavesFacts
    <3> QED BY <1>2, <1>5, <2>1, <3>1, <3>2, OtherSlot
  <2>2. CASE t = s
    <3>1. InOrder(s)'
        BY <1>2, <1>3, <1>4, <1>5, LeaveInOrder
    <3> QED BY <2>2, <3>1
  <2> QED BY <2>1, <2>2
<1> QED BY <1>2, <1>6, <1>7 DEF IInv

LEMMA LeavingStep ==
    ASSUME IInv, LeavingReturns
    PROVE  IInv'
<1> PICK s : s = Running.slot
    OBVIOUS
<1>1. /\ s \in Slots /\ Leaving(s)
      /\ Clears(s) /\ menu' = [menu EXCEPT ![s] = NoMenu]
      /\ UNCHANGED <<open, due, age, told>>
    BY DropEnds DEF LeavingReturns
<1>2. /\ calls' \in Seq(Calls) /\ Len(calls') <= MaxDepth /\ CallsInOrder'
      /\ \A t \in Slots : t = s => ~Coming(t)' /\ ~Leaving(t)'
      /\ \A t \in Slots : t # s => (Coming(t)' <=> Coming(t)) /\ (Leaving(t)' <=> Leaving(t))
    BY DropEnds DEF LeavingReturns
<1>3. TypeOK /\ InOrder(s)
    BY <1>1 DEF IInv
<1>4. NoMenu \in [open : BOOLEAN, keys : SUBSET {1, 2}, late : BOOLEAN]
    BY DEF NoMenu
<1>5. TypeOK'
    BY <1>1, <1>2, <1>3, <1>4, ClearsFacts DEF TypeOK, Calls, Steps
<1>6. ASSUME NEW t \in Slots PROVE InOrder(t)'
  <2>1. CASE t # s
    <3>1. InOrder(t)
        BY DEF IInv
    <3>2. /\ info'[t] = info[t] /\ kept'[t] = kept[t] /\ there'[t] = there[t]
          /\ panel'[t] = panel[t] /\ (t \in misdrawn' <=> t \in misdrawn)
        BY <1>1, <1>3, <2>1, ClearsFacts
    <3>3. menu'[t] = menu[t]
        BY <1>1, <1>3, <2>1 DEF TypeOK
    <3> QED BY <1>1, <1>2, <2>1, <3>1, <3>2, <3>3, OtherSlot
  <2>2. CASE t = s
    <3>1. InOrder(s)'
        BY <1>1, <1>2, <1>3, ClearInOrder
    <3> QED BY <2>2, <3>1
  <2> QED BY <2>1, <2>2
<1> QED BY <1>2, <1>5, <1>6 DEF IInv

LEMMA SteamStep ==
    ASSUME IInv, NEW s \in Slots, SteamAnswers(s)
    PROVE  IInv'
<1>1. /\ calls' \in Seq(Calls) /\ Len(calls') <= MaxDepth /\ CallsInOrder'
      /\ \A t \in Slots : (Coming(t)' <=> Coming(t)) /\ (Leaving(t)' <=> Leaving(t))
    BY SameCalls DEF SteamAnswers
<1>2. TypeOK'
    BY <1>1 DEF IInv, TypeOK, Calls, Steps, SteamAnswers
<1>3. \A t \in Slots : InOrder(t)'
    BY <1>1, OtherSlot DEF IInv, SteamAnswers
<1> QED BY <1>1, <1>2, <1>3 DEF IInv

-----------------------------------------------------------------------------
(* Frames and maps                                                         *)

\* A poll, or the calls about the end of a map, begin and go on.
LEMMA NextCall ==
    ASSUME NEW step \in {"poll", "teams", "map"}, NEW n \in 1..MaxPlayers + 1,
           step = "teams" => n \in Slots,
           calls' = <<Call(step, n)>>
    PROVE  /\ calls' \in Seq(Calls) /\ Len(calls') <= MaxDepth /\ CallsInOrder'
           /\ \A s \in Slots : ~Coming(s)' /\ ~Leaving(s)'
<1>1. Call(step, n) \in Calls /\ Call(step, n).step = step /\ Call(step, n).slot = n
    BY CallTypes DEF Steps
<1>2. AboutOne(Call(step, n)) \/ Call(step, n).step = "teams" => Call(step, n).slot \in Slots
    BY <1>1 DEF AboutOne
<1>3. Call(step, n).step \notin {"connect", "refused", "leaving"}
    BY <1>1
<1> QED BY <1>1, <1>2, <1>3, OneCall

LEMMA FirstSlot == 1 \in Slots /\ 1 \in 1..MaxPlayers + 1
BY PlayersConstants DEF Slots

LEMMA FrameStep ==
    ASSUME IInv, NEW listening \in BOOLEAN, StartFrame(listening)
    PROVE  IInv'
<1> USE DEF StartFrame
<1>1. TypeOK /\ \A t \in Slots : ~Coming(t) /\ ~Leaving(t)
    BY NothingRuns DEF IInv
<1>2. /\ calls' \in Seq(Calls) /\ Len(calls') <= MaxDepth /\ CallsInOrder'
      /\ \A t \in Slots : ~Coming(t)' /\ ~Leaving(t)'
  <2>1. CASE calls' = <<>>
      BY <2>1, NoCall
  <2>2. CASE calls' = <<Call("poll", 1)>>
      BY <2>2, NextCall, FirstSlot
  <2>3. CASE calls' = <<Call("teams", 1)>>
      BY <2>3, NextCall, FirstSlot
  <2> QED BY <2>1, <2>2, <2>3
<1>3. due' \in 0..Interval + MaxAge /\ age' \in 0..MaxAge
    BY <1>1, PlayersConstants DEF TypeOK
<1>4. TypeOK'
    BY <1>1, <1>2, <1>3 DEF TypeOK, Calls, Steps
<1>5. \A t \in Slots : InOrder(t)'
    BY <1>1, <1>2, OtherSlot DEF IInv
<1> QED BY <1>2, <1>4, <1>5 DEF IInv

\* One more player is authorized.
LEMMA AuthorizedInOrder ==
    ASSUME TypeOK, NEW s \in Slots, InOrder(s), ~Coming(s), ~Leaving(s), Refreshes(s),
           info' = [info EXCEPT ![s].authorized = TRUE], Authorized(s),
           UNCHANGED <<there, menu, open, panel, misdrawn>>, ~Coming(s)', ~Leaving(s)'
    PROVE  /\ info' \in [Slots -> [connected : BOOLEAN, authorized : BOOLEAN]]
           /\ told' \in [Slots -> {"out", "pending", "known", "wrong"}]
           /\ kept' \in [Slots -> [AllKinds -> Whose]]
           /\ \A t \in Slots : t # s => info'[t] = info[t] /\ told'[t] = told[t] /\ kept'[t] = kept[t]
           /\ InOrder(s)'
<1>1. /\ told' = [told EXCEPT ![s] = After(told[s], "authorized")]
      /\ kept' = [kept EXCEPT ![s] = KeptWithout(s, {"rights"})]
    BY DEF Authorized, Tell
<1>2. /\ KeptWithout(s, {"rights"}) \in [AllKinds -> Whose]
      /\ KeptWithout(s, {"rights"})["team"] = kept[s]["team"]
      /\ "rights" \in Kinds => KeptWithout(s, {"rights"})["rights"] = "nobody"
    BY KeptTypes
<1>3. info[s].connected /\ ~info[s].authorized /\ told[s] = "pending"
    BY DEF Refreshes, Pending, InOrder, RecordInOrder
<1>4. After(told[s], "authorized") = "known"
    BY <1>3, ToldFacts
<1>5. info[s] \in [connected : BOOLEAN, authorized : BOOLEAN]
    BY DEF TypeOK
<1>6. info' = [info EXCEPT ![s] = [info[s] EXCEPT !.authorized = TRUE]]
    OBVIOUS
<1>7. /\ [info[s] EXCEPT !.authorized = TRUE] \in [connected : BOOLEAN, authorized : BOOLEAN]
      /\ [info[s] EXCEPT !.authorized = TRUE].connected
      /\ [info[s] EXCEPT !.authorized = TRUE].authorized
  <2>1. \A r \in [connected : BOOLEAN, authorized : BOOLEAN] :
           /\ [r EXCEPT !.authorized = TRUE] \in [connected : BOOLEAN, authorized : BOOLEAN]
           /\ [r EXCEPT !.authorized = TRUE].connected <=> r.connected
           /\ [r EXCEPT !.authorized = TRUE].authorized
      OBVIOUS
  <2> QED BY <1>3, <1>5, <2>1
<1>8. info'[s].connected /\ info'[s].authorized /\ told'[s] = "known" /\ kept'[s] = KeptWithout(s, {"rights"})
    BY <1>1, <1>4, <1>6, <1>7 DEF TypeOK
<1>9. /\ info' \in [Slots -> [connected : BOOLEAN, authorized : BOOLEAN]]
      /\ \A t \in Slots : t # s => info'[t] = info[t]
  <2>1. \A f \in [Slots -> [connected : BOOLEAN, authorized : BOOLEAN]],
           r \in [connected : BOOLEAN, authorized : BOOLEAN] :
              /\ [f EXCEPT ![s] = r] \in [Slots -> [connected : BOOLEAN, authorized : BOOLEAN]]
              /\ \A t \in Slots : t # s => [f EXCEPT ![s] = r][t] = f[t]
      OBVIOUS
  <2> QED BY <1>6, <1>7, <2>1 DEF TypeOK
<1>10. /\ told' \in [Slots -> {"out", "pending", "known", "wrong"}]
       /\ kept' \in [Slots -> [AllKinds -> Whose]]
       /\ \A t \in Slots : t # s => told'[t] = told[t] /\ kept'[t] = kept[t]
    BY <1>1, <1>2, <1>4 DEF TypeOK
<1>11. InOrder(s)'
  <2>1. RecordInOrder(s)'
      BY <1>3, <1>8 DEF InOrder, RecordInOrder
  <2>2. FoundInOrder(s)'
      BY <1>2, <1>3, <1>8 DEF InOrder, FoundInOrder
  <2>3. PanelInOrder(s)'
      BY <1>3 DEF InOrder, PanelInOrder
  <2> QED BY <2>1, <2>2, <2>3 DEF InOrder
<1> QED BY <1>9, <1>10, <1>11

LEMMA PollStep ==
    ASSUME IInv, NEW listening \in BOOLEAN, PollGoesOn(listening)
    PROVE  IInv'
<1>1. /\ \A c : Append(CallsBelow, c) = <<c>>
      /\ CallsBelow = <<>>
      /\ \A t \in Slots : ~Coming(t) /\ ~Leaving(t)
    BY Base DEF PollGoesOn
<1>2. TypeOK /\ \A t \in Slots : InOrder(t)
    BY DEF IInv
<1>3. UNCHANGED <<there, final, menu, open, due, age, panel, misdrawn>>
    BY DEF PollGoesOn
<1>4. CASE UNCHANGED <<info, told, kept>> /\ (calls' = <<Call("teams", 1)>> \/ calls' = <<>>)
  <2>1. /\ calls' \in Seq(Calls) /\ Len(calls') <= MaxDepth /\ CallsInOrder'
        /\ \A t \in Slots : ~Coming(t)' /\ ~Leaving(t)'
    <3>1. CASE calls' = <<>>
        BY <3>1, NoCall
    <3>2. CASE calls' = <<Call("teams", 1)>>
        BY <3>2, NextCall, FirstSlot
    <3> QED BY <1>4, <3>1, <3>2
  <2>2. TypeOK'
      BY <1>2, <1>3, <1>4, <2>1 DEF TypeOK, Calls, Steps
  <2>3. \A t \in Slots : InOrder(t)'
      BY <1>1, <1>2, <1>3, <1>4, <2>1, OtherSlot
  <2> QED BY <2>1, <2>2, <2>3 DEF IInv
<1>5. ASSUME NEW s \in Slots, Refreshes(s), info' = [info EXCEPT ![s].authorized = TRUE], Authorized(s),
             calls' = <<Call("poll", s + 1)>>
      PROVE  IInv'
  <2>1. s + 1 \in 1..MaxPlayers + 1
      BY PlayersConstants DEF Slots
  <2>2. /\ calls' \in Seq(Calls) /\ Len(calls') <= MaxDepth /\ CallsInOrder'
        /\ \A t \in Slots : ~Coming(t)' /\ ~Leaving(t)'
      BY <1>5, <2>1, NextCall
  <2>3. /\ info' \in [Slots -> [connected : BOOLEAN, authorized : BOOLEAN]]
        /\ told' \in [Slots -> {"out", "pending", "known", "wrong"}]
        /\ kept' \in [Slots -> [AllKinds -> Whose]]
        /\ \A t \in Slots : t # s => info'[t] = info[t] /\ told'[t] = told[t] /\ kept'[t] = kept[t]
        /\ InOrder(s)'
      BY <1>1, <1>2, <1>3, <1>5, <2>2, AuthorizedInOrder
  <2>4. TypeOK'
      BY <1>2, <1>3, <2>2, <2>3 DEF TypeOK, Calls, Steps
  <2>5. ASSUME NEW t \in Slots PROVE InOrder(t)'
    <3>1. CASE t # s
        BY <1>1, <1>2, <1>3, <2>2, <2>3, <3>1, OtherSlot
    <3>2. CASE t = s
        BY <2>3, <3>2
    <3> QED BY <3>1, <3>2
  <2> QED BY <2>2, <2>4, <2>5 DEF IInv
<1>6. \/ UNCHANGED <<info, told, kept>> /\ (calls' = <<Call("teams", 1)>> \/ calls' = <<>>)
      \/ \E s \in Slots : /\ Refreshes(s) /\ info' = [info EXCEPT ![s].authorized = TRUE]
                          /\ Authorized(s) /\ calls' = <<Call("poll", s + 1)>>
    BY <1>1 DEF PollGoesOn
<1> QED BY <1>4, <1>5, <1>6

LEMMA TeamsStep ==
    ASSUME IInv, TeamsGoOn
    PROVE  IInv'
<1> PICK s : s = Running.slot
    OBVIOUS
<1>1. /\ \A c : Append(CallsBelow, c) = <<c>>
      /\ CallsBelow = <<>> /\ s \in Slots
      /\ \A t \in Slots : ~Coming(t) /\ ~Leaving(t)
    BY Base DEF TeamsGoOn
<1>2. TypeOK /\ \A t \in Slots : InOrder(t)
    BY DEF IInv
<1>3. /\ \/ s + 1 \in Slots /\ calls' = <<Call("teams", s + 1)>>
         \/ calls' = <<>>
      /\ UNCHANGED <<there, final, info, menu, open, due, age, told, panel, misdrawn>>
    BY <1>1 DEF TeamsGoOn
<1>4. /\ calls' \in Seq(Calls) /\ Len(calls') <= MaxDepth /\ CallsInOrder'
      /\ \A t \in Slots : ~Coming(t)' /\ ~Leaving(t)'
  <2>1. CASE calls' = <<>>
      BY <2>1, NoCall
  <2>2. CASE s + 1 \in Slots /\ calls' = <<Call("teams", s + 1)>>
      BY <2>2, NextCall, SlotIsOne
  <2> QED BY <1>3, <2>1, <2>2
<1>5. PICK team \in Whose : /\ kept' = [kept EXCEPT ![s] = [kept[s] EXCEPT !["team"] = team]]
                            /\ team = "old" => s \in Connected /\ kept[s]["team"] = "old"
  <2>1. kept[s]["team"] \in Whose
      BY <1>1, <1>2 DEF TypeOK, AllKinds
  <2>2. CASE s \notin Connected
      BY <2>2 DEF TeamsGoOn, Whose
  <2>3. CASE s \in Connected /\ kept[s]["team"] = "nobody"
      BY <2>3 DEF TeamsGoOn, Whose
  <2>4. CASE s \in Connected /\ kept[s]["team"] # "nobody"
      BY <2>1, <2>4 DEF TeamsGoOn, Whose
  <2> QED BY <2>2, <2>3, <2>4
<1>6. /\ kept' \in [Slots -> [AllKinds -> Whose]]
      /\ \A t \in Slots : t # s => kept'[t] = kept[t]
      /\ kept'[s]["team"] = team
      /\ "rights" \in Kinds => kept'[s]["rights"] = kept[s]["rights"]
  <2>1. kept \in [Slots -> [AllKinds -> Whose]] /\ "team" \in AllKinds /\ Kinds \subseteq AllKinds
      BY <1>2 DEF TypeOK, AllKinds
  <2>2. kept[s] \in [AllKinds -> Whose]
      BY <1>1, <2>1
  <2> PICK r : r = [kept[s] EXCEPT !["team"] = team]
      OBVIOUS
  <2>3. r \in [AllKinds -> Whose] /\ r["team"] = team
      BY <1>5, <2>1, <2>2
  <2>4. "rights" \in Kinds => r["rights"] = kept[s]["rights"]
      BY <2>1, <2>2
  <2>5. kept' = [kept EXCEPT ![s] = r]
      BY <1>5
  <2>6. /\ kept' \in [Slots -> [AllKinds -> Whose]] /\ kept'[s] = r
        /\ \A t \in Slots : t # s => kept'[t] = kept[t]
      BY <1>1, <2>1, <2>3, <2>5
  <2> QED BY <2>3, <2>4, <2>6
<1>7. TypeOK'
    BY <1>2, <1>3, <1>4, <1>6 DEF TypeOK, Calls, Steps
<1>8. ASSUME NEW t \in Slots PROVE InOrder(t)'
  <2>1. CASE t # s
      BY <1>1, <1>2, <1>3, <1>4, <1>6, <2>1, OtherSlot
  <2>2. CASE t = s
    <3>1. RecordInOrder(s)' /\ PanelInOrder(s)'
        BY <1>1, <1>2, <1>3, <1>4 DEF InOrder, RecordInOrder, PanelInOrder
    <3>2. FoundInOrder(s)'
        BY <1>1, <1>2, <1>3, <1>5, <1>6 DEF InOrder, FoundInOrder
    <3> QED BY <2>2, <3>1, <3>2 DEF InOrder
  <2> QED BY <2>1, <2>2
<1> QED BY <1>4, <1>7, <1>8 DEF IInv

LEMMA MapEndsStep ==
    ASSUME IInv, MapEnds
    PROVE  IInv'
<1> USE DEF MapEnds
<1>1. TypeOK /\ \A t \in Slots : ~Coming(t) /\ ~Leaving(t)
    BY NothingRuns DEF IInv
<1>2. /\ calls' \in Seq(Calls) /\ Len(calls') <= MaxDepth /\ CallsInOrder'
      /\ \A t \in Slots : ~Coming(t)' /\ ~Leaving(t)'
    BY NextCall, FirstSlot
<1>3. TypeOK'
    BY <1>1, <1>2 DEF TypeOK, Calls, Steps
<1>4. \A t \in Slots : InOrder(t)'
    BY <1>1, <1>2, OtherSlot DEF IInv
<1> QED BY <1>2, <1>3, <1>4 DEF IInv

LEMMA MapStartsStep ==
    ASSUME IInv, MapStarts
    PROVE  IInv'
<1>1. /\ calls' = <<>>
      /\ \A t \in Slots : ~Coming(t) /\ ~Leaving(t)
    BY Base DEF MapStarts
<1>2. /\ calls' \in Seq(Calls) /\ Len(calls') <= MaxDepth /\ CallsInOrder'
      /\ \A t \in Slots : ~Coming(t)' /\ ~Leaving(t)'
    BY <1>1, NoCall
<1>3. TypeOK /\ \A t \in Slots : InOrder(t)
    BY DEF IInv
<1>4. /\ kept' = [s \in Slots |-> KeptWithout(s, {"render", "team"})]
      /\ menu' = [s \in Slots |-> NoMenu]
      /\ there' = [s \in Slots |-> IF there[s] = "in" THEN "staying" ELSE there[s]]
      /\ due' = 0 /\ age' = 0
      /\ UNCHANGED <<final, info, open, told, panel, misdrawn>>
    BY DEF MapStarts, PollAfterRestart
<1>5. TypeOK'
  <2>1. \A s \in Slots : KeptWithout(s, {"render", "team"}) \in [AllKinds -> Whose]
      BY <1>3, KeptTypes
  <2>2. NoMenu \in [open : BOOLEAN, keys : SUBSET {1, 2}, late : BOOLEAN]
      BY DEF NoMenu
  <2>3. due' \in 0..Interval + MaxAge /\ age' \in 0..MaxAge
      BY <1>4, PlayersConstants
  <2>4. there' \in [Slots -> {"free", "connecting", "in", "staying"}]
      BY <1>3, <1>4 DEF TypeOK
  <2>5. kept' \in [Slots -> [AllKinds -> Whose]]
      BY <1>4, <2>1
  <2>6. menu' \in [Slots -> [open : BOOLEAN, keys : SUBSET {1, 2}, late : BOOLEAN]]
      BY <1>4, <2>2
  <2> QED BY <1>2, <1>3, <1>4, <2>3, <2>4, <2>5, <2>6 DEF TypeOK, Calls, Steps
<1>6. ASSUME NEW s \in Slots PROVE InOrder(s)'
  <2>1. /\ kept'[s]["team"] = "nobody"
        /\ "rights" \in Kinds => kept'[s]["rights"] = kept[s]["rights"]
      BY <1>3, <1>4, KeptTypes
  <2>2. there'[s] # "free" <=> there[s] # "free"
      BY <1>4
  <2>3. ~menu'[s].open
      BY <1>4 DEF NoMenu
  <2>4. RecordInOrder(s)'
      BY <1>1, <1>2, <1>3, <1>4, <2>2 DEF InOrder, RecordInOrder
  <2>5. FoundInOrder(s)'
      BY <1>3, <1>4, <2>1, <2>3 DEF InOrder, FoundInOrder
  <2> QED BY <2>3, <2>4, <2>5 DEF InOrder, PanelInOrder
<1> QED BY <1>2, <1>5, <1>6 DEF IInv

-----------------------------------------------------------------------------
(* Plugins                                                                 *)

Menus == [open : BOOLEAN, keys : SUBSET {1, 2}, late : BOOLEAN]

\* What plugins and keys change is at one slot, and in what lies there only.
LEMMA OneSlot ==
    ASSUME IInv, NEW s \in Slots,
           UNCHANGED <<there, final, info, due, age, calls, told>>,
           menu' \in [Slots -> Menus], open' \in [Slots -> {"none", "menu"}],
           kept' \in [Slots -> [AllKinds -> Whose]], panel' \in [Slots -> {"none", "menu", "raw"}],
           misdrawn' \subseteq Slots,
           \A t \in Slots : t # s => /\ menu'[t] = menu[t] /\ open'[t] = open[t] /\ kept'[t] = kept[t]
                                     /\ panel'[t] = panel[t] /\ (t \in misdrawn' <=> t \in misdrawn),
           FoundInOrder(s)', PanelInOrder(s)'
    PROVE  IInv'
<1>1. /\ calls' \in Seq(Calls) /\ Len(calls') <= MaxDepth /\ CallsInOrder'
      /\ \A t \in Slots : (Coming(t)' <=> Coming(t)) /\ (Leaving(t)' <=> Leaving(t))
    BY SameCalls
<1>2. TypeOK'
    BY <1>1 DEF IInv, TypeOK, Calls, Steps, Menus
<1>3. ASSUME NEW t \in Slots PROVE InOrder(t)'
  <2>1. InOrder(t)
      BY DEF IInv
  <2>2. CASE t # s
      BY <1>1, <2>1, <2>2, OtherSlot
  <2>3. CASE t = s
    <3>1. RecordInOrder(s)'
        BY <1>1, <2>1, <2>3 DEF InOrder, RecordInOrder
    <3> QED BY <2>3, <3>1 DEF InOrder
  <2> QED BY <2>2, <2>3
<1> QED BY <1>1, <1>2, <1>3 DEF IInv

LEMMA SeenAreSlots == Seen \subseteq Slots
BY PlayersConstants DEF Slots

LEMMA ExceptAt ==
    ASSUME NEW S, NEW T, NEW f \in [S -> T], NEW s \in S, NEW v \in T
    PROVE  /\ [f EXCEPT ![s] = v] \in [S -> T]
           /\ [f EXCEPT ![s] = v][s] = v
           /\ \A t \in S : t # s => [f EXCEPT ![s] = v][t] = f[t]
OBVIOUS

\* A panel is on the screen, and Lua's note is of it.
LEMMA PanelShown ==
    ASSUME IInv, NEW s \in Slots, NEW who \in {"menu", "raw"}, Panel(s, who),
           open' \in [Slots -> {"none", "menu"}], open'[s] = "menu" <=> who = "menu",
           \A t \in Slots : t # s => open'[t] = open[t],
           UNCHANGED <<there, final, info, kept, due, age, calls, told>>
    PROVE  IInv'
<1>1. TypeOK /\ InOrder(s)
    BY DEF IInv
<1>2. [open |-> TRUE, keys |-> Key(who), late |-> FALSE] \in Menus
    BY DEF Menus, Key
<1>3. menu \in [Slots -> Menus] /\ panel \in [Slots -> {"none", "menu", "raw"}] /\ misdrawn \subseteq Slots
      /\ kept \in [Slots -> [AllKinds -> Whose]]
    BY <1>1 DEF TypeOK, Menus
<1>4. /\ menu' = [menu EXCEPT ![s] = [open |-> TRUE, keys |-> Key(who), late |-> FALSE]]
      /\ panel' = [panel EXCEPT ![s] = who]
      /\ misdrawn' = misdrawn \ {s}
    BY DEF Panel
<1>5. /\ menu' \in [Slots -> Menus] /\ menu'[s] = [open |-> TRUE, keys |-> Key(who), late |-> FALSE]
      /\ \A t \in Slots : t # s => menu'[t] = menu[t]
    BY <1>2, <1>3, <1>4, ExceptAt
<1>6. /\ panel' \in [Slots -> {"none", "menu", "raw"}] /\ panel'[s] = who
      /\ \A t \in Slots : t # s => panel'[t] = panel[t]
    BY <1>3, <1>4, ExceptAt
<1>7. FoundInOrder(s)'
    BY <1>1, <1>6 DEF InOrder, FoundInOrder
<1>8. PanelInOrder(s)'
  <2>1. menu'[s].keys = Key(panel'[s])
      BY <1>5, <1>6
  <2>2. open'[s] = "menu" <=> panel'[s] = "menu"
      BY <1>6
  <2> QED BY <2>1, <2>2 DEF PanelInOrder, Key
<1> QED BY <1>3, <1>4, <1>5, <1>6, <1>7, <1>8, OneSlot

\* No panel of ours is on the screen.
LEMMA PanelGone ==
    ASSUME IInv, NEW s \in Slots, menu' = [menu EXCEPT ![s] = NoMenu],
           open' \in [Slots -> {"none", "menu"}], panel' \in [Slots -> {"none", "menu", "raw"}],
           misdrawn' \subseteq Slots,
           \A t \in Slots : t # s => /\ open'[t] = open[t] /\ panel'[t] = panel[t]
                                     /\ (t \in misdrawn' <=> t \in misdrawn),
           UNCHANGED <<there, final, info, kept, due, age, calls, told>>
    PROVE  IInv'
<1>1. TypeOK /\ InOrder(s)
    BY DEF IInv
<1>2. NoMenu \in Menus /\ ~NoMenu.open
    BY DEF Menus, NoMenu
<1>3. menu \in [Slots -> Menus] /\ kept \in [Slots -> [AllKinds -> Whose]]
    BY <1>1 DEF TypeOK, Menus
<1>4. /\ menu' \in [Slots -> Menus] /\ menu'[s] = NoMenu
      /\ \A t \in Slots : t # s => menu'[t] = menu[t]
    BY <1>2, <1>3, ExceptAt
<1>5. FoundInOrder(s)' /\ PanelInOrder(s)'
    BY <1>1, <1>2, <1>4 DEF InOrder, FoundInOrder, PanelInOrder
<1> QED BY <1>3, <1>4, <1>5, OneSlot

LEMMA LeaveStep ==
    ASSUME IInv, NEW s \in Seen, NEW kind \in Kinds, Leave(kind, s)
    PROVE  IInv'
<1>1. s \in Slots /\ kind # "team" /\ kind \in AllKinds /\ "team" \in AllKinds
      /\ ("rights" \in Kinds => "rights" \in AllKinds)
    BY SeenAreSlots, PlayersConstants DEF AllKinds
<1>2. TypeOK /\ InOrder(s)
    BY <1>1 DEF IInv
<1>3. PICK whose \in Whose : /\ kept' = [kept EXCEPT ![s] = [kept[s] EXCEPT ![kind] = whose]]
                             /\ info[s].connected => whose = "own"
    BY DEF Leave, Whose
<1>4. UNCHANGED <<there, final, info, menu, open, due, age, calls, told, panel, misdrawn>>
    BY DEF Leave
<1>5. /\ kept \in [Slots -> [AllKinds -> Whose]] /\ kept[s] \in [AllKinds -> Whose]
    BY <1>1, <1>2 DEF TypeOK
<1>6. /\ [kept[s] EXCEPT ![kind] = whose] \in [AllKinds -> Whose]
      /\ [kept[s] EXCEPT ![kind] = whose][kind] = whose
      /\ \A k \in AllKinds : k # kind => [kept[s] EXCEPT ![kind] = whose][k] = kept[s][k]
    BY <1>1, <1>5, ExceptAt
<1>7. /\ kept' \in [Slots -> [AllKinds -> Whose]]
      /\ kept'[s] = [kept[s] EXCEPT ![kind] = whose]
      /\ \A t \in Slots : t # s => kept'[t] = kept[t]
    BY <1>1, <1>3, <1>5, <1>6, ExceptAt
<1>8. FoundInOrder(s)'
  <2>1. kept'[s]["team"] = kept[s]["team"]
      BY <1>1, <1>6, <1>7
  <2>2. "rights" \in Kinds /\ info[s].connected => kept'[s]["rights"] = kept[s]["rights"] \/ kept'[s]["rights"] = "own"
      BY <1>1, <1>3, <1>6, <1>7
  <2> QED BY <1>2, <1>4, <2>1, <2>2 DEF InOrder, FoundInOrder
<1>9. PanelInOrder(s)'
  <2>1. Leaving(s)' <=> Leaving(s)
      BY <1>1, <1>4, SameCalls
  <2> QED BY <1>2, <1>4, <2>1 DEF InOrder, PanelInOrder
<1> QED BY <1>1, <1>2, <1>4, <1>7, <1>8, <1>9, OneSlot DEF TypeOK, Menus

LEMMA ShowStep ==
    ASSUME IInv, NEW s \in Seen, Show(s)
    PROVE  IInv'
<1>1. s \in Slots /\ open \in [Slots -> {"none", "menu"}]
    BY SeenAreSlots DEF IInv, TypeOK
<1>2. /\ open' = [open EXCEPT ![s] = "menu"] /\ Panel(s, "menu")
      /\ UNCHANGED <<there, final, info, kept, due, age, calls, told>>
    BY DEF Show
<1> QED BY <1>1, <1>2, PanelShown

LEMMA RawShowStep ==
    ASSUME IInv, NEW s \in Seen, RawShow(s)
    PROVE  IInv'
<1>1. s \in Slots /\ open \in [Slots -> {"none", "menu"}] /\ TypeOK /\ InOrder(s)
    BY SeenAreSlots DEF IInv, TypeOK
<1>2. /\ open' = [open EXCEPT ![s] = "none"]
      /\ UNCHANGED <<there, final, info, kept, due, age, calls, told>>
    BY DEF RawShow, NoteOfRaw
<1>3. CASE info[s].connected
  <2>1. Panel(s, "raw")
      BY <1>3 DEF RawShow
  <2> QED BY <1>1, <1>2, <2>1, PanelShown
<1>4. CASE ~info[s].connected
  <2>1. UNCHANGED <<menu, panel, misdrawn>>
      BY <1>4 DEF RawShow
  <2>2. FoundInOrder(s)' /\ PanelInOrder(s)'
      BY <1>2, <1>4 DEF FoundInOrder, PanelInOrder
  <2> QED BY <1>1, <1>2, <2>1, <2>2, OneSlot DEF TypeOK, Menus
<1> QED BY <1>3, <1>4

LEMMA ShowFailsStep ==
    ASSUME IInv, NEW s \in Seen, ShowFails(s)
    PROVE  IInv'
<1>1. s \in Slots /\ TypeOK /\ InOrder(s)
    BY SeenAreSlots DEF IInv
<1>2. FoundInOrder(s)'
    BY <1>1 DEF ShowFails, InOrder, FoundInOrder
<1>3. PanelInOrder(s)'
    BY DEF ShowFails, PanelInOrder
<1> QED BY <1>1, <1>2, <1>3, OneSlot DEF ShowFails, TypeOK, Menus

LEMMA CloseStep ==
    ASSUME IInv, NEW s \in Seen, Close(s)
    PROVE  IInv'
<1>1. s \in Slots /\ TypeOK
    BY SeenAreSlots DEF IInv
<1> QED BY <1>1, PanelGone DEF Close, TypeOK

LEMMA ExpireStep ==
    ASSUME IInv, NEW s \in Seen, Expire(s)
    PROVE  IInv'
<1>1. s \in Slots /\ TypeOK /\ InOrder(s) /\ ~Leaving(s)
    BY SeenAreSlots, NothingRuns DEF IInv, Expire
<1>2. menu \in [Slots -> Menus] /\ menu[s] \in Menus
    BY <1>1 DEF TypeOK, Menus
<1>3. /\ [menu[s] EXCEPT !.late = TRUE] \in Menus
      /\ [menu[s] EXCEPT !.late = TRUE].open = menu[s].open
      /\ [menu[s] EXCEPT !.late = TRUE].keys = menu[s].keys
    BY <1>2 DEF Menus
<1>4. menu' = [menu EXCEPT ![s] = [menu[s] EXCEPT !.late = TRUE]]
    BY DEF Expire
<1>5. /\ menu' \in [Slots -> Menus] /\ menu'[s] = [menu[s] EXCEPT !.late = TRUE]
      /\ \A t \in Slots : t # s => menu'[t] = menu[t]
    BY <1>1, <1>2, <1>3, <1>4, ExceptAt
<1>6. menu'[s].open = menu[s].open /\ menu'[s].keys = menu[s].keys
    BY <1>3, <1>5
<1>7. FoundInOrder(s)' /\ PanelInOrder(s)'
    BY <1>1, <1>6 DEF Expire, InOrder, FoundInOrder, PanelInOrder
<1> QED BY <1>1, <1>5, <1>7, OneSlot DEF Expire, TypeOK

LEMMA TooLateStep ==
    ASSUME IInv, NEW s \in Seen, SelectTooLate(s)
    PROVE  IInv'
<1>1. s \in Slots /\ TypeOK
    BY SeenAreSlots DEF IInv
<1> QED BY <1>1, PanelGone DEF SelectTooLate, TypeOK

LEMMA SelectStep ==
    ASSUME IInv, NEW s \in Seen, NEW key \in {1, 2}, Select(s, key)
    PROVE  IInv'
<1>1. s \in Slots /\ TypeOK
    BY SeenAreSlots DEF IInv
<1>2. CASE /\ open' = [open EXCEPT ![s] = "none"] /\ menu' = [menu EXCEPT ![s] = NoMenu]
           /\ misdrawn' = misdrawn \ {s} /\ panel' = [panel EXCEPT ![s] = "none"]
    BY <1>1, <1>2, PanelGone DEF Select, TypeOK
<1>3. CASE open[s] = "menu" /\ UNCHANGED open /\ Panel(s, "menu")
    BY <1>1, <1>3, PanelShown DEF Select, TypeOK
<1> QED BY <1>2, <1>3 DEF Select

-----------------------------------------------------------------------------
(* Theorems                                                                *)

LEMMA InitHolds == Init => IInv
<1> SUFFICES ASSUME Init PROVE IInv
    OBVIOUS
<1> USE DEF Init
<1>1. Len(calls) = 0 /\ calls \in Seq(Calls) /\ \A s \in Slots : ~Coming(s) /\ ~Leaving(s)
    BY DEF Coming, Leaving
<1>2. TypeOK
    BY <1>1, PlayersConstants DEF TypeOK, Calls, Steps, NoInfo, NoMenu, Whose
<1>3. CallsInOrder
    BY <1>1 DEF CallsInOrder
<1>4. \A s \in Slots : InOrder(s)
    BY <1>1 DEF InOrder, RecordInOrder, FoundInOrder, PanelInOrder, NoInfo, NoMenu
<1> QED BY <1>2, <1>3, <1>4 DEF IInv

LEMMA StepHolds == IInv /\ [Next]_vars => IInv'
<1> SUFFICES ASSUME IInv, [Next]_vars PROVE IInv'
    OBVIOUS
<1>1. CASE UNCHANGED vars
  <2>1. UNCHANGED <<there, final, info, menu, open, kept, due, age, calls, told, panel, misdrawn>>
      BY <1>1 DEF vars
  <2>2. /\ calls' \in Seq(Calls) /\ Len(calls') <= MaxDepth /\ CallsInOrder'
        /\ \A t \in Slots : (Coming(t)' <=> Coming(t)) /\ (Leaving(t)' <=> Leaving(t))
      BY <2>1, SameCalls
  <2>3. TypeOK'
      BY <2>1 DEF IInv, TypeOK
  <2>4. \A t \in Slots : InOrder(t)'
      BY <2>1, <2>2, OtherSlot DEF IInv
  <2> QED BY <2>2, <2>3, <2>4 DEF IInv
<1>2. CASE \E s \in Slots, answered \in BOOLEAN : ClientConnect(s, answered)
    BY <1>2, ConnectStep
<1>3. CASE \E s \in Slots : ClientPutInServer(s) \/ ClientDisconnect(s) \/ SteamAnswers(s)
    BY <1>3, PutInServerStep, DisconnectStep, SteamStep
<1>4. CASE \E s \in Seen : Expire(s) \/ SelectTooLate(s) \/ (\E key \in {1, 2} : Select(s, key))
    BY <1>4, ExpireStep, TooLateStep, SelectStep
<1>5. CASE Frame
    BY <1>5, FrameStep DEF Frame
<1>6. CASE CallGoesOn
    BY <1>6, AcceptStep, RefuseStep, RefusedStep, LeavingStep, PollStep, TeamsStep, MapStartsStep DEF CallGoesOn
<1>7. CASE MapEnds
    BY <1>7, MapEndsStep
<1>8. CASE PluginStep
    BY <1>8, LeaveStep, ShowStep, RawShowStep, ShowFailsStep, CloseStep DEF PluginStep
<1> QED BY <1>1, <1>2, <1>3, <1>4, <1>5, <1>6, <1>7, <1>8 DEF Next

LEMMA Invariant == Spec => []IInv
BY InitHolds, StepHolds, PTL DEF Spec

\* In every reachable state the variables have their types; between the calls of
\* the engine the record of Players::m_players, the engine's client and what
\* handlers know of a slot agree; and nobody finds the panel, the team or, once
\* authorized, the rights of the player before.
THEOREM ConsistentAlways == Spec => []Consistent
<1>1. IInv => Consistent
  <2> SUFFICES ASSUME IInv PROVE Consistent
      OBVIOUS
  <2>1. RecordsAgree
      BY NothingRuns DEF IInv, InOrder, RecordInOrder, RecordsAgree
  <2>2. NothingInherited
      BY DEF IInv, InOrder, FoundInOrder, NothingInherited, Connected
  <2> QED BY <2>1, <2>2 DEF Consistent, IInv
<1> QED BY <1>1, Invariant, PTL

\* Of every player handlers hear client:connect, at most one client:authorized and
\* one client:disconnect, in this order, whoever is dropped by a handler meanwhile.
THEOREM EventsInOrderAlways == Spec => []EventsInOrder
<1>1. IInv => EventsInOrder
  <2> SUFFICES ASSUME IInv, NEW s \in Slots PROVE told[s] # "wrong"
      BY DEF EventsInOrder
  <2>1. RecordInOrder(s)
      BY DEF IInv, InOrder
  <2>2. CASE Coming(s)
      BY <2>1, <2>2 DEF RecordInOrder
  <2>3. CASE Leaving(s)
      BY <2>1, <2>3 DEF RecordInOrder
  <2>4. CASE ~Coming(s) /\ ~Leaving(s)
      BY <2>1, <2>4 DEF RecordInOrder
  <2> QED BY <2>2, <2>3, <2>4
<1> QED BY <1>1, Invariant, PTL

\* Between the calls of the engine the table of lua_menu.cpp and the one of ui.lua
\* are about one panel, but for a custom menu that failed half-way.
THEOREM KeyMeetsItsMenuAlways == Spec => []KeyMeetsItsMenu
<1>1. IInv => KeyMeetsItsMenu
    BY NothingRuns DEF IInv, InOrder, PanelInOrder, KeyMeetsItsMenu
<1> QED BY <1>1, Invariant, PTL

-----------------------------------------------------------------------------
(* Induction over the positions of a queue                                 *)

LEMMA Least == ASSUME NEW T \in SUBSET Nat, T # {}
               PROVE  \E x \in T : \A y \in T : x <= y
<1> DEFINE R == {ss \in Nat \X Nat : ss[1] < ss[2]}
<1>1. IsWellFoundedOn(R, Nat)
  BY NatLessThanWellFounded DEF OpToRel
<1>2. \A x, y \in Nat : x < y => <<x, y>> \in R
  OBVIOUS
<1> HIDE DEF R
<1>3. \E x \in T : \A y \in T : ~(<<y, x>> \in R)
  BY <1>1, WFMin
<1>4. PICK x \in T : \A y \in T : ~(<<y, x>> \in R)
  BY <1>3
<1>5. \A y \in T : ~(y < x) /\ x \in Nat /\ y \in Nat
  BY <1>2, <1>4
<1> QED BY <1>5, <1>4

\* Induction over an interval, in the form that needs no operator parameter.
LEMMA Induction ==
    ASSUME NEW n \in Nat, NEW S, 0 \in S,
           \A k \in 0..n : k + 1 <= n /\ k \in S => k + 1 \in S
    PROVE  0..n \subseteq S
<1> DEFINE T == {k \in 0..n : k \notin S}
<1>1. CASE T = {}
    BY <1>1
<1>2. CASE T # {}
  <2>1. T \in SUBSET Nat
      OBVIOUS
  <2>2. PICK x \in T : \A y \in T : x <= y
      BY <1>2, <2>1, Least
  <2>3. x # 0 /\ x \in 0..n /\ x \notin S
      OBVIOUS
  <2>4. x - 1 \in 0..n /\ x - 1 \notin T /\ (x - 1) + 1 = x
      BY <2>2, <2>3
  <2>5. x - 1 \in S
      BY <2>4
  <2> QED BY <2>3, <2>4, <2>5
<1> QED BY <1>1, <1>2


\* What stays of the first n jobs is a function of n that the recursion describes.
Keeps(seq, doomed, n, f) ==
    /\ f = [k \in 0..n |-> f[k]]
    /\ f[0] = <<>>
    /\ \A k \in 1..n : f[k] = IF seq[k] \in doomed THEN f[k - 1] ELSE Append(f[k - 1], seq[k])

LEMMA KeepsExists ==
    ASSUME NEW seq, Len(seq) \in Nat, NEW doomed
    PROVE  \E f : Keeps(seq, doomed, Len(seq), f)
<1> DEFINE S == {n \in 0..Len(seq) : \E f : Keeps(seq, doomed, n, f)}
<1>1. 0 \in S
  <2>1. Keeps(seq, doomed, 0, [k \in 0..0 |-> <<>>])
      BY DEF Keeps
  <2> QED BY <2>1
<1>2. ASSUME NEW n \in 0..Len(seq), n + 1 <= Len(seq), n \in S
      PROVE  n + 1 \in S
  <2>1. PICK f : Keeps(seq, doomed, n, f)
      BY <1>2
  <2> DEFINE last == IF seq[n + 1] \in doomed THEN f[n] ELSE Append(f[n], seq[n + 1])
             g == [k \in 0..(n + 1) |-> IF k = n + 1 THEN last ELSE f[k]]
  <2>2. g[n + 1] = last /\ \A k \in 0..n : g[k] = f[k]
      OBVIOUS
  <2>3. g = [k \in 0..(n + 1) |-> g[k]]
      OBVIOUS
  <2>4. \A k \in 1..(n + 1) : g[k] = IF seq[k] \in doomed THEN g[k - 1] ELSE Append(g[k - 1], seq[k])
    <3> SUFFICES ASSUME NEW k \in 1..(n + 1)
                 PROVE  g[k] = IF seq[k] \in doomed THEN g[k - 1] ELSE Append(g[k - 1], seq[k])
        OBVIOUS
    <3>1. CASE k = n + 1
      <4>1. g[k - 1] = f[n]
          BY <3>1, <2>2
      <4> QED BY <3>1, <4>1, <2>2
    <3>2. CASE k \in 1..n
      <4>1. g[k - 1] = f[k - 1] /\ g[k] = f[k]
          BY <3>2, <2>2
      <4> QED BY <4>1, <3>2, <2>1 DEF Keeps
    <3> QED BY <3>1, <3>2
  <2>5. g[0] = <<>>
      BY <2>1, <2>2 DEF Keeps
  <2>6. Keeps(seq, doomed, n + 1, g)
    <3> HIDE DEF g
    <3> QED BY <2>3, <2>4, <2>5 DEF Keeps
  <2>7. n + 1 \in 0..Len(seq)
      BY <1>2
  <2> HIDE DEF g
  <2> QED BY <2>6, <2>7
<1>3. 0..Len(seq) \subseteq S
  <2> HIDE DEF S
  <2> QED BY <1>1, <1>2, Induction
<1> QED BY <1>3

LEMMA WithoutKeeps ==
    ASSUME NEW seq, Len(seq) \in Nat, NEW doomed
    PROVE  \E f : Keeps(seq, doomed, Len(seq), f) /\ Without(seq, doomed) = f[Len(seq)]
<1> DEFINE Rule(f) == f = [n \in 0..Len(seq) |->
                             IF n = 0 THEN <<>>
                             ELSE IF seq[n] \in doomed THEN f[n - 1]
                             ELSE Append(f[n - 1], seq[n])]
           stay == CHOOSE f : Rule(f)
<1>1. Without(seq, doomed) = stay[Len(seq)]
    BY DEF Without
<1>2. PICK f : Keeps(seq, doomed, Len(seq), f)
    BY KeepsExists
<1>3. Rule(f)
  <2>1. \A n \in 0..Len(seq) : f[n] = IF n = 0 THEN <<>>
                             ELSE IF seq[n] \in doomed THEN f[n - 1]
                             ELSE Append(f[n - 1], seq[n])
    <3>1. \A n \in 0..Len(seq) : n = 0 \/ n \in 1..Len(seq)
        OBVIOUS
    <3>2. f[0] = <<>> /\ \A n \in 1..Len(seq) : f[n] =
             IF seq[n] \in doomed THEN f[n - 1] ELSE Append(f[n - 1], seq[n])
        BY <1>2 DEF Keeps
    <3>3. \A n \in 1..Len(seq) : n # 0
        OBVIOUS
    <3> QED BY <3>1, <3>2, <3>3
  <2>2. f = [n \in 0..Len(seq) |-> f[n]]
      BY <1>2 DEF Keeps
  <2> QED BY <2>1, <2>2
<1>4. Rule(stay)
  <2> HIDE DEF Rule
  <2> QED BY <1>3
<1>5. Keeps(seq, doomed, Len(seq), stay)
  <2> HIDE DEF stay
  <2>1. \A n \in 0..Len(seq) : stay[n] = IF n = 0 THEN <<>>
                             ELSE IF seq[n] \in doomed THEN stay[n - 1]
                             ELSE Append(stay[n - 1], seq[n])
      BY <1>4
  <2>2. stay = [n \in 0..Len(seq) |-> stay[n]]
      BY <1>4
  <2>3. stay[0] = <<>>
      BY <2>1
  <2>4. \A n \in 1..Len(seq) : n \in 0..Len(seq) /\ n # 0
      OBVIOUS
  <2>5. \A n \in 1..Len(seq) : stay[n] = IF seq[n] \in doomed THEN stay[n - 1]
                                        ELSE Append(stay[n - 1], seq[n])
      BY <2>1, <2>4
  <2> QED BY <2>2, <2>3, <2>5 DEF Keeps
<1> QED BY <1>1, <1>5

\* The n-th stage is a subsequence of the first n jobs, with none of the doomed.
Picks(seq, doomed, n, stay, at) ==
    /\ at \in [1..Len(stay) -> 1..n]
    /\ \A k \in 1..Len(stay) : stay[k] = seq[at[k]] /\ stay[k] \notin doomed /\ k <= at[k]
    /\ \A j, k \in 1..Len(stay) : j < k => at[j] < at[k]
    /\ \A i \in 1..n : seq[i] \notin doomed => \E k \in 1..Len(stay) : at[k] = i
    /\ Len(stay) <= n
    /\ (\E i \in 1..n : seq[i] \in doomed) => Len(stay) < n

LEMMA WithoutPicks ==
    ASSUME NEW T, NEW seq \in Seq(T), NEW doomed
    PROVE  /\ Without(seq, doomed) \in Seq(T)
           /\ \E at : Picks(seq, doomed, Len(seq), Without(seq, doomed), at)
<1>1. PICK f : Keeps(seq, doomed, Len(seq), f) /\ Without(seq, doomed) = f[Len(seq)]
    BY WithoutKeeps
<1> DEFINE S == {n \in 0..Len(seq) : f[n] \in Seq(T) /\ \E at : Picks(seq, doomed, n, f[n], at)}
<1>2. 0 \in S
  <2>1. f[0] = <<>> /\ <<>> \in Seq(T) /\ 0 \in 0..Len(seq)
      BY <1>1 DEF Keeps
  <2>2. Picks(seq, doomed, 0, <<>>, <<>>)
    <3>1. Len(<<>>) = 0 /\ 1..0 = {}
        OBVIOUS
    <3>2. <<>> \in [{} -> {}]
        OBVIOUS
    <3> QED BY <3>1, <3>2 DEF Picks
  <2>3. f[0] \in Seq(T) /\ \E at : Picks(seq, doomed, 0, f[0], at)
      BY <2>1, <2>2
  <2> QED BY <2>1, <2>3
<1>3. ASSUME NEW n \in 0..Len(seq), n + 1 <= Len(seq), n \in S
      PROVE  n + 1 \in S
  <2>1. f[n + 1] = IF seq[n + 1] \in doomed THEN f[n] ELSE Append(f[n], seq[n + 1])
    <3>1. n + 1 \in 1..Len(seq) /\ (n + 1) - 1 = n
        BY <1>3
    <3>2. \A k \in 1..Len(seq) : f[k] =
             IF seq[k] \in doomed THEN f[k - 1] ELSE Append(f[k - 1], seq[k])
        BY <1>1 DEF Keeps
    <3> QED BY <3>1, <3>2
  <2>2. PICK at : Picks(seq, doomed, n, f[n], at)
      BY <1>3
  <2>3. f[n] \in Seq(T) /\ Len(f[n]) \in Nat
      BY <1>3
  <2>4. CASE seq[n + 1] \in doomed
    <3>1. f[n + 1] = f[n]
        BY <2>1, <2>4
    <3>2. Picks(seq, doomed, n + 1, f[n], at)
      <4> DEFINE g == f[n]
      <4> HIDE DEF g
      <4>1. Len(g) \in Nat /\ Picks(seq, doomed, n, g, at)
          BY <2>2, <2>3 DEF g
      <4>2. at \in [1..Len(g) -> 1..(n + 1)] /\ Len(g) <= n + 1 /\ Len(g) < n + 1
          BY <4>1 DEF Picks
      <4>3. \A i \in 1..(n + 1) : seq[i] \notin doomed => \E k \in 1..Len(g) : at[k] = i
        <5>1. \A i \in 1..(n + 1) : seq[i] \notin doomed => i \in 1..n
            BY <2>4
        <5> QED BY <5>1, <4>1 DEF Picks
      <4>4. Picks(seq, doomed, n + 1, g, at)
          BY <4>1, <4>2, <4>3 DEF Picks
      <4> QED BY <4>4 DEF g
    <3> QED BY <3>1, <3>2, <2>3, <1>3
  <2>5. CASE seq[n + 1] \notin doomed
    <3> DEFINE m == Len(f[n])
               at2 == [k \in 1..(m + 1) |-> IF k = m + 1 THEN n + 1 ELSE at[k]]
    <3>1. f[n + 1] = Append(f[n], seq[n + 1]) /\ seq[n + 1] \in T
        BY <2>1, <2>5, <1>3
    <3>2. /\ f[n + 1] \in Seq(T) /\ Len(f[n + 1]) = m + 1
          /\ f[n + 1][m + 1] = seq[n + 1]
          /\ \A k \in 1..m : f[n + 1][k] = f[n][k]
        BY <3>1, <2>3
    <3>3. at2[m + 1] = n + 1 /\ \A k \in 1..m : at2[k] = at[k]
        BY <2>3
    <3>4. at2 \in [1..(m + 1) -> 1..(n + 1)]
      <4>1. \A k \in 1..m : at[k] \in 1..n
          BY <2>2 DEF Picks
      <4> QED BY <4>1, <2>3
    <3>5. \A k \in 1..(m + 1) : f[n + 1][k] = seq[at2[k]] /\ f[n + 1][k] \notin doomed /\ k <= at2[k]
      <4> HIDE DEF at2
      <4>1. \A k \in 1..m : f[n + 1][k] = seq[at2[k]] /\ f[n + 1][k] \notin doomed /\ k <= at2[k]
          BY <3>2, <3>3, <2>2 DEF Picks
      <4>2. m <= n
          BY <2>2 DEF Picks
      <4>3. f[n + 1][m + 1] = seq[at2[m + 1]] /\ f[n + 1][m + 1] \notin doomed /\ m + 1 <= at2[m + 1]
          BY <3>2, <3>3, <2>5, <4>2, <2>3
      <4>4. \A k \in 1..(m + 1) : k \in 1..m \/ k = m + 1
          BY <2>3
      <4> QED BY <4>1, <4>3, <4>4
    <3>6. \A j, k \in 1..(m + 1) : j < k => at2[j] < at2[k]
      <4> HIDE DEF at2
      <4>1. \A k \in 1..m : at[k] \in 1..n
          BY <2>2 DEF Picks
      <4>2. \A j, k \in 1..m : j < k => at2[j] < at2[k]
          BY <3>3, <2>2 DEF Picks
      <4>3. \A j \in 1..m : at2[j] < at2[m + 1]
          BY <4>1, <3>3
      <4> QED BY <4>2, <4>3, <2>3
    <3>7. \A i \in 1..(n + 1) : seq[i] \notin doomed => \E k \in 1..(m + 1) : at2[k] = i
      <4> HIDE DEF at2
      <4>1. \A i \in 1..n : seq[i] \notin doomed => \E k \in 1..m : at2[k] = i
          BY <3>3, <2>2 DEF Picks
      <4>2. m + 1 \in 1..(m + 1) /\ \A k \in 1..m : k \in 1..(m + 1)
          BY <2>3
      <4> QED BY <4>1, <4>2, <3>3
    <3>8. m + 1 <= n + 1 /\ ((\E i \in 1..(n + 1) : seq[i] \in doomed) => m + 1 < n + 1)
      <4>1. m <= n /\ ((\E i \in 1..n : seq[i] \in doomed) => m < n)
          BY <2>2 DEF Picks
      <4> QED BY <4>1, <2>5, <2>3
    <3>9. Picks(seq, doomed, n + 1, f[n + 1], at2)
      <4> HIDE DEF at2
      <4> QED BY <3>2, <3>4, <3>5, <3>6, <3>7, <3>8 DEF Picks
    <3> QED BY <3>9, <3>2, <1>3
  <2> QED BY <2>4, <2>5
<1>4. Len(seq) \in S
  <2> HIDE DEF S
  <2>1. 0..Len(seq) \subseteq S
      BY <1>2, <1>3, Induction
  <2> QED BY <2>1
<1> QED BY <1>1, <1>4

-----------------------------------------------------------------------------
(* The invariant                                                           *)

\* Every id was given out, and nothing is of a Lua state that has not begun.
Handed ==
    /\ \A job \in InTransit : job.id < nextId /\ job.generation <= generation
    /\ called \cup cancelled \subseteq 1..(nextId - 1)

\* What is queued is of the present Lua state and may be called; ids rise along
\* the queue, so that it is never longer than the number of ids given out.
Queued ==
    /\ \A job \in Elements(pending) : job.generation = generation /\ job.callback # NoRef
    /\ \A k \in 1..Len(pending) : k <= pending[k].id

\* s_inflight counts every queued request, if not every other one.
Counted == inflight < nextId /\ Len(pending) - nextId < inflight

Holding == \A w \in Workers : worker[w].at = "performing" => worker[w].job \in Job

\* Where the game thread is, with the replies it has swapped out.
Turns ==
    /\ calling # None => /\ calling.id \in called
                         /\ calling.generation = generation
                         /\ calling.callback # NoRef
    /\ pc \in {"drain", "joining", "down"} => calling = None
    /\ pc # "drain" /\ calling = None => batch = <<>>
    /\ pc \notin {"joining", "down"} => generation <= MaxGenerations

HttpInv == HttpConsistent /\ Handed /\ Queued /\ Counted /\ Holding /\ Turns

ArmedIds == IdsOf(Armed)

-----------------------------------------------------------------------------
(* Queues                                                                  *)

LEMMA JobFacts ==
    /\ Ids \subseteq Nat \ {0}
    /\ \A job \in Job : /\ job.id \in Ids /\ job.id \in Nat
                        /\ job.plugin \in Plugins
                        /\ job.callback \in Refs \cup {NoRef}
<1>1. Ids \subseteq Nat \ {0}
    BY HttpConstants DEF Ids
<1> QED BY <1>1 DEF Job

LEMMA ElementsType ==
    ASSUME NEW T, NEW seq \in Seq(T)
    PROVE  /\ Elements(seq) \subseteq T
           /\ Len(seq) \in Nat
           /\ \A k \in 1..Len(seq) : seq[k] \in Elements(seq)
BY DEF Elements

LEMMA NoElements == Elements(<<>>) = {} /\ NoneTwice(<<>>) /\ Len(<<>>) = 0
BY DEF Elements, NoneTwice

LEMMA Pushed ==
    ASSUME NEW T, NEW seq \in Seq(T), NEW x \in T
    PROVE  /\ Append(seq, x) \in Seq(T)
           /\ Len(Append(seq, x)) = Len(seq) + 1
           /\ Append(seq, x)[Len(seq) + 1] = x
           /\ \A k \in 1..Len(seq) : Append(seq, x)[k] = seq[k]
           /\ Elements(Append(seq, x)) = Elements(seq) \cup {x}
<1> DEFINE more == Append(seq, x)
<1>1. /\ more \in Seq(T) /\ Len(more) = Len(seq) + 1
      /\ more[Len(seq) + 1] = x
      /\ \A k \in 1..Len(seq) : more[k] = seq[k]
    OBVIOUS
<1>2. Len(seq) \in Nat
    OBVIOUS
<1> HIDE DEF more
<1>3. Elements(more) = Elements(seq) \cup {x}
    BY <1>1, <1>2 DEF Elements
<1> QED BY <1>1, <1>3 DEF more

LEMMA PushedOnce ==
    ASSUME NEW T, NEW seq \in Seq(T), NEW x \in T,
           NoneTwice(seq), x.id \notin IdsOf(Elements(seq))
    PROVE  NoneTwice(Append(seq, x))
<1> DEFINE more == Append(seq, x)
<1>1. /\ Len(more) = Len(seq) + 1 /\ more[Len(seq) + 1] = x
      /\ \A k \in 1..Len(seq) : more[k] = seq[k]
      /\ Len(seq) \in Nat
    BY Pushed
<1>2. \A k \in 1..Len(seq) : seq[k].id # x.id
    BY DEF Elements, IdsOf
<1> HIDE DEF more
<1>3. \A k \in 1..Len(more) : k \in 1..Len(seq) \/ k = Len(seq) + 1
    BY <1>1
<1>4. NoneTwice(more)
    BY <1>1, <1>2, <1>3 DEF NoneTwice
<1> QED BY <1>4 DEF more

LEMMA Popped ==
    ASSUME NEW T, NEW seq \in Seq(T), seq # <<>>
    PROVE  /\ Head(seq) \in T /\ Tail(seq) \in Seq(T)
           /\ Head(seq) = seq[1]
           /\ Len(seq) \in Nat \ {0} /\ Len(Tail(seq)) = Len(seq) - 1
           /\ \A k \in 1..Len(Tail(seq)) : Tail(seq)[k] = seq[k + 1]
           /\ Elements(seq) = {Head(seq)} \cup Elements(Tail(seq))
<1> DEFINE rest == Tail(seq)
<1>1. /\ Len(seq) \in Nat \ {0} /\ Head(seq) = seq[1] /\ seq[1] \in T
      /\ rest \in Seq(T) /\ Len(rest) = Len(seq) - 1
      /\ \A k \in 1..Len(rest) : rest[k] = seq[k + 1]
    OBVIOUS
<1> HIDE DEF rest
<1>2. \A k \in 1..Len(seq) : k = 1 \/ (k - 1 \in 1..Len(rest) /\ seq[k] = rest[k - 1])
    BY <1>1
<1>3. \A k \in 1..Len(rest) : k + 1 \in 1..Len(seq)
    BY <1>1
<1>4. Elements(seq) = {seq[1]} \cup Elements(rest)
    BY <1>1, <1>2, <1>3 DEF Elements
<1> QED BY <1>1, <1>4 DEF rest

LEMMA PoppedOnce ==
    ASSUME NEW T, NEW seq \in Seq(T), seq # <<>>, NoneTwice(seq)
    PROVE  NoneTwice(Tail(seq)) /\ Head(seq).id \notin IdsOf(Elements(Tail(seq)))
<1> DEFINE rest == Tail(seq)
<1>1. /\ Len(seq) \in Nat \ {0} /\ Head(seq) = seq[1] /\ Len(rest) = Len(seq) - 1
      /\ \A k \in 1..Len(rest) : rest[k] = seq[k + 1]
    BY Popped
<1> HIDE DEF rest
<1>2. \A j, k \in 1..Len(seq) : seq[j].id = seq[k].id => j = k
    BY DEF NoneTwice
<1>3. NoneTwice(rest)
    BY <1>1, <1>2 DEF NoneTwice
<1>4. \A k \in 1..Len(rest) : rest[k].id # seq[1].id
    BY <1>1, <1>2
<1>5. seq[1].id \notin IdsOf(Elements(rest))
    BY <1>4 DEF IdsOf, Elements
<1> QED BY <1>1, <1>3, <1>5 DEF rest

\* A job is known by its id.
LEMMA KnownById ==
    ASSUME NEW seq, NoneTwice(seq), NEW a \in Elements(seq), NEW b \in Elements(seq), a.id = b.id
    PROVE  a = b
BY DEF NoneTwice, Elements

\* What Without does to a queue.
LEMMA WithoutFacts ==
    ASSUME NEW T, NEW seq \in Seq(T), NEW doomed
    PROVE  /\ Without(seq, doomed) \in Seq(T)
           /\ Elements(Without(seq, doomed)) = Elements(seq) \ doomed
           /\ Len(Without(seq, doomed)) <= Len(seq)
           /\ Elements(seq) \cap doomed # {} => Len(Without(seq, doomed)) < Len(seq)
           /\ NoneTwice(seq) => NoneTwice(Without(seq, doomed))
           /\ (\A k \in 1..Len(seq) : k <= seq[k].id /\ seq[k].id \in Nat)
              => \A k \in 1..Len(Without(seq, doomed)) : k <= Without(seq, doomed)[k].id
<1> DEFINE stay == Without(seq, doomed)
<1>1. stay \in Seq(T) /\ \E at : Picks(seq, doomed, Len(seq), stay, at)
    BY WithoutPicks
<1> HIDE DEF stay
<1>2. PICK at : Picks(seq, doomed, Len(seq), stay, at)
    BY <1>1
<1>3. Len(stay) \in Nat /\ Len(seq) \in Nat
    BY <1>1
<1>4. \A k \in 1..Len(stay) : /\ at[k] \in 1..Len(seq) /\ stay[k] = seq[at[k]]
                              /\ stay[k] \notin doomed /\ k <= at[k]
    BY <1>2 DEF Picks
<1>5. \A i \in 1..Len(seq) : seq[i] \notin doomed => \E k \in 1..Len(stay) : at[k] = i
    BY <1>2 DEF Picks
<1>6. Elements(stay) = Elements(seq) \ doomed
  <2>1. ASSUME NEW x \in Elements(stay) PROVE x \in Elements(seq) \ doomed
    <3>1. PICK k \in 1..Len(stay) : x = stay[k]
        BY DEF Elements
    <3>2. x = seq[at[k]] /\ at[k] \in 1..Len(seq) /\ x \notin doomed
        BY <3>1, <1>4
    <3> QED BY <3>2 DEF Elements
  <2>2. ASSUME NEW x \in Elements(seq), x \notin doomed PROVE x \in Elements(stay)
    <3>1. PICK i \in 1..Len(seq) : x = seq[i]
        BY DEF Elements
    <3>2. PICK k \in 1..Len(stay) : at[k] = i
        BY <3>1, <2>2, <1>5
    <3>3. x = stay[k]
        BY <3>1, <3>2, <1>4
    <3> QED BY <3>3 DEF Elements
  <2> QED BY <2>1, <2>2
<1>7. Len(stay) <= Len(seq) /\ (Elements(seq) \cap doomed # {} => Len(stay) < Len(seq))
    BY <1>2 DEF Picks, Elements
<1>8. NoneTwice(seq) => NoneTwice(stay)
  <2> SUFFICES ASSUME NoneTwice(seq), NEW j \in 1..Len(stay), NEW k \in 1..Len(stay),
                      stay[j].id = stay[k].id
               PROVE  j = k
      BY DEF NoneTwice
  <2>1. at[j] = at[k]
    <3>1. \A m, n \in 1..Len(seq) : seq[m].id = seq[n].id => m = n
        BY DEF NoneTwice
    <3>2. at[j] \in 1..Len(seq) /\ at[k] \in 1..Len(seq)
        BY <1>4
    <3>3. seq[at[j]].id = seq[at[k]].id
        BY <1>4
    <3> QED BY <3>1, <3>2, <3>3
  <2>2. (j < k => at[j] < at[k]) /\ (k < j => at[k] < at[j])
      BY <1>2 DEF Picks
  <2> QED BY <2>1, <2>2, <1>3, <1>4
<1>9. (\A k \in 1..Len(seq) : k <= seq[k].id /\ seq[k].id \in Nat)
      => \A k \in 1..Len(stay) : k <= stay[k].id
  <2> SUFFICES ASSUME \A k \in 1..Len(seq) : k <= seq[k].id /\ seq[k].id \in Nat,
                      NEW k \in 1..Len(stay)
               PROVE  k <= stay[k].id
      OBVIOUS
  <2>1. at[k] \in 1..Len(seq) /\ stay[k] = seq[at[k]] /\ k <= at[k]
      BY <1>4
  <2>2. at[k] <= stay[k].id /\ stay[k].id \in Nat
      BY <2>1
  <2> QED BY <2>1, <2>2, <1>3
<1> QED BY <1>1, <1>6, <1>7, <1>8, <1>9 DEF stay

\* What Disarmed does to a queue.
LEMMA DisarmedFacts ==
    ASSUME NEW seq \in Seq(Job), NEW unwanted
    PROVE  /\ Disarmed(seq, unwanted) \in Seq(Job)
           /\ \A job \in Elements(Disarmed(seq, unwanted)) :
                 \/ job \in Elements(seq) \ unwanted
                 \/ /\ job.callback = NoRef
                    /\ \E old \in Elements(seq) \cap unwanted :
                          /\ job.id = old.id /\ job.plugin = old.plugin
                          /\ job.generation = old.generation
           /\ Elements(seq) \ unwanted \subseteq Elements(Disarmed(seq, unwanted))
           /\ IdsOf(Elements(Disarmed(seq, unwanted))) = IdsOf(Elements(seq))
           /\ NoneTwice(seq) => NoneTwice(Disarmed(seq, unwanted))
<1> DEFINE new == Disarmed(seq, unwanted)
<1>1. \A job \in Job : LET mute == [job EXCEPT !.callback = NoRef] IN
          /\ mute \in Job /\ mute.id = job.id /\ mute.plugin = job.plugin
          /\ mute.generation = job.generation /\ mute.callback = NoRef
    BY DEF Job
<1>2. Len(seq) \in Nat /\ \A k \in 1..Len(seq) : seq[k] \in Job
    OBVIOUS
<1>3. /\ new = [k \in 1..Len(seq) |-> new[k]]
      /\ \A k \in 1..Len(seq) :
           new[k] = IF seq[k] \in unwanted THEN [seq[k] EXCEPT !.callback = NoRef] ELSE seq[k]
    BY DEF Disarmed
<1> HIDE DEF new
<1>4. \A k \in 1..Len(seq) :
         /\ new[k] \in Job /\ new[k].id = seq[k].id
         /\ seq[k] \notin unwanted => new[k] = seq[k]
         /\ seq[k] \in unwanted => /\ new[k].callback = NoRef
                                   /\ new[k].plugin = seq[k].plugin
                                   /\ new[k].generation = seq[k].generation
    BY <1>1, <1>2, <1>3
<1>5. new \in Seq(Job) /\ Len(new) = Len(seq)
    BY <1>2, <1>3, <1>4
<1>6. \A job \in Elements(new) :
                 \/ job \in Elements(seq) \ unwanted
                 \/ /\ job.callback = NoRef
                    /\ \E old \in Elements(seq) \cap unwanted :
                          /\ job.id = old.id /\ job.plugin = old.plugin
                          /\ job.generation = old.generation
    BY <1>4, <1>5 DEF Elements
<1>7. Elements(seq) \ unwanted \subseteq Elements(new)
    BY <1>4, <1>5 DEF Elements
<1>8. IdsOf(Elements(new)) = IdsOf(Elements(seq))
    BY <1>4, <1>5 DEF Elements, IdsOf
<1>9. NoneTwice(seq) => NoneTwice(new)
    BY <1>4, <1>5 DEF NoneTwice
<1> QED BY <1>5, <1>6, <1>7, <1>8, <1>9 DEF new

-----------------------------------------------------------------------------
(* The pool of workers                                                     *)

Pools == [Workers -> [at : WorkerStates, job : Job \cup {None}]]

Wire(pool) == {pool[w].job : w \in {v \in Workers : pool[v].at = "performing"}}

HeldOnce(pool) ==
    \A v, w \in Workers :
        /\ pool[v].at = "performing" /\ pool[w].at = "performing"
        /\ pool[v].job.id = pool[w].job.id
        => v = w

Holds(pool) == \A w \in Workers : pool[w].at = "performing" => pool[w].job \in Job

\* A pool in which nobody takes a request up or lays one down.
LEMMA SameWire ==
    ASSUME NEW old, NEW new,
           \A w \in Workers : /\ new[w].at = "performing" <=> old[w].at = "performing"
                              /\ new[w].at = "performing" => new[w].job = old[w].job
    PROVE  /\ Wire(new) = Wire(old)
           /\ HeldOnce(old) => HeldOnce(new)
           /\ Holds(old) => Holds(new)
<1>1. Wire(new) = Wire(old)
    BY DEF Wire
<1>2. HeldOnce(old) => HeldOnce(new)
    BY DEF HeldOnce
<1>3. Holds(old) => Holds(new)
    BY DEF Holds
<1> QED BY <1>1, <1>2, <1>3

LEMMA WireType == ASSUME NEW pool, Holds(pool) PROVE Wire(pool) \subseteq Job
BY DEF Wire, Holds

LEMMA TakenUp ==
    ASSUME NEW pool \in Pools, NEW w \in Workers, pool[w].at = "ready", NEW job \in Job
    PROVE  LET new == [pool EXCEPT ![w] = [at |-> "performing", job |-> job]] IN
           /\ new \in Pools
           /\ Wire(new) = Wire(pool) \cup {job}
           /\ Holds(pool) => Holds(new)
           /\ HeldOnce(pool) /\ job.id \notin IdsOf(Wire(pool)) => HeldOnce(new)
<1> DEFINE new == [pool EXCEPT ![w] = [at |-> "performing", job |-> job]]
<1>1. /\ new \in Pools
      /\ new[w].at = "performing" /\ new[w].job = job
      /\ \A v \in Workers \ {w} : new[v] = pool[v]
    BY DEF Pools, WorkerStates
<1> HIDE DEF new
<1>2. Wire(new) = Wire(pool) \cup {job}
    BY <1>1 DEF Wire
<1>3. Holds(pool) => Holds(new)
    BY <1>1 DEF Holds
<1>4. ASSUME HeldOnce(pool), job.id \notin IdsOf(Wire(pool)) PROVE HeldOnce(new)
  <2>1. \A v \in Workers \ {w} : pool[v].at = "performing" => pool[v].job.id # job.id
      BY <1>4 DEF IdsOf, Wire
  <2> QED BY <1>1, <1>4, <2>1 DEF HeldOnce
<1>5. /\ new \in Pools
      /\ Wire(new) = Wire(pool) \cup {job}
      /\ Holds(pool) => Holds(new)
      /\ HeldOnce(pool) /\ job.id \notin IdsOf(Wire(pool)) => HeldOnce(new)
    BY <1>1, <1>2, <1>3, <1>4
<1> QED BY <1>5 DEF new

LEMMA LaidDown ==
    ASSUME NEW pool \in Pools, NEW w \in Workers, pool[w].at = "performing",
           Holds(pool), HeldOnce(pool)
    PROVE  LET new == [pool EXCEPT ![w] = [at |-> "ready", job |-> None]] IN
           /\ new \in Pools
           /\ pool[w].job \in Job
           /\ Wire(pool) = Wire(new) \cup {pool[w].job}
           /\ pool[w].job.id \notin IdsOf(Wire(new))
           /\ Holds(new)
           /\ HeldOnce(new)
<1> DEFINE new == [pool EXCEPT ![w] = [at |-> "ready", job |-> None]]
<1>1. /\ new \in Pools
      /\ new[w].at = "ready"
      /\ \A v \in Workers \ {w} : new[v] = pool[v]
    BY DEF Pools, WorkerStates
<1> HIDE DEF new
<1>2. Wire(pool) = Wire(new) \cup {pool[w].job}
    BY <1>1 DEF Wire
<1>3. Holds(new) /\ HeldOnce(new) /\ pool[w].job \in Job
    BY <1>1 DEF Holds, HeldOnce
<1>4. \A v \in Workers : new[v].at = "performing" => new[v].job.id # pool[w].job.id
    BY <1>1 DEF HeldOnce
<1>5. pool[w].job.id \notin IdsOf(Wire(new))
    BY <1>4 DEF IdsOf, Wire
<1> QED BY <1>1, <1>2, <1>3, <1>5 DEF new

\* Starting the pool, waking one worker and waking them all take nothing up.
LEMMA StartedPool ==
    ASSUME worker \in Pools
    PROVE  /\ Started \in Pools
           /\ \A w \in Workers : /\ Started[w].at = "performing" <=> worker[w].at = "performing"
                                 /\ Started[w].at = "performing" => Started[w].job = worker[w].job
<1>1. CASE \A w \in Workers : worker[w].at = "absent"
    BY <1>1 DEF Started, Pools, WorkerStates
<1>2. CASE ~ \A w \in Workers : worker[w].at = "absent"
    BY <1>2 DEF Started
<1> QED BY <1>1, <1>2

LEMMA NotifiedPool ==
    ASSUME NEW pool \in Pools, NEW new \in NotifyOne(pool)
    PROVE  /\ new \in Pools
           /\ \A w \in Workers : /\ new[w].at = "performing" <=> pool[w].at = "performing"
                                 /\ new[w].at = "performing" => new[w].job = pool[w].job
<1>1. CASE \E w \in Workers : pool[w].at = "waiting"
  <2>1. PICK w \in Workers : pool[w].at = "waiting" /\ new = [pool EXCEPT ![w].at = "ready"]
      BY <1>1 DEF NotifyOne
  <2>2. pool[w] \in [at : WorkerStates, job : Job \cup {None}]
      BY DEF Pools
  <2>3. /\ new = [pool EXCEPT ![w] = [pool[w] EXCEPT !.at = "ready"]]
        /\ [pool[w] EXCEPT !.at = "ready"] \in [at : WorkerStates, job : Job \cup {None}]
        /\ [pool[w] EXCEPT !.at = "ready"].at = "ready"
      BY <2>1, <2>2 DEF WorkerStates, Pools
  <2>4. new[w].at = "ready" /\ \A v \in Workers \ {w} : new[v] = pool[v]
      BY <2>3 DEF Pools
  <2> QED BY <2>1, <2>3, <2>4 DEF Pools
<1>2. CASE ~ \E w \in Workers : pool[w].at = "waiting"
    BY <1>2 DEF NotifyOne
<1> QED BY <1>1, <1>2

LEMMA WokenPool ==
    ASSUME NEW pool \in Pools
    PROVE  LET new == [w \in Workers |-> IF pool[w].at = "waiting"
                                         THEN [pool[w] EXCEPT !.at = "ready"] ELSE pool[w]] IN
           /\ new \in Pools
           /\ \A w \in Workers : /\ new[w].at = "performing" <=> pool[w].at = "performing"
                                 /\ new[w].at = "performing" => new[w].job = pool[w].job
<1>1. \A w \in Workers : pool[w] \in [at : WorkerStates, job : Job \cup {None}]
    BY DEF Pools
<1>2. \A x \in [at : WorkerStates, job : Job \cup {None}] :
         /\ [x EXCEPT !.at = "ready"] \in [at : WorkerStates, job : Job \cup {None}]
         /\ [x EXCEPT !.at = "ready"].at = "ready"
    BY DEF WorkerStates
<1> QED BY <1>1, <1>2 DEF Pools

-----------------------------------------------------------------------------
(* The places of a request                                                 *)

Apart(a, b, c, d, e) ==
    /\ a \cap b = {} /\ a \cap c = {} /\ a \cap d = {} /\ a \cap e = {}
    /\ b \cap c = {} /\ b \cap d = {} /\ b \cap e = {}
    /\ c \cap d = {} /\ c \cap e = {} /\ d \cap e = {}

LEMMA FivePlaces ==
    ASSUME NEW a, NEW b, NEW c, NEW d, NEW e
    PROVE  (\A i, j \in DOMAIN <<a, b, c, d, e>> :
               i # j => <<a, b, c, d, e>>[i] \cap <<a, b, c, d, e>>[j] = {})
           <=> Apart(a, b, c, d, e)
<1> DEFINE p == <<a, b, c, d, e>>
<1>1. DOMAIN p = 1..5 /\ p[1] = a /\ p[2] = b /\ p[3] = c /\ p[4] = d /\ p[5] = e
    OBVIOUS
<1> HIDE DEF p
<1>2. ASSUME \A i, j \in DOMAIN p : i # j => p[i] \cap p[j] = {} PROVE Apart(a, b, c, d, e)
    BY <1>1, <1>2 DEF Apart
<1>3. ASSUME Apart(a, b, c, d, e) PROVE \A i, j \in DOMAIN p : i # j => p[i] \cap p[j] = {}
  <2>1. \A i \in 1..5 : i = 1 \/ i = 2 \/ i = 3 \/ i = 4 \/ i = 5
      OBVIOUS
  <2> QED BY <1>1, <1>3, <2>1 DEF Apart
<1> QED BY <1>2, <1>3 DEF p

LEMMA Handover ==
    ASSUME NEW a, NEW b, NEW c, NEW d, NEW e, NEW less, NEW x,
           Apart(a, b, c, d, e), b = less \cup {x}, x \notin less
    PROVE  Apart(a, less, c \cup {x}, d, e)
BY DEF Apart

LEMMA OnePlaceParts ==
    OnePlace <=> /\ NoneTwice(pending) /\ NoneTwice(done) /\ NoneTwice(batch)
                 /\ HeldOnce(worker)
                 /\ Apart(IdsOf(Elements(pending)), IdsOf(Wire(worker)), IdsOf(Elements(done)),
                          IdsOf(Elements(batch)), called)
<1>1. OnTheWire = Wire(worker)
    BY DEF OnTheWire, Wire
<1> QED BY <1>1, FivePlaces DEF OnePlace, Places, HeldOnce

LEMMA OnePlacePartsNext ==
    OnePlace' <=> /\ NoneTwice(pending') /\ NoneTwice(done') /\ NoneTwice(batch')
                  /\ HeldOnce(worker')
                  /\ Apart(IdsOf(Elements(pending')), IdsOf(Wire(worker')), IdsOf(Elements(done')),
                           IdsOf(Elements(batch')), called')
<1>1. OnTheWire' = Wire(worker')
    BY DEF OnTheWire, Wire
<1> QED BY <1>1, FivePlaces DEF OnePlace, Places, HeldOnce

LEMMA TransitParts ==
    /\ InTransit = Elements(pending) \cup Wire(worker) \cup Elements(done) \cup Elements(batch)
    /\ InTransit' = Elements(pending') \cup Wire(worker') \cup Elements(done') \cup Elements(batch')
BY DEF InTransit, OnTheWire, Wire

\* Requests in transit are known by their ids, and none has been called.
LEMMA Unique ==
    ASSUME OnePlace
    PROVE  /\ \A a, b \in InTransit : a.id = b.id => a = b
           /\ \A a \in InTransit : a.id \notin called
<1> DEFINE P == Elements(pending)
           W == Wire(worker)
           D == Elements(done)
           B == Elements(batch)
<1>1. /\ NoneTwice(pending) /\ NoneTwice(done) /\ NoneTwice(batch) /\ HeldOnce(worker)
      /\ Apart(IdsOf(P), IdsOf(W), IdsOf(D), IdsOf(B), called)
    BY OnePlaceParts
<1>2. \A a, b \in P : a.id = b.id => a = b
    BY <1>1, KnownById
<1>3. \A a, b \in D : a.id = b.id => a = b
    BY <1>1, KnownById
<1>4. \A a, b \in B : a.id = b.id => a = b
    BY <1>1, KnownById
<1>5. \A a, b \in W : a.id = b.id => a = b
    BY <1>1 DEF HeldOnce, Wire
<1>6. InTransit = P \cup W \cup D \cup B
    BY TransitParts
<1> HIDE DEF P, W, D, B
<1>7. /\ \A a \in P : a.id \in IdsOf(P)
      /\ \A a \in W : a.id \in IdsOf(W)
      /\ \A a \in D : a.id \in IdsOf(D)
      /\ \A a \in B : a.id \in IdsOf(B)
    BY DEF IdsOf
<1>8. \A a \in InTransit : a.id \notin called
    BY <1>1, <1>6, <1>7 DEF Apart
<1>9. \A a, b \in InTransit : a.id = b.id => a = b
    BY <1>1, <1>2, <1>3, <1>4, <1>5, <1>6, <1>7 DEF Apart
<1> QED BY <1>8, <1>9

-----------------------------------------------------------------------------
(* What a step may leave alone                                             *)

LEMMA InvariantParts ==
    HttpInv <=> /\ HttpTypeOK /\ OnePlace /\ ArmedHasClosure /\ CancelIsFinal
             /\ Handed /\ Queued /\ Counted /\ Holding /\ Turns
BY DEF HttpInv, HttpConsistent

LEMMA InvariantPartsNext ==
    HttpInv' <=> /\ HttpTypeOK' /\ OnePlace' /\ ArmedHasClosure' /\ CancelIsFinal'
              /\ Handed' /\ Queued' /\ Counted' /\ Holding' /\ Turns'
BY DEF HttpInv, HttpConsistent

LEMMA TransitType == ASSUME HttpTypeOK, Holding PROVE InTransit \subseteq Job
<1>1. Holds(worker)
    BY DEF Holding, Holds
<1>2. Wire(worker) \subseteq Job
    BY <1>1, WireType
<1>3. Elements(pending) \subseteq Job /\ Elements(done) \subseteq Job /\ Elements(batch) \subseteq Job
    BY ElementsType DEF HttpTypeOK
<1> QED BY <1>2, <1>3, TransitParts

\* A step that only moves requests about, or loses some.
LEMMA QuietStep ==
    ASSUME ArmedHasClosure, CancelIsFinal, Handed,
           UNCHANGED <<nextId, generation, registry, calling, called, cancelled, tainted>>,
           InTransit' \subseteq InTransit
    PROVE  ArmedHasClosure' /\ CancelIsFinal' /\ Handed' /\ Armed' \subseteq Armed
<1>1. Armed' \subseteq Armed
    BY DEF Armed
<1>2. CancelIsFinal'
    BY <1>1 DEF CancelIsFinal
<1>3. Handed'
    BY DEF Handed
<1>4. ArmedHasClosure'
  <2>1. CASE tainted
      BY <2>1 DEF ArmedHasClosure
  <2>2. CASE ClosuresAreTheirOwn
    <3>1. ClosuresAreTheirOwn'
        BY <1>1, <2>2 DEF ClosuresAreTheirOwn
    <3> QED BY <3>1 DEF ArmedHasClosure
  <2> QED BY <2>1, <2>2 DEF ArmedHasClosure
<1> QED BY <1>1, <1>2, <1>3, <1>4

\* A step that touches neither the queues nor what is on the wire.
LEMMA SamePlaces ==
    ASSUME OnePlace, Holding, UNCHANGED <<pending, done, batch, called>>,
           \A w \in Workers :
              /\ worker'[w].at = "performing" <=> worker[w].at = "performing"
              /\ worker'[w].at = "performing" => worker'[w].job = worker[w].job
    PROVE  OnePlace' /\ Holding' /\ InTransit' = InTransit
<1>1. /\ Wire(worker') = Wire(worker)
      /\ HeldOnce(worker) => HeldOnce(worker')
      /\ Holds(worker) => Holds(worker')
    BY SameWire
<1>2. Holding'
    BY <1>1 DEF Holding, Holds
<1>3. OnePlace'
    BY <1>1, OnePlaceParts, OnePlacePartsNext
<1>4. InTransit' = InTransit
    BY <1>1, TransitParts
<1> QED BY <1>2, <1>3, <1>4

-----------------------------------------------------------------------------
(* Every step keeps the invariant: the workers                             *)

LEMMA TakeStep == ASSUME HttpInv, NEW w \in Workers, Take(w) PROVE HttpInv' /\ Armed' \subseteq Armed
<1>1. /\ HttpTypeOK /\ OnePlace /\ ArmedHasClosure /\ CancelIsFinal
      /\ Handed /\ Queued /\ Counted /\ Holding /\ Turns
    BY InvariantParts
<1> DEFINE job == Head(pending)
<1>2. /\ worker[w].at = "ready" /\ pending # <<>>
      /\ worker' = [worker EXCEPT ![w] = [at |-> "performing", job |-> job]]
      /\ pending' = Tail(pending)
      /\ UNCHANGED <<nextId, generation, inflight, done, stopping, registry>>
      /\ UNCHANGED <<pc, target, batch, calling, called, cancelled, abandoned, tainted>>
    BY DEF Take, game, history
<1>3. pending \in Seq(Job) /\ worker \in Pools
    BY <1>1 DEF HttpTypeOK, Pools
<1>4. /\ job \in Job /\ pending' \in Seq(Job)
      /\ Len(pending) \in Nat \ {0} /\ Len(pending') = Len(pending) - 1
      /\ \A k \in 1..Len(pending') : pending'[k] = pending[k + 1]
      /\ Elements(pending) = {job} \cup Elements(pending')
    BY <1>2, <1>3, Popped
<1>5. /\ NoneTwice(pending) /\ NoneTwice(done) /\ NoneTwice(batch) /\ HeldOnce(worker)
      /\ Apart(IdsOf(Elements(pending)), IdsOf(Wire(worker)), IdsOf(Elements(done)),
               IdsOf(Elements(batch)), called)
    BY <1>1, OnePlaceParts
<1>6. NoneTwice(pending') /\ job.id \notin IdsOf(Elements(pending'))
    BY <1>2, <1>3, <1>5, PoppedOnce
<1>7. Holds(worker)
    BY <1>1 DEF Holding, Holds
<1> HIDE DEF job
<1>8. /\ job.id \in IdsOf(Elements(pending))
      /\ IdsOf(Elements(pending)) = IdsOf(Elements(pending')) \cup {job.id}
    BY <1>4 DEF IdsOf
<1>9. job.id \notin IdsOf(Wire(worker))
    BY <1>5, <1>8 DEF Apart
<1>10. /\ worker' \in Pools /\ Wire(worker') = Wire(worker) \cup {job}
       /\ Holds(worker') /\ HeldOnce(worker')
    BY <1>2, <1>3, <1>4, <1>5, <1>7, <1>9, TakenUp
<1>11. IdsOf(Wire(worker')) = IdsOf(Wire(worker)) \cup {job.id}
    BY <1>10 DEF IdsOf
<1>12. OnePlace'
    BY <1>2, <1>5, <1>6, <1>8, <1>10, <1>11, OnePlacePartsNext DEF Apart
<1>13. InTransit' \subseteq InTransit
    BY <1>2, <1>4, <1>10, TransitParts
<1>14. ArmedHasClosure' /\ CancelIsFinal' /\ Handed' /\ Armed' \subseteq Armed
    BY <1>1, <1>2, <1>13, QuietStep
<1>15. Holding'
    BY <1>10 DEF Holding, Holds
<1>16. Queued'
  <2>1. \A k \in 1..Len(pending') : k <= pending'[k].id
    <3>1. \A k \in 1..Len(pending) : k <= pending[k].id /\ pending[k].id \in Nat
        BY <1>1, <1>3, JobFacts DEF Queued
    <3>2. \A k \in 1..Len(pending') : k + 1 \in 1..Len(pending) /\ k <= k + 1
        BY <1>4
    <3> QED BY <1>4, <3>1, <3>2
  <2> QED BY <1>1, <1>2, <1>4, <2>1 DEF Queued
<1>17. Counted'
    BY <1>1, <1>2, <1>4 DEF Counted, HttpTypeOK
<1>18. Turns'
    BY <1>1, <1>2 DEF Turns
<1>19. HttpTypeOK'
    BY <1>1, <1>2, <1>4, <1>10 DEF HttpTypeOK, Pools
<1> QED BY <1>12, <1>14, <1>15, <1>16, <1>17, <1>18, <1>19, InvariantPartsNext

LEMMA PostStep == ASSUME HttpInv, NEW w \in Workers, Post(w) PROVE HttpInv' /\ Armed' \subseteq Armed
<1>1. /\ HttpTypeOK /\ OnePlace /\ ArmedHasClosure /\ CancelIsFinal
      /\ Handed /\ Queued /\ Counted /\ Holding /\ Turns
    BY InvariantParts
<1> DEFINE job == worker[w].job
<1>2. /\ worker[w].at = "performing"
      /\ done' = Append(done, job)
      /\ worker' = [worker EXCEPT ![w] = [at |-> "ready", job |-> None]]
      /\ UNCHANGED <<nextId, generation, inflight, pending, stopping, registry>>
      /\ UNCHANGED <<pc, target, batch, calling, called, cancelled, abandoned, tainted>>
    BY DEF Post, game, history
<1>3. done \in Seq(Job) /\ worker \in Pools /\ Holds(worker)
    BY <1>1 DEF HttpTypeOK, Pools, Holding, Holds
<1>5. /\ NoneTwice(pending) /\ NoneTwice(done) /\ NoneTwice(batch) /\ HeldOnce(worker)
      /\ Apart(IdsOf(Elements(pending)), IdsOf(Wire(worker)), IdsOf(Elements(done)),
               IdsOf(Elements(batch)), called)
    BY <1>1, OnePlaceParts
<1>6. /\ worker' \in Pools /\ job \in Job
      /\ Wire(worker) = Wire(worker') \cup {job}
      /\ job.id \notin IdsOf(Wire(worker'))
      /\ Holds(worker') /\ HeldOnce(worker')
    BY <1>2, <1>3, <1>5, LaidDown
<1> HIDE DEF job
<1>7. /\ done' \in Seq(Job) /\ Elements(done') = Elements(done) \cup {job}
    BY <1>2, <1>3, <1>6, Pushed
<1>8. /\ IdsOf(Wire(worker)) = IdsOf(Wire(worker')) \cup {job.id}
      /\ IdsOf(Elements(done')) = IdsOf(Elements(done)) \cup {job.id}
    BY <1>6, <1>7 DEF IdsOf
<1>9. job.id \notin IdsOf(Elements(done))
    BY <1>5, <1>8 DEF Apart
<1>10. NoneTwice(done')
    BY <1>2, <1>3, <1>5, <1>6, <1>9, PushedOnce
<1>12. OnePlace'
  <2>1. Apart(IdsOf(Elements(pending)), IdsOf(Wire(worker')),
              IdsOf(Elements(done)) \cup {job.id}, IdsOf(Elements(batch)), called)
      BY <1>5, <1>6, <1>8, Handover
  <2> QED BY <1>2, <1>5, <1>6, <1>8, <1>10, <2>1, OnePlacePartsNext
<1>13. InTransit' \subseteq InTransit
    BY <1>2, <1>6, <1>7, TransitParts
<1>14. ArmedHasClosure' /\ CancelIsFinal' /\ Handed' /\ Armed' \subseteq Armed
    BY <1>1, <1>2, <1>13, QuietStep
<1>15. Holding'
    BY <1>6 DEF Holding, Holds
<1>16. Queued' /\ Counted' /\ Turns'
    BY <1>1, <1>2 DEF Queued, Counted, Turns
<1>19. HttpTypeOK'
    BY <1>1, <1>2, <1>6, <1>7 DEF HttpTypeOK, Pools
<1> QED BY <1>12, <1>14, <1>15, <1>16, <1>19, InvariantPartsNext

\* A worker begins to wait or leaves.
LEMMA IdleStep == ASSUME HttpInv, NEW w \in Workers, Wait(w) \/ Exit(w) PROVE HttpInv' /\ Armed' \subseteq Armed
<1>1. /\ HttpTypeOK /\ OnePlace /\ ArmedHasClosure /\ CancelIsFinal
      /\ Handed /\ Queued /\ Counted /\ Holding /\ Turns
    BY InvariantParts
<1>2. PICK at \in {"waiting", "exited"} :
      /\ worker[w].at = "ready"
      /\ worker' = [worker EXCEPT ![w].at = at]
      /\ UNCHANGED <<nextId, generation, inflight, pending, done, stopping, registry>>
      /\ UNCHANGED <<pc, target, batch, calling, called, cancelled, abandoned, tainted>>
    BY DEF Wait, Exit, queues, game, history
<1>3. worker \in Pools /\ worker[w] \in [at : WorkerStates, job : Job \cup {None}]
    BY <1>1 DEF HttpTypeOK, Pools
<1> DEFINE mine == [worker[w] EXCEPT !.at = at]
<1>4. mine \in [at : WorkerStates, job : Job \cup {None}] /\ mine.at = at
    BY <1>3 DEF WorkerStates
<1>5. worker' = [worker EXCEPT ![w] = mine]
    BY <1>2, <1>3 DEF Pools
<1> HIDE DEF mine
<1>6. worker' \in Pools /\ worker'[w].at = at /\ \A v \in Workers \ {w} : worker'[v] = worker[v]
    BY <1>3, <1>4, <1>5 DEF Pools
<1>7. \A v \in Workers : /\ worker'[v].at = "performing" <=> worker[v].at = "performing"
                         /\ worker'[v].at = "performing" => worker'[v].job = worker[v].job
    BY <1>2, <1>6
<1>8. OnePlace' /\ Holding' /\ InTransit' = InTransit
    BY <1>1, <1>2, <1>7, SamePlaces
<1>9. ArmedHasClosure' /\ CancelIsFinal' /\ Handed' /\ Armed' \subseteq Armed
    BY <1>1, <1>2, <1>8, QuietStep
<1>10. Queued' /\ Counted' /\ Turns'
    BY <1>1, <1>2 DEF Queued, Counted, Turns
<1>11. HttpTypeOK'
    BY <1>1, <1>2, <1>6 DEF HttpTypeOK, Pools
<1> QED BY <1>8, <1>9, <1>10, <1>11, InvariantPartsNext

-----------------------------------------------------------------------------
(* Every step keeps the invariant: Lua code                                *)

LEMMA ArmedFacts ==
    ASSUME HttpTypeOK, Holding, Turns
    PROVE  /\ Armed \subseteq InTransit
           /\ \A job \in Armed \cup ({calling} \ {None}) :
                 job \in Job /\ job.callback \in Refs /\ job.callback # NoRef
                 /\ job.generation = generation
           /\ \A job \in {calling} \ {None} : job = calling /\ job.id \in called
<1>1. InTransit \subseteq Job
    BY TransitType
<1>2. calling # None => calling \in Job
    BY DEF HttpTypeOK
<1>3. \A job \in Job : job.callback # NoRef => job.callback \in Refs
    BY JobFacts
<1> QED BY <1>1, <1>2, <1>3 DEF Armed, Turns

\* A step that releases slots of the registry.
LEMMA ReleaseStep ==
    ASSUME HttpTypeOK, Holding, Turns, ArmedHasClosure,
           NEW refs, registry' = Released(refs),
           Armed' \subseteq Armed, {calling'} \ {None} \subseteq {calling} \ {None},
           tainted => tainted',
           ASSUME ClosuresAreTheirOwn
           PROVE  tainted' \/ \A job \in Armed' \cup ({calling'} \ {None}) : job.callback \notin refs
    PROVE  ArmedHasClosure'
<1>1. CASE tainted
    BY <1>1 DEF ArmedHasClosure
<1>2. CASE ClosuresAreTheirOwn
  <2>1. CASE tainted'
      BY <2>1 DEF ArmedHasClosure
  <2>2. CASE \A job \in Armed' \cup ({calling'} \ {None}) : job.callback \notin refs
    <3>1. \A r \in Refs : r \notin refs => registry'[r] = registry[r]
        BY DEF Released
    <3>2. \A job \in Armed' \cup ({calling'} \ {None}) :
             job \in Armed \cup ({calling} \ {None}) /\ job.callback \in Refs
        BY ArmedFacts
    <3>3. \A job \in Armed' \cup ({calling'} \ {None}) : registry'[job.callback] = job.id
        BY <1>2, <2>2, <3>1, <3>2 DEF ClosuresAreTheirOwn
    <3> QED BY <3>3 DEF ArmedHasClosure, ClosuresAreTheirOwn
  <2> QED BY <1>2, <2>1, <2>2
<1> QED BY <1>1, <1>2 DEF ArmedHasClosure

LEMMA ReleasedType == ASSUME HttpTypeOK, NEW refs PROVE Released(refs) \in [Refs -> Ids \cup {Free}]
BY DEF HttpTypeOK, Released

LEMMA QueueBelow ==
    ASSUME HttpTypeOK, Handed, Queued
    PROVE  Len(pending) \in Nat /\ nextId \in Nat /\ Len(pending) < nextId
<1>1. Len(pending) \in Nat /\ nextId \in Nat /\ 1 <= nextId
    BY HttpConstants DEF HttpTypeOK
<1>2. CASE Len(pending) = 0
    BY <1>1, <1>2
<1>3. CASE Len(pending) # 0
  <2> DEFINE job == pending[Len(pending)]
  <2>1. Len(pending) \in 1..Len(pending)
      BY <1>1, <1>3
  <2>2. job \in Elements(pending) /\ job \in Job
      BY <2>1 DEF Elements, HttpTypeOK
  <2>3. Len(pending) <= job.id
      BY <2>1 DEF Queued
  <2>4. job.id < nextId /\ job.id \in Nat
      BY <2>2, TransitParts, JobFacts DEF Handed
  <2> HIDE DEF job
  <2> QED BY <1>1, <2>3, <2>4
<1> QED BY <1>2, <1>3

LEMMA AskStep ==
    ASSUME HttpInv, NEW p \in Plugins, Ask(p)
    PROVE  /\ HttpInv'
           /\ nextId \in Ids /\ nextId' = nextId + 1 /\ called' = called
           /\ ArmedIds' = ArmedIds \cup {nextId}
<1>1. /\ HttpTypeOK /\ OnePlace /\ ArmedHasClosure /\ CancelIsFinal
      /\ Handed /\ Queued /\ Counted /\ Holding /\ Turns
    BY InvariantParts
<1>2. PICK r \in Refs :
      /\ registry[r] = Free
      /\ registry' = [registry EXCEPT ![r] = nextId]
      /\ pending' = Append(pending, [id |-> nextId, plugin |-> p,
                                     generation |-> generation, callback |-> r])
    BY DEF Ask
<1> DEFINE job == [id |-> nextId, plugin |-> p, generation |-> generation, callback |-> r]
<1>3. /\ pc = "lua" /\ nextId \in Ids
      /\ nextId' = nextId + 1 /\ inflight' = inflight + 1
      /\ stopping' = (stopping /\ Started = worker)
      /\ worker' \in NotifyOne(Started)
      /\ UNCHANGED <<generation, done>>
      /\ UNCHANGED <<pc, target, batch, calling, called, cancelled, abandoned, tainted>>
    BY DEF Ask, InLua, game, history
<1>4. /\ job \in Job /\ job.id = nextId /\ job.generation = generation /\ job.callback = r
    BY <1>1, <1>3 DEF Job, HttpTypeOK
<1>5. pending' = Append(pending, job)
    BY <1>2
<1> HIDE DEF job
<1>6. pending \in Seq(Job) /\ worker \in Pools /\ nextId \in Nat /\ Holds(worker)
    BY <1>1, <1>3, JobFacts DEF HttpTypeOK, Pools, Holding, Holds
<1>7. /\ pending' \in Seq(Job) /\ Len(pending') = Len(pending) + 1
      /\ pending'[Len(pending) + 1] = job
      /\ \A k \in 1..Len(pending) : pending'[k] = pending[k]
      /\ Elements(pending') = Elements(pending) \cup {job}
    BY <1>4, <1>5, <1>6, Pushed
<1>8. /\ worker' \in Pools
      /\ \A w \in Workers : /\ worker'[w].at = "performing" <=> worker[w].at = "performing"
                            /\ worker'[w].at = "performing" => worker'[w].job = worker[w].job
  <2>1. /\ Started \in Pools
        /\ \A w \in Workers : /\ Started[w].at = "performing" <=> worker[w].at = "performing"
                              /\ Started[w].at = "performing" => Started[w].job = worker[w].job
      BY <1>6, StartedPool
  <2>2. PICK pool \in Pools : pool = Started
      BY <2>1
  <2>3. worker' \in NotifyOne(pool)
      BY <1>3, <2>2
  <2>4. PICK new : new = worker'
      OBVIOUS
  <2>5. /\ new \in Pools
        /\ \A w \in Workers : /\ new[w].at = "performing" <=> pool[w].at = "performing"
                              /\ new[w].at = "performing" => new[w].job = pool[w].job
      BY <2>3, <2>4, NotifiedPool
  <2> QED BY <2>1, <2>2, <2>4, <2>5
<1>9. /\ Wire(worker') = Wire(worker)
      /\ HeldOnce(worker) => HeldOnce(worker')
      /\ Holds(worker')
    BY <1>6, <1>8, SameWire
<1>10. /\ NoneTwice(pending) /\ NoneTwice(done) /\ NoneTwice(batch) /\ HeldOnce(worker)
       /\ Apart(IdsOf(Elements(pending)), IdsOf(Wire(worker)), IdsOf(Elements(done)),
                IdsOf(Elements(batch)), called)
    BY <1>1, OnePlaceParts
<1>11. InTransit' = InTransit \cup {job}
    BY <1>3, <1>7, <1>9, TransitParts
<1>12. nextId \notin IdsOf(InTransit) /\ nextId \notin called /\ nextId \notin cancelled
    BY <1>1, <1>6 DEF Handed, IdsOf
<1>13. IdsOf(InTransit) = IdsOf(Elements(pending)) \cup IdsOf(Wire(worker))
                          \cup IdsOf(Elements(done)) \cup IdsOf(Elements(batch))
    BY TransitParts DEF IdsOf
<1>14. OnePlace'
  <2>1. NoneTwice(pending')
      BY <1>4, <1>5, <1>6, <1>10, <1>12, <1>13, PushedOnce
  <2>2. IdsOf(Elements(pending')) = IdsOf(Elements(pending)) \cup {nextId}
      BY <1>4, <1>7 DEF IdsOf
  <2>3. Apart(IdsOf(Elements(pending)) \cup {nextId}, IdsOf(Wire(worker)), IdsOf(Elements(done)),
              IdsOf(Elements(batch)), called)
      BY <1>10, <1>12, <1>13 DEF Apart
  <2> QED BY <1>3, <1>9, <1>10, <2>1, <2>2, <2>3, OnePlacePartsNext
<1>15. Armed' = Armed \cup {job} /\ {calling'} \ {None} = {calling} \ {None}
  <2>1. job.callback # NoRef
      BY <1>4, HttpConstants
  <2> QED BY <1>3, <1>4, <1>11, <2>1 DEF Armed
<1>16. ArmedHasClosure'
  <2>1. CASE tainted
      BY <1>3, <2>1 DEF ArmedHasClosure
  <2>2. CASE ClosuresAreTheirOwn
    <3>1. \A old \in Armed \cup ({calling} \ {None}) :
             old.callback \in Refs /\ registry[old.callback] = old.id /\ old.id \in Ids
        BY <1>1, <2>2, ArmedFacts, JobFacts DEF ClosuresAreTheirOwn
    <3>2. \A old \in Armed \cup ({calling} \ {None}) : old.callback # r
        BY <1>2, <3>1, HttpConstants
    <3>3. registry'[r] = nextId /\ \A s \in Refs \ {r} : registry'[s] = registry[s]
        BY <1>1, <1>2 DEF HttpTypeOK
    <3>4. \A new \in Armed' \cup ({calling'} \ {None}) : registry'[new.callback] = new.id
        BY <1>4, <1>15, <3>1, <3>2, <3>3
    <3> QED BY <3>4 DEF ArmedHasClosure, ClosuresAreTheirOwn
  <2> QED BY <1>1, <2>1, <2>2 DEF ArmedHasClosure
<1>17. CancelIsFinal'
    BY <1>1, <1>3, <1>4, <1>12, <1>15 DEF CancelIsFinal
<1>18. Handed'
    BY <1>1, <1>3, <1>4, <1>6, <1>11, TransitType, JobFacts DEF Handed, HttpTypeOK
<1>19. Len(pending) < nextId
    BY <1>1, QueueBelow
<1>20. Queued'
  <2>1. \A k \in 1..Len(pending') : k <= pending'[k].id
    <3>1. \A k \in 1..Len(pending') : k \in 1..Len(pending) \/ k = Len(pending) + 1
        BY <1>6, <1>7
    <3>2. Len(pending) + 1 <= nextId
        BY <1>6, <1>19
    <3> QED BY <1>1, <1>4, <1>7, <3>1, <3>2 DEF Queued
  <2>2. job.callback # NoRef
      BY <1>4, HttpConstants
  <2> QED BY <1>1, <1>3, <1>4, <1>7, <2>1, <2>2 DEF Queued
<1>21. Counted'
    BY <1>1, <1>3, <1>6, <1>7 DEF Counted, HttpTypeOK
<1>22. Holding'
    BY <1>9 DEF Holding, Holds
<1>23. Turns'
    BY <1>1, <1>3 DEF Turns
<1>24. HttpTypeOK'
  <2>1. registry' \in [Refs -> Ids \cup {Free}]
      BY <1>1, <1>2, <1>3 DEF HttpTypeOK
  <2>2. stopping' \in BOOLEAN
      BY <1>3
  <2>3. nextId' \in 1..MaxRequests + 1
      BY <1>3, <1>6, HttpConstants DEF Ids
  <2>4. inflight' \in -MaxRequests..MaxRequests
      BY <1>1, <1>3, <1>6, HttpConstants DEF HttpTypeOK, Counted, Ids
  <2> QED BY <1>1, <1>3, <1>7, <1>8, <2>1, <2>2, <2>3, <2>4 DEF HttpTypeOK, Pools
<1>25. ArmedIds' = ArmedIds \cup {nextId}
    BY <1>4, <1>15 DEF ArmedIds, IdsOf
<1> QED BY <1>3, <1>25, <1>14, <1>16, <1>17, <1>18, <1>20, <1>21, <1>22, <1>23, <1>24, InvariantPartsNext

\* Some queued requests are erased, with their slots.
LEMMA LosePending ==
    ASSUME HttpTypeOK, OnePlace, Holding, Handed, Queued,
           NEW doomed \in SUBSET Elements(pending),
           pending' = Without(pending, doomed),
           UNCHANGED <<generation, worker, done, batch, called>>
    PROVE  /\ OnePlace' /\ Holding' /\ Queued'
           /\ pending' \in Seq(Job)
           /\ InTransit' = InTransit \ doomed
           /\ Armed' = Armed \ doomed
           /\ Len(pending) \in Nat /\ Len(pending') \in Nat
           /\ Len(pending') <= Len(pending)
           /\ doomed # {} => Len(pending') < Len(pending)
<1>1. pending \in Seq(Job)
    BY DEF HttpTypeOK
<1>2. \A k \in 1..Len(pending) : k <= pending[k].id /\ pending[k].id \in Nat
    BY <1>1, JobFacts DEF Queued
<1>3. /\ NoneTwice(pending) /\ NoneTwice(done) /\ NoneTwice(batch) /\ HeldOnce(worker)
      /\ Apart(IdsOf(Elements(pending)), IdsOf(Wire(worker)), IdsOf(Elements(done)),
               IdsOf(Elements(batch)), called)
    BY OnePlaceParts
<1>4. /\ pending' \in Seq(Job)
      /\ Elements(pending') = Elements(pending) \ doomed
      /\ Len(pending') <= Len(pending)
      /\ doomed # {} => Len(pending') < Len(pending)
      /\ NoneTwice(pending')
      /\ \A k \in 1..Len(pending') : k <= pending'[k].id
  <2> DEFINE stay == Without(pending, doomed)
  <2>1. /\ stay \in Seq(Job)
        /\ Elements(stay) = Elements(pending) \ doomed
        /\ Len(stay) <= Len(pending)
        /\ Elements(pending) \cap doomed # {} => Len(stay) < Len(pending)
        /\ NoneTwice(stay)
        /\ \A k \in 1..Len(stay) : k <= stay[k].id
      BY <1>1, <1>2, <1>3, WithoutFacts
  <2>2. doomed # {} => Elements(pending) \cap doomed # {}
      OBVIOUS
  <2>3. pending' = stay
      OBVIOUS
  <2> HIDE DEF stay
  <2> QED BY <2>1, <2>2, <2>3
<1>5. IdsOf(Elements(pending')) \subseteq IdsOf(Elements(pending))
    BY <1>4 DEF IdsOf
<1>6. OnePlace'
  <2>1. Apart(IdsOf(Elements(pending')), IdsOf(Wire(worker)), IdsOf(Elements(done)),
              IdsOf(Elements(batch)), called)
      BY <1>3, <1>5 DEF Apart
  <2> QED BY <1>3, <1>4, <2>1, OnePlacePartsNext
<1>7. InTransit' = InTransit \ doomed
  <2> DEFINE P == Elements(pending)
             W == Wire(worker)
             D == Elements(done)
             B == Elements(batch)
  <2>1. P \cap W = {} /\ P \cap D = {} /\ P \cap B = {}
    <3>1. /\ \A x \in P : x.id \in IdsOf(P)
          /\ \A x \in W : x.id \in IdsOf(W)
          /\ \A x \in D : x.id \in IdsOf(D)
          /\ \A x \in B : x.id \in IdsOf(B)
        BY DEF IdsOf
    <3> HIDE DEF P, W, D, B
    <3> QED BY <1>3, <3>1 DEF Apart, P, W, D, B
  <2>2. InTransit = P \cup W \cup D \cup B /\ InTransit' = Elements(pending') \cup W \cup D \cup B
      BY TransitParts
  <2> HIDE DEF P, W, D, B
  <2>3. doomed \subseteq P /\ Elements(pending') = P \ doomed
      BY <1>4 DEF P
  <2> QED BY <2>1, <2>2, <2>3
<1>8. Armed' = Armed \ doomed
    BY <1>7 DEF Armed
<1>9. Queued'
    BY <1>4 DEF Queued
<1>10. Holding'
    BY DEF Holding
<1>11. Len(pending) \in Nat /\ Len(pending') \in Nat
    BY <1>1, <1>4
<1> QED BY <1>4, <1>6, <1>7, <1>8, <1>9, <1>10, <1>11

\* Some replies are disarmed where they are.
LEMMA MuteReplies ==
    ASSUME HttpTypeOK, OnePlace, Holding, Handed,
           NEW doomed \in SUBSET Elements(done),
           done' = Disarmed(done, doomed),
           UNCHANGED <<nextId, generation, pending, worker, batch, called>>
    PROVE  /\ OnePlace' /\ Holding'
           /\ done' \in Seq(Job)
           /\ Armed' = Armed \ doomed
           /\ doomed \subseteq InTransit
           /\ \A job \in InTransit' : job.id < nextId' /\ job.generation <= generation'
           /\ IdsOf(InTransit') = IdsOf(InTransit)
<1>1. done \in Seq(Job)
    BY DEF HttpTypeOK
<1>2. /\ NoneTwice(pending) /\ NoneTwice(done) /\ NoneTwice(batch) /\ HeldOnce(worker)
      /\ Apart(IdsOf(Elements(pending)), IdsOf(Wire(worker)), IdsOf(Elements(done)),
               IdsOf(Elements(batch)), called)
    BY OnePlaceParts
<1>3. /\ done' \in Seq(Job)
      /\ \A job \in Elements(done') :
            \/ job \in Elements(done) \ doomed
            \/ /\ job.callback = NoRef
               /\ \E old \in Elements(done) \cap doomed :
                     job.id = old.id /\ job.plugin = old.plugin /\ job.generation = old.generation
      /\ Elements(done) \ doomed \subseteq Elements(done')
      /\ IdsOf(Elements(done')) = IdsOf(Elements(done))
      /\ NoneTwice(done')
  <2> DEFINE new == Disarmed(done, doomed)
  <2>1. /\ new \in Seq(Job)
        /\ \A job \in Elements(new) :
            \/ job \in Elements(done) \ doomed
            \/ /\ job.callback = NoRef
               /\ \E old \in Elements(done) \cap doomed :
                     job.id = old.id /\ job.plugin = old.plugin /\ job.generation = old.generation
        /\ Elements(done) \ doomed \subseteq Elements(new)
        /\ IdsOf(Elements(new)) = IdsOf(Elements(done))
        /\ NoneTwice(new)
      BY <1>1, <1>2, DisarmedFacts
  <2>2. done' = new
      OBVIOUS
  <2> HIDE DEF new
  <2> QED BY <2>1, <2>2
<1>4. OnePlace'
    BY <1>2, <1>3, OnePlacePartsNext
<1> DEFINE P == Elements(pending)
           W == Wire(worker)
           D == Elements(done)
           B == Elements(batch)
           E == Elements(done')
<1>5. P \cap D = {} /\ W \cap D = {} /\ B \cap D = {}
  <2>1. /\ \A x \in P : x.id \in IdsOf(P)
        /\ \A x \in W : x.id \in IdsOf(W)
        /\ \A x \in D : x.id \in IdsOf(D)
        /\ \A x \in B : x.id \in IdsOf(B)
      BY DEF IdsOf
  <2> HIDE DEF P, W, D, B
  <2> QED BY <1>2, <2>1 DEF Apart, P, W, D, B
<1>6. InTransit = P \cup W \cup D \cup B /\ InTransit' = P \cup W \cup E \cup B
    BY TransitParts
<1>7. /\ \A job \in E : job \in D \ doomed \/ job.callback = NoRef
      /\ D \ doomed \subseteq E
      /\ doomed \subseteq D
    BY <1>3
<1>8. doomed \subseteq InTransit
    BY <1>6
<1>9. Armed' = Armed \ doomed
  <2>1. Armed' = {job \in InTransit' : job.callback # NoRef /\ job.generation = generation}
      BY DEF Armed
  <2> HIDE DEF P, W, D, B, E
  <2> QED BY <1>5, <1>6, <1>7, <2>1 DEF Armed
<1>10. \A job \in InTransit' : job.id < nextId' /\ job.generation <= generation'
  <2>1. \A job \in E : \E old \in D : job.id = old.id /\ job.generation = old.generation
      BY <1>3
  <2>2. \A job \in InTransit : job.id < nextId /\ job.generation <= generation
      BY DEF Handed
  <2> HIDE DEF P, W, D, B, E
  <2> QED BY <1>6, <2>1, <2>2
<1>11. IdsOf(InTransit') = IdsOf(InTransit)
  <2>1. IdsOf(E) = IdsOf(D)
      BY <1>3
  <2> HIDE DEF P, W, D, B, E
  <2> QED BY <1>6, <2>1 DEF IdsOf
<1>12. Holding'
    BY DEF Holding
<1> QED BY <1>3, <1>4, <1>8, <1>9, <1>10, <1>11, <1>12

\* What is armed is known by its slot, as long as closures are their own.
LEMMA KnownBySlot ==
    ASSUME ClosuresAreTheirOwn,
           NEW a \in Armed \cup ({calling} \ {None}), NEW b \in Armed \cup ({calling} \ {None}),
           a.callback = b.callback
    PROVE  a.id = b.id
BY DEF ClosuresAreTheirOwn

\* Slots of requests that are armed no more are of no other request.
LEMMA SlotsOfTheirOwn ==
    ASSUME HttpTypeOK, OnePlace, Holding, Turns, ClosuresAreTheirOwn,
           NEW doomed \in SUBSET InTransit,
           \A d \in doomed : d.callback = NoRef \/ d.generation = generation,
           NEW job \in (Armed \ doomed) \cup ({calling} \ {None})
    PROVE  job.callback \notin RefsOf(doomed)
<1> SUFFICES ASSUME NEW d \in doomed, job.callback = d.callback PROVE FALSE
    BY DEF RefsOf
<1>1. job.callback # NoRef /\ job \in Armed \cup ({calling} \ {None})
    BY ArmedFacts
<1>2. d \in Armed
    BY <1>1 DEF Armed
<1>3. job.id = d.id
    BY <1>1, <1>2, KnownBySlot
<1>4. CASE job \in Armed \ doomed
  <2>1. job \in InTransit /\ d \in InTransit
      BY <1>4, ArmedFacts
  <2>2. job = d
      BY <1>3, <2>1, Unique
  <2> QED BY <1>4, <2>2
<1>5. CASE job \in {calling} \ {None}
  <2>1. job.id \in called
      BY <1>5, ArmedFacts
  <2> QED BY <1>3, <2>1, Unique
<1> QED BY <1>4, <1>5

\* What is disarmed or erased may be reported as cancelled.
LEMMA CancelledForGood ==
    ASSUME OnePlace, CancelIsFinal, NEW found \in SUBSET InTransit,
           Armed' \subseteq Armed \ found,
           cancelled' \subseteq cancelled \cup IdsOf(found)
    PROVE  CancelIsFinal'
<1> SUFFICES ASSUME NEW job \in Armed', job.id \in cancelled' PROVE FALSE
    BY DEF CancelIsFinal
<1>1. job \in Armed /\ job \notin found /\ job \in InTransit
    BY DEF Armed
<1>2. PICK d \in found : d.id = job.id
    BY <1>1 DEF CancelIsFinal, IdsOf
<1>3. d = job
    BY <1>1, <1>2, Unique
<1> QED BY <1>1, <1>2, <1>3

LEMMA CancelStep == ASSUME HttpInv, NEW id \in Ids, Cancel(id) PROVE HttpInv' /\ Armed' \subseteq Armed
<1>1. /\ HttpTypeOK /\ OnePlace /\ ArmedHasClosure /\ CancelIsFinal
      /\ Handed /\ Queued /\ Counted /\ Holding /\ Turns
    BY InvariantParts
<1> DEFINE found == {job \in Elements(pending) : job.id = id}
<1>2. /\ pc = "lua" /\ id < nextId
      /\ UNCHANGED <<nextId, generation, done, stopping, worker, called, abandoned, tainted>>
    BY DEF Cancel, InLua
<1>3. CASE found # {}
  <2>1. /\ pending' = Without(pending, found)
        /\ registry' = Released(RefsOf(found))
        /\ inflight' = inflight - 1
        /\ cancelled' = cancelled \cup {id}
        /\ UNCHANGED <<pc, target, batch, calling>>
      BY <1>3 DEF Cancel, game
  <2>2. found \subseteq Elements(pending) /\ \A job \in found : job.id = id
      OBVIOUS
  <2>3. IdsOf(found) = {id}
      BY <1>3 DEF IdsOf
  <2> HIDE DEF found
  <2>4. /\ OnePlace' /\ Holding' /\ Queued'
        /\ pending' \in Seq(Job)
        /\ InTransit' = InTransit \ found
        /\ Armed' = Armed \ found
        /\ Len(pending) \in Nat /\ Len(pending') \in Nat
        /\ Len(pending') < Len(pending)
      BY <1>1, <1>2, <1>3, <2>1, <2>2, LosePending
  <2>5. found \subseteq InTransit
      BY <2>2, TransitParts
  <2>6. \A d \in found : d.callback = NoRef \/ d.generation = generation
      BY <1>1, <2>2 DEF Queued
  <2>7. ASSUME ClosuresAreTheirOwn
        PROVE  \A job \in Armed' \cup ({calling'} \ {None}) : job.callback \notin RefsOf(found)
      BY <1>1, <2>1, <2>4, <2>5, <2>6, <2>7, SlotsOfTheirOwn
  <2>8. ArmedHasClosure'
      BY <1>1, <1>2, <2>1, <2>4, <2>7, ReleaseStep
  <2>9. CancelIsFinal'
      BY <1>1, <2>1, <2>3, <2>4, <2>5, CancelledForGood
  <2>10. Handed'
      BY <1>1, <1>2, <2>1, <2>4, JobFacts DEF Handed, HttpTypeOK
  <2>11. Counted'
      BY <1>1, <1>2, <2>1, <2>4 DEF Counted, HttpTypeOK
  <2>12. Turns'
      BY <1>1, <1>2, <2>1 DEF Turns
  <2>13. HttpTypeOK'
    <3>1. inflight' \in -MaxRequests..MaxRequests
        BY <1>1, <1>2, <2>1, <2>4, <2>11, HttpConstants DEF Counted, HttpTypeOK
    <3>2. registry' \in [Refs -> Ids \cup {Free}]
        BY <1>1, <2>1, ReleasedType
    <3> QED BY <1>1, <1>2, <2>1, <2>4, <3>1, <3>2 DEF HttpTypeOK
  <2> QED BY <2>4, <2>8, <2>9, <2>10, <2>11, <2>12, <2>13, InvariantPartsNext
<1>4. CASE found = {}
  <2>1. /\ pc' = "cancel" /\ target' = id
        /\ UNCHANGED <<pending, registry, inflight, cancelled, batch, calling>>
      BY <1>4 DEF Cancel
  <2>2. OnePlace' /\ Holding' /\ InTransit' = InTransit
      BY <1>1, <1>2, <2>1, SamePlaces
  <2>3. ArmedHasClosure' /\ CancelIsFinal' /\ Handed' /\ Armed' \subseteq Armed
      BY <1>1, <1>2, <2>1, <2>2, QuietStep
  <2>4. Queued' /\ Counted'
      BY <1>1, <1>2, <2>1 DEF Queued, Counted
  <2>5. Turns'
      BY <1>1, <1>2, <2>1 DEF Turns
  <2>6. HttpTypeOK'
      BY <1>1, <1>2, <2>1 DEF HttpTypeOK, GameStates
  <2> QED BY <2>2, <2>3, <2>4, <2>5, <2>6, InvariantPartsNext
<1> QED BY <1>3, <1>4

LEMMA CancelReplyStep == ASSUME HttpInv, CancelReply PROVE HttpInv' /\ Armed' \subseteq Armed
<1>1. /\ HttpTypeOK /\ OnePlace /\ ArmedHasClosure /\ CancelIsFinal
      /\ Handed /\ Queued /\ Counted /\ Holding /\ Turns
    BY InvariantParts
<1> DEFINE found == {job \in Elements(done) : job.id = target}
<1>2. /\ pc = "cancel" /\ pc' = "lua" /\ target' = None
      /\ done' = Disarmed(done, found)
      /\ cancelled' = cancelled \cup IdsOf(found)
      /\ UNCHANGED <<nextId, generation, inflight, pending, stopping, worker, registry,
                     batch, calling, called, abandoned, tainted>>
    BY DEF CancelReply
<1>3. found \in SUBSET Elements(done)
    OBVIOUS
<1> HIDE DEF found
<1>4. /\ OnePlace' /\ Holding'
      /\ done' \in Seq(Job)
      /\ Armed' = Armed \ found
      /\ found \subseteq InTransit
      /\ \A job \in InTransit' : job.id < nextId' /\ job.generation <= generation'
    BY <1>1, <1>2, <1>3, MuteReplies
<1>5. CancelIsFinal'
    BY <1>1, <1>2, <1>4, CancelledForGood
<1>6. ArmedHasClosure'
  <2>1. CASE tainted
      BY <1>2, <2>1 DEF ArmedHasClosure
  <2>2. CASE ClosuresAreTheirOwn
      BY <1>2, <1>4, <2>2 DEF ArmedHasClosure, ClosuresAreTheirOwn
  <2> QED BY <1>1, <2>1, <2>2 DEF ArmedHasClosure
<1>7. \A d \in found : d.id \in Ids /\ d.id < nextId
    BY <1>1, <1>4, TransitType, JobFacts DEF Handed
<1>8. IdsOf(found) \subseteq 1..(nextId - 1) /\ IdsOf(found) \subseteq Ids
  <2>1. \A x \in IdsOf(found) : x \in Ids /\ x < nextId
      BY <1>7 DEF IdsOf
  <2>2. \A x \in Ids : x < nextId => x \in 1..(nextId - 1)
      BY <1>1, JobFacts, HttpConstants DEF HttpTypeOK
  <2> QED BY <2>1, <2>2
<1>9. Handed'
    BY <1>1, <1>2, <1>4, <1>8 DEF Handed
<1>10. Queued' /\ Counted'
    BY <1>1, <1>2 DEF Queued, Counted
<1>11. Turns'
    BY <1>1, <1>2 DEF Turns
<1>12. HttpTypeOK'
    BY <1>1, <1>2, <1>4, <1>8 DEF HttpTypeOK, GameStates
<1> QED BY <1>4, <1>5, <1>6, <1>9, <1>10, <1>11, <1>12, InvariantPartsNext

LEMMA RemovePluginStep == ASSUME HttpInv, NEW p \in Plugins, RemovePlugin(p) PROVE HttpInv' /\ Armed' \subseteq Armed
<1>1. /\ HttpTypeOK /\ OnePlace /\ ArmedHasClosure /\ CancelIsFinal
      /\ Handed /\ Queued /\ Counted /\ Holding /\ Turns
    BY InvariantParts
<1> DEFINE doomed == {job \in Elements(pending) : job.plugin = p}
<1>2. /\ pc = "lua" /\ pc' = "remove" /\ target' = p
      /\ pending' = Without(pending, doomed)
      /\ registry' = Released(RefsOf(doomed))
      /\ UNCHANGED <<nextId, generation, inflight, done, stopping, worker, batch, calling,
                     called, cancelled, abandoned, tainted>>
    BY DEF RemovePlugin, InLua, history
<1>3. doomed \in SUBSET Elements(pending)
    OBVIOUS
<1> HIDE DEF doomed
<1>4. /\ OnePlace' /\ Holding' /\ Queued'
      /\ pending' \in Seq(Job)
      /\ InTransit' = InTransit \ doomed
      /\ Armed' = Armed \ doomed
      /\ Len(pending) \in Nat /\ Len(pending') \in Nat
      /\ Len(pending') <= Len(pending)
    BY <1>1, <1>2, <1>3, LosePending
<1>5. doomed \subseteq InTransit
    BY <1>3, TransitParts
<1>6. \A d \in doomed : d.callback = NoRef \/ d.generation = generation
    BY <1>1, <1>3 DEF Queued
<1>7. ASSUME ClosuresAreTheirOwn
      PROVE  \A job \in Armed' \cup ({calling'} \ {None}) : job.callback \notin RefsOf(doomed)
    BY <1>1, <1>2, <1>4, <1>5, <1>6, <1>7, SlotsOfTheirOwn
<1>8. ArmedHasClosure'
    BY <1>1, <1>2, <1>4, <1>7, ReleaseStep
<1>9. CancelIsFinal'
    BY <1>1, <1>2, <1>4 DEF CancelIsFinal
<1>10. Handed'
    BY <1>1, <1>2, <1>4 DEF Handed
<1>11. Counted'
    BY <1>1, <1>2, <1>4 DEF Counted, HttpTypeOK
<1>12. Turns'
    BY <1>1, <1>2 DEF Turns
<1>13. HttpTypeOK'
  <2>1. registry' \in [Refs -> Ids \cup {Free}]
      BY <1>1, <1>2, ReleasedType
  <2> QED BY <1>1, <1>2, <1>4, <2>1 DEF HttpTypeOK, GameStates
<1> QED BY <1>4, <1>8, <1>9, <1>10, <1>11, <1>12, <1>13, InvariantPartsNext

LEMMA RemoveRepliesStep == ASSUME HttpInv, RemoveReplies PROVE HttpInv' /\ Armed' \subseteq Armed
<1>1. /\ HttpTypeOK /\ OnePlace /\ ArmedHasClosure /\ CancelIsFinal
      /\ Handed /\ Queued /\ Counted /\ Holding /\ Turns
    BY InvariantParts
<1> DEFINE doomed == {job \in Elements(done) : job.plugin = target}
           lost == {job \in InTransit : job.plugin = target}
<1>2. /\ pc = "remove" /\ pc' = "lua" /\ target' = None
      /\ registry' = Released(RefsOf(doomed))
      /\ done' = Disarmed(done, doomed)
      /\ abandoned' = abandoned \cup IdsOf(lost)
      /\ UNCHANGED <<nextId, generation, inflight, pending, stopping, worker,
                     batch, calling, called, cancelled>>
    BY DEF RemoveReplies
<1>3. tainted' = (tainted \/ \E job \in doomed : job.callback # NoRef /\ job.generation # generation)
    BY DEF RemoveReplies
<1>4. doomed \in SUBSET Elements(done) /\ lost \in SUBSET InTransit
    OBVIOUS
<1> HIDE DEF doomed, lost
<1>5. /\ OnePlace' /\ Holding'
      /\ done' \in Seq(Job)
      /\ Armed' = Armed \ doomed
      /\ doomed \subseteq InTransit
      /\ \A job \in InTransit' : job.id < nextId' /\ job.generation <= generation'
    BY <1>1, <1>2, <1>4, MuteReplies
<1>6. tainted => tainted'
    BY <1>3
<1>7. ASSUME ClosuresAreTheirOwn
      PROVE  tainted' \/ \A job \in Armed' \cup ({calling'} \ {None}) : job.callback \notin RefsOf(doomed)
  <2>1. CASE \A d \in doomed : d.callback = NoRef \/ d.generation = generation
    <3>1. \A job \in (Armed \ doomed) \cup ({calling} \ {None}) : job.callback \notin RefsOf(doomed)
        BY <1>1, <1>5, <1>7, <2>1, SlotsOfTheirOwn
    <3> QED BY <1>2, <1>5, <3>1
  <2>2. CASE \E d \in doomed : d.callback # NoRef /\ d.generation # generation
      BY <1>3, <2>2
  <2> QED BY <2>1, <2>2
<1>8. ArmedHasClosure'
    BY <1>1, <1>2, <1>5, <1>6, <1>7, ReleaseStep
<1>9. CancelIsFinal'
    BY <1>1, <1>2, <1>5 DEF CancelIsFinal
<1>10. Handed'
    BY <1>1, <1>2, <1>5 DEF Handed
<1>11. Queued' /\ Counted'
    BY <1>1, <1>2 DEF Queued, Counted
<1>12. Turns'
    BY <1>1, <1>2 DEF Turns
<1>13. HttpTypeOK'
  <2>1. registry' \in [Refs -> Ids \cup {Free}]
      BY <1>1, <1>2, ReleasedType
  <2>2. abandoned' \subseteq Ids
      BY <1>1, <1>2, <1>4, TransitType, JobFacts DEF IdsOf, HttpTypeOK
  <2>3. tainted' \in BOOLEAN
      BY <1>3
  <2> QED BY <1>1, <1>2, <1>5, <2>1, <2>2, <2>3 DEF HttpTypeOK, GameStates
<1> QED BY <1>5, <1>8, <1>9, <1>10, <1>11, <1>12, <1>13, InvariantPartsNext

-----------------------------------------------------------------------------
(* Every step keeps the invariant: the drain and the ends                  *)

LEMMA StartDrainStep == ASSUME HttpInv, StartDrain PROVE HttpInv' /\ Armed' \subseteq Armed
<1>1. /\ HttpTypeOK /\ OnePlace /\ ArmedHasClosure /\ CancelIsFinal
      /\ Handed /\ Queued /\ Counted /\ Holding /\ Turns
    BY InvariantParts
<1>2. /\ pc = "lua" /\ calling = None /\ pc' = "drain"
      /\ batch' = done /\ done' = <<>>
      /\ inflight' = IF inflight < Len(done) THEN 0 ELSE inflight - Len(done)
      /\ UNCHANGED <<nextId, generation, pending, stopping, worker, registry,
                     target, calling, called, cancelled, abandoned, tainted>>
    BY DEF StartDrain, BetweenFrames, InLua, history
<1>3. batch = <<>>
    BY <1>1, <1>2 DEF Turns
<1>4. Elements(batch) = {} /\ Elements(done') = {} /\ NoneTwice(done')
    BY <1>2, <1>3, NoElements
<1>5. /\ NoneTwice(pending) /\ NoneTwice(done) /\ NoneTwice(batch) /\ HeldOnce(worker)
      /\ Apart(IdsOf(Elements(pending)), IdsOf(Wire(worker)), IdsOf(Elements(done)),
               IdsOf(Elements(batch)), called)
    BY <1>1, OnePlaceParts
<1>6. OnePlace'
  <2>1. Apart(IdsOf(Elements(pending)), IdsOf(Wire(worker)), IdsOf({}),
              IdsOf(Elements(done)), called)
      BY <1>5 DEF Apart, IdsOf
  <2> QED BY <1>2, <1>4, <1>5, <2>1, OnePlacePartsNext
<1>7. InTransit' \subseteq InTransit
    BY <1>2, <1>4, TransitParts
<1>8. ArmedHasClosure' /\ CancelIsFinal' /\ Handed' /\ Armed' \subseteq Armed
    BY <1>1, <1>2, <1>7, QuietStep
<1>9. Queued'
    BY <1>1, <1>2 DEF Queued
<1>10. Len(done) \in Nat /\ done \in Seq(Job) /\ <<>> \in Seq(Job)
    BY <1>1 DEF HttpTypeOK
<1>11. Counted' /\ inflight' \in -MaxRequests..MaxRequests
  <2>1. Len(pending) \in Nat /\ nextId \in Nat /\ Len(pending) < nextId
      BY <1>1, QueueBelow
  <2>2. inflight \in -MaxRequests..MaxRequests /\ nextId \in 1..MaxRequests + 1
      BY <1>1 DEF HttpTypeOK
  <2>3. CASE inflight < Len(done)
    <3>1. inflight' = 0
        BY <1>2, <2>3
    <3> QED BY <1>2, <2>1, <2>2, <3>1, HttpConstants DEF Counted
  <2>4. CASE ~(inflight < Len(done))
    <3>1. inflight' = inflight - Len(done) /\ inflight >= Len(done)
        BY <1>2, <1>10, <2>2, <2>4, HttpConstants
    <3> QED BY <1>1, <1>2, <1>10, <2>1, <2>2, <3>1, HttpConstants DEF Counted
  <2> QED BY <2>3, <2>4
<1>12. Holding' /\ Turns'
    BY <1>1, <1>2 DEF Holding, Turns
<1>13. HttpTypeOK'
    BY <1>1, <1>2, <1>10, <1>11 DEF HttpTypeOK, GameStates
<1> QED BY <1>6, <1>8, <1>9, <1>11, <1>12, <1>13, InvariantPartsNext

\* The first reply leaves the batch, whether it is called or not.
LEMMA BatchStep ==
    ASSUME HttpTypeOK, OnePlace, Holding, batch # <<>>, batch' = Tail(batch),
           UNCHANGED <<pending, done, worker>>
    PROVE  /\ batch' \in Seq(Job) /\ Head(batch) \in Job /\ Head(batch) \in InTransit
           /\ InTransit = InTransit' \cup {Head(batch)}
           /\ Head(batch).id \notin IdsOf(InTransit')
           /\ called' \in {called, called \cup {Head(batch).id}} => OnePlace'
           /\ Holding'
<1> DEFINE head == Head(batch)
<1>1. batch \in Seq(Job)
    BY DEF HttpTypeOK
<1>2. /\ head \in Job /\ batch' \in Seq(Job)
      /\ Elements(batch) = {head} \cup Elements(batch')
    BY <1>1, Popped
<1>3. /\ NoneTwice(pending) /\ NoneTwice(done) /\ NoneTwice(batch) /\ HeldOnce(worker)
      /\ Apart(IdsOf(Elements(pending)), IdsOf(Wire(worker)), IdsOf(Elements(done)),
               IdsOf(Elements(batch)), called)
    BY OnePlaceParts
<1>4. NoneTwice(batch') /\ head.id \notin IdsOf(Elements(batch'))
    BY <1>1, <1>3, PoppedOnce
<1> HIDE DEF head
<1>5. IdsOf(Elements(batch)) = IdsOf(Elements(batch')) \cup {head.id}
    BY <1>2 DEF IdsOf
<1>6. ASSUME called' \in {called, called \cup {head.id}} PROVE OnePlace'
  <2>1. Apart(IdsOf(Elements(pending)), IdsOf(Wire(worker)), IdsOf(Elements(done)),
              IdsOf(Elements(batch')), called')
      BY <1>3, <1>4, <1>5, <1>6 DEF Apart
  <2> QED BY <1>3, <1>4, <2>1, OnePlacePartsNext
<1>7. /\ InTransit = Elements(pending) \cup Wire(worker) \cup Elements(done) \cup Elements(batch)
      /\ InTransit' = Elements(pending) \cup Wire(worker) \cup Elements(done) \cup Elements(batch')
    BY TransitParts
<1>8. InTransit = InTransit' \cup {head} /\ head \in InTransit
    BY <1>2, <1>7
<1>9. head.id \notin IdsOf(InTransit')
  <2>1. IdsOf(InTransit') = IdsOf(Elements(pending)) \cup IdsOf(Wire(worker))
                            \cup IdsOf(Elements(done)) \cup IdsOf(Elements(batch'))
      BY <1>7 DEF IdsOf
  <2> QED BY <1>3, <1>4, <1>5, <2>1 DEF Apart
<1>10. Holding'
    BY DEF Holding
<1> QED BY <1>2, <1>6, <1>8, <1>9, <1>10 DEF head

LEMMA SkipReplyStep == ASSUME HttpInv, SkipReply PROVE HttpInv' /\ Armed' \subseteq Armed
<1>1. /\ HttpTypeOK /\ OnePlace /\ ArmedHasClosure /\ CancelIsFinal
      /\ Handed /\ Queued /\ Counted /\ Holding /\ Turns
    BY InvariantParts
<1>2. /\ pc = "drain" /\ batch # <<>> /\ batch' = Tail(batch)
      /\ UNCHANGED <<nextId, generation, inflight, pending, done, stopping, worker, registry,
                     pc, target, calling, called, cancelled, abandoned, tainted>>
    BY DEF SkipReply, queues, history
<1>3. /\ batch' \in Seq(Job) /\ InTransit = InTransit' \cup {Head(batch)}
      /\ OnePlace' /\ Holding'
    BY <1>1, <1>2, BatchStep
<1>4. InTransit' \subseteq InTransit
    BY <1>3
<1>5. ArmedHasClosure' /\ CancelIsFinal' /\ Handed' /\ Armed' \subseteq Armed
    BY <1>1, <1>2, <1>4, QuietStep
<1>6. Queued' /\ Counted' /\ Turns'
    BY <1>1, <1>2 DEF Queued, Counted, Turns
<1>7. HttpTypeOK'
    BY <1>1, <1>2, <1>3 DEF HttpTypeOK
<1> QED BY <1>3, <1>5, <1>6, <1>7, InvariantPartsNext

LEMMA CallBackStep ==
    ASSUME HttpInv, CallBack
    PROVE  /\ HttpInv'
           /\ nextId' = nextId
           /\ \E id \in ArmedIds : called' = called \cup {id} /\ ArmedIds' = ArmedIds \ {id}
<1>1. /\ HttpTypeOK /\ OnePlace /\ ArmedHasClosure /\ CancelIsFinal
      /\ Handed /\ Queued /\ Counted /\ Holding /\ Turns
    BY InvariantParts
<1> DEFINE head == Head(batch)
<1>2. /\ pc = "drain" /\ batch # <<>> /\ batch' = Tail(batch) /\ pc' = "lua"
      /\ calling' = head /\ called' = called \cup {head.id}
      /\ head.callback # NoRef /\ head.generation = generation
      /\ UNCHANGED <<nextId, generation, inflight, pending, done, stopping, worker, registry,
                     target, cancelled, abandoned, tainted>>
    BY DEF CallBack, Unwanted, queues
<1> HIDE DEF head
<1>3. /\ batch' \in Seq(Job) /\ head \in Job /\ head \in InTransit
      /\ InTransit = InTransit' \cup {head}
      /\ OnePlace' /\ Holding'
    BY <1>1, <1>2, BatchStep DEF head
<1>4. head \in Armed /\ Armed' \subseteq Armed
    BY <1>2, <1>3 DEF Armed
<1>5. calling' # None
    BY <1>2, <1>3, HttpConstants
<1>6. ArmedHasClosure'
  <2>1. CASE tainted
      BY <1>2, <2>1 DEF ArmedHasClosure
  <2>2. CASE ClosuresAreTheirOwn
    <3>1. Armed' \cup ({calling'} \ {None}) \subseteq Armed
        BY <1>2, <1>4
    <3> QED BY <1>2, <2>2, <3>1 DEF ArmedHasClosure, ClosuresAreTheirOwn
  <2> QED BY <1>1, <2>1, <2>2 DEF ArmedHasClosure
<1>7. CancelIsFinal'
    BY <1>1, <1>2, <1>4 DEF CancelIsFinal
<1>8. head.id \in Ids /\ head.id \in 1..(nextId - 1)
    BY <1>1, <1>3, JobFacts, HttpConstants DEF Handed, HttpTypeOK
<1>9. Handed'
    BY <1>1, <1>2, <1>3, <1>8 DEF Handed
<1>10. Queued' /\ Counted'
    BY <1>1, <1>2 DEF Queued, Counted
<1>11. Turns'
    BY <1>1, <1>2, <1>5 DEF Turns
<1>12. HttpTypeOK'
    BY <1>1, <1>2, <1>3, <1>8 DEF HttpTypeOK, GameStates
<1>13. called' = called \cup {head.id} /\ ArmedIds' = ArmedIds \ {head.id} /\ head.id \in ArmedIds
  <2>1. head.id \notin IdsOf(InTransit')
      BY <1>1, <1>2, BatchStep DEF head
  <2>2. Armed = {job \in InTransit : job.callback # NoRef /\ job.generation = generation}
      BY DEF Armed
  <2>3. Armed' = {job \in InTransit' : job.callback # NoRef /\ job.generation = generation}
      BY <1>2 DEF Armed
  <2>4. Armed = Armed' \cup {head}
      BY <1>2, <1>3, <2>2, <2>3
  <2>5. head.id \notin ArmedIds'
      BY <2>1, <2>3 DEF ArmedIds, IdsOf
  <2>6. ArmedIds = ArmedIds' \cup {head.id}
      BY <2>4 DEF ArmedIds, IdsOf
  <2> QED BY <1>2, <2>5, <2>6
<1> QED BY <1>2, <1>13, <1>3, <1>6, <1>7, <1>9, <1>10, <1>11, <1>12, InvariantPartsNext

LEMMA ReturnedStep == ASSUME HttpInv, Returned PROVE HttpInv' /\ Armed' \subseteq Armed
<1>1. /\ HttpTypeOK /\ OnePlace /\ ArmedHasClosure /\ CancelIsFinal
      /\ Handed /\ Queued /\ Counted /\ Holding /\ Turns
    BY InvariantParts
<1>2. /\ pc = "lua" /\ calling # None /\ pc' = "drain" /\ calling' = None
      /\ registry' = Released({calling.callback})
      /\ UNCHANGED <<nextId, generation, inflight, pending, done, stopping, worker,
                     target, batch, called, cancelled, abandoned, tainted>>
    BY DEF Returned, InLua, queues, history
<1>3. OnePlace' /\ Holding' /\ InTransit' = InTransit
    BY <1>1, <1>2, SamePlaces
<1>4. Armed' = Armed
    BY <1>2, <1>3 DEF Armed
<1>5. ASSUME ClosuresAreTheirOwn
      PROVE  \A job \in Armed' \cup ({calling'} \ {None}) : job.callback \notin {calling.callback}
  <2> SUFFICES ASSUME NEW job \in Armed, job.callback = calling.callback PROVE FALSE
      BY <1>2, <1>4
  <2>1. job.id = calling.id
      BY <1>2, <1>5, KnownBySlot
  <2>2. job \in InTransit /\ calling.id \in called
      BY <1>1, <1>2, ArmedFacts
  <2> QED BY <1>1, <2>1, <2>2, Unique
<1>6. ArmedHasClosure'
    BY <1>1, <1>2, <1>4, <1>5, ReleaseStep
<1>7. CancelIsFinal' /\ Handed'
    BY <1>1, <1>2, <1>3, <1>4 DEF CancelIsFinal, Handed
<1>8. Queued' /\ Counted' /\ Turns'
    BY <1>1, <1>2 DEF Queued, Counted, Turns
<1>9. HttpTypeOK'
  <2>1. registry' \in [Refs -> Ids \cup {Free}]
      BY <1>1, <1>2, ReleasedType
  <2> QED BY <1>1, <1>2, <2>1 DEF HttpTypeOK, GameStates
<1> QED BY <1>3, <1>4, <1>6, <1>7, <1>8, <1>9, InvariantPartsNext

LEMMA EndDrainStep == ASSUME HttpInv, EndDrain PROVE HttpInv' /\ Armed' \subseteq Armed
<1>1. /\ HttpTypeOK /\ OnePlace /\ ArmedHasClosure /\ CancelIsFinal
      /\ Handed /\ Queued /\ Counted /\ Holding /\ Turns
    BY InvariantParts
<1>2. /\ pc = "drain" /\ batch = <<>> /\ pc' = "lua"
      /\ UNCHANGED <<nextId, generation, inflight, pending, done, stopping, worker, registry,
                     target, batch, calling, called, cancelled, abandoned, tainted>>
    BY DEF EndDrain, queues, history
<1>3. OnePlace' /\ Holding' /\ InTransit' = InTransit
    BY <1>1, <1>2, SamePlaces
<1>4. ArmedHasClosure' /\ CancelIsFinal' /\ Handed' /\ Armed' \subseteq Armed
    BY <1>1, <1>2, <1>3, QuietStep
<1>5. Queued' /\ Counted' /\ Turns'
    BY <1>1, <1>2 DEF Queued, Counted, Turns
<1>6. HttpTypeOK'
    BY <1>1, <1>2 DEF HttpTypeOK, GameStates
<1> QED BY <1>3, <1>4, <1>5, <1>6, InvariantPartsNext

\* A new Lua state: nothing that is still on the wire is of it.
LEMMA DisownStep ==
    ASSUME HttpInv, Disown, pc = "lua", calling = None, worker' \in Pools,
           UNCHANGED <<nextId, target, batch, calling, called, cancelled, abandoned>>,
           \A w \in Workers :
              /\ worker'[w].at = "performing" <=> worker[w].at = "performing"
              /\ worker'[w].at = "performing" => worker'[w].job = worker[w].job,
           stopping' \in BOOLEAN,
           \/ pc' = "lua" /\ generation < MaxGenerations
           \/ pc' = "joining"
    PROVE  HttpInv' /\ Armed' = {}
<1>1. /\ HttpTypeOK /\ OnePlace /\ ArmedHasClosure /\ CancelIsFinal
      /\ Handed /\ Queued /\ Counted /\ Holding /\ Turns
    BY InvariantParts
<1>2. /\ generation' = generation + 1 /\ pending' = <<>> /\ done' = <<>> /\ inflight' = 0
      /\ registry' = [r \in Refs |-> Free] /\ tainted' = FALSE
    BY DEF Disown
<1>3. batch = <<>>
    BY <1>1 DEF Turns
<1>4. /\ Elements(pending') = {} /\ Elements(done') = {} /\ Elements(batch') = {}
      /\ NoneTwice(pending') /\ NoneTwice(done') /\ NoneTwice(batch') /\ Len(pending') = 0
    BY <1>2, <1>3, NoElements
<1>5. /\ Wire(worker') = Wire(worker)
      /\ HeldOnce(worker) => HeldOnce(worker')
      /\ Holds(worker) => Holds(worker')
    BY SameWire
<1>6. OnePlace'
  <2>1. HeldOnce(worker) /\ IdsOf(Wire(worker)) \cap called = {}
      BY <1>1, OnePlaceParts DEF Apart
  <2>2. Apart(IdsOf({}), IdsOf(Wire(worker)), IdsOf({}), IdsOf({}), called)
      BY <2>1 DEF Apart, IdsOf
  <2> QED BY <1>4, <1>5, <2>1, <2>2, OnePlacePartsNext
<1>7. InTransit' \subseteq InTransit
    BY <1>4, <1>5, TransitParts
<1>8. generation \in Nat /\ generation <= MaxGenerations
    BY <1>1, HttpConstants DEF Turns, HttpTypeOK
<1>9. \A job \in InTransit' : job.generation <= generation /\ job.generation \in Nat
    BY <1>1, <1>7, TransitType, HttpConstants DEF Handed, Job
<1>10. Armed' = {}
    BY <1>2, <1>8, <1>9 DEF Armed
<1>11. ArmedHasClosure' /\ CancelIsFinal'
    BY <1>10 DEF ArmedHasClosure, ClosuresAreTheirOwn, CancelIsFinal
<1>12. Handed'
    BY <1>1, <1>2, <1>7, <1>8, <1>9 DEF Handed
<1>13. Queued'
    BY <1>4 DEF Queued
<1>14. Counted'
    BY <1>1, <1>2, <1>4, HttpConstants DEF Counted, HttpTypeOK
<1>15. Holding'
    BY <1>1, <1>5 DEF Holding, Holds
<1>16. Turns'
    BY <1>1, <1>2, <1>3, <1>8, HttpConstants DEF Turns
<1>17. HttpTypeOK'
  <2>1. generation' \in 1..MaxGenerations + 1 /\ 0 \in -MaxRequests..MaxRequests
      BY <1>1, <1>2, <1>8, HttpConstants DEF HttpTypeOK
  <2>2. <<>> \in Seq(Job) /\ [r \in Refs |-> Free] \in [Refs -> Ids \cup {Free}]
      OBVIOUS
  <2>3. pc' \in GameStates /\ tainted' \in BOOLEAN
      BY <1>2 DEF GameStates
  <2>4. worker' \in [Workers -> [at : WorkerStates, job : Job \cup {None}]]
      BY DEF Pools
  <2> QED BY <1>1, <1>2, <2>1, <2>2, <2>3, <2>4 DEF HttpTypeOK
<1> QED BY <1>6, <1>10, <1>11, <1>12, <1>13, <1>14, <1>15, <1>16, <1>17, InvariantPartsNext

LEMMA ResetStep == ASSUME HttpInv, Reset PROVE HttpInv' /\ Armed' = {}
<1>1. worker \in Pools /\ stopping \in BOOLEAN
    BY InvariantParts DEF HttpTypeOK, Pools
<1>2. /\ Disown /\ pc = "lua" /\ calling = None /\ pc' = "lua" /\ generation < MaxGenerations
      /\ UNCHANGED <<nextId, stopping, worker, target, batch, calling, called, cancelled, abandoned>>
    BY DEF Reset, BetweenFrames, InLua, game
<1> QED BY <1>1, <1>2, DisownStep

LEMMA ShutdownStep == ASSUME HttpInv, Shutdown PROVE HttpInv' /\ Armed' = {}
<1>1. worker \in Pools
    BY InvariantParts DEF HttpTypeOK, Pools
<1>2. /\ Disown /\ pc = "lua" /\ calling = None /\ pc' = "joining" /\ stopping' = TRUE
      /\ worker' = [w \in Workers |-> IF worker[w].at = "waiting"
                                      THEN [worker[w] EXCEPT !.at = "ready"] ELSE worker[w]]
      /\ UNCHANGED <<nextId, target, batch, calling, called, cancelled, abandoned>>
    BY DEF Shutdown, BetweenFrames, InLua
<1>3. /\ worker' \in Pools
      /\ \A w \in Workers : /\ worker'[w].at = "performing" <=> worker[w].at = "performing"
                            /\ worker'[w].at = "performing" => worker'[w].job = worker[w].job
  <2> DEFINE new == [w \in Workers |-> IF worker[w].at = "waiting"
                                      THEN [worker[w] EXCEPT !.at = "ready"] ELSE worker[w]]
  <2>1. /\ new \in Pools
        /\ \A w \in Workers : /\ new[w].at = "performing" <=> worker[w].at = "performing"
                              /\ new[w].at = "performing" => new[w].job = worker[w].job
      BY <1>1, WokenPool
  <2>2. worker' = new
      BY <1>2
  <2> HIDE DEF new
  <2> QED BY <2>1, <2>2
<1> QED BY <1>2, <1>3, DisownStep

LEMMA JoinedStep == ASSUME HttpInv, Joined PROVE HttpInv' /\ Armed' \subseteq Armed
<1>1. /\ HttpTypeOK /\ OnePlace /\ ArmedHasClosure /\ CancelIsFinal
      /\ Handed /\ Queued /\ Counted /\ Holding /\ Turns
    BY InvariantParts
<1>2. /\ pc = "joining" /\ pc' = "down"
      /\ \A w \in Workers : worker[w].at \in {"absent", "exited"}
      /\ worker' = [w \in Workers |-> [at |-> "absent", job |-> None]]
      /\ UNCHANGED <<nextId, generation, inflight, pending, done, stopping, registry,
                     target, batch, calling, called, cancelled, abandoned, tainted>>
    BY DEF Joined, queues, history
<1>3. \A w \in Workers : /\ worker'[w].at = "performing" <=> worker[w].at = "performing"
                         /\ worker'[w].at = "performing" => worker'[w].job = worker[w].job
    BY <1>2
<1>4. OnePlace' /\ Holding' /\ InTransit' = InTransit
    BY <1>1, <1>2, <1>3, SamePlaces
<1>5. ArmedHasClosure' /\ CancelIsFinal' /\ Handed' /\ Armed' \subseteq Armed
    BY <1>1, <1>2, <1>4, QuietStep
<1>6. Queued' /\ Counted' /\ Turns'
    BY <1>1, <1>2 DEF Queued, Counted, Turns
<1>7. HttpTypeOK'
    BY <1>1, <1>2 DEF HttpTypeOK, GameStates, WorkerStates
<1> QED BY <1>4, <1>5, <1>6, <1>7, InvariantPartsNext

-----------------------------------------------------------------------------
(* The theorems                                                            *)

LEMMA HttpBegins == HttpInit => HttpInv
<1> SUFFICES ASSUME HttpInit PROVE HttpInv
    OBVIOUS
<1>1. /\ nextId = 1 /\ generation = 1 /\ inflight = 0 /\ pending = <<>> /\ done = <<>>
      /\ stopping = FALSE /\ worker = [w \in Workers |-> [at |-> "absent", job |-> None]]
      /\ registry = [r \in Refs |-> Free] /\ pc = "lua" /\ target = None /\ batch = <<>>
      /\ calling = None /\ called = {} /\ cancelled = {} /\ abandoned = {} /\ tainted = FALSE
    BY DEF HttpInit
<1>2. HttpTypeOK
  <2>1. <<>> \in Seq(Job)
      OBVIOUS
  <2>2. /\ 1 \in 1..MaxRequests + 1 /\ 1 \in 1..MaxGenerations + 1
        /\ 0 \in -MaxRequests..MaxRequests
      BY HttpConstants
  <2>3. worker \in [Workers -> [at : WorkerStates, job : Job \cup {None}]]
      BY <1>1 DEF WorkerStates
  <2>4. registry \in [Refs -> Ids \cup {Free}]
      BY <1>1
  <2>5. pc \in GameStates /\ stopping \in BOOLEAN /\ tainted \in BOOLEAN
      BY <1>1 DEF GameStates
  <2> QED BY <1>1, <2>1, <2>2, <2>3, <2>4, <2>5 DEF HttpTypeOK
<1>3. /\ Elements(pending) = {} /\ Elements(done) = {} /\ Elements(batch) = {}
      /\ NoneTwice(pending) /\ NoneTwice(done) /\ NoneTwice(batch) /\ Len(pending) = 0
    BY <1>1, NoElements
<1>4. \A w \in Workers : worker[w].at # "performing"
    BY <1>1
<1>5. Wire(worker) = {} /\ HeldOnce(worker) /\ Holding
    BY <1>4 DEF Wire, HeldOnce, Holding
<1>6. OnePlace
  <2>1. Apart(IdsOf({}), IdsOf({}), IdsOf({}), IdsOf({}), {})
      BY DEF Apart, IdsOf
  <2> QED BY <1>1, <1>3, <1>5, <2>1, OnePlaceParts
<1>7. InTransit = {} /\ Armed = {}
    BY <1>3, <1>5, TransitParts DEF Armed
<1>8. ArmedHasClosure /\ CancelIsFinal
    BY <1>1, <1>7 DEF ArmedHasClosure, ClosuresAreTheirOwn, CancelIsFinal
<1>9. Handed /\ Queued /\ Counted
    BY <1>1, <1>3, <1>7 DEF Handed, Queued, Counted
<1>10. Turns
    BY <1>1, HttpConstants DEF Turns
<1> QED BY <1>2, <1>5, <1>6, <1>8, <1>9, <1>10, InvariantParts

\* Nothing changes.
LEMMA StutterStep == ASSUME HttpInv, UNCHANGED httpVars PROVE HttpInv' /\ Armed' \subseteq Armed
<1>1. /\ HttpTypeOK /\ OnePlace /\ ArmedHasClosure /\ CancelIsFinal
      /\ Handed /\ Queued /\ Counted /\ Holding /\ Turns
    BY InvariantParts
<1>2. UNCHANGED <<nextId, generation, inflight, pending, done, stopping, worker, registry,
                  pc, target, batch, calling, called, cancelled, abandoned, tainted>>
    BY DEF httpVars
<1>3. OnePlace' /\ Holding' /\ InTransit' = InTransit
    BY <1>1, <1>2, SamePlaces
<1>4. ArmedHasClosure' /\ CancelIsFinal' /\ Handed' /\ Armed' \subseteq Armed
    BY <1>1, <1>2, <1>3, QuietStep
<1>5. Queued' /\ Counted' /\ Turns'
    BY <1>1, <1>2 DEF Queued, Counted, Turns
<1>6. HttpTypeOK'
    BY <1>1, <1>2 DEF HttpTypeOK
<1> QED BY <1>3, <1>4, <1>5, <1>6, InvariantPartsNext

LEMMA NextKeeps == HttpInv /\ [HttpNext]_httpVars => HttpInv'
<1> SUFFICES ASSUME HttpInv, [HttpNext]_httpVars PROVE HttpInv'
    OBVIOUS
<1>1. ASSUME NEW w \in Workers, WorkerStep(w) PROVE HttpInv'
    BY <1>1, TakeStep, IdleStep, PostStep DEF WorkerStep
<1>2. ASSUME LuaStep PROVE HttpInv'
    BY <1>2, AskStep, RemovePluginStep, CancelStep DEF LuaStep
<1>3. ASSUME GameStep PROVE HttpInv'
    BY <1>3, CancelReplyStep, RemoveRepliesStep, SkipReplyStep, CallBackStep, EndDrainStep,
       JoinedStep DEF GameStep
<1>4. CASE StartDrain
    BY <1>4, StartDrainStep
<1>5. CASE Returned
    BY <1>5, ReturnedStep
<1>6. CASE Reset
    BY <1>6, ResetStep
<1>7. CASE Shutdown
    BY <1>7, ShutdownStep
<1>8. CASE UNCHANGED httpVars
    BY <1>8, StutterStep
<1> QED BY <1>1, <1>2, <1>3, <1>4, <1>5, <1>6, <1>7, <1>8 DEF HttpNext

THEOREM HttpInvariantAlways == HttpSpec => []HttpInv
<1> QED BY HttpBegins, NextKeeps, PTL DEF HttpSpec

\* Whatever the interleaving of workers, cancels, teardowns and drains, a request
\* is in one place, the slot it names holds its own closure, and a request whose
\* http.cancel returned true is armed nowhere.
THEOREM HttpConsistentAlways == HttpSpec => []HttpConsistent
<1>1. HttpInv => HttpConsistent
    BY DEF HttpInv
<1> QED BY <1>1, HttpInvariantAlways, PTL

-----------------------------------------------------------------------------
(* What a ledger shows                                                     *)

\* The status of every id, by the next id to give out, the ids called and the
\* ids that will be.
Shown(next, past, armed) ==
    [id \in Ids |->
        IF id >= next THEN "unasked" ELSE IF id \in past THEN "called"
        ELSE IF id \in armed THEN "waiting" ELSE "dropped"]

LEMMA ShownWaits ==
    ASSUME NEW next \in Nat, NEW past, NEW armed, NEW id \in Ids, id \in armed,
           Ids \subseteq Nat, id < next, id \notin past
    PROVE  Shown(next, past, armed)[id] = "waiting"
<1>1. ~(id >= next)
    OBVIOUS
<1> QED BY <1>1 DEF Shown

LEMMA ShownDrops ==
    ASSUME NEW next \in Nat, NEW past, NEW armed \in SUBSET Ids, NEW less \in SUBSET armed,
           Ids \subseteq Nat, \A id \in armed : id < next /\ id \notin past
    PROVE  /\ \A id \in armed \ less : Shown(next, past, armed)[id] = "waiting"
           /\ Shown(next, past, less) =
                [id \in Ids |-> IF id \in armed \ less THEN "dropped" ELSE Shown(next, past, armed)[id]]
<1> DEFINE old == Shown(next, past, armed)
           new == Shown(next, past, less)
<1>1. \A id \in armed : id \in Ids /\ ~(id >= next)
    OBVIOUS
<1>2. \A id \in armed : old[id] = "waiting"
    BY <1>1 DEF Shown
<1>3. ASSUME NEW id \in Ids PROVE new[id] = IF id \in armed \ less THEN "dropped" ELSE old[id]
  <2>1. CASE id \in armed \ less
    <3>1. id \notin less /\ id \notin past /\ ~(id >= next)
        BY <1>1, <2>1
    <3> QED BY <2>1, <3>1 DEF Shown
  <2>2. CASE id \notin armed \ less
    <3>1. id \in less <=> id \in armed
        BY <2>2
    <3> QED BY <2>2, <3>1 DEF Shown
  <2> QED BY <2>1, <2>2
<1>4. new = [id \in Ids |-> new[id]]
    BY DEF Shown
<1> HIDE DEF old, new
<1>5. new = [id \in Ids |-> IF id \in armed \ less THEN "dropped" ELSE old[id]]
    BY <1>3, <1>4
<1> QED BY <1>2, <1>5 DEF old, new

LEMMA ShownAsks ==
    ASSUME NEW next \in Ids, NEW past, NEW armed, Ids \subseteq Nat, \A id \in past : id < next
    PROVE  /\ Shown(next, past, armed)[next] = "unasked"
           /\ Shown(next + 1, past, armed \cup {next}) = [Shown(next, past, armed) EXCEPT ![next] = "waiting"]
<1> DEFINE old == Shown(next, past, armed)
           new == Shown(next + 1, past, armed \cup {next})
<1>1. next \in Nat /\ next >= next /\ ~(next >= next + 1) /\ next \notin past
    OBVIOUS
<1>2. old[next] = "unasked" /\ new[next] = "waiting"
    BY <1>1 DEF Shown
<1>3. ASSUME NEW id \in Ids, id # next PROVE new[id] = old[id]
  <2>1. id >= next + 1 <=> id >= next
      BY <1>1, <1>3
  <2> QED BY <1>3, <2>1 DEF Shown
<1>4. new = [id \in Ids |-> new[id]] /\ old = [id \in Ids |-> old[id]]
    BY DEF Shown
<1> HIDE DEF old, new
<1>5. new = [old EXCEPT ![next] = "waiting"]
    BY <1>2, <1>3, <1>4
<1> QED BY <1>2, <1>5 DEF old, new

LEMMA ShownCalls ==
    ASSUME NEW next \in Nat, NEW past, NEW armed, NEW id \in Ids, id \in armed,
           Ids \subseteq Nat, id < next, id \notin past
    PROVE  Shown(next, past \cup {id}, armed \ {id}) = [Shown(next, past, armed) EXCEPT ![id] = "called"]
<1> DEFINE old == Shown(next, past, armed)
           new == Shown(next, past \cup {id}, armed \ {id})
<1>1. ~(id >= next)
    OBVIOUS
<1>2. new[id] = "called"
    BY <1>1 DEF Shown
<1>3. \A k \in Ids \ {id} : new[k] = old[k]
    BY DEF Shown
<1>4. new = [k \in Ids |-> new[k]] /\ old = [k \in Ids |-> old[k]]
    BY DEF Shown
<1> HIDE DEF old, new
<1>5. new = [old EXCEPT ![id] = "called"]
    BY <1>2, <1>3, <1>4
<1> QED BY <1>5 DEF old, new

-----------------------------------------------------------------------------
(* The namespace implements RequestLedger                                  *)

LEMMA StatusParts ==
    /\ statusBar = Shown(nextId, called, ArmedIds)
    /\ statusBar' = Shown(nextId', called', ArmedIds')
<1>1. \A id : (\E job \in Armed : job.id = id) <=> id \in ArmedIds
    BY DEF ArmedIds, IdsOf
<1>2. \A id : (\E job \in Armed' : job.id = id) <=> id \in ArmedIds'
    BY DEF ArmedIds, IdsOf
<1> QED BY <1>1, <1>2 DEF statusBar, Shown

\* A request that is armed has been asked and not been called.
LEMMA ArmedIdsFacts ==
    ASSUME HttpTypeOK, OnePlace, Holding, Handed
    PROVE  /\ ArmedIds \subseteq Ids
           /\ \A id \in ArmedIds : id < nextId /\ id \notin called
           /\ \A id \in called : id \in Ids /\ id < nextId
<1>1. \A job \in Armed : job \in InTransit /\ job \in Job
    BY TransitType DEF Armed
<1>2. \A job \in Armed : job.id \in Ids /\ job.id < nextId /\ job.id \notin called
    BY <1>1, JobFacts, Unique DEF Handed
<1>3. \A id \in called : id \in Ids /\ id < nextId
    BY HttpConstants DEF HttpTypeOK, Handed
<1> QED BY <1>2, <1>3 DEF ArmedIds, IdsOf

\* A step that asks for nothing and calls nobody drops what it disarms.
LEMMA DropOrStutter ==
    ASSUME HttpInv, UNCHANGED <<nextId, called>>, ArmedIds' \subseteq ArmedIds
    PROVE  Ledger!Next
<1>1. PICK armed, less : armed = ArmedIds /\ less = ArmedIds'
    OBVIOUS
<1>2. /\ armed \subseteq Ids /\ less \subseteq armed /\ nextId \in Nat /\ Ids \subseteq Nat
      /\ \A id \in armed : id < nextId /\ id \notin called
    BY <1>1, InvariantParts, ArmedIdsFacts, JobFacts, HttpConstants DEF HttpTypeOK
<1>3. statusBar = Shown(nextId, called, armed) /\ statusBar' = Shown(nextId, called, less)
    BY <1>1, StatusParts
<1>4. /\ \A id \in armed \ less : statusBar[id] = "waiting"
      /\ statusBar' = [id \in Ids |-> IF id \in armed \ less THEN "dropped" ELSE statusBar[id]]
    BY <1>2, <1>3, ShownDrops
<1>5. armed \ less \subseteq Ledger!Waiting
    BY <1>2, <1>4 DEF Ledger!Waiting
<1>6. Ledger!Drop(armed \ less)
    BY <1>4, <1>5 DEF Ledger!Drop
<1> QED BY <1>5, <1>6 DEF Ledger!Next

\* A step that leaves armed what was armed and arms the next id asks.
LEMMA AskIsAsk ==
    ASSUME HttpInv, nextId \in Ids, nextId' = nextId + 1, called' = called,
           ArmedIds' = ArmedIds \cup {nextId}
    PROVE  Ledger!Next
<1>1. Ids \subseteq Nat /\ \A id \in called : id < nextId
    BY InvariantParts, ArmedIdsFacts, JobFacts
<1>2. statusBar = Shown(nextId, called, ArmedIds) /\ statusBar' = Shown(nextId + 1, called, ArmedIds \cup {nextId})
    BY StatusParts
<1>3. statusBar[nextId] = "unasked" /\ statusBar' = [statusBar EXCEPT ![nextId] = "waiting"]
    BY <1>1, <1>2, ShownAsks
<1>4. Ledger!Ask(nextId)
    BY <1>3 DEF Ledger!Ask
<1> QED BY <1>4 DEF Ledger!Next

\* A step that calls an armed id back and disarms it.
LEMMA CallBackIsCallBack ==
    ASSUME HttpInv, nextId' = nextId, NEW id \in ArmedIds,
           called' = called \cup {id}, ArmedIds' = ArmedIds \ {id}
    PROVE  Ledger!Next
<1>1. nextId \in Nat /\ Ids \subseteq Nat
    BY InvariantParts, JobFacts, HttpConstants DEF HttpTypeOK
<1>2. id \in Ids /\ id < nextId /\ id \notin called
    BY InvariantParts, ArmedIdsFacts
<1>3. statusBar = Shown(nextId, called, ArmedIds) /\ statusBar' = Shown(nextId, called \cup {id}, ArmedIds \ {id})
    BY StatusParts
<1>4. statusBar[id] = "waiting"
    BY <1>1, <1>2, <1>3, ShownWaits
<1>5. statusBar' = [statusBar EXCEPT ![id] = "called"]
    BY <1>1, <1>2, <1>3, ShownCalls
<1>6. Ledger!CallBack(id)
    BY <1>4, <1>5 DEF Ledger!CallBack
<1> QED BY <1>2, <1>6 DEF Ledger!Next

LEMMA NextIsLedger == HttpInv /\ [HttpNext]_httpVars => [Ledger!Next]_statusBar
<1> SUFFICES ASSUME HttpInv, [HttpNext]_httpVars PROVE Ledger!Next
    OBVIOUS
<1>1. ASSUME Armed' \subseteq Armed, UNCHANGED <<nextId, called>> PROVE Ledger!Next
  <2>1. ArmedIds' \subseteq ArmedIds
      BY <1>1 DEF ArmedIds, IdsOf
  <2> QED BY <1>1, <2>1, DropOrStutter
<1>2. ASSUME NEW w \in Workers, WorkerStep(w) PROVE Ledger!Next
  <2>1. Armed' \subseteq Armed
      BY <1>2, TakeStep, IdleStep, PostStep DEF WorkerStep
  <2>2. UNCHANGED <<nextId, called>>
      BY <1>2 DEF WorkerStep, Take, Wait, Exit, Post, history
  <2> QED BY <1>1, <2>1, <2>2
<1>3. ASSUME NEW p \in Plugins, Ask(p) PROVE Ledger!Next
    BY <1>3, AskStep, AskIsAsk
<1>4. ASSUME NEW p \in Plugins, RemovePlugin(p) PROVE Ledger!Next
  <2>1. UNCHANGED <<nextId, called>>
      BY <1>4 DEF RemovePlugin, history
  <2> QED BY <1>1, <1>4, <2>1, RemovePluginStep
<1>5. ASSUME NEW id \in Ids, Cancel(id) PROVE Ledger!Next
  <2>1. UNCHANGED <<nextId, called>>
      BY <1>5 DEF Cancel
  <2> QED BY <1>1, <1>5, <2>1, CancelStep
<1>6. CASE CallBack
  <2>1. /\ nextId' = nextId
        /\ \E id \in ArmedIds : called' = called \cup {id} /\ ArmedIds' = ArmedIds \ {id}
      BY <1>6, CallBackStep
  <2> QED BY <2>1, CallBackIsCallBack
<1>7. CASE GameStep /\ ~CallBack
  <2>1. UNCHANGED <<nextId, called>>
      BY <1>7 DEF GameStep, CancelReply, RemoveReplies, SkipReply, EndDrain, Joined, history
  <2>2. Armed' \subseteq Armed
      BY <1>7, CancelReplyStep, RemoveRepliesStep, SkipReplyStep, EndDrainStep, JoinedStep
      DEF GameStep
  <2> QED BY <1>1, <2>1, <2>2
<1>8. CASE StartDrain \/ Returned
  <2>1. UNCHANGED <<nextId, called>>
      BY <1>8 DEF StartDrain, Returned, history
  <2> QED BY <1>1, <1>8, <2>1, StartDrainStep, ReturnedStep
<1>9. CASE Reset \/ Shutdown
  <2>1. UNCHANGED <<nextId, called>>
      BY <1>9 DEF Reset, Shutdown
  <2>2. Armed' = {}
      BY <1>9, ResetStep, ShutdownStep
  <2> QED BY <1>1, <2>1, <2>2
<1>10. CASE UNCHANGED httpVars
  <2>1. UNCHANGED <<nextId, called>>
      BY <1>10 DEF httpVars
  <2> QED BY <1>1, <1>10, <2>1, StutterStep
<1> QED BY <1>2, <1>3, <1>4, <1>5, <1>6, <1>7, <1>8, <1>9, <1>10 DEF HttpNext, LuaStep

\* The threads, queues and locks of the namespace implement what RequestLedger
\* promises: a request that was accepted is called back once or dropped once,
\* and never one after the other.
THEOREM HttpImplementsLedger == HttpSpec => KeepsLedger
<1>1. HttpInit => Ledger!Init
  <2> SUFFICES ASSUME HttpInit PROVE Ledger!Init
      OBVIOUS
  <2>1. nextId = 1 /\ \A id \in Ids : id >= nextId
      BY JobFacts DEF HttpInit
  <2>2. statusBar = [id \in Ids |-> "unasked"]
      BY <2>1, StatusParts DEF Shown
  <2> QED BY <2>2 DEF Ledger!Init
<1> QED BY <1>1, NextIsLedger, HttpInvariantAlways, PTL DEF HttpSpec, KeepsLedger, Ledger!Spec
=============================================================================
