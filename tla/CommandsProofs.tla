---------------------------- MODULE CommandsProofs ----------------------------
(***************************************************************************)
(* Theorems about Commands for any plugins, names, channels and lists of   *)
(* sources, under an operator and plugins that are Careful.                *)
(*                                                                         *)
(* Consistent is not inductive: what is declared is its scope's, and that  *)
(* the scope of running code is a plugin that runs takes what Frames says  *)
(* of the activities in progress and Books of the plugins' flags.          *)
(***************************************************************************)
EXTENDS Commands, TLAPS

\* What an activity needs of its plugin.
Sound(f) ==
    /\ f.what \in {"load", "code"} => f.code \in Incarnations
    /\ f.what # "code" => f.scope # Nobody
    /\ f.scope # Nobody => loaded[f.scope]
    /\ f.what \in {"load", "code"} /\ f.scope # Nobody => running[f.scope] # 0
    /\ f.what = "notify" => exports[f.scope] = 0

\* A load or a teardown is begun above code alone, and none of it its plugin's.
Alone(k) ==
    stack[k].what # "code" =>
        \A j \in 1..k - 1 : stack[j].what = "code" /\ stack[j].scope # stack[k].scope

Frames == \A k \in 1..Len(stack) : Sound(stack[k]) /\ Alone(k)

\* A plugin that runs is loaded, and one that is not loaded has nothing exported.
Books ==
    \A p \in Plugins :
        /\ running[p] # 0 => loaded[p]
        /\ running[p] <= loads
        /\ ~loaded[p] => exports[p] = 0

IInv == Careful /\ Consistent /\ Frames /\ Books

-----------------------------------------------------------------------------
(* Activities                                                              *)

LEMMA TopType == TypeOK /\ ~Idle => Len(stack) \in 1..Len(stack) /\ Top \in Activity
BY DEF TypeOK, Idle, Top

LEMMA ButLast ==
    ASSUME NEW S, NEW s \in Seq(S), NEW n \in Nat, n <= Len(s)
    PROVE  /\ SubSeq(s, 1, n) \in Seq(S)
           /\ Len(SubSeq(s, 1, n)) = n
           /\ \A k \in 1..n : SubSeq(s, 1, n)[k] = s[k]
OBVIOUS

LEMMA BelowType ==
    ASSUME TypeOK, ~Idle
    PROVE  /\ Below \in Seq(Activity)
           /\ Len(Below) = Len(stack) - 1
           /\ \A k \in 1..Len(Below) : k \in 1..Len(stack) /\ Below[k] = stack[k] /\ k < Len(stack)
<1>1. stack \in Seq(Activity) /\ Len(stack) \in Nat /\ Len(stack) > 0
    BY DEF TypeOK, Idle
<1>2. Len(stack) - 1 \in Nat /\ Len(stack) - 1 <= Len(stack)
    BY <1>1
<1>3. \A k \in 1..Len(stack) - 1 : k \in 1..Len(stack) /\ k < Len(stack)
    BY <1>1
<1> QED BY <1>1, <1>2, <1>3, ButLast DEF Below

\* One that is begun on top of what is left of the others.
LEMMA Begun ==
    ASSUME TypeOK, Frames, NEW f \in Activity,
           NEW base \in Seq(Activity), Len(base) <= Len(stack),
           \A k \in 1..Len(base) : base[k] = stack[k],
           \A g \in {base[k] : k \in 1..Len(base)} : Sound(g)',
           stack' = Append(base, f),
           Sound(f)',
           f.what # "code" => \A j \in 1..Len(base) : base[j].what = "code" /\ base[j].scope # f.scope
    PROVE  stack' \in Seq(Activity) /\ Frames'
<1>1. stack \in Seq(Activity) /\ Len(stack) \in Nat /\ Len(base) \in Nat
    BY DEF TypeOK
<1>2. /\ Len(stack') = Len(base) + 1
      /\ stack'[Len(base) + 1] = f
      /\ \A k \in 1..Len(base) : stack'[k] = stack[k]
    BY <1>1
<1> SUFFICES ASSUME NEW k \in 1..Len(base) + 1 PROVE Sound(stack[k])' /\ Alone(k)'
    BY <1>1, <1>2 DEF Frames
<1>3. CASE k \in 1..Len(base)
  <2>1. k \in 1..Len(stack) /\ \A j \in 1..k - 1 : j \in 1..Len(base)
      BY <1>1, <1>3
  <2>2. Alone(k) /\ stack'[k] = stack[k] /\ \A j \in 1..k - 1 : stack'[j] = stack[j]
      BY <1>2, <1>3, <2>1 DEF Frames
  <2>3. Alone(k)'
      BY <2>2 DEF Alone
  <2>4. base[k] \in {base[j] : j \in 1..Len(base)} /\ stack'[k] = base[k]
      BY <1>3, <2>2
  <2>5. Sound(stack[k])'
      BY <2>4 DEF Sound
  <2> QED BY <2>3, <2>5
<1>4. CASE k = Len(base) + 1
  <2>1. stack'[k] = f /\ \A j \in 1..k - 1 : j \in 1..Len(base) /\ stack'[j] = base[j]
      BY <1>1, <1>2, <1>4
  <2>2. Alone(k)'
      BY <2>1 DEF Alone
  <2>3. Sound(stack[k])'
      BY <2>1 DEF Sound
  <2> QED BY <2>2, <2>3
<1> QED BY <1>1, <1>3, <1>4

\* One that ends.
LEMMA Ended ==
    ASSUME TypeOK, Frames, ~Idle, stack' = Below,
           \A g \in {stack[k] : k \in 1..Len(Below)} : Sound(g)'
    PROVE  stack' \in Seq(Activity) /\ Frames'
<1> SUFFICES ASSUME NEW k \in 1..Len(stack') PROVE Sound(stack[k])' /\ Alone(k)'
    BY BelowType DEF Frames
<1>1. k \in 1..Len(Below) /\ Alone(k) /\ stack'[k] = stack[k]
    BY BelowType DEF Frames
<1>2. \A j \in 1..k - 1 : stack'[j] = stack[j]
  <2>1. Len(Below) \in Nat
      BY BelowType
  <2>2. \A j \in 1..k - 1 : j \in 1..Len(Below)
      BY <1>1, <2>1
  <2> QED BY <2>2, BelowType
<1>3. Alone(k)'
    BY <1>1, <1>2 DEF Alone
<1>4. stack[k] \in {stack[j] : j \in 1..Len(Below)} /\ stack'[k] = stack[k]
    BY <1>1
<1>5. Sound(stack[k])'
    BY <1>4 DEF Sound
<1> QED BY <1>3, <1>5

\* What becomes of one plugin does not matter to the activities of others.
LEMMA SoundOfOthers ==
    ASSUME NEW f \in Activity, NEW p \in Plugins, Sound(f), f.scope # p,
           \A q \in Plugins \ {p} :
               loaded'[q] = loaded[q] /\ running'[q] = running[q] /\ exports'[q] = exports[q]
    PROVE  Sound(f)'
<1>1. f.scope \in Plugins \cup {Nobody}
    BY DEF Activity, Owners
<1>2. CASE f.scope = Nobody
    BY <1>2 DEF Sound
<1>3. CASE f.scope \in Plugins \ {p}
    BY <1>3, CommandConstants DEF Sound
<1> QED BY <1>1, <1>2, <1>3

\* Nor does anything, if the plugins stay as they are.
LEMMA SoundStays == ASSUME NEW f, Sound(f), UNCHANGED <<exports, loaded, running>> PROVE Sound(f)'
BY DEF Sound

\* Code: the scope is a running plugin's or nobody's.
LEMMA PushedCode ==
    ASSUME TypeOK, Frames, NEW scope \in Owners, NEW code \in Incarnations,
           scope # Nobody => loaded[scope] /\ running[scope] # 0,
           stack' = Append(stack, Code(scope, code)), UNCHANGED <<exports, loaded, running>>
    PROVE  stack' \in Seq(Activity) /\ Frames'
<1>1. Code(scope, code) \in Activity
    BY CommandConstants DEF Code, Activity, Incarnations
<1>2. Sound(Code(scope, code))' /\ Code(scope, code).what = "code"
    BY DEF Sound, Code
<1>3. stack \in Seq(Activity) /\ Len(stack) \in Nat
    BY DEF TypeOK
<1>4. \A g \in {stack[k] : k \in 1..Len(stack)} : Sound(g)'
    BY SoundStays DEF Frames
<1> QED BY <1>1, <1>2, <1>3, <1>4, Begun

LEMMA InLuaTop ==
    ASSUME TypeOK, Frames, InLua
    PROVE  /\ ~Idle
           /\ Top.scope \in Owners
           /\ Top.code \in Incarnations
           /\ Top.scope # Nobody => loaded[Top.scope] /\ running[Top.scope] # 0
<1>1. ~Idle /\ Top.what \in {"load", "code"}
    BY DEF InLua, Doing
<1>2. Sound(Top)
    BY <1>1, TopType DEF Frames, Top
<1> QED BY <1>1, <1>2, TopType DEF Sound, Activity

-----------------------------------------------------------------------------
(* Running                                                                 *)

LEMMA EntryFacts == \A e \in Entry : e # NoEntry /\ e.code \in Incarnations
BY DEF Entry, NoEntry

\* What a live command runs, and in whose scope.
LEMMA LiveFacts ==
    ASSUME IInv, NEW t \in Tables, NEW n \in Names, commands[<<t, n>>].live
    PROVE  /\ Resolves(t, n) \in Entry
           /\ commands[<<t, n>>].plugin \in Owners
           /\ commands[<<t, n>>].plugin # Nobody =>
                  loaded[commands[<<t, n>>].plugin] /\ running[commands[<<t, n>>].plugin] # 0
<1>1. TypeOK /\ LiveHoldsItsClosure /\ DormantUntilDeclared /\ Books
    BY DEF IInv, Consistent
<1>2. <<t, n>> \in Tables \X Names /\ commands[<<t, n>>] \in Command /\ commands[<<t, n>>].live
    BY <1>1 DEF TypeOK
<1>3. ClosureOf(<<t, n>>) \in Closure
    BY <1>1, <1>2 DEF TypeOK, LiveHoldsItsClosure
<1>4. commands[<<t, n>>].entry \in Entry
    BY <1>3 DEF ClosureOf, Closure
<1>5. Resolves(t, n) \in Entry
    BY <1>1, <1>4 DEF Resolves, TypeOK
<1>6. commands[<<t, n>>].plugin \in Owners
    BY <1>2 DEF Command
<1>7. commands[<<t, n>>].plugin # Nobody => running[commands[<<t, n>>].plugin] # 0
    BY <1>1, <1>2 DEF DormantUntilDeclared
<1> QED BY <1>1, <1>5, <1>6, <1>7 DEF Owners, Books

\* What stays as it is when only activities begin and end.
LEMMA Untouched ==
    ASSUME IInv, UNCHANGED <<tables, exports, plugins, adds>>, stack' \in Seq(Activity), Frames'
    PROVE  IInv'
<1>1. UNCHANGED <<commands, held, registry, exports, loaded, running, loads, adds>>
    BY DEF tables, plugins
<1>2. TypeOK'
    BY <1>1 DEF IInv, Consistent, TypeOK
<1>3. LiveHoldsItsClosure'
    BY <1>1 DEF IInv, Consistent, LiveHoldsItsClosure, ClosureOf
<1>4. DormantUntilDeclared'
    BY <1>1 DEF IInv, Consistent, DormantUntilDeclared
<1>5. Books'
    BY <1>1 DEF IInv, Books
<1> QED BY <1>2, <1>3, <1>4, <1>5 DEF IInv, Consistent

LEMMA RunsStep ==
    ASSUME IInv, NEW scope \in Owners, NEW entry \in Entry, Runs(scope, entry),
           scope # Nobody => loaded[scope] /\ running[scope] # 0
    PROVE  IInv'
<1>1. TypeOK /\ Frames
    BY DEF IInv, Consistent
<1>2. /\ stack' = Append(stack, Code(scope, entry.code))
      /\ UNCHANGED <<tables, exports, plugins, adds>>
      /\ UNCHANGED <<exports, loaded, running>>
    BY DEF Runs, plugins
<1>3. stack' \in Seq(Activity) /\ Frames'
    BY <1>1, <1>2, EntryFacts, PushedCode
<1> QED BY <1>2, <1>3, Untouched

LEMMA CallExportStep == ASSUME IInv, NEW o \in Owners, CallExport(o) PROVE IInv'
<1>1. TypeOK /\ Frames /\ InLua
    BY DEF IInv, Consistent, CallExport
<1>2. exports[o] \in Incarnations
    BY <1>1, CommandConstants DEF TypeOK, CallExport, Incarnations
<1>3. /\ stack' = Append(stack, Code(Top.scope, exports[o]))
      /\ UNCHANGED <<tables, exports, plugins, adds>>
      /\ UNCHANGED <<exports, loaded, running>>
    BY DEF CallExport, plugins
<1>4. stack' \in Seq(Activity) /\ Frames'
    BY <1>1, <1>2, <1>3, InLuaTop, PushedCode
<1> QED BY <1>3, <1>4, Untouched

LEMMA DispatchStep == ASSUME IInv, NEW p \in Plugins, Dispatch(p) PROVE IInv'
<1>1. TypeOK /\ Frames /\ Books /\ running[p] # 0
    BY DEF IInv, Consistent, Dispatch
<1>2. p \in Owners /\ loaded[p] /\ running[p] \in Incarnations
    BY <1>1, CommandConstants DEF TypeOK, Books, Owners, Incarnations
<1>3. /\ stack' = Append(stack, Code(p, running[p]))
      /\ UNCHANGED <<tables, exports, plugins, adds>>
      /\ UNCHANGED <<exports, loaded, running>>
    BY DEF Dispatch, plugins
<1>4. stack' \in Seq(Activity) /\ Frames'
    BY <1>1, <1>2, <1>3, PushedCode
<1> QED BY <1>3, <1>4, Untouched

\* Return and LoadEnds.
LEMMA EndsStep ==
    ASSUME IInv, ~Idle, stack' = Below, UNCHANGED <<tables, exports, plugins, adds>>
    PROVE  IInv'
<1>1. TypeOK /\ Frames
    BY DEF IInv, Consistent
<1>2. \A g \in {stack[k] : k \in 1..Len(Below)} : Sound(g)'
    BY <1>1, BelowType, SoundStays DEF plugins, Frames
<1> QED BY <1>1, <1>2, Ended, Untouched

-----------------------------------------------------------------------------
(* Declaring                                                               *)

LEMMA ClosuresDiffer ==
    \A tn, un \in Tables \X Names : ClosureOf(tn) = ClosureOf(un) => tn = un
BY DEF ClosureOf

\* The closures of some commands are replaced, and no others.
Replaced(hit, added) ==
    /\ hit \subseteq Tables \X Names
    /\ held' = (held \ {ClosureOf(tn) : tn \in hit}) \cup added
    /\ \A c \in added : \E tn \in hit : commands'[tn].live /\ c = ClosureOf(tn)'
    /\ \A tn \in hit : commands'[tn].live => ClosureOf(tn)' \in added
    /\ \A tn \in (Tables \X Names) \ hit :
           ClosureOf(tn)' = ClosureOf(tn) /\ commands'[tn].live = commands[tn].live

LEMMA Reheld ==
    ASSUME LiveHoldsItsClosure, NEW hit, NEW added, Replaced(hit, added)
    PROVE  LiveHoldsItsClosure'
<1>1. /\ hit \subseteq Tables \X Names
      /\ held' = (held \ {ClosureOf(tn) : tn \in hit}) \cup added
      /\ \A c \in added : \E tn \in hit : commands'[tn].live /\ c = ClosureOf(tn)'
      /\ \A tn \in hit : commands'[tn].live => ClosureOf(tn)' \in added
    BY DEF Replaced
<1>2. \A tn \in (Tables \X Names) \ hit :
          ClosureOf(tn)' = ClosureOf(tn) /\ commands'[tn].live = commands[tn].live
    BY DEF Replaced
<1>3. ASSUME NEW c \in held'
      PROVE  \E tn \in Tables \X Names : commands'[tn].live /\ c = ClosureOf(tn)'
  <2>1. CASE c \in added
      BY <1>1, <2>1
  <2>2. CASE c \notin added
    <3>1. PICK tn \in Tables \X Names : commands[tn].live /\ c = ClosureOf(tn)
        BY <1>1, <1>3, <2>2 DEF LiveHoldsItsClosure
    <3>2. tn \notin hit
        BY <1>1, <1>3, <2>2, <3>1
    <3> QED BY <1>2, <3>1, <3>2
  <2> QED BY <2>1, <2>2
<1>4. ASSUME NEW tn \in Tables \X Names, commands'[tn].live
      PROVE  ClosureOf(tn)' \in held'
  <2>1. CASE tn \in hit
      BY <1>1, <1>4, <2>1
  <2>2. CASE tn \notin hit
    <3>1. ClosureOf(tn)' = ClosureOf(tn) /\ ClosureOf(tn) \in held
        BY <1>2, <1>4, <2>2 DEF LiveHoldsItsClosure
    <3>2. ClosureOf(tn) \notin {ClosureOf(un) : un \in hit}
        BY <1>1, <2>2, ClosuresDiffer
    <3> QED BY <1>1, <3>1, <3>2
  <2> QED BY <2>1, <2>2
<1>5. held' = {ClosureOf(tn)' : tn \in {x \in Tables \X Names : commands'[x].live}}
    BY <1>3, <1>4
<1> QED BY <1>5 DEF LiveHoldsItsClosure, ClosureOf

LEMMA AddStep ==
    ASSUME IInv, NEW ns \in (SUBSET Names) \ {{}}, NEW sources \in Asked, Add(ns, sources)
    PROVE  IInv'
<1> DEFINE owner == Top.scope
           e     == [add |-> adds + 1, code |-> Top.code, sources |-> sources,
                     since |-> IF owner = Nobody THEN 0 ELSE running[owner]]
           ts    == sources \cap Tables
<1>1. TypeOK /\ LiveHoldsItsClosure /\ DormantUntilDeclared /\ Frames /\ InLua
    BY DEF IInv, Consistent, Add
<1>2. /\ adds < MaxAdds /\ adds' = adds + 1
      /\ registry' = [n \in Names |-> IF n \in ns THEN e ELSE registry[n]]
      /\ commands' = [tn \in Tables \X Names |->
             IF tn \in ts \X ns THEN Declared(tn, e, owner) ELSE commands[tn]]
      /\ held' = Released(ts, ns) \cup [table : ts, name : ns, entry : {e}]
      /\ UNCHANGED <<exports, loaded, running, loads, stack>>
    BY DEF Add, plugins
<1>3. owner \in Owners /\ (owner # Nobody => running[owner] # 0)
    BY <1>1, InLuaTop
<1>4. e \in Entry /\ e.since = IF owner = Nobody THEN 0 ELSE running[owner]
  <2>1. adds + 1 \in 1..MaxAdds
      BY <1>1, <1>2, CommandConstants DEF TypeOK
  <2>2. Top.code \in Incarnations
      BY <1>1, InLuaTop
  <2>3. (IF owner = Nobody THEN 0 ELSE running[owner]) \in 0..MaxLoads
      BY <1>1, InLuaTop, CommandConstants DEF TypeOK, Owners
  <2> QED BY <2>1, <2>2, <2>3 DEF Entry
<1> HIDE DEF e, owner
<1> DEFINE New == [entry |-> e, plugin |-> owner, live |-> TRUE]
<1>5. \A tn \in Tables \X Names :
          commands'[tn] = IF tn \in ts \X ns THEN New ELSE commands[tn]
    BY <1>2 DEF Declared
<1>6. New \in Command
    BY <1>3, <1>4 DEF Command
<1>7. TypeOK'
  <2>1. commands' \in [Tables \X Names -> Command]
    <3>1. \A tn \in Tables \X Names : commands'[tn] \in Command
        BY <1>1, <1>5, <1>6 DEF TypeOK
    <3> QED BY <1>2, <3>1
  <2>2. held' \subseteq Closure
    <3>1. [table : ts, name : ns, entry : {e}] \subseteq Closure
        BY <1>4 DEF Closure
    <3> QED BY <1>1, <1>2, <3>1 DEF TypeOK, Released
  <2>3. registry' \in [Names -> Entry \cup {NoEntry}]
      BY <1>1, <1>2, <1>4 DEF TypeOK
  <2>4. adds' \in 0..MaxAdds
      BY <1>1, <1>2, CommandConstants DEF TypeOK
  <2> QED BY <1>1, <1>2, <2>1, <2>2, <2>3, <2>4 DEF TypeOK
<1>8. LiveHoldsItsClosure'
  <2>1. \A c \in [table : ts, name : ns, entry : {e}] :
            \E tn \in ts \X ns : commands'[tn].live /\ c = ClosureOf(tn)'
    <3> TAKE c \in [table : ts, name : ns, entry : {e}]
    <3>1. <<c.table, c.name>> \in ts \X ns /\ <<c.table, c.name>> \in Tables \X Names
        OBVIOUS
    <3>2. commands'[<<c.table, c.name>>] = New
        BY <1>5, <3>1
    <3>3. c = [table |-> c.table, name |-> c.name, entry |-> e]
        OBVIOUS
    <3> QED BY <3>1, <3>2, <3>3 DEF ClosureOf
  <2>2. \A tn \in ts \X ns : ClosureOf(tn)' \in [table : ts, name : ns, entry : {e}]
    <3> TAKE tn \in ts \X ns
    <3>1. tn \in Tables \X Names /\ tn[1] \in ts /\ tn[2] \in ns
        OBVIOUS
    <3>2. commands'[tn] = New
        BY <1>5, <3>1
    <3>3. ClosureOf(tn)' = [table |-> tn[1], name |-> tn[2], entry |-> e]
        BY <3>2 DEF ClosureOf
    <3>4. [table |-> tn[1], name |-> tn[2], entry |-> e] \in [table : ts, name : ns, entry : {e}]
        BY <3>1
    <3> QED BY <3>3, <3>4
  <2>3. \A tn \in (Tables \X Names) \ (ts \X ns) :
            ClosureOf(tn)' = ClosureOf(tn) /\ commands'[tn].live = commands[tn].live
      BY <1>5 DEF ClosureOf
  <2>4. ts \X ns \subseteq Tables \X Names
      OBVIOUS
  <2>5. held' = (held \ {ClosureOf(tn) : tn \in ts \X ns}) \cup [table : ts, name : ns, entry : {e}]
      BY <1>2 DEF Released
  <2>6. Replaced(ts \X ns, [table : ts, name : ns, entry : {e}])
      BY <2>1, <2>2, <2>3, <2>4, <2>5 DEF Replaced
  <2> HIDE DEF ts
  <2> QED BY <1>1, <2>6, Reheld
<1>9. DormantUntilDeclared'
  <2> SUFFICES ASSUME NEW tn \in Tables \X Names, commands'[tn].live
               PROVE  IF commands'[tn].plugin = Nobody THEN commands'[tn].entry.since = 0
                      ELSE /\ commands'[tn].entry.since = running'[commands'[tn].plugin]
                           /\ commands'[tn].entry.since # 0
      BY DEF DormantUntilDeclared
  <2>1. CASE tn \in ts \X ns
      BY <1>2, <1>3, <1>4, <1>5, <2>1
  <2>2. CASE tn \notin ts \X ns
      BY <1>1, <1>2, <1>5, <2>2 DEF DormantUntilDeclared
  <2> QED BY <2>1, <2>2
<1>10. Frames' /\ Books'
    BY <1>2 DEF IInv, Frames, Alone, Sound, Books
<1> QED BY <1>7, <1>8, <1>9, <1>10 DEF IInv, Consistent

LEMMA WithdrawStep == ASSUME IInv, NEW n \in Names, Withdraw(n) PROVE IInv'
<1>1. /\ registry' = [registry EXCEPT ![n] = NoEntry]
      /\ UNCHANGED <<commands, held, exports, loaded, running, loads, stack, adds>>
    BY DEF Withdraw, plugins
<1>2. TypeOK'
    BY <1>1 DEF IInv, Consistent, TypeOK
<1>3. LiveHoldsItsClosure' /\ DormantUntilDeclared'
    BY <1>1 DEF IInv, Consistent, LiveHoldsItsClosure, DormantUntilDeclared, ClosureOf
<1>4. Frames' /\ Books'
    BY <1>1 DEF IInv, Frames, Alone, Sound, Books
<1> QED BY <1>2, <1>3, <1>4 DEF IInv, Consistent

\* MayExport keeps a teardown from finding something exported after Dropped.
LEMMA ExportStep == ASSUME IInv, NEW override \in BOOLEAN, Export(override) PROVE IInv'
<1>1. /\ exports' = [exports EXCEPT ![Top.scope] = Top.code]
      /\ UNCHANGED <<commands, held, registry, loaded, running, loads, stack, adds>>
    BY DEF Export, tables, plugins
<1>2. TypeOK /\ Frames /\ Books /\ InLua /\ Careful
    BY DEF IInv, Consistent, Export
<1>3. TypeOK'
  <2>1. Top.code \in 0..MaxLoads
      BY <1>2, InLuaTop, CommandConstants DEF Incarnations
  <2> QED BY <1>1, <1>2, <2>1 DEF TypeOK
<1>4. LiveHoldsItsClosure' /\ DormantUntilDeclared'
    BY <1>1 DEF IInv, Consistent, LiveHoldsItsClosure, DormantUntilDeclared, ClosureOf
<1>5. Frames'
  <2>1. \A k \in 1..Len(stack) : stack[k].what = "notify" => stack[k].scope # Top.scope
    <3>1. MayExport
        BY DEF Export
    <3> QED BY <1>2, <3>1, Zenon DEF MayExport
  <2>2. \A k \in 1..Len(stack) : stack[k].scope \in Owners
    <3>1. \A k \in 1..Len(stack) : stack[k] \in Activity
        BY <1>2 DEF TypeOK
    <3> QED BY <3>1 DEF Activity
  <2>3. ASSUME NEW k \in 1..Len(stack) PROVE Sound(stack[k])'
    <3>1. stack'[k] = stack[k] /\ Sound(stack[k])
        BY <1>1, <1>2 DEF Frames
    <3>2. stack[k].what = "notify" => exports'[stack[k].scope] = exports[stack[k].scope]
        BY <1>1, <1>2, <2>1, <2>2 DEF TypeOK
    <3> QED BY <1>1, <3>1, <3>2 DEF Sound
  <2>4. \A k \in 1..Len(stack) : Alone(k)'
      BY <1>1, <1>2 DEF Frames, Alone
  <2> QED BY <1>1, <2>3, <2>4 DEF Frames, Sound, Alone
<1>6. Books'
  <2>1. Top.scope # Nobody => loaded[Top.scope]
      BY <1>2, InLuaTop
  <2>2. \A p \in Plugins : p # Nobody /\ p \in Owners
      BY CommandConstants DEF Owners
  <2> QED BY <1>1, <1>2, <2>1, <2>2 DEF Books, TypeOK
<1> QED BY <1>2, <1>3, <1>4, <1>5, <1>6 DEF IInv, Consistent

-----------------------------------------------------------------------------
(* Loads and teardowns                                                     *)

\* What RemovePlugin leaves: the commands of the others, as they were.
LEMMA RemovePluginFacts ==
    ASSUME TypeOK, LiveHoldsItsClosure, NEW p \in Plugins, RemovePlugin(p)
    PROVE  /\ commands' \in [Tables \X Names -> Command]
           /\ held' \subseteq Closure
           /\ LiveHoldsItsClosure'
           /\ \A tn \in Tables \X Names : commands'[tn].live =>
                  commands[tn].live /\ commands'[tn] = commands[tn] /\ commands[tn].plugin # p
<1>1. /\ commands' = [tn \in Tables \X Names |->
              IF tn \in Owned(p) THEN [commands[tn] EXCEPT !.entry = NoEntry, !.live = FALSE]
              ELSE commands[tn]]
      /\ held' = held \ {ClosureOf(tn) : tn \in Owned(p)}
    BY DEF RemovePlugin
<1>2. \A tn \in Tables \X Names : commands[tn] \in Command
    BY DEF TypeOK
<1>3. \A tn \in Tables \X Names :
          [commands[tn] EXCEPT !.entry = NoEntry, !.live = FALSE] \in Command
    BY <1>2 DEF Command
<1>4. \A c \in Command : ~[c EXCEPT !.entry = NoEntry, !.live = FALSE].live
    BY DEF Command
<1>5. \A tn \in Tables \X Names : commands'[tn] \in Command
    BY <1>1, <1>2, <1>3
<1>6. Owned(p) \in SUBSET (Tables \X Names)
    BY DEF Owned
<1>7. \A tn \in Owned(p) : ~commands'[tn].live
    BY <1>1, <1>2, <1>4, <1>6
<1>8. \A tn \in (Tables \X Names) \ Owned(p) : commands'[tn] = commands[tn]
    BY <1>1
<1>9. \A tn \in (Tables \X Names) \ Owned(p) :
          ClosureOf(tn)' = ClosureOf(tn) /\ commands'[tn].live = commands[tn].live
    BY <1>8 DEF ClosureOf
<1>10. held' = (held \ {ClosureOf(tn) : tn \in Owned(p)}) \cup {}
    BY <1>1
<1>11. LiveHoldsItsClosure'
  <2>1. Replaced(Owned(p), {})
      BY <1>6, <1>7, <1>9, <1>10 DEF Replaced
  <2> QED BY <2>1, Reheld
<1>12. \A tn \in Tables \X Names : commands'[tn].live =>
           commands[tn].live /\ commands'[tn] = commands[tn] /\ commands[tn].plugin # p
    BY <1>7, <1>8 DEF Owned
<1> QED BY <1>1, <1>5, <1>11, <1>12 DEF TypeOK

\* What a load or a teardown stands on is code of others.
LEMMA BelowScopes ==
    ASSUME TypeOK, Frames, ~Idle, Top.what # "code"
    PROVE  \A k \in 1..Len(Below) : /\ stack[k] \in Activity /\ Sound(stack[k])
                                     /\ stack[k].what = "code" /\ stack[k].scope # Top.scope
<1>1. Len(stack) \in 1..Len(stack) /\ Len(Below) = Len(stack) - 1 /\ Len(stack) \in Nat
    BY TopType, BelowType DEF TypeOK
<1>2. Alone(Len(stack))
    BY <1>1 DEF Frames
<1>3. \A k \in 1..Len(Below) : k \in 1..Len(stack) - 1 /\ k \in 1..Len(stack)
    BY <1>1
<1>4. \A k \in 1..Len(stack) : stack[k] \in Activity
    BY DEF TypeOK
<1> QED BY <1>2, <1>3, <1>4 DEF Alone, Top, Frames

\* What becomes of a plugin that has no live command does not make others stale.
LEMMA DormantStays ==
    ASSUME DormantUntilDeclared, NEW p,
           \A tn \in Tables \X Names : commands'[tn].live =>
               commands[tn].live /\ commands'[tn] = commands[tn] /\ commands[tn].plugin # p,
           TypeOK, \A q \in Plugins \ {p} : running'[q] = running[q]
    PROVE  DormantUntilDeclared'
<1> SUFFICES ASSUME NEW tn \in Tables \X Names, commands'[tn].live
             PROVE  IF commands'[tn].plugin = Nobody THEN commands'[tn].entry.since = 0
                    ELSE /\ commands'[tn].entry.since = running'[commands'[tn].plugin]
                         /\ commands'[tn].entry.since # 0
    BY DEF DormantUntilDeclared
<1>1. commands[tn].live /\ commands'[tn] = commands[tn] /\ commands[tn].plugin # p
    OBVIOUS
<1>2. commands[tn].plugin # Nobody => commands[tn].plugin \in Plugins \ {p}
    BY <1>1 DEF TypeOK, Command, Owners
<1> QED BY <1>1, <1>2 DEF DormantUntilDeclared

\* lua_load: of a plugin that is not loaded, so none of its code is running.
LEMMA LoadStep == ASSUME IInv, NEW p \in Plugins, Load(p) PROVE IInv'
<1>1. TypeOK /\ LiveHoldsItsClosure /\ DormantUntilDeclared /\ Frames /\ Books
    BY DEF IInv, Consistent
<1>2. /\ ~loaded[p] /\ \A k \in 1..Len(stack) : stack[k].what = "code"
      /\ loaded' = [loaded EXCEPT ![p] = TRUE]
      /\ loads < MaxLoads /\ loads' = loads + 1
      /\ running' = [running EXCEPT ![p] = loads + 1]
      /\ stack' = Append(stack, [what |-> "load", scope |-> p, code |-> loads + 1, again |-> FALSE])
      /\ UNCHANGED <<commands, held, registry, exports, adds>>
    BY DEF Load, CanCommand, Start, tables
<1>3. loads + 1 \in Incarnations /\ loads + 1 \in 0..MaxLoads /\ loads \in Nat
    BY <1>1, <1>2, CommandConstants DEF TypeOK, Incarnations
<1>4. p # Nobody /\ p \in Owners
    BY CommandConstants DEF Owners
<1>5. PICK f \in Activity : f = [what |-> "load", scope |-> p, code |-> loads + 1, again |-> FALSE]
    BY <1>3, <1>4 DEF Activity
<1>6. /\ loaded'[p] /\ running'[p] = loads + 1
      /\ \A q \in Plugins \ {p} : loaded'[q] = loaded[q] /\ running'[q] = running[q] /\ exports'[q] = exports[q]
    BY <1>1, <1>2 DEF TypeOK
<1>7. stack \in Seq(Activity) /\ Len(stack) \in Nat
    BY <1>1 DEF TypeOK
<1>8. \A k \in 1..Len(stack) : stack[k] \in Activity /\ stack[k].scope # p
    BY <1>1, <1>2, <1>4, <1>7 DEF Frames, Sound
<1>9. stack' \in Seq(Activity) /\ Frames'
  <2>1. ASSUME NEW g \in {stack[k] : k \in 1..Len(stack)} PROVE Sound(g)'
    <3>1. g \in Activity /\ g.scope # p /\ Sound(g)
        BY <1>1, <1>8 DEF Frames
    <3> QED BY <1>6, <3>1, SoundOfOthers
  <2>2. Sound(f)'
      BY <1>3, <1>4, <1>5, <1>6 DEF Sound, Incarnations
  <2>3. \A k \in 1..Len(stack) : stack[k].scope # f.scope
      BY <1>5, <1>8
  <2>4. stack' = Append(stack, f) /\ Len(stack) <= Len(stack)
      BY <1>2, <1>5, <1>7
  <2>5. \A k \in 1..Len(stack) : stack[k].what = "code"
      BY <1>2
  <2> QED BY <1>1, <1>7, <2>1, <2>2, <2>3, <2>4, <2>5, Begun
<1>10. TypeOK'
    BY <1>1, <1>2, <1>3, <1>9 DEF TypeOK
<1>11. LiveHoldsItsClosure'
    BY <1>1, <1>2 DEF LiveHoldsItsClosure, ClosureOf
<1>12. DormantUntilDeclared'
  <2>1. running[p] = 0
      BY <1>1, <1>2 DEF Books
  <2>2. \A tn \in Tables \X Names : commands'[tn].live =>
            commands[tn].live /\ commands'[tn] = commands[tn] /\ commands[tn].plugin # p
      BY <1>1, <1>2, <1>4, <2>1 DEF DormantUntilDeclared
  <2> QED BY <1>1, <1>6, <2>2, DormantStays
<1>13. Books'
  <2>1. \A q \in Plugins : running[q] <= loads + 1
      BY <1>1, <1>3 DEF Books, TypeOK
  <2> QED BY <1>1, <1>2, <1>3, <1>6, <2>1 DEF Books
<1> QED BY <1>10, <1>11, <1>12, <1>9, <1>13 DEF IInv, Consistent

LEMMA LoadFailsStep == ASSUME IInv, LoadFails PROVE IInv'
<1> DEFINE p == Top.scope
<1>1. TypeOK /\ LiveHoldsItsClosure /\ DormantUntilDeclared /\ Frames /\ Books
    BY DEF IInv, Consistent
<1>2. /\ ~Idle /\ Top.what = "load" /\ RemovePlugin(p)
      /\ running' = [running EXCEPT ![p] = 0]
      /\ stack' = Below
      /\ UNCHANGED <<registry, exports, loaded, loads, adds>>
    BY DEF LoadFails, Doing
<1>3. p \in Plugins /\ Sound(Top) /\ Alone(Len(stack))
    BY <1>1, <1>2, TopType DEF Frames, Top, Sound, Activity, Owners
<1> HIDE DEF p
<1>4. /\ running'[p] = 0
      /\ \A q \in Plugins \ {p} : loaded'[q] = loaded[q] /\ running'[q] = running[q] /\ exports'[q] = exports[q]
    BY <1>1, <1>2, <1>3 DEF TypeOK
<1>5. stack' \in Seq(Activity) /\ Frames'
  <2>1. \A k \in 1..Len(Below) : stack[k] \in Activity /\ Sound(stack[k]) /\ stack[k].scope # p
      BY <1>1, <1>2, <1>3, BelowScopes DEF p
  <2>2. ASSUME NEW g \in {stack[k] : k \in 1..Len(Below)} PROVE Sound(g)'
      BY <1>3, <1>4, <2>1, SoundOfOthers
  <2> QED BY <1>1, <1>2, <2>2, Ended
<1>6. /\ commands' \in [Tables \X Names -> Command] /\ held' \subseteq Closure
      /\ LiveHoldsItsClosure'
      /\ \A tn \in Tables \X Names : commands'[tn].live =>
             commands[tn].live /\ commands'[tn] = commands[tn] /\ commands[tn].plugin # p
    BY <1>1, <1>2, <1>3, RemovePluginFacts
<1>7. TypeOK'
    BY <1>1, <1>2, <1>3, <1>5, <1>6, CommandConstants DEF TypeOK
<1>8. DormantUntilDeclared'
    BY <1>1, <1>4, <1>6, DormantStays
<1>9. Books'
    BY <1>1, <1>2, <1>3, <1>4 DEF Books, TypeOK
<1> QED BY <1>5, <1>6, <1>7, <1>8, <1>9 DEF IInv, Consistent

\* lua_unload, and lua_reload of one plugin: none of its code is running.
LEMMA UnloadStep ==
    ASSUME IInv, NEW p \in Plugins, NEW again \in BOOLEAN, Unload(p, again) PROVE IInv'
<1>1. TypeOK /\ Frames /\ Careful
    BY DEF IInv, Consistent
<1>2. PICK f \in Activity : f = [what |-> "unload", scope |-> p, code |-> 0, again |-> again]
  <2>1. 0 \in 0..MaxLoads /\ p \in Owners
      BY CommandConstants DEF Owners
  <2>2. [what |-> "unload", scope |-> p, code |-> 0, again |-> again] \in Activity
      BY <2>1 DEF Activity
  <2> QED BY <2>2
<1>3. /\ \A k \in 1..Len(stack) : stack[k].what = "code"
      /\ stack' = Append(stack, f)
      /\ UNCHANGED <<tables, exports, plugins, adds>>
      /\ UNCHANGED <<exports, loaded, running>>
    BY <1>2 DEF Unload, CanCommand, plugins
<1>4. loaded[p] /\ \A k \in 1..Len(stack) : stack[k].scope # p
  <2>1. Respects(p)
      BY DEF Unload
  <2> QED BY <1>1, <2>1, Zenon DEF Respects
<1>5. stack \in Seq(Activity) /\ Len(stack) \in Nat
    BY <1>1 DEF TypeOK
<1>6. ASSUME NEW g \in {stack[k] : k \in 1..Len(stack)} PROVE Sound(g)'
    BY <1>1, <1>3, SoundStays DEF Frames
<1>7. Sound(f)'
    BY <1>2, <1>3, <1>4, CommandConstants DEF Sound
<1>8. \A k \in 1..Len(stack) : stack[k].scope # f.scope
    BY <1>2, <1>4
<1>9. stack' \in Seq(Activity) /\ Frames'
    BY <1>1, <1>3, <1>5, <1>6, <1>7, <1>8, Begun
<1> QED BY <1>3, <1>9, Untouched

\* The core's handler of plugin_unload drops the exports.
LEMMA NotifyStep == ASSUME IInv, Notify PROVE IInv'
<1>1. TypeOK /\ LiveHoldsItsClosure /\ DormantUntilDeclared /\ Frames /\ Books
    BY DEF IInv, Consistent
<1>2. /\ ~Idle /\ Top.what = "unload"
      /\ exports' = [exports EXCEPT ![Top.scope] = 0]
      /\ stack' = [stack EXCEPT ![Len(stack)].what = "notify"]
      /\ UNCHANGED <<commands, held, registry, loaded, running, loads, adds>>
    BY DEF Notify, Doing, Dropped, tables, plugins
<1>3. Len(stack) \in 1..Len(stack) /\ Top \in Activity /\ Sound(Top) /\ Alone(Len(stack))
    BY <1>1, <1>2, TopType DEF Frames, Top
<1>4. stack \in Seq(Activity) /\ Len(stack) \in Nat
    BY <1>1 DEF TypeOK
<1>5. PICK f \in Activity : f = [Top EXCEPT !.what = "notify"]
    BY <1>3 DEF Activity
<1>6. f.what = "notify" /\ f.scope = Top.scope /\ f.scope \in Plugins
    BY <1>2, <1>3, <1>5 DEF Sound, Activity, Owners
<1>7. /\ stack' \in Seq(Activity) /\ Len(stack') = Len(stack)
      /\ stack'[Len(stack)] = f
      /\ \A k \in 1..Len(stack) - 1 : stack'[k] = stack[k]
    BY <1>2, <1>3, <1>4, <1>5 DEF Top
<1>8. /\ exports' \in [Owners -> 0..MaxLoads] /\ exports'[f.scope] = 0
      /\ \A o \in Owners : exports[o] = 0 => exports'[o] = 0
      /\ \A q \in Plugins \ {f.scope} : exports'[q] = exports[q]
    BY <1>1, <1>2, <1>6, CommandConstants DEF TypeOK, Owners
<1>9. Frames'
  <2> SUFFICES ASSUME NEW k \in 1..Len(stack) PROVE Sound(stack[k])' /\ Alone(k)'
      BY <1>7 DEF Frames
  <2>1. CASE k = Len(stack)
    <3>1. Sound(stack[k])'
        BY <1>2, <1>3, <1>6, <1>7, <1>8, <2>1 DEF Sound
    <3>2. Alone(k)'
        BY <1>2, <1>3, <1>6, <1>7, <2>1 DEF Alone, Top
    <3> QED BY <3>1, <3>2
  <2>2. CASE k # Len(stack)
    <3>1. k \in 1..Len(Below) /\ k \in 1..Len(stack) - 1 /\ stack'[k] = stack[k]
        BY <1>1, <1>2, <1>4, <1>7, <2>2, BelowType
    <3>2. stack[k] \in Activity /\ Sound(stack[k]) /\ stack[k].what = "code" /\ stack[k].scope # f.scope
        BY <1>1, <1>2, <1>6, <3>1, BelowScopes
    <3>3. Sound(stack[k])'
        BY <1>2, <3>1, <3>2 DEF Sound
    <3>4. Alone(k)'
        BY <3>1, <3>2 DEF Alone
    <3> QED BY <3>3, <3>4
  <2> QED BY <2>1, <2>2
<1>10. TypeOK'
    BY <1>1, <1>2, <1>7, <1>8 DEF TypeOK
<1>11. LiveHoldsItsClosure' /\ DormantUntilDeclared'
    BY <1>1, <1>2 DEF LiveHoldsItsClosure, DormantUntilDeclared, ClosureOf
<1>12. Books'
    BY <1>1, <1>2, <1>8 DEF Books, Owners
<1> QED BY <1>9, <1>10, <1>11, <1>12 DEF IInv, Consistent

LEMMA UnloadedStep == ASSUME IInv, Unloaded PROVE IInv'
<1> DEFINE p == Top.scope
<1>1. TypeOK /\ LiveHoldsItsClosure /\ DormantUntilDeclared /\ Frames /\ Books
    BY DEF IInv, Consistent
<1>2. /\ ~Idle /\ Top.what = "notify" /\ RemovePlugin(p)
      /\ UNCHANGED <<registry, exports, adds>>
    BY DEF Unloaded, Doing
<1>3. p \in Plugins /\ Sound(Top)
    BY <1>1, <1>2, TopType DEF Frames, Top, Sound, Activity, Owners
<1>4. exports[p] = 0 /\ loaded[p]
    BY <1>2, <1>3, CommandConstants DEF Sound
<1>5. \A k \in 1..Len(Below) : stack[k] \in Activity /\ Sound(stack[k]) /\ stack[k].scope # p
    BY <1>1, <1>2, BelowScopes
<1>6. /\ Below \in Seq(Activity) /\ Len(Below) <= Len(stack)
      /\ \A k \in 1..Len(Below) : Below[k] = stack[k] /\ stack[k].what = "code"
    BY <1>1, <1>2, BelowType, BelowScopes DEF TypeOK
<1>7. /\ commands' \in [Tables \X Names -> Command] /\ held' \subseteq Closure
      /\ LiveHoldsItsClosure'
      /\ \A tn \in Tables \X Names : commands'[tn].live =>
             commands[tn].live /\ commands'[tn] = commands[tn] /\ commands[tn].plugin # p
    BY <1>1, <1>2, <1>3, RemovePluginFacts
<1>8. loads \in Nat /\ loads <= MaxLoads
    BY <1>1 DEF TypeOK
<1>9. CASE /\ ~Top.again /\ loaded' = [loaded EXCEPT ![p] = FALSE]
           /\ running' = [running EXCEPT ![p] = 0] /\ stack' = Below /\ UNCHANGED loads
  <2> HIDE DEF p
  <2>1. /\ running'[p] = 0 /\ ~loaded'[p]
        /\ \A q \in Plugins \ {p} : loaded'[q] = loaded[q] /\ running'[q] = running[q] /\ exports'[q] = exports[q]
      BY <1>1, <1>2, <1>3, <1>9 DEF TypeOK
  <2>2. ASSUME NEW g \in {stack[k] : k \in 1..Len(Below)} PROVE Sound(g)'
      BY <1>3, <1>5, <2>1, SoundOfOthers
  <2>3. stack' \in Seq(Activity) /\ Frames'
      BY <1>1, <1>2, <1>9, <2>2, Ended
  <2>4. TypeOK'
      BY <1>1, <1>2, <1>3, <1>7, <1>9, <2>3, CommandConstants DEF TypeOK
  <2>5. DormantUntilDeclared'
      BY <1>1, <1>7, <2>1, DormantStays
  <2>6. Books'
      BY <1>1, <1>2, <1>4, <1>8, <1>9, <2>1 DEF Books, TypeOK
  <2> QED BY <1>7, <2>3, <2>4, <2>5, <2>6 DEF IInv, Consistent
<1>10. CASE Top.again /\ Start(p, Below) /\ UNCHANGED loaded
  <2> HIDE DEF p
  <2>1. /\ loads < MaxLoads /\ loads' = loads + 1
        /\ running' = [running EXCEPT ![p] = loads + 1]
        /\ stack' = Append(Below, [what |-> "load", scope |-> p, code |-> loads + 1, again |-> FALSE])
      BY <1>10 DEF Start
  <2>2. loads + 1 \in Incarnations /\ loads + 1 \in 0..MaxLoads
      BY <1>8, <2>1, CommandConstants DEF Incarnations
  <2>3. PICK f \in Activity : f = [what |-> "load", scope |-> p, code |-> loads + 1, again |-> FALSE]
      BY <1>3, <2>2 DEF Activity, Owners
  <2>4. /\ running'[p] = loads + 1 /\ loaded'[p]
        /\ \A q \in Plugins \ {p} : loaded'[q] = loaded[q] /\ running'[q] = running[q] /\ exports'[q] = exports[q]
      BY <1>1, <1>2, <1>3, <1>4, <1>10, <2>1 DEF TypeOK
  <2>5. ASSUME NEW g \in {Below[k] : k \in 1..Len(Below)} PROVE Sound(g)'
      BY <1>3, <1>5, <1>6, <2>4, SoundOfOthers
  <2>6. Sound(f)'
      BY <1>3, <1>8, <2>2, <2>3, <2>4, CommandConstants DEF Sound
  <2>7. \A k \in 1..Len(Below) : Below[k].what = "code" /\ Below[k].scope # f.scope
      BY <1>5, <1>6, <2>3
  <2>8. stack' \in Seq(Activity) /\ Frames'
      BY <1>1, <1>6, <2>1, <2>3, <2>5, <2>6, <2>7, Begun
  <2>9. TypeOK'
      BY <1>1, <1>2, <1>3, <1>7, <1>10, <2>1, <2>2, <2>8 DEF TypeOK
  <2>10. DormantUntilDeclared'
      BY <1>1, <1>7, <2>4, DormantStays
  <2>11. Books'
      BY <1>1, <1>2, <1>4, <1>8, <2>1, <2>4 DEF Books, TypeOK
  <2> QED BY <1>7, <2>8, <2>9, <2>10, <2>11 DEF IInv, Consistent
<1> QED BY <1>9, <1>10 DEF Unloaded

LEMMA ReloadAllStep == ASSUME IInv, ReloadAll PROVE IInv'
<1>1. TypeOK /\ Idle
    BY DEF IInv, Consistent, ReloadAll
<1>2. /\ commands' = [tn \in Tables \X Names |-> [commands[tn] EXCEPT !.entry = NoEntry, !.live = FALSE]]
      /\ held' = {} /\ registry' = [n \in Names |-> NoEntry] /\ exports' = [o \in Owners |-> 0]
      /\ loaded' = [p \in Plugins |-> FALSE] /\ running' = [p \in Plugins |-> 0]
      /\ UNCHANGED <<stack, adds, loads>>
    BY DEF ReloadAll
<1>3. \A c \in Command : /\ [c EXCEPT !.entry = NoEntry, !.live = FALSE] \in Command
                          /\ ~[c EXCEPT !.entry = NoEntry, !.live = FALSE].live
    BY DEF Command
<1>4. /\ commands' \in [Tables \X Names -> Command]
      /\ \A tn \in Tables \X Names : ~commands'[tn].live
    BY <1>1, <1>2, <1>3 DEF TypeOK
<1>5. TypeOK'
  <2>1. /\ registry' \in [Names -> Entry \cup {NoEntry}]
        /\ loaded' \in [Plugins -> BOOLEAN]
        /\ held' \subseteq Closure
      BY <1>2
  <2>2. exports' \in [Owners -> 0..MaxLoads] /\ running' \in [Plugins -> 0..MaxLoads]
    <3>1. 0 \in 0..MaxLoads
        BY CommandConstants
    <3> QED BY <1>2, <3>1
  <2>3. stack' \in Seq(Activity) /\ adds' \in 0..MaxAdds /\ loads' \in 0..MaxLoads
      BY <1>1, <1>2 DEF TypeOK
  <2> QED BY <1>4, <2>1, <2>2, <2>3 DEF TypeOK
<1>6. LiveHoldsItsClosure' /\ DormantUntilDeclared'
  <2>1. {tn \in Tables \X Names : commands'[tn].live} = {}
      BY <1>4
  <2>2. held' = {ClosureOf(tn)' : tn \in {x \in Tables \X Names : commands'[x].live}}
      BY <1>2, <2>1
  <2> QED BY <1>4, <2>2 DEF LiveHoldsItsClosure, DormantUntilDeclared, ClosureOf
<1>7. Frames'
  <2>1. Len(stack') = 0
      BY <1>1, <1>2 DEF Idle
  <2> QED BY <2>1 DEF Frames
<1>8. Books'
  <2>1. loads' \in Nat
    <3>1. loads' = loads
        BY <1>2
    <3> QED BY <1>1, <3>1 DEF TypeOK
  <2>2. \A p \in Plugins : running'[p] = 0
      BY <1>2
  <2>3. \A p \in Plugins : exports'[p] = 0
    <3>1. Plugins \subseteq Owners
        BY DEF Owners
    <3> QED BY <1>2, <3>1
  <2> QED BY <2>1, <2>2, <2>3 DEF Books
<1> QED BY <1>5, <1>6, <1>7, <1>8 DEF IInv, Consistent

-----------------------------------------------------------------------------
(* Theorems                                                                *)

LEMMA InitHolds == Careful /\ Init => IInv
<1> SUFFICES ASSUME Careful, Init PROVE IInv
    OBVIOUS
<1>1. Absent \in Command /\ ~Absent.live
    BY DEF Absent, Command, Owners
<1>2. 0 \in 0..MaxLoads /\ 0 \in 0..MaxAdds
    BY CommandConstants
<1>3. /\ commands \in [Tables \X Names -> Command]
      /\ \A tn \in Tables \X Names : ~commands[tn].live
    BY <1>1 DEF Init
<1>4. stack \in Seq(Activity) /\ Len(stack) = 0
    BY DEF Init
<1>5. TypeOK
    BY <1>2, <1>3, <1>4 DEF TypeOK, Init
<1>6. LiveHoldsItsClosure /\ DormantUntilDeclared
  <2>1. {tn \in Tables \X Names : commands[tn].live} = {}
      BY <1>3
  <2>2. held = {ClosureOf(tn) : tn \in {x \in Tables \X Names : commands[x].live}}
      BY <2>1 DEF Init
  <2> QED BY <1>3, <2>2 DEF LiveHoldsItsClosure, DormantUntilDeclared
<1>7. Frames
    BY <1>4 DEF Frames
<1>8. Books
    BY CommandConstants DEF Books, Init, Owners
<1> QED BY <1>5, <1>6, <1>7, <1>8 DEF IInv, Consistent

LEMMA StepHolds == IInv /\ [Next]_vars => IInv'
<1> SUFFICES ASSUME IInv, [Next]_vars PROVE IInv'
    OBVIOUS
<1>1. CASE UNCHANGED vars
  <2>1. UNCHANGED <<commands, held, registry, exports, loaded, running, stack, adds, loads>>
      BY <1>1 DEF vars
  <2>2. stack' \in Seq(Activity) /\ Frames'
      BY <2>1 DEF IInv, Consistent, TypeOK, Frames, Sound, Alone
  <2> QED BY <2>1, <2>2, Untouched DEF tables, plugins
<1>2. ASSUME NEW ns \in (SUBSET Names) \ {{}}, NEW ss \in Asked, Add(ns, ss) PROVE IInv'
    BY <1>2, AddStep
<1>3. ASSUME NEW n \in Names, Withdraw(n) PROVE IInv'
    BY <1>3, WithdrawStep
<1>4. ASSUME NEW n \in Names, Typed(n) PROVE IInv'
  <2>1. "server" \in Tables /\ commands[<<"server", n>>].live
      BY <1>4 DEF Typed, Tables
  <2> QED BY <1>4, <2>1, LiveFacts, RunsStep DEF Typed
<1>5. ASSUME NEW n \in Names, TypedByPlayer(n) PROVE IInv'
  <2>1. "console" \in Tables /\ commands[<<"console", n>>].live
      BY <1>5 DEF TypedByPlayer, Tables
  <2> QED BY <1>5, <2>1, LiveFacts, RunsStep DEF TypedByPlayer
<1>6. ASSUME NEW n \in Names, NEW c \in Channels, Said(c, n) PROVE IInv'
  <2>1. registry[n] \in Entry /\ Runs(Nobody, registry[n])
      BY <1>6 DEF Said, IInv, Consistent, TypeOK
  <2>2. Nobody \in Owners
      BY DEF Owners
  <2> QED BY <2>1, <2>2, RunsStep
<1>7. ASSUME NEW override \in BOOLEAN, Export(override) PROVE IInv'
    BY <1>7, ExportStep
<1>8. ASSUME NEW o \in Owners, CallExport(o) PROVE IInv'
    BY <1>8, CallExportStep
<1>9. ASSUME NEW p \in Plugins, Dispatch(p) PROVE IInv'
    BY <1>9, DispatchStep
<1>10. ASSUME NEW p \in Plugins, Load(p) PROVE IInv'
    BY <1>10, LoadStep
<1>11. ASSUME NEW p \in Plugins, NEW again \in BOOLEAN, Unload(p, again) PROVE IInv'
    BY <1>11, UnloadStep
<1>12. CASE Return \/ LoadEnds
  <2>1. ~Idle /\ stack' = Below /\ UNCHANGED <<tables, exports, plugins, adds>>
      BY <1>12 DEF Return, LoadEnds, Doing
  <2> QED BY <2>1, EndsStep
<1>13. CASE LoadFails
    BY <1>13, LoadFailsStep
<1>14. CASE Notify
    BY <1>14, NotifyStep
<1>15. CASE Unloaded
    BY <1>15, UnloadedStep
<1>16. CASE ReloadAll
    BY <1>16, ReloadAllStep
<1> QED BY <1>1, <1>2, <1>3, <1>4, <1>5, <1>6, <1>7, <1>8, <1>9, <1>10, <1>11, <1>12,
           <1>13, <1>14, <1>15, <1>16 DEF Next

\* Between any two steps the variables have their types, a live command holds one
\* closure and no other is held, and a live command is the running plugin's, or
\* nobody's: for commands of both consoles, under a careful operator.
THEOREM ConsistentAlways == ASSUME Careful PROVE Spec => []Consistent
<1>1. Init => IInv
    BY InitHolds
<1>2. IInv /\ [Next]_vars => IInv'
    BY StepHolds
<1>3. IInv => Consistent
    BY DEF IInv
<1> QED BY <1>1, <1>2, <1>3, PTL DEF Spec

\* A plugin is started only when it was not loaded or has just been torn down, and
\* then it has no export: not even one of a load that failed half-way.
LEMMA StartFindsNothing ==
    IInv /\ [Next]_vars => [\A p \in Plugins : running'[p] > loads => exports[p] = 0]_vars
<1> SUFFICES ASSUME IInv, Next, NEW p \in Plugins, running'[p] > loads PROVE exports[p] = 0
    OBVIOUS
<1>1. TypeOK /\ Frames /\ Books
    BY DEF IInv, Consistent
<1>2. running[p] <= loads /\ running[p] \in Nat /\ loads \in Nat
    BY <1>1 DEF Books, TypeOK
<1>3. CASE UNCHANGED running
    BY <1>2, <1>3
<1>4. ASSUME NEW q \in Plugins, Load(q) PROVE exports[p] = 0
  <2>1. running' = [running EXCEPT ![q] = loads + 1] /\ ~loaded[q]
      BY <1>4 DEF Load, Start
  <2>2. p = q
      BY <1>1, <1>2, <2>1 DEF TypeOK
  <2> QED BY <1>1, <2>1, <2>2 DEF Books
<1>5. CASE LoadFails
  <2>1. running' = [running EXCEPT ![Top.scope] = 0]
      BY <1>5 DEF LoadFails
  <2> QED BY <1>1, <1>2, <2>1 DEF TypeOK
<1>6. CASE Unloaded
  <2>1. ~Idle /\ Top.what = "notify"
      BY <1>6 DEF Unloaded, Doing
  <2>2. exports[Top.scope] = 0
      BY <1>1, <2>1, TopType DEF Frames, Sound, Top
  <2>3. \/ running' = [running EXCEPT ![Top.scope] = 0]
        \/ running' = [running EXCEPT ![Top.scope] = loads + 1]
      BY <1>6 DEF Unloaded, Start
  <2>4. p = Top.scope
      BY <1>1, <1>2, <2>3 DEF TypeOK
  <2> QED BY <2>2, <2>4
<1>7. CASE ReloadAll
  <2>1. running'[p] = 0
      BY <1>7 DEF ReloadAll
  <2> QED BY <1>2, <2>1
<1>8. \/ UNCHANGED running \/ LoadFails \/ Unloaded \/ ReloadAll \/ \E q \in Plugins : Load(q)
    BY DEF Next, Add, Withdraw, Typed, TypedByPlayer, Said, Runs, Export, CallExport, Dispatch,
           Unload, Return, LoadEnds, Notify, plugins
<1> QED BY <1>3, <1>4, <1>5, <1>6, <1>7, <1>8

THEOREM ExportsAlwaysFree == ASSUME Careful PROVE Spec => ExportsAreNotInTheWay
<1>1. Init => IInv
    BY InitHolds
<1>2. IInv /\ [Next]_vars => IInv'
    BY StepHolds
<1>3. IInv /\ [Next]_vars => [\A p \in Plugins : running'[p] > loads => exports[p] = 0]_vars
    BY StartFindsNothing
<1> QED BY <1>1, <1>2, <1>3, PTL DEF Spec, ExportsAreNotInTheWay

=============================================================================
