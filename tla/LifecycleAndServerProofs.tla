---------------------- MODULE LifecycleAndServerProofs ----------------------
(***************************************************************************)
(* Theorems about PluginLifecycle for any plugins and any bounds, under an *)
(* operator and plugins that are Careful, and about HttpServer for every   *)
(* number of workers, sockets, plugins, sessions and messages.  They have  *)
(* no name in common, and no theorem here is about both.                   *)
(*                                                                         *)
(* PluginLifecycle.  None of its properties is inductive.  What they rest  *)
(* on is said of the activities in progress: how they may be nested        *)
(* (Nested), whose scope each one restores (ScopesInOrder), and what each  *)
(* one needs of its plugin's flags, environment and on_unload handlers     *)
(* (Backed).  Books says what a plugin's flags mean meanwhile, and         *)
(* RanInOrder how far each teardown has come.                              *)
(*                                                                         *)
(* HttpServer.  ServerInv says who holds each socket and what becomes of   *)
(* it (SocketHeldOnce, FatesTold), in which one place the game thread is   *)
(* asked for an answer (AskedOnce), that whoever is asked has a worker     *)
(* which waits or has given up (AskedWait) and that nobody waits unasked   *)
(* (WaitAsked).  StreamInOrder needs that an outbox is empty before its    *)
(* session begins (Outboxes).                                              *)
(***************************************************************************)
EXTENDS PluginLifecycle, HttpServer, FiniteSetTheorems, TLAPS

\* A PluginScope is open.
Scope(f) == f.what \in {"code", "load"}

\* Among the first k activities, c is the plugin of the innermost scope.
ScopeAt(k, c) ==
    \/ c = NoPlugin /\ \A j \in 1..k : ~Scope(stack[j])
    \/ \E j \in 1..k : /\ Scope(stack[j]) /\ c = stack[j].slot
                       /\ \A i \in 1..k : Scope(stack[i]) => i <= j

Chained == \A k \in 1..Len(stack) : Scope(stack[k]) => ScopeAt(k - 1, stack[k].prev)

ScopesInOrder == ScopeAt(Len(stack), current) /\ Chained

\* What may be above what: below the load or the teardown of a plugin nothing of
\* that plugin is left to be continued.  init and shutdown are at the bottom.
Engines == {"shutdown", "boot"}

Above(f, g) == f.what # "code" /\ g.what \notin Engines => g.slot # f.slot

Nested(k) ==
    /\ stack[k].what \in Engines => k = 1
    /\ \A j \in 1..k - 1 : Above(stack[k], stack[j])

AllNested == \A k \in 1..Len(stack) : Nested(k)

\* What an activity needs of its plugin.
Backed(f) ==
    /\ Scope(f) => f.slot \in alive /\ f.inc = env[f.slot]
    /\ f.what \in {"unload", "notify"} =>
          f.slot \in known /\ loaded[f.slot] /\ f.slot \notin booting /\ f.then \in {"unload", "reload"}
    /\ f.what = "load" => f.then = "start" \/ loaded[f.slot]
    /\ f.what = "unload" => f.k <= Len(unloadRefs[f.slot])
    /\ f.what = "notify" => unloadRefs[f.slot] = <<>>

AllBacked == \A k \in 1..Len(stack) : Backed(stack[k])

Starting(n) ==
    \E k \in 1..Len(stack) : stack[k].what = "load" /\ stack[k].slot = n /\ stack[k].then = "start"

\* The flags of a plugin, and whether its code may run.
PluginInOrder(n) ==
    /\ n \in alive => n \in known /\ ~failed[n] /\ env[n] # 0 /\ (loaded[n] \/ Starting(n))
    /\ n \in booting => n \in known /\ n \notin alive /\ loaded[n] /\ ~failed[n]
    /\ n \in known /\ loaded[n] /\ ~failed[n] => n \in alive \/ n \in booting
    /\ env[n] <= loads
    /\ Len(unloadRefs[n]) <= onUnloads
    /\ requested = n =>
          /\ n \in known /\ loaded[n]
          /\ \A k \in 1..Len(stack) :
                stack[k].what \in {"unload", "notify"} /\ stack[k].slot = n => stack[k].then # "unload"

Books ==
    /\ \A n \in Names : PluginInOrder(n)
    /\ booting # {} => stack # <<>> /\ stack[1].what = "boot"
    /\ \A m, n \in Names : env[m] = env[n] /\ env[m] # 0 => m = n

IInv == Careful /\ TypeOK /\ NoStaleCode /\ ScopesInOrder /\ AllNested /\ AllBacked /\ Books

-----------------------------------------------------------------------------
(* The order of on_unload handlers                                         *)

\* The teardown of n has come past all handlers up to the one with this number.
ComePast(n, number) ==
    \E p \in 1..Len(stack) :
        /\ stack[p].slot = n
        /\ \/ stack[p].what = "notify"
           \/ /\ stack[p].what = "unload"
              /\ \A i \in 1..stack[p].k : unloadRefs[n][i].n < number

RanInOrder ==
    /\ \A n \in Names : \A i, j \in 1..Len(unloadRefs[n]) :
          /\ unloadRefs[n][i].n <= onUnloads
          /\ i < j => unloadRefs[n][i].n < unloadRefs[n][j].n
    /\ \A g \in ran : g.inc <= loads
    /\ \A g \in ran, n \in alive : g.inc = env[n] => ComePast(n, g.n)

-----------------------------------------------------------------------------
(* The activities in progress                                              *)

\* The first m activities are of the same kind and plugin as before.
Alike(m) ==
    \A j \in 1..m : /\ stack'[j].what = stack[j].what
                    /\ stack'[j].slot = stack[j].slot
                    /\ stack'[j].prev = stack[j].prev

LEMMA StackType ==
    ASSUME TypeOK
    PROVE  /\ stack \in Seq(Activity) /\ Len(stack) \in Nat
           /\ \A k \in 1..Len(stack) : stack[k] \in Activity
           /\ ~Idle => Len(stack) \in 1..Len(stack) /\ Top \in Activity /\ Len(stack) - 1 \in Nat
<1>1. stack \in Seq(Activity) /\ Len(stack) \in Nat
    BY DEF TypeOK
<1>2. \A k \in 1..Len(stack) : stack[k] \in Activity
    BY <1>1
<1>3. ~Idle => Len(stack) \in 1..Len(stack) /\ Len(stack) - 1 \in Nat
    BY <1>1 DEF Idle
<1> QED BY <1>1, <1>2, <1>3 DEF Top

LEMMA ScopeAlike ==
    ASSUME NEW m \in Nat, Alike(m), NEW k \in 0..m, NEW c
    PROVE  ScopeAt(k, c)' <=> ScopeAt(k, c)
<1>1. \A j \in 1..k : /\ Scope(stack'[j]) <=> Scope(stack[j])
                      /\ stack'[j].slot = stack[j].slot
    BY DEF Alike, Scope
<1> QED BY <1>1 DEF ScopeAt

\* An activity f is started on top of the first m.
LEMMA Pushed ==
    ASSUME Chained, AllNested, NEW m \in Nat, m <= Len(stack), Alike(m), NEW c, ScopeAt(m, c), NEW f,
           Len(stack') = m + 1, stack'[m + 1] = f,
           Scope(f) => f.prev = c /\ current' = f.slot,
           ~Scope(f) => current' = c,
           \A j \in 1..m : Above(f, stack[j]),
           f.what \in Engines => m = 0,
           Len(stack) \in Nat
    PROVE  ScopesInOrder' /\ AllNested'
<1>1. \A j \in 1..m : /\ Scope(stack'[j]) <=> Scope(stack[j])
                      /\ stack'[j].slot = stack[j].slot
    BY DEF Alike, Scope
<1>2. ScopeAt(m + 1, current)'
  <2>1. CASE Scope(f)
      BY <2>1 DEF ScopeAt
  <2>2. CASE ~Scope(f)
    <3>1. ScopeAt(m, c)' /\ current' = c
        BY <2>2, ScopeAlike
    <3> QED BY <2>2, <3>1, <1>1 DEF ScopeAt
  <2> QED BY <2>1, <2>2
<1>3. Chained'
  <2> SUFFICES ASSUME NEW k \in 1..m + 1, NEW p, p = stack'[k].prev, Scope(stack'[k])
               PROVE  ScopeAt(k - 1, p)'
      BY DEF Chained
  <2>1. CASE k = m + 1
      BY <2>1, ScopeAlike
  <2>2. CASE k # m + 1
    <3>1. k \in 1..m /\ k - 1 \in 0..m /\ k \in 1..Len(stack)
        BY <2>2
    <3>2. ScopeAt(k - 1, stack[k].prev) /\ stack'[k].prev = stack[k].prev
        BY <1>1, <3>1 DEF Chained, Alike
    <3> QED BY <3>1, <3>2, ScopeAlike
  <2> QED BY <2>1, <2>2
<1>4. AllNested'
  <2> SUFFICES ASSUME NEW k \in 1..m + 1 PROVE Nested(k)'
      BY DEF AllNested
  <2>1. CASE k = m + 1
      BY <2>1, <1>1 DEF Nested, Above, Alike, Engines
  <2>2. CASE k # m + 1
    <3>1. k \in 1..m /\ k \in 1..Len(stack) /\ Nested(k)
        BY <2>2 DEF AllNested
    <3> QED BY <3>1, <1>1 DEF Nested, Above, Alike, Engines
  <2> QED BY <2>1, <2>2
<1> QED BY <1>2, <1>3, <1>4 DEF ScopesInOrder

\* The first m activities are left.
LEMMA Popped ==
    ASSUME Chained, AllNested, NEW m \in Nat, m <= Len(stack), Alike(m), Len(stack') = m,
           ScopeAt(m, current'), Len(stack) \in Nat
    PROVE  ScopesInOrder' /\ AllNested'
<1>1. \A j \in 1..m : /\ Scope(stack'[j]) <=> Scope(stack[j])
                      /\ stack'[j].slot = stack[j].slot
    BY DEF Alike, Scope
<1> PICK c : c = current'
    OBVIOUS
<1>2. ScopeAt(m, c)'
    BY ScopeAlike
<1>3. Chained'
  <2> SUFFICES ASSUME NEW k \in 1..m, NEW p, p = stack'[k].prev, Scope(stack'[k])
               PROVE  ScopeAt(k - 1, p)'
      BY DEF Chained
  <2>1. k - 1 \in 0..m /\ k \in 1..Len(stack)
      OBVIOUS
  <2>2. ScopeAt(k - 1, stack[k].prev) /\ stack'[k].prev = stack[k].prev
      BY <1>1, <2>1 DEF Chained, Alike
  <2> QED BY <2>1, <2>2, ScopeAlike
<1>4. AllNested'
  <2> SUFFICES ASSUME NEW k \in 1..m PROVE Nested(k)'
      BY DEF AllNested
  <2>1. k \in 1..Len(stack) /\ Nested(k)
      BY DEF AllNested
  <2> QED BY <2>1, <1>1 DEF Nested, Above, Alike, Engines
<1> QED BY <1>2, <1>3, <1>4 DEF ScopesInOrder

\* The scopes around the innermost activity.
LEMMA TopScope ==
    ASSUME TypeOK, ScopesInOrder, ~Idle
    PROVE  /\ Scope(Top) => current = Top.slot /\ ScopeAt(Len(stack) - 1, Top.prev)
           /\ ~Scope(Top) => ScopeAt(Len(stack) - 1, current)
<1>1. Len(stack) \in 1..Len(stack) /\ Len(stack) - 1 \in Nat
    BY StackType
<1>2. Scope(Top) => ScopeAt(Len(stack) - 1, Top.prev)
    BY <1>1 DEF ScopesInOrder, Chained, Top
<1>3. Scope(Top) => current = Top.slot
    BY <1>1 DEF ScopesInOrder, ScopeAt, Top
<1>4. ~Scope(Top) => ScopeAt(Len(stack) - 1, current)
    BY <1>1 DEF ScopesInOrder, ScopeAt, Top
<1> QED BY <1>2, <1>3, <1>4

\* The invariant says what ScopeNamesRunner says.
LEMMA ScopesRunner ==
    ASSUME TypeOK, ScopesInOrder PROVE ScopeNamesRunner
<1> DEFINE scopes == {k \in 1..Len(stack) : stack[k].what \in {"code", "load"}}
<1>1. Len(stack) \in Nat /\ ScopeAt(Len(stack), current)
    BY StackType DEF ScopesInOrder
<1> DEFINE innermost == CHOOSE k \in scopes : \A j \in scopes : j <= k
<1>r. ScopeNamesRunner <=> current = IF scopes = {} THEN NoPlugin ELSE stack[innermost].slot
    BY DEF ScopeNamesRunner
<1>2. CASE scopes = {}
    BY <1>1, <1>2, <1>r DEF ScopeAt, Scope
<1>3. CASE scopes # {}
  <2>1. PICK j \in 1..Len(stack) : /\ Scope(stack[j]) /\ current = stack[j].slot
                                   /\ \A i \in 1..Len(stack) : Scope(stack[i]) => i <= j
      BY <1>1, <1>3 DEF ScopeAt, Scope
  <2>2. j \in scopes /\ \A i \in scopes : i <= j
      BY <2>1 DEF Scope
  <2>3. \A x \in scopes : (\A i \in scopes : i <= x) => x = j
      BY <2>2
  <2>4. innermost = j
    <3> HIDE DEF scopes
    <3> QED BY <2>2, <2>3
  <2> HIDE DEF innermost
  <2> QED BY <2>1, <2>4, <1>3, <1>r
<1> QED BY <1>2, <1>3

Thens == {"none", "unload", "reload", "start"}

LEMMA ScopeFrame ==
    ASSUME TypeOK, NEW n \in Names, NEW inc \in 0..MaxLoads, NEW what \in {"code", "load"}, NEW then \in Thens,
           NEW f, f = ScopeOf(n, inc, what, then)
    PROVE  /\ f \in Activity /\ Scope(f)
           /\ f.what = what /\ f.slot = n /\ f.inc = inc /\ f.prev = current /\ f.then = then
<1>1. 0 \in 0..MaxUnloads
    BY LifecycleConstants
<1> QED BY <1>1 DEF TypeOK, ScopeOf, Activity, Activities, Scope, Thens

LEMMA TeardownFrame ==
    ASSUME TypeOK, NEW n \in Names, Len(unloadRefs[n]) <= onUnloads, NEW then \in Thens,
           NEW f, f = TearingDown(n, then)
    PROVE  /\ f \in Activity /\ ~Scope(f)
           /\ f.what = "unload" /\ f.slot = n /\ f.then = then /\ f.k = Len(unloadRefs[n])
<1>1. 0 \in 0..MaxLoads /\ onUnloads \in 0..MaxUnloads /\ unloadRefs[n] \in Seq(UnloadHandler)
    BY LifecycleConstants DEF TypeOK
<1>2. Len(unloadRefs[n]) \in 0..MaxUnloads
    BY <1>1, LifecycleConstants
<1> QED BY <1>1, <1>2 DEF TearingDown, Activity, Activities, Scope, Thens

LEMMA EngineFrame ==
    ASSUME NEW what \in {"shutdown", "boot"}, NEW f, f = Engine(what)
    PROVE  f \in Activity /\ ~Scope(f) /\ f.what = what /\ f.slot = NoPlugin /\ f.then = "none"
<1>1. 0 \in 0..MaxLoads /\ 0 \in 0..MaxUnloads
    BY LifecycleConstants
<1> QED BY <1>1 DEF Engine, Activity, Activities, Scope

\* One more activity than those of s.
LEMMA PutOn ==
    ASSUME NEW s \in Seq(Activity), NEW f \in Activity, stack' = Append(s, f)
    PROVE  /\ stack' \in Seq(Activity) /\ Len(s) \in Nat /\ Len(stack') = Len(s) + 1
           /\ \A k \in 1..Len(s) : stack'[k] = s[k]
           /\ stack'[Len(s) + 1] = f
OBVIOUS

\* One less.
LEMMA TakenOff ==
    ASSUME TypeOK, ~Idle
    PROVE  /\ Below \in Seq(Activity) /\ Len(Below) = Len(stack) - 1 /\ Len(Below) \in Nat
           /\ \A k \in 1..Len(Below) : Below[k] = stack[k] /\ k \in 1..Len(stack)
<1> PICK n : n = Len(stack)
    OBVIOUS
<1>1. stack \in Seq(Activity) /\ n \in Nat /\ n - 1 \in Nat
    BY StackType
<1>2. Below = SubSeq(stack, 1, n - 1)
    BY DEF Below
<1>3. Below \in Seq(Activity) /\ Len(Below) = n - 1
    BY <1>1, <1>2
<1>4. \A k \in 1..n - 1 : Below[k] = stack[k]
    BY <1>1, <1>2
<1> QED BY <1>1, <1>3, <1>4

LEMMA BackedSame ==
    ASSUME NEW f, Backed(f), UNCHANGED <<known, loaded, env, unloadRefs, booting, alive>>
    PROVE  Backed(f)'
BY DEF Backed, Scope

LEMMA PutOnBacked ==
    ASSUME AllBacked, UNCHANGED <<known, loaded, env, unloadRefs, booting, alive>>,
           NEW m \in Nat, m <= Len(stack), Len(stack) \in Nat, Len(stack') = m + 1,
           \A k \in 1..m : stack'[k] = stack[k],
           NEW f, stack'[m + 1] = f, Backed(f)
    PROVE  AllBacked'
<1> SUFFICES ASSUME NEW k \in 1..m + 1, NEW g, g = stack'[k] PROVE Backed(g)'
    BY DEF AllBacked
<1>1. CASE k = m + 1
    BY <1>1, BackedSame
<1>2. CASE k # m + 1
  <2>1. k \in 1..m /\ k \in 1..Len(stack) /\ g = stack[k] /\ Backed(stack[k])
      BY <1>2 DEF AllBacked
  <2> QED BY <2>1, BackedSame
<1> QED BY <1>1, <1>2

\* Nothing changes but the activities and the on_unload handlers.
LEMMA BooksKept ==
    ASSUME Books, UNCHANGED <<known, loaded, failed, env, alive, booting, loads>>,
           requested' = requested \/ requested' \notin Names,
           \A n \in Names : Len(unloadRefs'[n]) <= onUnloads',
           \A n \in Names : Starting(n) => Starting(n)',
           \A k \in 1..Len(stack') :
               stack'[k].what \in {"unload", "notify"} /\ stack'[k].then = "unload" /\ stack'[k].slot = requested' =>
                   \E j \in 1..Len(stack) : /\ stack[j].what \in {"unload", "notify"}
                                            /\ stack[j].then = "unload" /\ stack[j].slot = requested',
           booting # {} => stack' # <<>> /\ stack'[1].what = "boot"
    PROVE  Books'
<1>1. ASSUME NEW n \in Names PROVE PluginInOrder(n)'
  <2>1. PluginInOrder(n)
      BY DEF Books
  <2>2. requested' = n => requested = n
      OBVIOUS
  <2>3. requested' = n =>
            /\ n \in known /\ loaded[n]
            /\ \A k \in 1..Len(stack') :
                  stack'[k].what \in {"unload", "notify"} /\ stack'[k].slot = n => stack'[k].then # "unload"
      BY <2>1, <2>2 DEF PluginInOrder
  <2>4. Starting(n) => Starting(n)'
      OBVIOUS
  <2>5. Len(unloadRefs'[n]) <= onUnloads'
      OBVIOUS
  <2> QED BY <2>1, <2>3, <2>4, <2>5 DEF PluginInOrder
<1> QED BY <1>1 DEF Books

\* An activity starts, and that is all.
LEMMA StartedStep ==
    ASSUME IInv, NEW f \in Activity, Push(f),
           UNCHANGED <<known, loaded, failed, env, unloadRefs, regs, booting, loads, onUnloads, ran, alive>>,
           requested' = requested \/ requested' = NoPlugin,
           Scope(f) => f.prev = current /\ current' = f.slot,
           ~Scope(f) => current' = current,
           \A j \in 1..Len(stack) : Above(f, stack[j]),
           f.what \in Engines => Idle,
           Backed(f),
           f.what \in {"unload", "notify"} /\ f.then = "unload" => f.slot # requested'
    PROVE  IInv'
<1>i. Careful /\ TypeOK /\ NoStaleCode /\ ScopesInOrder /\ AllNested /\ AllBacked /\ Books
    BY DEF IInv
<1> PICK n : n = Len(stack)
    OBVIOUS
<1>1. stack \in Seq(Activity) /\ n \in Nat /\ n <= Len(stack)
    BY <1>i, StackType
<1>2. /\ stack' \in Seq(Activity) /\ Len(stack') = n + 1
      /\ \A k \in 1..n : stack'[k] = stack[k]
      /\ stack'[n + 1] = f
    BY <1>1, PutOn DEF Push
<1>3. TypeOK'
  <2>1. current' \in Names \cup {NoPlugin}
      BY <1>i DEF TypeOK, Activity
  <2> QED BY <1>i, <1>2, <2>1 DEF TypeOK
<1>4. NoStaleCode'
    BY <1>i DEF NoStaleCode
<1>5. ScopesInOrder' /\ AllNested'
  <2>1. Alike(n) /\ \A j \in 1..n : Above(f, stack[j])
      BY <1>1, <1>2 DEF Alike
  <2>2. Chained /\ AllNested /\ ScopeAt(n, current)
      BY <1>i DEF ScopesInOrder
  <2>3. f.what \in Engines => n = 0
      BY DEF Idle
  <2> QED BY <1>1, <1>2, <2>1, <2>2, <2>3, Pushed
<1>6. AllBacked'
    BY <1>i, <1>1, <1>2, PutOnBacked
<1>7. Books'
  <2>1. \A m \in Names : Starting(m) => Starting(m)'
      BY <1>1, <1>2 DEF Starting
  <2>2. \A k \in 1..Len(stack') :
            stack'[k].what \in {"unload", "notify"} /\ stack'[k].then = "unload" /\ stack'[k].slot = requested' =>
                k \in 1..n /\ stack'[k] = stack[k]
      BY <1>1, <1>2
  <2>3. booting # {} => stack' # <<>> /\ stack'[1].what = "boot"
    <3>1. booting # {} => n # 0 /\ stack[1].what = "boot"
        BY <1>i, <1>1 DEF Books
    <3> QED BY <1>1, <1>2, <3>1
  <2>4. \A m \in Names : Len(unloadRefs'[m]) <= onUnloads'
      BY <1>i DEF Books, PluginInOrder
  <2>5. requested' = requested \/ requested' \notin Names
      BY LifecycleConstants
  <2>6. \A k \in 1..Len(stack') :
            stack'[k].what \in {"unload", "notify"} /\ stack'[k].then = "unload" /\ stack'[k].slot = requested' =>
                \E j \in 1..Len(stack) : /\ stack[j].what \in {"unload", "notify"}
                                         /\ stack[j].then = "unload" /\ stack[j].slot = requested'
      BY <2>2
  <2> QED BY <1>i, <2>1, <2>3, <2>4, <2>5, <2>6, BooksKept
<1> QED BY <1>i, <1>3, <1>4, <1>5, <1>6, <1>7 DEF IInv

\* The innermost activity ends: what that does to the others.
LEMMA Ended ==
    ASSUME IInv, ~Idle, stack' = Below,
           Scope(Top) => current' = Top.prev,
           ~Scope(Top) => current' = current
    PROVE  /\ stack' \in Seq(Activity) /\ Len(stack') = Len(stack) - 1 /\ Len(stack') \in Nat
           /\ \A k \in 1..Len(stack') : stack'[k] = stack[k] /\ k \in 1..Len(stack) /\ Above(Top, stack[k])
           /\ \A k \in 1..Len(stack) : k \in 1..Len(stack') \/ stack[k] = Top
           /\ Backed(Top) /\ Top \in Activity
           /\ current' \in Names \cup {NoPlugin}
           /\ ScopesInOrder' /\ AllNested'
           /\ booting # {} /\ Top.what # "boot" => stack' # <<>> /\ stack'[1].what = "boot"
<1>i. TypeOK /\ ScopesInOrder /\ AllNested /\ AllBacked /\ Books
    BY DEF IInv
<1> PICK n : n = Len(stack)
    OBVIOUS
<1>1. stack \in Seq(Activity) /\ n \in Nat /\ n - 1 \in Nat /\ n \in 1..n /\ Top = stack[n] /\ Top \in Activity
    BY <1>i, StackType DEF Top
<1>2. /\ stack' \in Seq(Activity) /\ Len(stack') = n - 1
      /\ \A k \in 1..n - 1 : stack'[k] = stack[k] /\ k \in 1..n
    BY <1>i, TakenOff
<1>3. \A k \in 1..n - 1 : Above(Top, stack[k])
    BY <1>i, <1>1 DEF AllNested, Nested
<1>4. \A k \in 1..n : k \in 1..n - 1 \/ stack[k] = Top
    BY <1>1
<1>5. Backed(Top)
    BY <1>i, <1>1 DEF AllBacked
<1>6. current' \in Names \cup {NoPlugin}
    BY <1>i, <1>1 DEF TypeOK, Activity
<1>7. ScopesInOrder' /\ AllNested'
  <2>1. ScopeAt(n - 1, current')
      BY <1>i, TopScope
  <2>2. Alike(n - 1) /\ n - 1 <= Len(stack)
      BY <1>1, <1>2 DEF Alike
  <2> QED BY <1>i, <1>1, <1>2, <2>1, <2>2, Popped DEF ScopesInOrder
<1>8. booting # {} /\ Top.what # "boot" => stack' # <<>> /\ stack'[1].what = "boot"
  <2> SUFFICES ASSUME booting # {}, Top.what # "boot" PROVE stack' # <<>> /\ stack'[1].what = "boot"
      OBVIOUS
  <2>1. stack[1].what = "boot"
      BY <1>i DEF Books
  <2>2. n # 1
      BY <1>1, <2>1
  <2>3. 1 \in 1..n - 1
      BY <1>1, <2>2
  <2> QED BY <1>2, <2>1, <2>3
<1> QED BY <1>1, <1>2, <1>3, <1>4, <1>5, <1>6, <1>7, <1>8

-----------------------------------------------------------------------------
(* Plugin code                                                             *)

LEMMA DispatchStep ==
    ASSUME IInv, Dispatch PROVE IInv'
<1>i. TypeOK /\ NoStaleCode
    BY DEF IInv
<1>1. PICK r \in regs : Push(ScopeOf(r.slot, r.inc, "code", "none")) /\ current' = r.slot
    BY DEF Dispatch
<1>2. r.slot \in Names /\ r.inc \in 0..MaxLoads /\ r.slot \in alive /\ r.inc = env[r.slot]
  <2>1. r \in Registration
      BY <1>i DEF TypeOK
  <2> QED BY <1>i, <2>1 DEF Registration, Incarnations, NoStaleCode
<1> PICK f : f = ScopeOf(r.slot, r.inc, "code", "none")
    OBVIOUS
<1>3. f \in Activity /\ Scope(f) /\ f.what = "code" /\ f.slot = r.slot /\ f.inc = r.inc /\ f.prev = current
  <2>1. "code" \in {"code", "load"} /\ "none" \in Thens
      BY DEF Thens
  <2> QED BY <1>i, <1>2, <2>1, ScopeFrame
<1>4. UNCHANGED <<known, loaded, failed, env, unloadRefs, regs, booting, requested, loads, onUnloads, ran, alive>>
    BY DEF Dispatch, slots, history
<1>5. Backed(f) /\ \A j \in 1..Len(stack) : Above(f, stack[j])
    BY <1>2, <1>3 DEF Backed, Above
<1>6. f.what \notin Engines \cup {"unload", "notify"} /\ current' = f.slot /\ Push(f)
    BY <1>1, <1>3 DEF Engines
<1> QED BY <1>3, <1>4, <1>5, <1>6, StartedStep

\* What the innermost activity runs, if it is Lua code.
LEMMA Runner ==
    ASSUME IInv, CodeRuns
    PROVE  /\ ~Idle /\ Scope(Top) /\ current = Top.slot /\ current \in Names
           /\ current \in alive /\ Top.inc = env[current] /\ Top.inc \in Incarnations
<1> USE DEF IInv
<1>1. ~Idle /\ Scope(Top)
    BY DEF CodeRuns, Doing, Scope
<1>2. current = Top.slot
    BY <1>1, TopScope
<1>3. Top.slot \in alive /\ Top.inc = env[Top.slot]
    BY <1>1, StackType DEF AllBacked, Backed, Top
<1>4. current \in Names /\ env[current] \in 0..MaxLoads /\ env[current] # 0
    BY <1>2, <1>3 DEF TypeOK, Books, PluginInOrder
<1> QED BY <1>1, <1>2, <1>3, <1>4, LifecycleConstants DEF Incarnations

LEMMA RegisterStep ==
    ASSUME IInv, Register PROVE IInv'
<1> USE DEF IInv
<1>1. /\ current \in Names /\ current \in alive /\ Top.inc = env[current] /\ Top.inc \in Incarnations
      /\ regs' = regs \cup {[slot |-> current, inc |-> Top.inc]}
    BY Runner DEF Register
<1>2. UNCHANGED <<known, loaded, failed, env, unloadRefs, current, stack, booting, requested, loads, onUnloads, ran, alive>>
    BY DEF Register, slots, history
<1> PICK i : i = Top.inc
    OBVIOUS
<1>3. regs' = regs \cup {[slot |-> current, inc |-> i]} /\ i = env[current] /\ i \in Incarnations
    BY <1>1
<1>4. TypeOK'
    BY <1>1, <1>2, <1>3 DEF TypeOK, Registration
<1>5. NoStaleCode'
    BY <1>1, <1>2, <1>3 DEF NoStaleCode
<1>6. ScopesInOrder' /\ AllNested' /\ AllBacked' /\ Books'
    BY <1>2 DEF ScopesInOrder, ScopeAt, Chained, Scope, AllNested, Nested, Above, AllBacked, Backed, Books,
                PluginInOrder, Starting
<1> QED BY <1>4, <1>5, <1>6

LEMMA LeaveStep ==
    ASSUME IInv, Leave PROVE IInv'
<1>i. Careful /\ TypeOK /\ NoStaleCode /\ AllBacked /\ Books
    BY DEF IInv
<1>1. ~Idle /\ Top.what = "code" /\ Scope(Top) /\ current' = Top.prev /\ stack' = Below
    BY DEF Leave, Doing, Scope
<1>2. UNCHANGED <<known, loaded, failed, env, unloadRefs, regs, booting, requested, loads, onUnloads, ran, alive>>
    BY DEF Leave, slots, history
<1>3. /\ stack' \in Seq(Activity) /\ Len(stack') = Len(stack) - 1 /\ Len(stack') \in Nat
      /\ \A k \in 1..Len(stack') : stack'[k] = stack[k] /\ k \in 1..Len(stack)
      /\ \A k \in 1..Len(stack) : k \in 1..Len(stack') \/ stack[k] = Top
      /\ current' \in Names \cup {NoPlugin}
      /\ ScopesInOrder' /\ AllNested'
      /\ booting # {} => stack' # <<>> /\ stack'[1].what = "boot"
    BY <1>1, Ended
<1>4. TypeOK' /\ NoStaleCode'
    BY <1>i, <1>2, <1>3 DEF TypeOK, NoStaleCode
<1>5. AllBacked'
    BY <1>i, <1>2, <1>3 DEF AllBacked, Backed, Scope
<1>6. Books'
  <2>1. \A n \in Names : Starting(n) => Starting(n)'
      BY <1>1, <1>3 DEF Starting
  <2>2. \A n \in Names : Len(unloadRefs'[n]) <= onUnloads'
      BY <1>i, <1>2 DEF Books, PluginInOrder
  <2> QED BY <1>i, <1>2, <1>3, <2>1, <2>2, BooksKept
<1> QED BY <1>i, <1>3, <1>4, <1>5, <1>6 DEF IInv

LEMMA OnUnloadStep ==
    ASSUME IInv, OnUnload PROVE IInv'
<1>i. Careful /\ TypeOK /\ NoStaleCode /\ ScopesInOrder /\ AllNested /\ AllBacked /\ Books
    BY DEF IInv
<1>1. current \in Names /\ current \in alive /\ Top.inc = env[current] /\ Top.inc \in Incarnations
    BY Runner DEF OnUnload
<1> PICK c, i, r : c = current /\ i = Top.inc /\ r = unloadRefs[current]
    OBVIOUS
<1>2. c \in Names /\ c \in alive /\ i = env[c] /\ i \in Incarnations /\ r \in Seq(UnloadHandler)
    BY <1>i, <1>1 DEF TypeOK
<1>3. /\ onUnloads < MaxUnloads /\ onUnloads' = onUnloads + 1
      /\ unloadRefs' = [unloadRefs EXCEPT ![c] = Append(r, [n |-> onUnloads + 1, inc |-> i])]
      /\ \A k \in 1..Len(stack) : stack[k].what = "notify" => stack[k].slot # c
    BY <1>i DEF OnUnload
<1>4. UNCHANGED <<known, loaded, failed, env, regs, current, stack, booting, requested, loads, ran, alive>>
    BY DEF OnUnload, slots
<1> PICK h : h = [n |-> onUnloads + 1, inc |-> i]
    OBVIOUS
<1>5. onUnloads + 1 \in 1..MaxUnloads /\ onUnloads \in Nat
    BY <1>i, <1>3, LifecycleConstants DEF TypeOK
<1>6. h \in UnloadHandler /\ h.inc = i
    BY <1>2, <1>5 DEF UnloadHandler
<1>7. /\ Append(r, h) \in Seq(UnloadHandler) /\ Len(Append(r, h)) = Len(r) + 1 /\ Len(r) \in Nat
      /\ \A k \in 1..Len(r) : Append(r, h)[k] = r[k]
      /\ Append(r, h)[Len(r) + 1] = h
    BY <1>2, <1>6
<1>8. /\ unloadRefs' \in [Names -> Seq(UnloadHandler)]
      /\ unloadRefs'[c] = Append(r, h)
      /\ \A n \in Names : n # c => unloadRefs'[n] = unloadRefs[n]
    BY <1>i, <1>2, <1>3, <1>7 DEF TypeOK
<1>9. TypeOK'
    BY <1>i, <1>3, <1>4, <1>5, <1>8 DEF TypeOK
<1>10. NoStaleCode'
  <2>1. \A k \in 1..Len(unloadRefs'[c]) : unloadRefs'[c][k].inc = env[c]
    <3> SUFFICES ASSUME NEW k \in 1..Len(r) + 1 PROVE Append(r, h)[k].inc = env[c]
        BY <1>7, <1>8
    <3>1. CASE k \in 1..Len(r)
        BY <1>i, <1>2, <1>7, <3>1 DEF NoStaleCode
    <3>2. CASE k = Len(r) + 1
        BY <1>2, <1>6, <1>7, <3>2
    <3> QED BY <1>7, <3>1, <3>2
  <2>2. \A n \in Names : \A k \in 1..Len(unloadRefs'[n]) : unloadRefs'[n][k].inc = env[n] /\ n \in alive
    <3> SUFFICES ASSUME NEW n \in Names, NEW k \in 1..Len(unloadRefs'[n])
                 PROVE  unloadRefs'[n][k].inc = env[n] /\ n \in alive
        OBVIOUS
    <3>1. CASE n = c
        BY <1>i, <1>2, <2>1, <3>1
    <3>2. CASE n # c
      <4>1. unloadRefs'[n] = unloadRefs[n]
          BY <1>8, <3>2
      <4> QED BY <1>i, <4>1 DEF NoStaleCode
    <3> QED BY <3>1, <3>2
  <2> QED BY <1>i, <1>4, <2>2 DEF NoStaleCode
<1>11. ScopesInOrder' /\ AllNested'
    BY <1>i, <1>4 DEF ScopesInOrder, ScopeAt, Chained, Scope, AllNested, Nested, Above
<1>12. AllBacked'
  <2> SUFFICES ASSUME NEW k \in 1..Len(stack), NEW f, f = stack[k] PROVE Backed(f)'
      BY <1>4 DEF AllBacked
  <2>1. Backed(f) /\ f \in Activity
      BY <1>i, StackType DEF AllBacked
  <2>2. f.what = "unload" => f.k <= Len(unloadRefs'[f.slot])
    <3>1. f.what = "unload" => f.slot \in Names /\ f.k \in Nat
        BY <1>i, <2>1 DEF Backed, TypeOK, Activity
    <3>2. CASE f.slot = c
        BY <1>7, <1>8, <2>1, <3>1, <3>2 DEF Backed
    <3>3. CASE f.slot # c
        BY <1>8, <2>1, <3>1, <3>3 DEF Backed
    <3> QED BY <3>2, <3>3
  <2>3. f.what = "notify" => unloadRefs'[f.slot] = <<>>
      BY <1>i, <1>3, <1>8, <2>1 DEF Backed, TypeOK
  <2> QED BY <1>4, <2>1, <2>2, <2>3 DEF Backed, Scope
<1>13. Books'
  <2>1. \A n \in Names : Len(unloadRefs[n]) <= onUnloads /\ Len(unloadRefs[n]) \in Nat
      BY <1>i DEF Books, PluginInOrder, TypeOK
  <2>2. \A n \in Names : Len(unloadRefs'[n]) <= onUnloads'
      BY <1>2, <1>3, <1>5, <1>7, <1>8, <2>1
  <2>3. \A n \in Names : Starting(n) => Starting(n)'
      BY <1>4 DEF Starting
  <2> QED BY <1>i, <1>4, <2>2, <2>3, BooksKept DEF Books
<1> QED BY <1>i, <1>9, <1>10, <1>11, <1>12, <1>13 DEF IInv

-----------------------------------------------------------------------------
(* load_plugin                                                             *)

LEMMA LoadEndsStep ==
    ASSUME IInv, LoadEnds PROVE IInv'
<1>i. Careful /\ TypeOK /\ NoStaleCode /\ AllBacked /\ Books
    BY DEF IInv
<1>1. ~Idle /\ Top.what = "load" /\ Scope(Top) /\ current' = Top.prev /\ stack' = Below
    BY DEF LoadEnds, Doing, Scope
<1>2. UNCHANGED <<known, failed, env, unloadRefs, regs, booting, requested, loads, onUnloads, ran, alive>>
    BY DEF LoadEnds, history
<1>3. /\ stack' \in Seq(Activity) /\ Len(stack') = Len(stack) - 1 /\ Len(stack') \in Nat
      /\ \A k \in 1..Len(stack') : stack'[k] = stack[k] /\ k \in 1..Len(stack)
      /\ \A k \in 1..Len(stack) : k \in 1..Len(stack') \/ stack[k] = Top
      /\ Backed(Top)
      /\ current' \in Names \cup {NoPlugin}
      /\ ScopesInOrder' /\ AllNested'
      /\ booting # {} => stack' # <<>> /\ stack'[1].what = "boot"
    BY <1>1, Ended
<1> PICK s : s = Top.slot
    OBVIOUS
<1>4. s \in alive /\ s \in Names /\ (Top.then = "start" \/ loaded[s])
    BY <1>i, <1>1, <1>3 DEF Backed, TypeOK
<1>5. /\ loaded' \in [Names -> BOOLEAN]
      /\ \A n \in Names : n # s => loaded'[n] = loaded[n]
      /\ loaded'[s]
    BY <1>i, <1>4 DEF LoadEnds, FlagAfterLoad, TypeOK
<1>6. TypeOK' /\ NoStaleCode'
    BY <1>i, <1>2, <1>3, <1>5 DEF TypeOK, NoStaleCode
<1>7. AllBacked'
  <2> SUFFICES ASSUME NEW k \in 1..Len(stack'), NEW f, f = stack'[k] PROVE Backed(f)'
      BY DEF AllBacked
  <2>1. Backed(f)
      BY <1>i, <1>3 DEF AllBacked
  <2>2. \A n \in Names : loaded[n] => loaded'[n]
      BY <1>5
  <2>3. f.what \in {"load", "unload", "notify"} => f.slot \in Names
      BY <1>i, <2>1 DEF Backed, TypeOK, Scope
  <2> QED BY <1>2, <2>1, <2>2, <2>3 DEF Backed, Scope
<1>8. Books'
  <2>1. ASSUME NEW n \in Names PROVE PluginInOrder(n)'
    <3>1. PluginInOrder(n)
        BY <1>i DEF Books
    <3>2. n # s /\ Starting(n) => Starting(n)'
        BY <1>3 DEF Starting
    <3>3. n \in alive => loaded'[n] \/ Starting(n)'
        BY <1>5, <3>1, <3>2 DEF PluginInOrder
    <3>4. loaded[n] => loaded'[n]
        BY <1>5
    <3>5. loaded'[n] => loaded[n] \/ n \in alive
        BY <1>4, <1>5
    <3>6. requested' = n => \A k \in 1..Len(stack') :
              stack'[k].what \in {"unload", "notify"} /\ stack'[k].slot = n => stack'[k].then # "unload"
        BY <1>2, <1>3, <3>1 DEF PluginInOrder
    <3> QED BY <1>2, <3>1, <3>3, <3>4, <3>5, <3>6 DEF PluginInOrder
  <2> QED BY <1>i, <1>2, <1>3, <2>1 DEF Books
<1> QED BY <1>i, <1>3, <1>6, <1>7, <1>8 DEF IInv

LEMMA LoadFailsStep ==
    ASSUME IInv, LoadFails PROVE IInv'
<1>i. Careful /\ TypeOK /\ NoStaleCode /\ AllBacked /\ Books
    BY DEF IInv
<1>1. ~Idle /\ Top.what = "load" /\ Scope(Top) /\ current' = Top.prev /\ stack' = Below
    BY DEF LoadFails, Doing, Scope
<1>2. UNCHANGED <<known, env, booting, requested, loads, onUnloads, ran>>
    BY DEF LoadFails
<1>3. /\ stack' \in Seq(Activity) /\ Len(stack') = Len(stack) - 1 /\ Len(stack') \in Nat
      /\ \A k \in 1..Len(stack') : stack'[k] = stack[k] /\ k \in 1..Len(stack) /\ Above(Top, stack[k])
      /\ \A k \in 1..Len(stack) : k \in 1..Len(stack') \/ stack[k] = Top
      /\ Backed(Top)
      /\ current' \in Names \cup {NoPlugin}
      /\ ScopesInOrder' /\ AllNested'
      /\ booting # {} => stack' # <<>> /\ stack'[1].what = "boot"
    BY <1>1, Ended
<1> PICK s : s = Top.slot
    OBVIOUS
<1>4. s \in alive /\ s \in Names /\ (Top.then = "start" \/ loaded[s])
    BY <1>i, <1>1, <1>3 DEF Backed, TypeOK
<1>5. /\ loaded' \in [Names -> BOOLEAN]
      /\ \A n \in Names : n # s => loaded'[n] = loaded[n]
      /\ loaded'[s]
    BY <1>i, <1>4 DEF LoadFails, FlagAfterLoad, TypeOK
<1>6. /\ failed' \in [Names -> BOOLEAN] /\ failed'[s]
      /\ \A n \in Names : n # s => failed'[n] = failed[n]
    BY <1>i, <1>4 DEF LoadFails, TypeOK
<1>7. /\ unloadRefs' \in [Names -> Seq(UnloadHandler)] /\ unloadRefs'[s] = <<>>
      /\ \A n \in Names : n # s => unloadRefs'[n] = unloadRefs[n]
  <2>1. unloadRefs' = [unloadRefs EXCEPT ![s] = <<>>] /\ <<>> \in Seq(UnloadHandler)
      BY DEF LoadFails
  <2> QED BY <1>i, <1>4, <2>1 DEF TypeOK
<1>8. alive' = alive \ {s} /\ regs' = {r \in regs : r.slot # s}
    BY DEF LoadFails
<1>9. TypeOK'
    BY <1>i, <1>2, <1>3, <1>5, <1>6, <1>7, <1>8 DEF TypeOK
<1>10. NoStaleCode'
  <2>1. \A r \in regs' : r.inc = env[r.slot] /\ r.slot \in alive'
      BY <1>i, <1>8 DEF NoStaleCode
  <2>2. Len(<<>>) = 0
      OBVIOUS
  <2>3. \A n \in Names : \A k \in 1..Len(unloadRefs'[n]) : unloadRefs'[n][k].inc = env[n] /\ n \in alive'
      BY <1>i, <1>7, <1>8, <2>2 DEF NoStaleCode
  <2> QED BY <1>2, <2>1, <2>3 DEF NoStaleCode
<1>11. AllBacked'
  <2> SUFFICES ASSUME NEW k \in 1..Len(stack'), NEW f, f = stack'[k] PROVE Backed(f)'
      BY DEF AllBacked
  <2>1. Backed(f) /\ Above(Top, f)
      BY <1>i, <1>3 DEF AllBacked
  <2>2. f.what \notin Engines => f.slot # s
      BY <1>1, <2>1 DEF Above
  <2>3. Scope(f) => /\ f.slot \in Names /\ f.slot \in alive' /\ f.inc = env'[f.slot]
                    /\ loaded'[f.slot] = loaded[f.slot]
      BY <1>i, <1>2, <1>5, <1>8, <2>1, <2>2 DEF Backed, TypeOK, Scope, Engines
  <2>4. f.what \in {"unload", "notify"} =>
            /\ f.slot \in Names /\ f.slot \in known' /\ loaded'[f.slot] /\ f.slot \notin booting'
            /\ unloadRefs'[f.slot] = unloadRefs[f.slot]
      BY <1>i, <1>2, <1>5, <1>7, <2>1, <2>2 DEF Backed, TypeOK, Engines
  <2> QED BY <2>1, <2>3, <2>4 DEF Backed, Scope
<1>12. Books'
  <2>1. ASSUME NEW n \in Names PROVE PluginInOrder(n)'
    <3>1. PluginInOrder(n)
        BY <1>i DEF Books
    <3>2. n # s /\ Starting(n) => Starting(n)'
        BY <1>3 DEF Starting
    <3>3. requested' = n => \A k \in 1..Len(stack') :
              stack'[k].what \in {"unload", "notify"} /\ stack'[k].slot = n => stack'[k].then # "unload"
        BY <1>2, <1>3, <3>1 DEF PluginInOrder
    <3>4. CASE n # s
        BY <1>2, <1>5, <1>6, <1>7, <1>8, <3>1, <3>2, <3>3, <3>4 DEF PluginInOrder
    <3>5. CASE n = s
      <4>1. n \notin alive' /\ n \notin booting' /\ n \in known /\ failed'[n] /\ loaded'[n]
          BY <1>2, <1>4, <1>5, <1>6, <1>8, <3>1, <3>5 DEF PluginInOrder
      <4>2. Len(unloadRefs'[n]) <= onUnloads' /\ env'[n] <= loads'
        <5>1. onUnloads \in Nat /\ Len(<<>>) = 0
            BY <1>i, LifecycleConstants DEF TypeOK
        <5> QED BY <1>2, <1>7, <3>1, <3>5, <5>1 DEF PluginInOrder
      <4> QED BY <1>2, <3>3, <4>1, <4>2 DEF PluginInOrder
    <3> QED BY <3>4, <3>5
  <2> QED BY <1>i, <1>2, <1>3, <2>1 DEF Books
<1> QED BY <1>i, <1>3, <1>9, <1>10, <1>11, <1>12 DEF IInv

-----------------------------------------------------------------------------
(* unload_plugin                                                           *)

\* What is known of the handler whose turn it is.
LEMMA NextHandler ==
    ASSUME TypeOK, NoStaleCode, AllBacked, Doing("unload"), Top.k > 0,
           NEW s, s = Top.slot, NEW h, h = unloadRefs[s][Top.k]
    PROVE  /\ s \in Names /\ s \in alive /\ s \in known /\ loaded[s]
           /\ Top.k \in 1..Len(unloadRefs[s]) /\ Top.k \in 1..MaxUnloads
           /\ h \in UnloadHandler /\ h.inc = env[s] /\ h.inc \in 1..MaxLoads
<1>1. Top \in Activity /\ Backed(Top) /\ Top.what = "unload"
    BY StackType DEF AllBacked, Doing, Top
<1>2. s \in known /\ loaded[s] /\ Top.k <= Len(unloadRefs[s]) /\ Top.k \in 0..MaxUnloads
    BY <1>1 DEF Backed, Activity
<1>3. s \in Names /\ unloadRefs[s] \in Seq(UnloadHandler)
    BY <1>2 DEF TypeOK
<1>4. Top.k \in 1..MaxUnloads /\ Top.k \in 1..Len(unloadRefs[s])
    BY <1>2, <1>3, LifecycleConstants
<1>5. h \in UnloadHandler
    BY <1>3, <1>4
<1>6. h.inc = env[s] /\ s \in alive
    BY <1>3, <1>4 DEF NoStaleCode
<1> QED BY <1>2, <1>3, <1>4, <1>5, <1>6 DEF UnloadHandler, Incarnations

\* The innermost activity goes on.
LEMMA Advanced ==
    ASSUME TypeOK, ~Idle, NEW g \in Activity
    PROVE  /\ Len(stack) \in Nat /\ Len(stack) - 1 \in Nat
           /\ stack[Len(stack)] = Top /\ Len(stack) \in 1..Len(stack)
           /\ [stack EXCEPT ![Len(stack)] = g] \in Seq(Activity)
           /\ Len([stack EXCEPT ![Len(stack)] = g]) = Len(stack)
           /\ [stack EXCEPT ![Len(stack)] = g][Len(stack)] = g
           /\ \A k \in 1..Len(stack) : k # Len(stack) => /\ [stack EXCEPT ![Len(stack)] = g][k] = stack[k]
                                                        /\ k \in 1..Len(stack) - 1
<1> PICK n : n = Len(stack)
    OBVIOUS
<1> PICK s : s = [stack EXCEPT ![n] = g]
    OBVIOUS
<1>1. stack \in Seq(Activity) /\ n \in Nat /\ n \in 1..n /\ n - 1 \in Nat
    BY StackType
<1>2. s \in Seq(Activity) /\ Len(s) = n /\ s[n] = g /\ \A k \in 1..n : k # n => s[k] = stack[k]
    BY <1>1
<1>3. \A k \in 1..n : k # n => k \in 1..n - 1
    BY <1>1
<1> QED BY <1>1, <1>2, <1>3 DEF Top

\* The stack after the handler h of the plugin s was started.
LEMMA HandlerStarted ==
    ASSUME IInv, RunUnloadHandler, NEW n, n = Len(stack)
    PROVE  /\ n \in Nat /\ n \in 1..n /\ stack[n] = Top
           /\ stack' \in Seq(Activity) /\ Len(stack') = n + 1
           /\ \A k \in 1..n : k # n => stack'[k] = stack[k]
           /\ stack'[n] \in Activity
           /\ stack'[n].what = "unload" /\ stack'[n].slot = Top.slot /\ stack'[n].prev = Top.prev
           /\ stack'[n].then = Top.then /\ stack'[n].k = Top.k - 1
           /\ stack'[n + 1] \in Activity
           /\ Scope(stack'[n + 1]) /\ stack'[n + 1].what = "code" /\ stack'[n + 1].slot = Top.slot
           /\ stack'[n + 1].inc = unloadRefs[Top.slot][Top.k].inc /\ stack'[n + 1].prev = current
<1> PICK s, h : s = Top.slot /\ h = unloadRefs[Top.slot][Top.k]
    OBVIOUS
<1> PICK f : f = ScopeOf(s, h.inc, "code", "none")
    OBVIOUS
<1>i. TypeOK /\ NoStaleCode /\ AllBacked
    BY DEF IInv
<1>1. /\ ~Idle /\ Top \in Activity /\ Top.what = "unload" /\ Top.k > 0
      /\ stack' = Append([stack EXCEPT ![Len(stack)].k = Top.k - 1], ScopeOf(s, h.inc, "code", "none"))
    BY <1>i, StackType DEF RunUnloadHandler, Doing, Top
<1>2. s \in Names /\ h.inc \in 0..MaxLoads /\ Top.k \in 1..MaxUnloads
  <2>1. Doing("unload") /\ Top.k > 0
      BY DEF RunUnloadHandler
  <2>2. s \in Names /\ h.inc \in 1..MaxLoads /\ Top.k \in 1..MaxUnloads
      BY <1>i, <2>1, NextHandler
  <2> QED BY <2>2, LifecycleConstants
<1>3. f \in Activity /\ Scope(f) /\ f.what = "code" /\ f.slot = s /\ f.inc = h.inc /\ f.prev = current
  <2>1. "code" \in {"code", "load"} /\ "none" \in Thens
      BY DEF Thens
  <2> QED BY <1>i, <1>2, <2>1, ScopeFrame
<1> PICK g : g = [Top EXCEPT !.k = Top.k - 1]
    OBVIOUS
<1>4. /\ g \in Activity /\ g.what = "unload" /\ g.slot = s /\ g.prev = Top.prev /\ g.then = Top.then
      /\ g.k = Top.k - 1
  <2>1. Top.k - 1 \in 0..MaxUnloads
      BY <1>2, LifecycleConstants
  <2>2. \A a \in Activity : \A b \in 0..MaxUnloads :
            LET c == [a EXCEPT !.k = b]
            IN  c \in Activity /\ c.what = a.what /\ c.slot = a.slot /\ c.prev = a.prev /\ c.then = a.then /\ c.k = b
      BY DEF Activity
  <2> QED BY <1>1, <2>1, <2>2
<1> PICK t : t = [stack EXCEPT ![Len(stack)] = g]
    OBVIOUS
<1>5. /\ t \in Seq(Activity) /\ Len(t) = Len(stack) /\ Len(stack) \in Nat
      /\ t[Len(stack)] = g /\ stack[Len(stack)] = Top /\ Len(stack) \in 1..Len(stack)
      /\ \A k \in 1..Len(stack) : k # Len(stack) => t[k] = stack[k]
  <2>1. TypeOK /\ ~Idle /\ g \in Activity
      BY <1>i, <1>1, <1>4
  <2> QED BY <2>1, Advanced
<1>6. stack' = Append(t, f)
  <2>1. [stack EXCEPT ![Len(stack)].k = Top.k - 1] = t
      BY <1>5
  <2> QED BY <1>1, <2>1
<1>7. stack' \in Seq(Activity) /\ Len(stack') = Len(stack) + 1 /\ (\A k \in 1..Len(stack) : stack'[k] = t[k])
      /\ stack'[Len(stack) + 1] = f
  <2>1. /\ stack' \in Seq(Activity) /\ Len(stack') = Len(t) + 1
        /\ \A k \in 1..Len(t) : stack'[k] = t[k]
        /\ stack'[Len(t) + 1] = f
    <3>1. t \in Seq(Activity) /\ f \in Activity
        BY <1>3, <1>5
    <3> QED BY <3>1, <1>6, PutOn
  <2>2. Len(t) = Len(stack)
      BY <1>5
  <2> QED BY <2>1, <2>2
<1>8. /\ n \in Nat /\ n \in 1..n /\ stack[n] = Top /\ stack'[n] = g
      /\ \A k \in 1..n : k # n => stack'[k] = stack[k]
    BY <1>5, <1>7
<1> QED BY <1>3, <1>4, <1>7, <1>8

LEMMA RunUnloadHandlerStep ==
    ASSUME IInv, RunUnloadHandler PROVE IInv'
<1>i. Careful /\ TypeOK /\ NoStaleCode /\ ScopesInOrder /\ AllNested /\ AllBacked /\ Books
    BY DEF IInv
<1> PICK s, h : s = Top.slot /\ h = unloadRefs[Top.slot][Top.k]
    OBVIOUS
<1>1. /\ Doing("unload") /\ Top.k > 0 /\ current' = s /\ ran' = ran \cup {h}
      /\ UNCHANGED <<known, loaded, failed, env, unloadRefs, regs, booting, requested, loads, onUnloads, alive>>
    BY DEF RunUnloadHandler, slots
<1>2. /\ s \in Names /\ s \in alive /\ Top.k \in 1..Len(unloadRefs[s]) /\ Top.k \in 1..MaxUnloads
      /\ h \in UnloadHandler /\ h.inc = env[s]
    BY <1>i, <1>1, NextHandler
<1> PICK n, f : n = Len(stack) /\ f = stack'[n + 1]
    OBVIOUS
<1>3. /\ n \in Nat /\ n \in 1..n /\ stack[n] = Top
      /\ stack' \in Seq(Activity) /\ Len(stack') = n + 1 /\ f = stack'[n + 1]
      /\ \A k \in 1..n : k # n => stack'[k] = stack[k]
      /\ stack'[n] \in Activity
      /\ stack'[n].what = "unload" /\ stack'[n].slot = s /\ stack'[n].prev = Top.prev
      /\ stack'[n].then = Top.then /\ stack'[n].k = Top.k - 1
      /\ f \in Activity /\ Scope(f) /\ f.what = "code" /\ f.slot = s /\ f.inc = h.inc /\ f.prev = current
    BY HandlerStarted
<1>4. Top.what = "unload" /\ Top.slot = s
    BY <1>1 DEF Doing
<1>5. TypeOK'
    BY <1>i, <1>1, <1>2, <1>3 DEF TypeOK
<1>6. NoStaleCode'
    BY <1>i, <1>1 DEF NoStaleCode
<1>7. ScopesInOrder' /\ AllNested'
  <2>1. Alike(n)
      BY <1>3, <1>4 DEF Alike
  <2>2. Chained /\ AllNested /\ ScopeAt(n, current)
      BY <1>i, <1>3 DEF ScopesInOrder
  <2>3. f.what \notin Engines /\ \A j \in 1..n : Above(f, stack[j])
      BY <1>3 DEF Above, Engines
  <2>4. n <= Len(stack) /\ Len(stack) \in Nat /\ stack'[n + 1] = f /\ Len(stack') = n + 1
      BY <1>3
  <2>5. Scope(f) /\ f.prev = current /\ current' = f.slot
      BY <1>1, <1>3
  <2> QED BY <2>1, <2>2, <2>3, <2>4, <2>5, Pushed
<1>8. AllBacked'
  <2> SUFFICES ASSUME NEW k \in 1..n + 1, NEW g, g = stack'[k] PROVE Backed(g)'
      BY <1>3 DEF AllBacked
  <2>1. CASE k = n + 1
      BY <1>1, <1>2, <1>3, <2>1 DEF Backed, Scope
  <2>2. CASE k = n
    <3>1. Backed(Top)
        BY <1>i, <1>3 DEF AllBacked
    <3>2. unloadRefs[s] \in Seq(UnloadHandler)
        BY <1>i, <1>2 DEF TypeOK
    <3>3. Top.k - 1 <= Len(unloadRefs[s])
        BY <1>2, <3>2
    <3> QED BY <1>1, <1>3, <1>4, <2>2, <3>1, <3>3 DEF Backed, Scope
  <2>3. CASE k # n + 1 /\ k # n
    <3>1. g = stack[k] /\ k \in 1..Len(stack)
        BY <1>3, <2>3
    <3>2. Backed(g)
        BY <1>i, <3>1 DEF AllBacked
    <3> QED BY <1>1, <3>2, BackedSame
  <2> QED BY <2>1, <2>2, <2>3
<1>9. Books'
  <2>1. \A m \in Names : Starting(m) => Starting(m)'
      BY <1>3, <1>4 DEF Starting
  <2>2. \A k \in 1..Len(stack') : stack'[k].what \in {"unload", "notify"} =>
            k \in 1..n /\ stack[k].what \in {"unload", "notify"}
            /\ stack[k].then = stack'[k].then /\ stack[k].slot = stack'[k].slot
      BY <1>3, <1>4
  <2>3. booting # {} => stack' # <<>> /\ stack'[1].what = "boot"
    <3> SUFFICES ASSUME booting # {} PROVE stack' # <<>> /\ stack'[1].what = "boot"
        OBVIOUS
    <3>1. stack[1].what = "boot"
        BY <1>i DEF Books
    <3>2. 1 \in 1..n /\ n # 1
        BY <1>3, <1>4, <3>1
    <3> QED BY <1>3, <3>1, <3>2
  <2>4. \A m \in Names : Len(unloadRefs'[m]) <= onUnloads'
      BY <1>i, <1>1 DEF Books, PluginInOrder
  <2>5. \A k \in 1..Len(stack') :
            stack'[k].what \in {"unload", "notify"} /\ stack'[k].then = "unload" /\ stack'[k].slot = requested' =>
                \E j \in 1..Len(stack) : /\ stack[j].what \in {"unload", "notify"}
                                         /\ stack[j].then = "unload" /\ stack[j].slot = requested'
      BY <1>3, <2>2
  <2> QED BY <1>i, <1>1, <2>1, <2>3, <2>4, <2>5, BooksKept
<1> QED BY <1>i, <1>5, <1>6, <1>7, <1>8, <1>9 DEF IInv

LEMMA AnnounceStep ==
    ASSUME IInv, Announce PROVE IInv'
<1>i. Careful /\ TypeOK /\ NoStaleCode /\ ScopesInOrder /\ AllNested /\ AllBacked /\ Books
    BY DEF IInv
<1> PICK n, s : n = Len(stack) /\ s = Top.slot
    OBVIOUS
<1>1. /\ ~Idle /\ Top.what = "unload" /\ ~Scope(Top)
      /\ unloadRefs' = [unloadRefs EXCEPT ![s] = <<>>]
      /\ stack' = [stack EXCEPT ![n].what = "notify"]
      /\ UNCHANGED <<known, loaded, failed, env, regs, current, booting, requested, loads, onUnloads, ran, alive>>
    BY DEF Announce, Doing, Scope, slots, history
<1>2. n \in Nat /\ n \in 1..n /\ n - 1 \in Nat /\ stack[n] = Top /\ Top \in Activity /\ stack \in Seq(Activity)
    BY <1>i, <1>1, StackType DEF Top
<1> PICK g : g = [Top EXCEPT !.what = "notify"]
    OBVIOUS
<1>3. g \in Activity /\ g.what = "notify" /\ g.slot = s /\ g.prev = Top.prev /\ g.then = Top.then
  <2>1. \A a \in Activity :
            LET c == [a EXCEPT !.what = "notify"]
            IN  c \in Activity /\ c.what = "notify" /\ c.slot = a.slot /\ c.prev = a.prev /\ c.then = a.then
      BY DEF Activity, Activities
  <2> QED BY <1>2, <2>1
<1>4. /\ stack' \in Seq(Activity) /\ Len(stack') = n /\ stack'[n] = g
      /\ \A k \in 1..n : k # n => stack'[k] = stack[k] /\ k \in 1..n - 1
  <2>1. stack' = [stack EXCEPT ![Len(stack)] = g]
      BY <1>1, <1>2
  <2> PICK t : t = [stack EXCEPT ![Len(stack)] = g]
      OBVIOUS
  <2>2. /\ t \in Seq(Activity) /\ Len(t) = Len(stack) /\ t[Len(stack)] = g
        /\ \A k \in 1..Len(stack) : k # Len(stack) => t[k] = stack[k] /\ k \in 1..Len(stack) - 1
      BY <1>i, <1>1, <1>3, Advanced
  <2>3. stack' = t
      BY <2>1
  <2> QED BY <2>2, <2>3
<1>5. /\ Backed(Top) /\ s \in Names /\ s \in known /\ loaded[s] /\ s \notin booting
      /\ Top.then \in {"unload", "reload"}
    BY <1>i, <1>1, <1>2 DEF AllBacked, Backed, TypeOK
<1>6. \A k \in 1..n - 1 : Above(Top, stack[k])
    BY <1>i, <1>1, <1>2 DEF AllNested, Nested
<1>7. /\ unloadRefs' \in [Names -> Seq(UnloadHandler)] /\ unloadRefs'[s] = <<>>
      /\ \A m \in Names : m # s => unloadRefs'[m] = unloadRefs[m]
  <2>1. <<>> \in Seq(UnloadHandler)
      OBVIOUS
  <2> QED BY <1>i, <1>1, <1>5, <2>1 DEF TypeOK
<1>8. TypeOK'
    BY <1>i, <1>1, <1>4, <1>7 DEF TypeOK
<1>9. NoStaleCode'
  <2>1. Len(<<>>) = 0
      OBVIOUS
  <2>2. \A m \in Names : \A k \in 1..Len(unloadRefs'[m]) : unloadRefs'[m][k].inc = env[m] /\ m \in alive
      BY <1>i, <1>7, <2>1 DEF NoStaleCode
  <2> QED BY <1>i, <1>1, <2>2 DEF NoStaleCode
<1>10. ScopesInOrder' /\ AllNested'
  <2> PICK m : m = n - 1
      OBVIOUS
  <2>1. m \in Nat /\ m <= Len(stack) /\ Len(stack) \in Nat /\ Len(stack') = m + 1 /\ stack'[m + 1] = g
      BY <1>2, <1>4
  <2>2. Alike(m)
    <3>1. \A k \in 1..m : k \in 1..n /\ k # n
        BY <1>2
    <3> QED BY <1>4, <3>1 DEF Alike
  <2>3. ScopeAt(m, current) /\ current' = current
      BY <1>i, <1>1, TopScope
  <2>4. g.what \notin Engines /\ ~Scope(g) /\ \A j \in 1..m : Above(g, stack[j])
      BY <1>1, <1>3, <1>6 DEF Above, Scope, Engines
  <2>5. Chained /\ AllNested
      BY <1>i DEF ScopesInOrder
  <2> QED BY <2>1, <2>2, <2>3, <2>4, <2>5, Pushed
<1>11. AllBacked'
  <2> SUFFICES ASSUME NEW k \in 1..n, NEW f, f = stack'[k] PROVE Backed(f)'
      BY <1>4 DEF AllBacked
  <2>1. CASE k = n
    <3>1. /\ f.what = "notify" /\ f.slot = s /\ f.then \in {"unload", "reload"}
          /\ s \in known' /\ loaded'[s] /\ s \notin booting' /\ unloadRefs'[s] = <<>>
        BY <1>1, <1>3, <1>4, <1>5, <1>7, <2>1
    <3> QED BY <3>1 DEF Backed, Scope
  <2>2. CASE k # n
    <3>1. f = stack[k] /\ k \in 1..Len(stack) /\ Above(Top, f)
        BY <1>4, <1>6, <2>2
    <3>2. Backed(f)
        BY <1>i, <3>1 DEF AllBacked
    <3>3. f.what \in {"unload", "notify"} => f.slot \in Names /\ f.slot # s
        BY <1>i, <1>1, <3>1, <3>2 DEF Above, Backed, TypeOK, Engines
    <3> QED BY <1>1, <1>7, <3>2, <3>3 DEF Backed, Scope
  <2> QED BY <2>1, <2>2
<1>12. Books'
  <2>1. \A m \in Names : Starting(m) => Starting(m)'
      BY <1>1, <1>2, <1>4 DEF Starting
  <2>2. \A k \in 1..Len(stack') : stack'[k].what \in {"unload", "notify"} =>
            k \in 1..n /\ stack[k].what \in {"unload", "notify"}
            /\ stack[k].then = stack'[k].then /\ stack[k].slot = stack'[k].slot
      BY <1>1, <1>2, <1>3, <1>4
  <2>3. booting # {} => stack' # <<>> /\ stack'[1].what = "boot"
    <3> SUFFICES ASSUME booting # {} PROVE stack' # <<>> /\ stack'[1].what = "boot"
        OBVIOUS
    <3>1. stack[1].what = "boot"
        BY <1>i DEF Books
    <3>2. 1 \in 1..n /\ n # 1
        BY <1>1, <1>2, <3>1
    <3> QED BY <1>4, <3>1, <3>2
  <2>4. \A m \in Names : Len(unloadRefs'[m]) <= onUnloads'
    <3>1. onUnloads \in Nat /\ Len(<<>>) = 0
        BY <1>i, LifecycleConstants DEF TypeOK
    <3> QED BY <1>i, <1>1, <1>7, <3>1 DEF Books, PluginInOrder
  <2>5. \A k \in 1..Len(stack') :
            stack'[k].what \in {"unload", "notify"} /\ stack'[k].then = "unload" /\ stack'[k].slot = requested' =>
                \E j \in 1..Len(stack) : /\ stack[j].what \in {"unload", "notify"}
                                         /\ stack[j].then = "unload" /\ stack[j].slot = requested'
      BY <2>2
  <2> QED BY <1>i, <1>1, <2>1, <2>3, <2>4, <2>5, BooksKept
<1> QED BY <1>i, <1>8, <1>9, <1>10, <1>11, <1>12 DEF IInv

\* What Remove finds.
LEMMA Stopping ==
    ASSUME IInv, Doing("notify"), NEW s, s = Top.slot
    PROVE  /\ ~Idle /\ ~Scope(Top) /\ Top.what = "notify" /\ Top \in Activity
           /\ s \in Names /\ s \in known /\ loaded[s] /\ s \notin booting /\ unloadRefs[s] = <<>>
           /\ Top.then \in {"unload", "reload"} /\ (requested = s => Top.then = "reload")
           /\ \A k \in 1..Len(stack) : k # Len(stack) =>
                  (stack[k].what \notin Engines => stack[k].slot # s) /\ Backed(stack[k])
           /\ booting # {} => Len(stack) # 1 /\ stack[1].what = "boot"
           /\ Len(stack) \in 1..Len(stack) /\ stack[Len(stack)] = Top
<1>i. TypeOK /\ AllNested /\ AllBacked /\ Books
    BY DEF IInv
<1> PICK n : n = Len(stack)
    OBVIOUS
<1>1. ~Idle /\ Top.what = "notify" /\ ~Scope(Top)
    BY DEF Doing, Scope
<1>2. n \in Nat /\ n \in 1..n /\ n - 1 \in Nat /\ stack[n] = Top /\ Top \in Activity
    BY <1>i, <1>1, StackType DEF Top
<1>3. /\ Backed(Top) /\ s \in Names /\ s \in known /\ loaded[s] /\ s \notin booting
      /\ Top.then \in {"unload", "reload"} /\ unloadRefs[s] = <<>>
    BY <1>i, <1>1, <1>2 DEF AllBacked, Backed, TypeOK
<1>4. \A k \in 1..n : k # n => k \in 1..n - 1
    BY <1>2
<1>5. \A k \in 1..n - 1 : stack[k].what \notin Engines => stack[k].slot # s
    BY <1>i, <1>1, <1>2 DEF AllNested, Nested, Above
<1>6. requested = s => Top.then = "reload"
    BY <1>i, <1>1, <1>2, <1>3 DEF Books, PluginInOrder
<1>7. booting # {} => n # 1 /\ stack[1].what = "boot"
    BY <1>i, <1>1, <1>2 DEF Books
<1>8. \A k \in 1..n : Backed(stack[k])
    BY <1>i DEF AllBacked
<1> QED BY <1>1, <1>2, <1>3, <1>4, <1>5, <1>6, <1>7, <1>8

\* A load starts above the first m activities.
LEMMA LoadStarts ==
    ASSUME IInv, NEW n \in Names, NEW then \in Thens, NEW rest \in Seq(Activity), NEW m \in Nat, m = Len(rest),
           m <= Len(stack),
           \A k \in 1..m : rest[k] = stack[k],
           \A k \in 1..Len(stack) : k \in 1..m \/ stack[k].what # "load",
           \A k \in 1..m : stack[k].what \notin Engines => stack[k].slot # n,
           ScopeAt(m, current),
           Start(n, rest, then),
           n \in known', ~failed'[n], then = "start" \/ loaded'[n],
           known' \subseteq Names, loaded' \in [Names -> BOOLEAN], failed' \in [Names -> BOOLEAN],
           \A p \in Names : p # n => /\ p \in known' <=> p \in known
                                     /\ loaded'[p] = loaded[p] /\ failed'[p] = failed[p],
           regs' \subseteq regs, \A r \in regs' : r.slot # n, unloadRefs[n] = <<>>,
           UNCHANGED <<unloadRefs, requested, onUnloads, ran>>,
           requested = n => loaded'[n],
           booting' = booting \ {n}, booting # {} => m # 0
    PROVE  IInv'
<1>i. Careful /\ TypeOK /\ NoStaleCode /\ ScopesInOrder /\ AllNested /\ AllBacked /\ Books
    BY DEF IInv
<1> PICK i : i = loads + 1
    OBVIOUS
<1>1. /\ i \in 1..MaxLoads /\ i \in 0..MaxLoads /\ loads \in Nat /\ loads' = i /\ loads' \in 0..MaxLoads
  <2>1. loads < MaxLoads /\ loads' = i
      BY DEF Start
  <2> QED BY <1>i, <2>1, LifecycleConstants DEF TypeOK
<1> PICK f : f = ScopeOf(n, i, "load", then)
    OBVIOUS
<1>2. /\ f \in Activity /\ Scope(f) /\ f.what = "load" /\ f.slot = n /\ f.inc = i /\ f.prev = current
      /\ f.then = then
  <2>1. "load" \in {"code", "load"}
      OBVIOUS
  <2> QED BY <1>i, <1>1, <2>1, ScopeFrame
<1>3. /\ env' = [env EXCEPT ![n] = i] /\ alive' = alive \cup {n} /\ stack' = Append(rest, f) /\ current' = n
    BY DEF Start
<1>4. /\ env' \in [Names -> 0..MaxLoads] /\ env'[n] = i /\ \A p \in Names : p # n => env'[p] = env[p]
    BY <1>i, <1>1, <1>3 DEF TypeOK
<1>5. /\ stack' \in Seq(Activity) /\ Len(stack') = m + 1
      /\ \A k \in 1..m : stack'[k] = stack[k]
      /\ stack'[m + 1] = f
  <2>1. /\ stack' \in Seq(Activity) /\ Len(stack') = Len(rest) + 1
        /\ \A k \in 1..Len(rest) : stack'[k] = rest[k]
        /\ stack'[Len(rest) + 1] = f
      BY <1>2, <1>3, PutOn
  <2> QED BY <2>1
<1>6. TypeOK'
    BY <1>i, <1>1, <1>3, <1>4, <1>5 DEF TypeOK
<1>7. NoStaleCode'
  <2>1. \A r \in regs' : r.inc = env'[r.slot] /\ r.slot \in alive'
    <3> SUFFICES ASSUME NEW r \in regs' PROVE r.inc = env'[r.slot] /\ r.slot \in alive'
        OBVIOUS
    <3>1. r.inc = env[r.slot] /\ r.slot \in alive /\ r.slot # n /\ r.slot \in Names
        BY <1>i DEF NoStaleCode, TypeOK
    <3> QED BY <1>3, <1>4, <3>1
  <2>2. Len(<<>>) = 0
      OBVIOUS
  <2>3. \A p \in Names : \A k \in 1..Len(unloadRefs[p]) : unloadRefs[p][k].inc = env'[p] /\ p \in alive'
      BY <1>i, <1>3, <1>4, <2>2 DEF NoStaleCode
  <2> QED BY <2>1, <2>3 DEF NoStaleCode
<1>8. ScopesInOrder' /\ AllNested'
  <2>1. Alike(m) /\ \A j \in 1..m : Above(f, stack[j])
      BY <1>2, <1>5 DEF Alike, Above
  <2>2. Chained /\ AllNested /\ Len(stack) \in Nat
      BY <1>i, StackType DEF ScopesInOrder
  <2>3. f.what \notin Engines /\ current' = f.slot
      BY <1>2, <1>3 DEF Engines
  <2> QED BY <1>2, <1>5, <2>1, <2>2, <2>3, Pushed
<1>9. AllBacked'
  <2> SUFFICES ASSUME NEW k \in 1..m + 1, NEW g, g = stack'[k] PROVE Backed(g)'
      BY <1>5 DEF AllBacked
  <2>1. CASE k = m + 1
    <3>1. g.what = "load" /\ g.slot = n /\ g.inc = i /\ (g.then = "start" \/ loaded'[n])
        BY <1>2, <1>5, <2>1
    <3> QED BY <1>3, <1>4, <3>1 DEF Backed, Scope
  <2>2. CASE k # m + 1
    <3>1. k \in 1..m /\ g = stack[k] /\ k \in 1..Len(stack)
        BY <1>5, <2>2, StackType, <1>i
    <3>2. Backed(g) /\ (g.what \notin Engines => g.slot # n)
        BY <1>i, <3>1 DEF AllBacked
    <3>3. Scope(g) => /\ g.slot \in alive' /\ g.slot \in Names /\ g.inc = env'[g.slot]
                      /\ loaded'[g.slot] = loaded[g.slot]
        BY <1>i, <1>3, <1>4, <3>2 DEF Backed, TypeOK, Scope, Engines
    <3>4. g.what \in {"unload", "notify"} =>
              g.slot \in known' /\ loaded'[g.slot] /\ g.slot \notin booting' /\ g.then \in {"unload", "reload"}
        BY <1>i, <3>2 DEF Backed, TypeOK, Engines
    <3> QED BY <3>2, <3>3, <3>4 DEF Backed, Scope
  <2> QED BY <2>1, <2>2
<1>10. Books'
  <2>1. ASSUME NEW p \in Names PROVE PluginInOrder(p)'
    <3>1. PluginInOrder(p)
        BY <1>i DEF Books
    <3>2. \A k \in 1..Len(stack') : stack'[k].what \in {"unload", "notify"} =>
              k \in 1..m /\ k \in 1..Len(stack) /\ stack'[k] = stack[k] /\ stack[k].slot # n
        BY <1>2, <1>5, <1>i, StackType DEF Engines
    <3>6. p # n /\ Starting(p) => Starting(p)'
      <4>1. \A k \in 1..Len(stack) : stack[k].what = "load" => k \in 1..Len(stack') /\ stack'[k] = stack[k]
          BY <1>5
      <4> QED BY <4>1 DEF Starting
    <3>3. env'[p] <= loads' /\ Len(unloadRefs'[p]) <= onUnloads'
      <4>1. env[p] \in Nat /\ env[p] <= loads /\ i \in Nat
          BY <1>i, <1>1, <3>1, LifecycleConstants DEF TypeOK, PluginInOrder
      <4> QED BY <1>1, <1>4, <3>1, <4>1 DEF PluginInOrder
    <3>4. CASE p # n
        BY <1>3, <1>4, <3>1, <3>2, <3>3, <3>4, <3>6 DEF PluginInOrder
    <3>5. CASE p = n
      <4>1. then = "start" => Starting(n)'
        <5>1. m + 1 \in 1..Len(stack')
            BY <1>5
        <5> QED BY <1>2, <1>5, <5>1 DEF Starting
      <4>2. env'[n] # 0 /\ n \in alive' /\ n \notin booting'
          BY <1>1, <1>3, <1>4
      <4> QED BY <3>2, <3>3, <3>5, <4>1, <4>2 DEF PluginInOrder
    <3> QED BY <3>4, <3>5
  <2>2. booting' # {} => stack' # <<>> /\ stack'[1].what = "boot"
    <3>1. booting' # {} => stack[1].what = "boot" /\ 1 \in 1..m
        BY <1>i DEF Books
    <3> QED BY <1>5, <3>1
  <2>3. \A p, q \in Names : env'[p] = env'[q] /\ env'[p] # 0 => p = q
    <3>1. \A p \in Names : env[p] \in Nat /\ env[p] <= loads
        BY <1>i, LifecycleConstants DEF TypeOK, Books, PluginInOrder
    <3>2. \A p \in Names : p # n => env'[p] # i
        BY <1>1, <1>4, <3>1
    <3> QED BY <1>i, <1>4, <3>2 DEF Books
  <2> QED BY <2>1, <2>2, <2>3 DEF Books
<1> QED BY <1>i, <1>6, <1>7, <1>8, <1>9, <1>10 DEF IInv

LEMMA RemoveStep ==
    ASSUME IInv, Remove PROVE IInv'
<1>i. Careful /\ TypeOK /\ NoStaleCode /\ ScopesInOrder /\ AllBacked /\ Books
    BY DEF IInv
<1> PICK s : s = Top.slot
    OBVIOUS
<1>1. /\ ~Idle /\ ~Scope(Top) /\ Top.what = "notify" /\ Top \in Activity
      /\ s \in Names /\ s \in known /\ loaded[s] /\ s \notin booting /\ unloadRefs[s] = <<>>
      /\ Top.then \in {"unload", "reload"} /\ (requested = s => Top.then = "reload")
      /\ \A k \in 1..Len(stack) : k # Len(stack) =>
             (stack[k].what \notin Engines => stack[k].slot # s) /\ Backed(stack[k])
      /\ booting # {} => Len(stack) # 1 /\ stack[1].what = "boot"
      /\ Len(stack) \in 1..Len(stack) /\ stack[Len(stack)] = Top
  <2>1. Doing("notify")
      BY DEF Remove
  <2> QED BY <2>1, Stopping
<1>2. /\ regs' = {r \in regs : r.slot # s}
      /\ UNCHANGED <<known, unloadRefs, booting, requested, onUnloads, ran>>
    BY DEF Remove
<1>3. CASE /\ Top.then = "unload"
           /\ loaded' = [loaded EXCEPT ![s] = FALSE]
           /\ stack' = Below
           /\ alive' = alive \ {s}
           /\ UNCHANGED <<failed, env, loads, current>>
  <2>1. /\ stack' \in Seq(Activity) /\ Len(stack') = Len(stack) - 1 /\ Len(stack') \in Nat
        /\ \A k \in 1..Len(stack') : stack'[k] = stack[k] /\ k \in 1..Len(stack)
        /\ \A k \in 1..Len(stack) : k \in 1..Len(stack') \/ stack[k] = Top
        /\ current' \in Names \cup {NoPlugin}
        /\ ScopesInOrder' /\ AllNested'
        /\ booting # {} => stack' # <<>> /\ stack'[1].what = "boot"
      BY <1>1, <1>3, Ended
  <2>2. /\ loaded' \in [Names -> BOOLEAN] /\ ~loaded'[s]
        /\ \A n \in Names : n # s => loaded'[n] = loaded[n]
      BY <1>i, <1>1, <1>3 DEF TypeOK
  <2>3. TypeOK'
      BY <1>i, <1>2, <1>3, <2>1, <2>2 DEF TypeOK
  <2>4. NoStaleCode'
    <3>1. Len(<<>>) = 0
        OBVIOUS
    <3>2. \A n \in Names : \A k \in 1..Len(unloadRefs[n]) : unloadRefs[n][k].inc = env[n] /\ n \in alive'
        BY <1>i, <1>1, <1>3, <3>1 DEF NoStaleCode
    <3>3. \A r \in regs' : r.inc = env[r.slot] /\ r.slot \in alive'
        BY <1>i, <1>2, <1>3 DEF NoStaleCode
    <3> QED BY <1>2, <1>3, <3>2, <3>3 DEF NoStaleCode
  <2>5. AllBacked'
    <3> SUFFICES ASSUME NEW k \in 1..Len(stack'), NEW f, f = stack'[k] PROVE Backed(f)'
        BY DEF AllBacked
    <3>1. f = stack[k] /\ k \in 1..Len(stack) /\ k # Len(stack)
        BY <2>1
    <3>2. (f.what \notin Engines => f.slot # s) /\ Backed(f)
        BY <1>1, <3>1
    <3>3. f.what \in {"load", "unload", "notify"} => f.slot \in Names
        BY <1>i, <3>2 DEF Backed, TypeOK, Scope
    <3> QED BY <1>2, <1>3, <2>2, <3>2, <3>3 DEF Backed, Scope, Engines
  <2>6. Books'
    <3>1. ASSUME NEW n \in Names PROVE PluginInOrder(n)'
      <4>1. PluginInOrder(n)
          BY <1>i DEF Books
      <4>2. Starting(n) => Starting(n)'
          BY <1>1, <2>1 DEF Starting
      <4>5. \A k \in 1..Len(stack') : stack'[k] = stack[k] /\ k \in 1..Len(stack)
          BY <2>1
      <4>3. CASE n # s
          BY <1>2, <1>3, <2>2, <4>1, <4>2, <4>3, <4>5 DEF PluginInOrder
      <4>4. CASE n = s
          BY <1>1, <1>2, <1>3, <2>2, <4>1, <4>4 DEF PluginInOrder
      <4> QED BY <4>3, <4>4
    <3> QED BY <1>i, <1>2, <1>3, <2>1, <3>1 DEF Books
  <2> QED BY <1>i, <2>1, <2>3, <2>4, <2>5, <2>6 DEF IInv
<1>4. CASE /\ Top.then = "reload"
           /\ failed' = [failed EXCEPT ![s] = FALSE]
           /\ Start(s, Below, "reload")
           /\ UNCHANGED loaded
  <2> PICK rest, m : rest = Below /\ m = Len(Below)
      OBVIOUS
  <2>1. /\ rest \in Seq(Activity) /\ m \in Nat /\ m = Len(rest) /\ m = Len(stack) - 1 /\ m <= Len(stack)
        /\ \A k \in 1..m : rest[k] = stack[k] /\ k \in 1..Len(stack) /\ k # Len(stack)
      BY <1>i, <1>1, TakenOff, StackType
  <2>2. \A k \in 1..m : stack[k].what \notin Engines => stack[k].slot # s
      BY <1>1, <2>1
  <2>3. \A k \in 1..Len(stack) : k \in 1..m \/ stack[k].what # "load"
      BY <1>1, <2>1
  <2>4. ScopeAt(m, current)
      BY <1>i, <1>1, <2>1, TopScope
  <2>5. /\ failed' \in [Names -> BOOLEAN] /\ ~failed'[s]
        /\ \A p \in Names : p # s => failed'[p] = failed[p]
      BY <1>i, <1>1, <1>4 DEF TypeOK
  <2>6. known' \subseteq Names /\ loaded' \in [Names -> BOOLEAN] /\ s \in known' /\ loaded'[s]
      BY <1>i, <1>1, <1>2, <1>4 DEF TypeOK
  <2>7. /\ \A p \in Names : p # s => /\ p \in known' <=> p \in known
                                     /\ loaded'[p] = loaded[p] /\ failed'[p] = failed[p]
        /\ booting' = booting \ {s} /\ (booting # {} => m # 0)
      BY <1>1, <1>2, <1>4, <2>1, <2>5
  <2>8. regs' \subseteq regs /\ \A r \in regs' : r.slot # s
      BY <1>2
  <2>9. UNCHANGED <<unloadRefs, requested, onUnloads, ran>> /\ Start(s, rest, "reload") /\ "reload" \in Thens
      BY <1>2, <1>4 DEF Thens
  <2> QED BY <1>1, <2>1, <2>2, <2>3, <2>4, <2>5, <2>6, <2>7, <2>8, <2>9, LoadStarts
<1> QED BY <1>1, <1>3, <1>4 DEF Remove

-----------------------------------------------------------------------------
(* Commands and requests                                                   *)

\* Who is neither loaded nor stopped, and whose code does not run, has nothing in
\* progress.
LEMMA NothingOf ==
    ASSUME TypeOK, NEW n, ~RunningCodeOf(n), ~BeingStopped(n)
    PROVE  \A k \in 1..Len(stack) : stack[k].what \notin Engines => stack[k].slot # n
<1> SUFFICES ASSUME NEW k \in 1..Len(stack), stack[k].what \notin Engines, stack[k].slot = n PROVE FALSE
    OBVIOUS
<1>1. stack[k].what \in Activities
    BY StackType DEF Activity
<1> QED BY <1>1 DEF RunningCodeOf, BeingStopped, Activities, Engines

LEMMA CmdLoadStep ==
    ASSUME IInv, NEW n \in Names, CmdLoad(n) PROVE IInv'
<1>i. Careful /\ TypeOK /\ NoStaleCode /\ ScopesInOrder /\ AllBacked /\ Books
    BY DEF IInv
<1>1. (n \in known => ~loaded[n] /\ ~RunningCodeOf(n)) /\ PluginInOrder(n)
    BY <1>i DEF CmdLoad, Books
<1>2. n \notin alive /\ requested # n /\ n \notin booting
  <2>1. n \in known => ~Starting(n)
      BY <1>1 DEF RunningCodeOf, Starting
  <2> QED BY <1>1, <2>1 DEF PluginInOrder
<1> PICK rest, m, then : rest = stack /\ m = Len(stack) /\ then = IF n \in known THEN "start" ELSE "none"
    OBVIOUS
<1>3. rest \in Seq(Activity) /\ m \in Nat /\ m = Len(rest) /\ m <= Len(stack) /\ then \in Thens
    BY <1>i, StackType DEF Thens
<1>4. Start(n, rest, then)
    BY DEF CmdLoad
<1>5. \A k \in 1..m : rest[k] = stack[k] /\ (stack[k].what \notin Engines => stack[k].slot # n)
  <2> SUFFICES ASSUME NEW k \in 1..m, stack[k].what \notin Engines PROVE stack[k].slot # n
      OBVIOUS
  <2>1. Backed(stack[k]) /\ stack[k].what \in Activities
      BY <1>i, <1>3, StackType DEF AllBacked, Activity
  <2> QED BY <1>1, <1>2, <2>1 DEF Backed, Scope, Activities, Engines
<1>6. \A k \in 1..Len(stack) : k \in 1..m \/ stack[k].what # "load"
    BY <1>3
<1>7. ScopeAt(m, current)
    BY <1>i DEF ScopesInOrder
<1>8. /\ known' \subseteq Names /\ n \in known' /\ \A p \in Names : p # n => (p \in known' <=> p \in known)
    BY <1>i DEF CmdLoad, TypeOK
<1>9. /\ failed' \in [Names -> BOOLEAN] /\ ~failed'[n]
      /\ \A p \in Names : p # n => failed'[p] = failed[p]
    BY <1>i DEF CmdLoad, TypeOK
<1>10. /\ loaded' \in [Names -> BOOLEAN] /\ (then = "start" \/ loaded'[n])
       /\ \A p \in Names : p # n => loaded'[p] = loaded[p]
  <2>1. loaded' = IF n \in known THEN loaded ELSE [loaded EXCEPT ![n] = TRUE]
      BY DEF CmdLoad
  <2> QED BY <1>i, <2>1 DEF TypeOK
<1>11. \A r \in regs : r.slot # n
    BY <1>i, <1>2 DEF NoStaleCode
<1>12. unloadRefs[n] = <<>>
  <2>1. unloadRefs[n] \in Seq(UnloadHandler)
      BY <1>i DEF TypeOK
  <2>2. ~(1 \in 1..Len(unloadRefs[n]))
      BY <1>i, <1>2 DEF NoStaleCode
  <2> QED BY <2>1, <2>2
<1>13. UNCHANGED <<unloadRefs, requested, onUnloads, ran, regs, booting>>
    BY DEF CmdLoad
<1>14. regs' \subseteq regs /\ (\A r \in regs' : r.slot # n) /\ booting' = booting \ {n} /\ (booting # {} => m # 0)
  <2>1. booting # {} => stack # <<>> /\ stack \in Seq(Activity)
      BY <1>i DEF Books, TypeOK
  <2> QED BY <1>2, <1>3, <1>11, <1>13, <2>1
<1>15. \A p \in Names : p # n => /\ p \in known' <=> p \in known
                                 /\ loaded'[p] = loaded[p] /\ failed'[p] = failed[p]
    BY <1>8, <1>9, <1>10
<1> QED BY <1>2, <1>3, <1>4, <1>5, <1>6, <1>7, <1>8, <1>9, <1>10, <1>12, <1>13, <1>14, <1>15, LoadStarts

\* A teardown starts.
LEMMA TeardownStep ==
    ASSUME IInv, NEW n \in Names, NEW then \in {"unload", "reload"}, Push(TearingDown(n, then)),
           n \in known, loaded[n], n \notin booting,
           \A k \in 1..Len(stack) : stack[k].what \notin Engines => stack[k].slot # n,
           requested' = requested \/ requested' = NoPlugin,
           then = "unload" => n # requested',
           UNCHANGED <<known, loaded, failed, env, unloadRefs, regs, current, booting, loads, onUnloads, ran, alive>>
    PROVE  IInv'
<1>i. TypeOK /\ Books
    BY DEF IInv
<1> PICK f : f = TearingDown(n, then)
    OBVIOUS
<1>1. /\ f \in Activity /\ ~Scope(f) /\ f.what = "unload" /\ f.slot = n /\ f.then = then
      /\ f.k = Len(unloadRefs[n])
  <2>1. Len(unloadRefs[n]) <= onUnloads /\ then \in Thens
      BY <1>i DEF Books, PluginInOrder, Thens
  <2> QED BY <1>i, <2>1, TeardownFrame
<1>2. Backed(f)
  <2>1. Len(unloadRefs[n]) \in Nat
      BY <1>i DEF TypeOK
  <2> QED BY <1>1, <2>1 DEF Backed
<1>3. \A j \in 1..Len(stack) : Above(f, stack[j])
    BY <1>1 DEF Above
<1>4. Push(f) /\ f.what \notin Engines /\ (f.then = "unload" => f.slot # requested')
    BY <1>1 DEF Engines
<1> QED BY <1>1, <1>2, <1>3, <1>4, StartedStep

LEMMA CmdUnloadStep ==
    ASSUME IInv, NEW n \in Names, CmdUnload(n) PROVE IInv'
<1>i. Careful
    BY DEF IInv
<1>1. /\ ~RunningCodeOf(n) /\ ~BeingStopped(n) /\ loaded[n] /\ n \notin booting /\ n \in known /\ requested # n
      /\ Push(TearingDown(n, "unload"))
    BY <1>i DEF CmdUnload, Respects
<1>2. TypeOK
    BY DEF IInv
<1>3. \A k \in 1..Len(stack) : stack[k].what \notin Engines => stack[k].slot # n
    BY <1>1, <1>2, NothingOf
<1>4. UNCHANGED <<known, loaded, failed, env, unloadRefs, regs, current, booting, requested, loads, onUnloads, ran, alive>>
    BY DEF CmdUnload, slots, history
<1> QED BY <1>1, <1>2, <1>3, <1>4, TeardownStep

LEMMA CmdReloadStep ==
    ASSUME IInv, NEW n \in Names, CmdReload(n) PROVE IInv'
<1>i. Careful
    BY DEF IInv
<1>1. /\ ~RunningCodeOf(n) /\ ~BeingStopped(n) /\ loaded[n] /\ n \notin booting /\ n \in known
      /\ Push(TearingDown(n, "reload"))
    BY <1>i DEF CmdReload, Respects, ReloadPlugin
<1>2. TypeOK
    BY DEF IInv
<1>3. \A k \in 1..Len(stack) : stack[k].what \notin Engines => stack[k].slot # n
    BY <1>1, <1>2, NothingOf
<1>4. UNCHANGED <<known, loaded, failed, env, unloadRefs, regs, current, booting, requested, loads, onUnloads, ran, alive>>
    BY DEF CmdReload, slots, history
<1> QED BY <1>1, <1>2, <1>3, <1>4, TeardownStep

LEMMA RequestStep ==
    ASSUME IInv, Request PROVE IInv'
<1>i. Careful /\ TypeOK /\ NoStaleCode /\ ScopesInOrder /\ AllNested /\ AllBacked /\ Books
    BY DEF IInv
<1>1. UNCHANGED <<known, loaded, failed, env, unloadRefs, regs, current, stack, booting, loads, onUnloads, ran, alive>>
    BY DEF Request, slots, history
<1>2. \/ requested' = FullReload /\ requested' \notin Names
      \/ /\ requested' \in known /\ loaded[requested']
         /\ \A k \in 1..Len(stack) : stack[k].what \in {"unload", "notify"} => stack[k].slot # requested'
    BY <1>i, LifecycleConstants DEF Request, MayRequest, BeingStopped, FullReload
<1>3. TypeOK' /\ NoStaleCode'
    BY <1>i, <1>1, <1>2 DEF TypeOK, NoStaleCode
<1>4. ScopesInOrder' /\ AllNested' /\ AllBacked'
  <2>1. ScopesInOrder'
      BY <1>i, <1>1 DEF ScopesInOrder, ScopeAt, Chained, Scope
  <2>2. AllNested'
      BY <1>i, <1>1 DEF AllNested, Nested, Above
  <2>3. AllBacked'
      BY <1>i, <1>1 DEF AllBacked, Backed
  <2> QED BY <2>1, <2>2, <2>3
<1>5. Books'
    BY <1>i, <1>1, <1>2 DEF Books, PluginInOrder, Starting
<1> QED BY <1>i, <1>3, <1>4, <1>5 DEF IInv

LEMMA PendingPluginStep ==
    ASSUME IInv, PendingPlugin PROVE IInv'
<1>i. TypeOK /\ Books
    BY DEF IInv
<1> PICK n : n = requested
    OBVIOUS
<1>1. n \in Names /\ n \in known /\ Push(TearingDown(n, "reload")) /\ requested' = NoPlugin /\ stack = <<>>
    BY DEF PendingPlugin, ReloadPlugin, Idle
<1>2. loaded[n] /\ n \notin booting
    BY <1>i, <1>1 DEF Books, PluginInOrder
<1>3. \A k \in 1..Len(stack) : stack[k].what \notin Engines => stack[k].slot # n
    BY <1>1
<1>4. UNCHANGED <<known, loaded, failed, env, unloadRefs, regs, current, booting, loads, onUnloads, ran, alive>>
    BY DEF PendingPlugin, slots, history
<1> QED BY <1>1, <1>2, <1>3, <1>4, TeardownStep

LEMMA ShutdownStep ==
    ASSUME IInv, Shutdown PROVE IInv'
<1> PICK f : f = Engine("shutdown")
    OBVIOUS
<1>1. f \in Activity /\ ~Scope(f) /\ f.what = "shutdown"
    BY EngineFrame
<1>2. Push(f) /\ Idle /\ (requested' = requested \/ requested' = NoPlugin)
    BY DEF Shutdown
<1>3. UNCHANGED <<known, loaded, failed, env, unloadRefs, regs, current, booting, loads, onUnloads, ran, alive>>
    BY DEF Shutdown, slots, history
<1>4. Backed(f) /\ \A j \in 1..Len(stack) : Above(f, stack[j])
    BY <1>1, <1>2 DEF Backed, Idle
<1> QED BY <1>1, <1>2, <1>3, <1>4, StartedStep

\* init starts with an empty stack, and nothing is registered.
LEMMA Booting ==
    ASSUME known' \subseteq Names, loaded' = [n \in Names |-> TRUE], failed' = [n \in Names |-> FALSE],
           env' = [n \in Names |-> 0], unloadRefs' = [n \in Names |-> <<>>], regs' = {}, current' = NoPlugin,
           stack' = <<Engine("boot")>>, booting' = known', alive' = {},
           requested' \in Names \cup {NoPlugin, FullReload}, requested' \in Names => requested' \in known',
           loads' \in 0..MaxLoads, onUnloads' \in 0..MaxUnloads, ran' \subseteq UnloadHandler, Careful
    PROVE  IInv'
<1> PICK f : f = Engine("boot")
    OBVIOUS
<1>1. f \in Activity /\ ~Scope(f) /\ f.what = "boot"
    BY EngineFrame
<1>2. stack' \in Seq(Activity) /\ Len(stack') = 1 /\ stack'[1] = f /\ stack' # <<>>
    BY <1>1
<1>3. <<>> \in Seq(UnloadHandler) /\ Len(<<>>) = 0 /\ 0 \in 0..MaxLoads /\ onUnloads' \in Nat /\ loads' \in Nat
    BY LifecycleConstants
<1>4. TypeOK'
  <2>1. env' \in [Names -> 0..MaxLoads]
      BY <1>3
  <2>2. unloadRefs' \in [Names -> Seq(UnloadHandler)]
      BY <1>3
  <2> QED BY <1>2, <2>1, <2>2 DEF TypeOK
<1>5. NoStaleCode'
    BY <1>3 DEF NoStaleCode
<1>6. ScopesInOrder' /\ AllNested'
    BY <1>1, <1>2 DEF ScopesInOrder, ScopeAt, Chained, Scope, AllNested, Nested
<1>7. AllBacked'
    BY <1>1, <1>2 DEF AllBacked, Backed, Scope
<1>8. Books'
  <2>1. ASSUME NEW n \in Names PROVE PluginInOrder(n)'
    <3>1. /\ n \notin alive' /\ loaded'[n] /\ ~failed'[n] /\ env'[n] = 0 /\ Len(unloadRefs'[n]) = 0
        BY <1>3
    <3>2. \A k \in 1..Len(stack') : stack'[k].what \notin {"unload", "notify"}
        BY <1>1, <1>2
    <3>3. env'[n] <= loads' /\ Len(unloadRefs'[n]) <= onUnloads'
        BY <1>3, <3>1
    <3> QED BY <3>1, <3>2, <3>3 DEF PluginInOrder
  <2> QED BY <1>1, <1>2, <2>1 DEF Books
<1> QED BY <1>4, <1>5, <1>6, <1>7, <1>8 DEF IInv

LEMMA CloseStateStep ==
    ASSUME IInv, CloseState PROVE IInv'
<1>i. Careful /\ TypeOK
    BY DEF IInv
<1>1. requested' \in Names \cup {NoPlugin, FullReload} /\ loads' \in 0..MaxLoads /\ onUnloads' \in 0..MaxUnloads
      /\ ran' \subseteq UnloadHandler
    BY <1>i DEF CloseState, TypeOK
<1> QED BY <1>i, <1>1, Booting DEF CloseState

LEMMA InitOK ==
    ASSUME Init, Careful PROVE IInv
<1> PICK f : f = Engine("boot")
    OBVIOUS
<1>1. f \in Activity /\ ~Scope(f) /\ f.what = "boot"
    BY EngineFrame
<1>2. stack \in Seq(Activity) /\ Len(stack) = 1 /\ stack[1] = f /\ stack # <<>>
    BY <1>1 DEF Init
<1>3. <<>> \in Seq(UnloadHandler) /\ Len(<<>>) = 0 /\ 0 \in 0..MaxLoads /\ 0 \in 0..MaxUnloads
    BY LifecycleConstants
<1>4. TypeOK
  <2>1. env \in [Names -> 0..MaxLoads]
      BY <1>3 DEF Init
  <2>2. unloadRefs \in [Names -> Seq(UnloadHandler)]
      BY <1>3 DEF Init
  <2> QED BY <1>2, <1>3, <2>1, <2>2, LifecycleConstants DEF TypeOK, Init
<1>5. NoStaleCode
    BY <1>3 DEF NoStaleCode, Init
<1>6. ScopesInOrder /\ AllNested
  <2>1. current = NoPlugin
      BY DEF Init
  <2> QED BY <1>1, <1>2, <2>1 DEF ScopesInOrder, ScopeAt, Chained, Scope, AllNested, Nested
<1>7. AllBacked
    BY <1>1, <1>2 DEF AllBacked, Backed, Scope
<1>8. Books
  <2>1. ASSUME NEW n \in Names PROVE PluginInOrder(n)
    <3>1. /\ n \notin alive /\ loaded[n] /\ ~failed[n] /\ env[n] = 0 /\ Len(unloadRefs[n]) = 0
          /\ (n \in booting <=> n \in known) /\ requested # n /\ loads = 0 /\ onUnloads = 0
        BY <1>3, LifecycleConstants DEF Init
    <3> QED BY <3>1 DEF PluginInOrder
  <2>2. \A m \in Names : env[m] = 0
      BY DEF Init
  <2> QED BY <1>1, <1>2, <2>1, <2>2 DEF Books
<1> QED BY <1>4, <1>5, <1>6, <1>7, <1>8 DEF IInv

LEMMA BootNextStep ==
    ASSUME IInv, BootNext PROVE IInv'
<1>i. Careful /\ TypeOK /\ NoStaleCode /\ ScopesInOrder /\ AllNested /\ AllBacked /\ Books
    BY DEF IInv
<1>1. PICK n \in booting : Start(n, stack, "none") /\ booting' = booting \ {n}
    BY DEF BootNext
<1>2. /\ ~Idle /\ Top.what = "boot"
      /\ UNCHANGED <<known, loaded, failed, unloadRefs, regs, requested, onUnloads, ran>>
    BY DEF BootNext, Doing
<1>3. n \in Names /\ n \in known /\ n \notin alive /\ loaded[n] /\ ~failed[n]
    BY <1>i DEF TypeOK, Books, PluginInOrder
<1> PICK rest, m : rest = stack /\ m = Len(stack)
    OBVIOUS
<1>4. /\ rest \in Seq(Activity) /\ m \in Nat /\ m = Len(rest) /\ m <= Len(stack) /\ m # 0 /\ "none" \in Thens
      /\ \A k \in 1..m : rest[k] = stack[k]
    BY <1>i, <1>2, StackType DEF Thens, Idle
<1>5. \A k \in 1..m : stack[k].what = "boot"
  <2>1. m \in 1..m /\ stack[m].what = "boot"
      BY <1>2, <1>4 DEF Top
  <2>2. m = 1
      BY <1>i, <2>1 DEF AllNested, Nested, Engines
  <2> QED BY <2>1, <2>2
<1>6. /\ \A k \in 1..m : stack[k].what \notin Engines => stack[k].slot # n
      /\ \A k \in 1..Len(stack) : k \in 1..m \/ stack[k].what # "load"
    BY <1>5 DEF Engines
<1>7. ScopeAt(m, current)
    BY <1>i DEF ScopesInOrder
<1>8. /\ known' \subseteq Names /\ loaded' \in [Names -> BOOLEAN] /\ failed' \in [Names -> BOOLEAN]
      /\ n \in known' /\ ~failed'[n] /\ loaded'[n]
      /\ \A p \in Names : p # n => /\ p \in known' <=> p \in known
                                   /\ loaded'[p] = loaded[p] /\ failed'[p] = failed[p]
    BY <1>i, <1>2, <1>3 DEF TypeOK
<1>9. regs' \subseteq regs /\ \A r \in regs' : r.slot # n
    BY <1>i, <1>2, <1>3 DEF NoStaleCode
<1>10. unloadRefs[n] = <<>>
  <2>1. unloadRefs[n] \in Seq(UnloadHandler)
      BY <1>i, <1>3 DEF TypeOK
  <2>2. ~(1 \in 1..Len(unloadRefs[n]))
      BY <1>i, <1>3 DEF NoStaleCode
  <2> QED BY <2>1, <2>2
<1>11. Start(n, rest, "none")
    BY <1>1
<1> QED BY <1>1, <1>2, <1>3, <1>4, <1>6, <1>7, <1>8, <1>9, <1>10, <1>11, LoadStarts

LEMMA BootEndsStep ==
    ASSUME IInv, BootEnds PROVE IInv'
<1>i. Careful /\ TypeOK /\ NoStaleCode /\ ScopesInOrder /\ AllNested /\ AllBacked /\ Books
    BY DEF IInv
<1>1. /\ ~Idle /\ Top.what = "boot" /\ ~Scope(Top) /\ booting = {} /\ stack' = <<>>
      /\ UNCHANGED <<known, loaded, failed, env, unloadRefs, regs, current, booting, requested, loads, onUnloads, ran, alive>>
    BY DEF BootEnds, Doing, Scope, slots, history
<1>2. Len(stack) = 1 /\ stack[1].what = "boot"
  <2>1. Len(stack) \in 1..Len(stack) /\ stack[Len(stack)].what = "boot"
      BY <1>i, <1>1, StackType DEF Top
  <2>2. Len(stack) = 1
      BY <1>i, <2>1 DEF AllNested, Nested, Engines
  <2> QED BY <2>1, <2>2
<1>3. stack' \in Seq(Activity) /\ Len(stack') = 0
    BY <1>1
<1>4. TypeOK' /\ NoStaleCode'
    BY <1>i, <1>1, <1>3 DEF TypeOK, NoStaleCode
<1>5. ScopesInOrder' /\ AllNested' /\ AllBacked'
  <2>1. current = NoPlugin
      BY <1>i, <1>2 DEF ScopesInOrder, ScopeAt, Scope
  <2> QED BY <1>1, <1>3, <2>1 DEF ScopesInOrder, ScopeAt, Chained, AllNested, AllBacked
<1>6. Books'
  <2>1. \A n \in Names : ~Starting(n)
      BY <1>2 DEF Starting
  <2>2. \A n \in Names : Len(unloadRefs'[n]) <= onUnloads'
      BY <1>i, <1>1 DEF Books, PluginInOrder
  <2>3. \A k \in 1..Len(stack') : FALSE
      BY <1>3
  <2> QED BY <1>i, <1>1, <2>1, <2>2, <2>3, BooksKept
<1> QED BY <1>i, <1>4, <1>5, <1>6 DEF IInv

\* The invariant is inductive.
LEMMA Inductive ==
    ASSUME IInv, [Next]_vars PROVE IInv'
<1>1. CASE Dispatch \/ Register \/ OnUnload \/ Leave
    BY <1>1, DispatchStep, RegisterStep, OnUnloadStep, LeaveStep
<1>2. CASE LoadEnds \/ LoadFails
    BY <1>2, LoadEndsStep, LoadFailsStep
<1>3. CASE RunUnloadHandler \/ Announce \/ Remove
    BY <1>3, RunUnloadHandlerStep, AnnounceStep, RemoveStep
<1>4. ASSUME NEW n \in Names, CmdLoad(n) \/ CmdUnload(n) \/ CmdReload(n) PROVE IInv'
    BY <1>4, CmdLoadStep, CmdUnloadStep, CmdReloadStep
<1>5. CASE Request \/ PendingPlugin
    BY <1>5, RequestStep, PendingPluginStep
<1>6. CASE Shutdown \/ CloseState \/ BootNext \/ BootEnds
    BY <1>6, ShutdownStep, CloseStateStep, BootNextStep, BootEndsStep
<1>7. CASE UNCHANGED vars
  <2>1. UNCHANGED <<known, loaded, failed, env, unloadRefs, regs, current, stack, booting, requested, loads, onUnloads,
                    ran, alive>>
      BY <1>7 DEF vars
  <2>2. TypeOK' /\ NoStaleCode'
      BY <2>1 DEF IInv, TypeOK, NoStaleCode
  <2>3. ScopesInOrder' /\ AllNested' /\ AllBacked'
      BY <2>1 DEF IInv, ScopesInOrder, ScopeAt, Chained, Scope, AllNested, Nested, Above, AllBacked, Backed
  <2>4. Books'
      BY <2>1 DEF IInv, Books, PluginInOrder, Starting
  <2> QED BY <2>2, <2>3, <2>4 DEF IInv
<1> QED BY <1>1, <1>2, <1>3, <1>4, <1>5, <1>6, <1>7 DEF Next

-----------------------------------------------------------------------------
(* The order of on_unload handlers                                         *)

\* A step that starts no handler and registers none keeps the order, if each
\* plugin's code is new, or is where it was in its teardown, or is announced.
LEMMA OrderKept ==
    ASSUME TypeOK, RanInOrder, loads <= loads', loads' \in Nat, alive' \subseteq Names,
           UNCHANGED <<onUnloads, ran>>,
           \A n \in Names : unloadRefs'[n] = unloadRefs[n] \/ unloadRefs'[n] = <<>>,
           \A n \in alive' :
               \/ env'[n] > loads
               \/ /\ n \in alive /\ env'[n] = env[n] /\ unloadRefs'[n] = unloadRefs[n]
                  /\ \A k \in 1..Len(stack) : stack[k].what \in {"unload", "notify"} /\ stack[k].slot = n =>
                        k \in 1..Len(stack') /\ stack'[k] = stack[k]
               \/ \E p \in 1..Len(stack') : stack'[p].slot = n /\ stack'[p].what = "notify"
    PROVE  RanInOrder'
<1>1. \A n \in Names : \A i, j \in 1..Len(unloadRefs'[n]) :
          /\ unloadRefs'[n][i].n <= onUnloads'
          /\ i < j => unloadRefs'[n][i].n < unloadRefs'[n][j].n
  <2> SUFFICES ASSUME NEW n \in Names
               PROVE  \A i, j \in 1..Len(unloadRefs'[n]) : /\ unloadRefs'[n][i].n <= onUnloads'
                                                           /\ i < j => unloadRefs'[n][i].n < unloadRefs'[n][j].n
      OBVIOUS
  <2>1. CASE unloadRefs'[n] = unloadRefs[n]
      BY <2>1 DEF RanInOrder
  <2>2. CASE unloadRefs'[n] = <<>>
    <3>1. Len(unloadRefs'[n]) = 0
        BY <2>2
    <3> QED BY <3>1
  <2> QED BY <2>1, <2>2
<1>2. \A g \in ran : g.inc \in Nat /\ g.inc <= loads /\ loads \in Nat
    BY LifecycleConstants DEF RanInOrder, TypeOK, UnloadHandler, Incarnations
<1>3. \A g \in ran : g.inc <= loads'
    BY <1>2
<1>4. ASSUME NEW g \in ran, NEW n \in alive', NEW number, number = g.n, g.inc = env'[n]
      PROVE  ComePast(n, number)'
  <2>1. ~(env'[n] > loads)
      BY <1>2, <1>4
  <2>2. CASE /\ n \in alive /\ env'[n] = env[n] /\ unloadRefs'[n] = unloadRefs[n]
             /\ \A k \in 1..Len(stack) : stack[k].what \in {"unload", "notify"} /\ stack[k].slot = n =>
                        k \in 1..Len(stack') /\ stack'[k] = stack[k]
    <3>1. ComePast(n, number)
        BY <1>4, <2>2 DEF RanInOrder
    <3>2. PICK p \in 1..Len(stack) :
              /\ stack[p].slot = n
              /\ \/ stack[p].what = "notify"
                 \/ /\ stack[p].what = "unload"
                    /\ \A i \in 1..stack[p].k : unloadRefs[n][i].n < number
        BY <3>1 DEF ComePast
    <3>3. p \in 1..Len(stack') /\ stack'[p] = stack[p]
        BY <2>2, <3>2
    <3> QED BY <2>2, <3>2, <3>3 DEF ComePast
  <2>3. CASE \E p \in 1..Len(stack') : stack'[p].slot = n /\ stack'[p].what = "notify"
      BY <2>3 DEF ComePast
  <2> QED BY <2>1, <2>2, <2>3
<1> QED BY <1>1, <1>3, <1>4 DEF RanInOrder

\* The stack grows.
LEMMA OrderPush ==
    ASSUME IInv, RanInOrder, NEW f, stack' = Append(stack, f),
           UNCHANGED <<env, unloadRefs, loads, onUnloads, ran, alive>>
    PROVE  RanInOrder'
<1>i. TypeOK
    BY DEF IInv
<1>1. /\ stack \in Seq(Activity) /\ loads \in Nat /\ alive \subseteq Names
    BY <1>i, LifecycleConstants DEF TypeOK
<1>2. Len(stack') = Len(stack) + 1 /\ (\A k \in 1..Len(stack) : stack'[k] = stack[k]) /\ Len(stack) \in Nat
    BY <1>1
<1>3. \A k \in 1..Len(stack) : k \in 1..Len(stack')
    BY <1>2
<1> QED BY <1>i, <1>1, <1>2, <1>3, OrderKept

\* Code, a load or init ends, with what a failed load takes along.
LEMMA OrderPop ==
    ASSUME IInv, RanInOrder, ~Idle, Top.what \notin {"unload", "notify"}, stack' = Below \/ Len(stack) = 1,
           alive' \subseteq alive, UNCHANGED <<env, loads, onUnloads, ran>>,
           \A n \in Names : unloadRefs'[n] = unloadRefs[n] \/ (unloadRefs'[n] = <<>> /\ n \notin alive')
    PROVE  RanInOrder'
<1>i. TypeOK
    BY DEF IInv
<1>1. /\ Len(stack) \in 1..Len(stack) /\ Len(stack) \in Nat /\ Top = stack[Len(stack)]
      /\ loads \in Nat /\ alive \subseteq Names
    BY <1>i, StackType, LifecycleConstants DEF TypeOK, Top
<1>2. \A k \in 1..Len(stack) : stack[k].what \in {"unload", "notify"} =>
          k \in 1..Len(stack') /\ stack'[k] = stack[k]
  <2>1. CASE stack' = Below
    <3>1. /\ Len(Below) = Len(stack) - 1 /\ \A k \in 1..Len(Below) : Below[k] = stack[k]
        BY <1>i, TakenOff
    <3> QED BY <1>1, <2>1, <3>1
  <2>2. CASE Len(stack) = 1
      BY <1>1, <2>2
  <2> QED BY <2>1, <2>2
<1>3. \A n \in alive' : n \in alive /\ unloadRefs'[n] = unloadRefs[n]
    BY <1>1
<1> QED BY <1>i, <1>1, <1>2, <1>3, OrderKept

\* A load starts.
LEMMA OrderStart ==
    ASSUME IInv, RanInOrder, NEW n \in Names, NEW rest, NEW then, Start(n, rest, then),
           UNCHANGED <<unloadRefs, onUnloads, ran>>,
           \A k \in 1..Len(stack) : stack[k].what \in {"unload", "notify"} =>
               stack[k].slot = n \/ (k \in 1..Len(stack') /\ stack'[k] = stack[k])
    PROVE  RanInOrder'
<1>i. TypeOK
    BY DEF IInv
<1> PICK i : i = loads + 1
    OBVIOUS
<1>1. loads' = i /\ alive' = alive \cup {n} /\ env' = [env EXCEPT ![n] = i]
    BY DEF Start
<1>2. loads \in Nat /\ i \in Nat /\ i > loads /\ loads <= i /\ alive \subseteq Names
    BY <1>i, LifecycleConstants DEF TypeOK
<1>3. env'[n] = i /\ \A p \in Names : p # n => env'[p] = env[p]
    BY <1>i, <1>1 DEF TypeOK
<1>4. \A p \in alive' : \/ env'[p] > loads
                        \/ p # n /\ p \in alive /\ env'[p] = env[p]
    BY <1>1, <1>2, <1>3
<1>5. \A p \in alive' :
          \/ env'[p] > loads
          \/ /\ p \in alive /\ env'[p] = env[p] /\ unloadRefs'[p] = unloadRefs[p]
             /\ \A k \in 1..Len(stack) : stack[k].what \in {"unload", "notify"} /\ stack[k].slot = p =>
                   k \in 1..Len(stack') /\ stack'[k] = stack[k]
    BY <1>4
<1> QED BY <1>i, <1>1, <1>2, <1>5, OrderKept

\* A handler is registered: it has the highest number.
LEMMA OrderOnUnload ==
    ASSUME IInv, RanInOrder, OnUnload PROVE RanInOrder'
<1>i. TypeOK /\ AllBacked
    BY DEF IInv
<1>1. current \in Names /\ Top.inc \in Incarnations
    BY Runner DEF OnUnload
<1> PICK c, h, r : c = current /\ h = [n |-> onUnloads + 1, inc |-> Top.inc] /\ r = unloadRefs[current]
    OBVIOUS
<1>2. /\ r \in Seq(UnloadHandler) /\ onUnloads \in Nat /\ onUnloads < MaxUnloads
      /\ h \in UnloadHandler /\ h.n = onUnloads + 1 /\ onUnloads' = onUnloads + 1
      /\ unloadRefs' = [unloadRefs EXCEPT ![c] = Append(r, h)]
      /\ UNCHANGED <<env, stack, loads, ran, alive>>
  <2>1. onUnloads < MaxUnloads /\ onUnloads \in Nat /\ onUnloads + 1 \in 1..MaxUnloads
      BY <1>i, LifecycleConstants DEF OnUnload, TypeOK
  <2> QED BY <1>i, <1>1, <2>1 DEF OnUnload, TypeOK, UnloadHandler, slots
<1>3. /\ Len(Append(r, h)) = Len(r) + 1 /\ Len(r) \in Nat
      /\ \A k \in 1..Len(r) : Append(r, h)[k] = r[k] /\ r[k] \in UnloadHandler
      /\ Append(r, h)[Len(r) + 1] = h
    BY <1>2
<1>4. unloadRefs'[c] = Append(r, h) /\ \A n \in Names : n # c => unloadRefs'[n] = unloadRefs[n]
    BY <1>i, <1>1, <1>2 DEF TypeOK
<1>5. \A k \in 1..Len(r) : r[k].n \in Nat /\ r[k].n <= onUnloads /\ r[k].n < h.n
    BY <1>1, <1>2, <1>3, LifecycleConstants DEF RanInOrder, UnloadHandler
<1>6. \A n \in Names : \A i, j \in 1..Len(unloadRefs'[n]) :
          /\ unloadRefs'[n][i].n <= onUnloads'
          /\ i < j => unloadRefs'[n][i].n < unloadRefs'[n][j].n
  <2> SUFFICES ASSUME NEW n \in Names, NEW i \in 1..Len(unloadRefs'[n]), NEW j \in 1..Len(unloadRefs'[n])
               PROVE  /\ unloadRefs'[n][i].n <= onUnloads'
                      /\ i < j => unloadRefs'[n][i].n < unloadRefs'[n][j].n
      OBVIOUS
  <2>1. CASE n # c
    <3> PICK q : q = unloadRefs[n][i]
        OBVIOUS
    <3>1. q \in UnloadHandler
      <4>1. unloadRefs[n] \in Seq(UnloadHandler) /\ i \in 1..Len(unloadRefs[n])
          BY <1>i, <1>4, <2>1 DEF TypeOK
      <4> QED BY <4>1
    <3>2. q.n \in Nat
        BY <3>1, LifecycleConstants DEF UnloadHandler
    <3> QED BY <1>2, <1>4, <2>1, <3>2 DEF RanInOrder
  <2>2. CASE n = c
    <3> PICK a : a = Append(r, h)
        OBVIOUS
    <3>1. i \in 1..Len(r) + 1 /\ j \in 1..Len(r) + 1 /\ unloadRefs'[n] = a
        BY <1>3, <1>4, <2>2
    <3>2. \A k \in 1..Len(r) + 1 : k \in 1..Len(r) \/ k = Len(r) + 1
        BY <1>3
    <3>3. a[i].n <= onUnloads + 1
        BY <1>2, <1>3, <1>5, <3>1, <3>2
    <3>4. ASSUME i < j PROVE a[i].n < a[j].n
      <4>1. i \in 1..Len(r)
          BY <1>3, <3>1, <3>4
      <4>2. CASE j = Len(r) + 1
          BY <1>3, <1>5, <4>1, <4>2
      <4>3. CASE j \in 1..Len(r)
          BY <1>1, <1>3, <3>4, <4>1, <4>3 DEF RanInOrder
      <4> QED BY <3>1, <3>2, <4>2, <4>3
    <3> QED BY <1>2, <3>1, <3>3, <3>4
  <2> QED BY <2>1, <2>2
<1>7. ASSUME NEW g \in ran, NEW n \in alive, NEW number, number = g.n, g.inc = env[n]
      PROVE  ComePast(n, number)'
  <2>1. PICK p \in 1..Len(stack) :
            /\ stack[p].slot = n
            /\ \/ stack[p].what = "notify"
               \/ /\ stack[p].what = "unload"
                  /\ \A i \in 1..stack[p].k : unloadRefs[n][i].n < number
      BY <1>7 DEF RanInOrder, ComePast
  <2>2. CASE stack[p].what = "notify"
      BY <1>2, <2>1, <2>2 DEF ComePast
  <2>3. CASE stack[p].what = "unload"
    <3>1. stack[p].k <= Len(unloadRefs[n]) /\ stack[p].k \in Nat /\ n \in Names
        BY <1>i, <2>1, <2>3, StackType, LifecycleConstants DEF AllBacked, Backed, Activity, TypeOK
    <3>2. \A i \in 1..stack[p].k : unloadRefs'[n][i] = unloadRefs[n][i]
      <4>1. CASE n = c
          BY <1>3, <1>4, <3>1, <4>1
      <4>2. CASE n # c
          BY <1>4, <3>1, <4>2
      <4> QED BY <4>1, <4>2
    <3> QED BY <1>2, <2>1, <2>3, <3>2 DEF ComePast
  <2> QED BY <2>1, <2>2, <2>3
<1> QED BY <1>2, <1>6, <1>7 DEF RanInOrder

\* A handler is started: it is the next before those that have run.
LEMMA OrderRunUnloadHandler ==
    ASSUME IInv, RanInOrder, RunUnloadHandler
    PROVE  /\ RanInOrder' /\ ran' # ran
           /\ \A h \in ran' : h \notin ran => \A g \in ran : g.inc = h.inc => g.n > h.n
<1>i. TypeOK /\ NoStaleCode /\ AllNested /\ AllBacked /\ Books
    BY DEF IInv
<1> PICK s, h : s = Top.slot /\ h = unloadRefs[Top.slot][Top.k]
    OBVIOUS
<1>1. /\ Doing("unload") /\ Top.k > 0 /\ ran' = ran \cup {h} /\ Top.slot = s /\ Top.what = "unload"
      /\ UNCHANGED <<env, unloadRefs, loads, onUnloads, alive>>
    BY DEF RunUnloadHandler, Doing, slots
<1>2. /\ s \in Names /\ s \in alive /\ Top.k \in 1..Len(unloadRefs[s]) /\ Top.k \in 1..MaxUnloads
      /\ h \in UnloadHandler /\ h.inc = env[s] /\ h.inc \in 1..MaxLoads
    BY <1>i, <1>1, NextHandler
<1> PICK n, f : n = Len(stack) /\ f = stack'[n + 1]
    OBVIOUS
<1>3. /\ n \in Nat /\ n \in 1..n /\ stack[n] = Top
      /\ stack' \in Seq(Activity) /\ Len(stack') = n + 1 /\ f = stack'[n + 1]
      /\ \A k \in 1..n : k # n => stack'[k] = stack[k]
      /\ stack'[n] \in Activity
      /\ stack'[n].what = "unload" /\ stack'[n].slot = s /\ stack'[n].prev = Top.prev
      /\ stack'[n].then = Top.then /\ stack'[n].k = Top.k - 1
      /\ f \in Activity /\ Scope(f) /\ f.what = "code" /\ f.slot = s /\ f.inc = h.inc /\ f.prev = current
    BY HandlerStarted
<1>4. \A k \in 1..n : k # n /\ stack[k].what \notin Engines => stack[k].slot # s
    BY <1>i, <1>1, <1>3 DEF AllNested, Nested, Above
<1>5. Top.k \in Nat /\ Top.k \in 1..Top.k /\ Top.k - 1 \in Nat /\ 1..(Top.k - 1) \subseteq 1..Top.k
    BY <1>2, LifecycleConstants
<1>6. \A g \in ran : g.inc = env[s] => \A i \in 1..Top.k : unloadRefs[s][i].n < g.n
  <2> SUFFICES ASSUME NEW g \in ran, g.inc = env[s] PROVE \A i \in 1..Top.k : unloadRefs[s][i].n < g.n
      OBVIOUS
  <2>1. ComePast(s, g.n)
      BY <1>2 DEF RanInOrder
  <2>2. PICK p \in 1..Len(stack) :
            /\ stack[p].slot = s
            /\ \/ stack[p].what = "notify"
               \/ /\ stack[p].what = "unload"
                  /\ \A i \in 1..stack[p].k : unloadRefs[s][i].n < g.n
      BY <2>1 DEF ComePast
  <2>3. stack[p] = Top
      BY <1>3, <1>4, <2>2 DEF Engines
  <2> QED BY <1>1, <2>2, <2>3
<1>7. \A g \in ran : g.inc = h.inc => g.n > h.n
  <2> SUFFICES ASSUME NEW g \in ran, g.inc = h.inc PROVE g.n > h.n
      OBVIOUS
  <2>1. h.n < g.n
      BY <1>2, <1>5, <1>6
  <2>2. g.n \in Int /\ h.n \in Int
      BY <1>i, <1>2, LifecycleConstants DEF TypeOK, UnloadHandler
  <2> QED BY <2>1, <2>2
<1>8. \A g \in ran' : g.inc <= loads'
    BY <1>i, <1>1, <1>2 DEF RanInOrder, Books, PluginInOrder
<1>9. \A i \in 1..Top.k - 1 : unloadRefs[s][i].n < h.n
  <2> SUFFICES ASSUME NEW i \in 1..Top.k - 1 PROVE unloadRefs[s][i].n < h.n
      OBVIOUS
  <2>1. i < Top.k /\ i \in 1..Len(unloadRefs[s])
    <3>1. Len(unloadRefs[s]) \in Nat
        BY <1>i, <1>2 DEF TypeOK
    <3> QED BY <1>2, <1>5, <3>1
  <2> QED BY <1>2, <2>1 DEF RanInOrder
<1>10. ASSUME NEW g \in ran', NEW m \in alive, NEW number, number = g.n, g.inc = env[m]
       PROVE  ComePast(m, number)'
  <2>1. CASE m = s
    <3>1. \A i \in 1..Top.k - 1 : unloadRefs[s][i].n < number
        BY <1>1, <1>5, <1>6, <1>9, <1>10, <2>1
    <3>2. n \in 1..Len(stack')
        BY <1>3
    <3> QED BY <1>1, <1>3, <2>1, <3>1, <3>2 DEF ComePast
  <2>2. CASE m # s
    <3>1. g \in ran
      <4>1. m \in Names /\ env[m] # 0 /\ env[s] # env[m]
          BY <1>i, <1>2, <2>2 DEF TypeOK, Books, PluginInOrder
      <4> QED BY <1>1, <1>2, <1>10, <4>1
    <3>2. PICK p \in 1..Len(stack) :
              /\ stack[p].slot = m
              /\ \/ stack[p].what = "notify"
                 \/ /\ stack[p].what = "unload"
                    /\ \A i \in 1..stack[p].k : unloadRefs[m][i].n < number
        BY <1>10, <3>1 DEF RanInOrder, ComePast
    <3>3. p # n
        BY <1>1, <1>3, <2>2, <3>2
    <3>4. p \in 1..Len(stack') /\ stack'[p] = stack[p]
        BY <1>3, <3>3
    <3> QED BY <1>1, <3>2, <3>4 DEF ComePast
  <2> QED BY <2>1, <2>2
<1>11. RanInOrder'
    BY <1>1, <1>8, <1>10 DEF RanInOrder
<1>12. h \notin ran
  <2>1. h.n \in Int /\ ~(h.n > h.n)
      BY <1>2, LifecycleConstants DEF UnloadHandler
  <2> QED BY <1>7, <2>1
<1> QED BY <1>1, <1>7, <1>11, <1>12

LEMMA OrderAnnounce ==
    ASSUME IInv, RanInOrder, Announce PROVE RanInOrder'
<1>i. TypeOK
    BY DEF IInv
<1> PICK n, s : n = Len(stack) /\ s = Top.slot
    OBVIOUS
<1>1. /\ ~Idle /\ stack' = [stack EXCEPT ![n].what = "notify"]
      /\ unloadRefs' = [unloadRefs EXCEPT ![s] = <<>>]
      /\ UNCHANGED <<env, loads, onUnloads, ran, alive>>
    BY DEF Announce, Doing, slots, history
<1>2. n \in Nat /\ n \in 1..n /\ stack[n] = Top /\ Top \in Activity /\ stack \in Seq(Activity)
    BY <1>i, <1>1, StackType DEF Top
<1>3. /\ Len(stack') = n /\ stack'[n].slot = s /\ stack'[n].what = "notify"
      /\ \A k \in 1..n : k # n => stack'[k] = stack[k]
  <2> PICK g : g = [Top EXCEPT !.what = "notify"]
      OBVIOUS
  <2>1. g.what = "notify" /\ g.slot = s
    <3>1. \A a \in Activity : LET c == [a EXCEPT !.what = "notify"] IN c.what = "notify" /\ c.slot = a.slot
        BY DEF Activity
    <3> QED BY <1>2, <3>1
  <2>2. stack' = [stack EXCEPT ![n] = g]
      BY <1>1, <1>2
  <2> QED BY <1>2, <2>1, <2>2
<1>4. \A m \in Names : m # s => unloadRefs'[m] = unloadRefs[m]
    BY <1>i, <1>1 DEF TypeOK
<1>5. \A m \in Names : unloadRefs'[m] = unloadRefs[m] \/ unloadRefs'[m] = <<>>
    BY <1>i, <1>1 DEF TypeOK
<1>6. ASSUME NEW m \in alive
      PROVE  \/ /\ unloadRefs'[m] = unloadRefs[m]
                /\ \A k \in 1..Len(stack) : stack[k].what \in {"unload", "notify"} /\ stack[k].slot = m =>
                        k \in 1..Len(stack') /\ stack'[k] = stack[k]
             \/ \E p \in 1..Len(stack') : stack'[p].slot = m /\ stack'[p].what = "notify"
  <2>1. CASE m = s
      BY <1>2, <1>3, <2>1
  <2>2. CASE m # s
    <3>1. m \in Names
        BY <1>i DEF TypeOK
    <3> QED BY <1>2, <1>3, <1>4, <2>2, <3>1
  <2> QED BY <2>1, <2>2
<1>7. loads \in Nat /\ loads <= loads' /\ loads' \in Nat /\ alive' \subseteq Names
    BY <1>i, <1>1, LifecycleConstants DEF TypeOK
<1> QED BY <1>i, <1>1, <1>5, <1>6, <1>7, OrderKept

LEMMA OrderRemove ==
    ASSUME IInv, RanInOrder, Remove PROVE RanInOrder'
<1>i. TypeOK
    BY DEF IInv
<1> PICK s : s = Top.slot
    OBVIOUS
<1>1. ~Idle /\ s \in Names /\ Len(stack) \in 1..Len(stack) /\ stack[Len(stack)] = Top
  <2>1. Doing("notify")
      BY DEF Remove
  <2> QED BY <2>1, Stopping
<1>2. UNCHANGED <<unloadRefs, onUnloads, ran>>
    BY DEF Remove
<1>3. /\ Len(Below) = Len(stack) - 1 /\ Below \in Seq(Activity)
      /\ \A k \in 1..Len(stack) : stack[k].slot = s \/ (k \in 1..Len(Below) /\ Below[k] = stack[k])
  <2>1. /\ Len(Below) = Len(stack) - 1 /\ Below \in Seq(Activity)
        /\ \A k \in 1..Len(Below) : Below[k] = stack[k]
      BY <1>i, <1>1, TakenOff
  <2> QED BY <1>1, <2>1
<1>4. CASE alive' = alive \ {s} /\ stack' = Below /\ UNCHANGED <<env, loads>>
  <2>1. loads \in Nat /\ loads <= loads' /\ loads' \in Nat /\ alive' \subseteq Names
      BY <1>i, <1>4, LifecycleConstants DEF TypeOK
  <2>2. \A n \in alive' : n \in alive /\ n # s
      BY <1>4
  <2> QED BY <1>i, <1>2, <1>3, <1>4, <2>1, <2>2, OrderKept
<1>5. CASE Start(s, Below, "reload")
  <2> PICK b, f : b = Below /\ f = ScopeOf(s, loads + 1, "load", "reload")
      OBVIOUS
  <2>1. stack' = Append(b, f) /\ b \in Seq(Activity)
      BY <1>3, <1>5 DEF Start
  <2>2. Len(stack') = Len(b) + 1 /\ Len(b) \in Nat /\ \A k \in 1..Len(b) : stack'[k] = b[k]
      BY <2>1
  <2>3. \A k \in 1..Len(stack) : stack[k].slot = s \/ (k \in 1..Len(stack') /\ stack'[k] = stack[k])
      BY <1>3, <2>2
  <2> QED BY <1>1, <1>2, <1>5, <2>3, OrderStart
<1> QED BY <1>4, <1>5 DEF Remove

LEMMA OrderInductive ==
    ASSUME IInv, RanInOrder, [Next]_vars PROVE RanInOrder'
<1>i. TypeOK
    BY DEF IInv
<1>1. loads \in Nat /\ loads <= loads /\ alive \subseteq Names
    BY <1>i, LifecycleConstants DEF TypeOK
<1>2. CASE Dispatch
    BY <1>2, OrderPush DEF Dispatch, Push, slots, history
<1>3. CASE OnUnload
    BY <1>3, OrderOnUnload
<1>4. CASE Leave
  <2>1. ~Idle /\ Top.what = "code" /\ stack' = Below
      BY <1>4 DEF Leave, Doing
  <2>2. UNCHANGED <<env, unloadRefs, loads, onUnloads, ran, alive>>
      BY <1>4 DEF Leave, slots, history
  <2> QED BY <2>1, <2>2, OrderPop
<1>5. CASE LoadEnds
  <2>1. ~Idle /\ Top.what = "load" /\ stack' = Below
      BY <1>5 DEF LoadEnds, Doing
  <2>2. UNCHANGED <<env, unloadRefs, loads, onUnloads, ran, alive>>
      BY <1>5 DEF LoadEnds, history
  <2> QED BY <2>1, <2>2, OrderPop
<1>6. CASE LoadFails
  <2>1. ~Idle /\ Top.what = "load" /\ stack' = Below
      BY <1>6 DEF LoadFails, Doing
  <2>2. /\ unloadRefs' = [unloadRefs EXCEPT ![Top.slot] = <<>>] /\ alive' = alive \ {Top.slot}
        /\ UNCHANGED <<env, loads, onUnloads, ran>>
      BY <1>6 DEF LoadFails
  <2>3. \A n \in Names : unloadRefs'[n] = unloadRefs[n] \/ (unloadRefs'[n] = <<>> /\ n \notin alive')
      BY <1>i, <2>2 DEF TypeOK
  <2> QED BY <2>1, <2>2, <2>3, OrderPop
<1>7. CASE RunUnloadHandler
    BY <1>7, OrderRunUnloadHandler
<1>8. CASE Announce
    BY <1>8, OrderAnnounce
<1>9. CASE Remove
    BY <1>9, OrderRemove
<1>10. ASSUME NEW n \in Names, CmdLoad(n) PROVE RanInOrder'
  <2>2. Start(n, stack, IF n \in known THEN "start" ELSE "none") /\ UNCHANGED <<unloadRefs, onUnloads, ran>>
      BY <1>10 DEF CmdLoad
  <2>1. \A k \in 1..Len(stack) : k \in 1..Len(stack') /\ stack'[k] = stack[k]
    <3>1. \E f : stack' = Append(stack, f)
        BY <2>2 DEF Start
    <3> QED BY <1>i, <3>1, StackType
  <2> QED BY <2>1, <2>2, OrderStart
<1>11. ASSUME NEW n \in Names, CmdUnload(n) \/ CmdReload(n) PROVE RanInOrder'
  <2>1. (\E f : stack' = Append(stack, f)) /\ UNCHANGED <<env, unloadRefs, loads, onUnloads, ran, alive>>
      BY <1>11 DEF CmdUnload, CmdReload, ReloadPlugin, Push, slots, history
  <2> QED BY <2>1, OrderPush
<1>12. CASE PendingPlugin \/ Shutdown
  <2>1. (\E f : stack' = Append(stack, f)) /\ UNCHANGED <<env, unloadRefs, loads, onUnloads, ran, alive>>
      BY <1>12 DEF PendingPlugin, Shutdown, ReloadPlugin, Push, slots, history
  <2> QED BY <2>1, OrderPush
<1>13. CASE CloseState
  <2>1. alive' = {} /\ unloadRefs' = [n \in Names |-> <<>>] /\ UNCHANGED <<loads, onUnloads, ran>>
      BY <1>13 DEF CloseState
  <2> QED BY <1>i, <1>1, <2>1, OrderKept
<1>14. CASE BootNext
  <2>1. PICK n \in booting : Start(n, stack, "none")
      BY <1>14 DEF BootNext
  <2>2. ~Idle /\ Top.what = "boot" /\ UNCHANGED <<unloadRefs, onUnloads, ran>>
      BY <1>14 DEF BootNext, Doing
  <2>3. Len(stack) \in 1..Len(stack) /\ stack[Len(stack)] = Top /\ n \in Names
      BY <1>i, <2>2, StackType DEF Top, TypeOK
  <2>4. \A k \in 1..Len(stack) : stack[k].what = "boot"
    <3>1. Len(stack) = 1
        BY <2>2, <2>3 DEF IInv, AllNested, Nested, Engines
    <3> QED BY <2>2, <2>3, <3>1
  <2> QED BY <2>1, <2>2, <2>3, <2>4, OrderStart
<1>15. CASE BootEnds
  <2>1. ~Idle /\ Top.what = "boot" /\ UNCHANGED <<env, unloadRefs, loads, onUnloads, ran, alive>>
      BY <1>15 DEF BootEnds, Doing, slots, history
  <2>2. Len(stack) = 1
    <3>1. Len(stack) \in 1..Len(stack) /\ stack[Len(stack)].what = "boot"
        BY <1>i, <2>1, StackType DEF Top
    <3> QED BY <3>1 DEF IInv, AllNested, Nested, Engines
  <2> QED BY <2>1, <2>2, OrderPop
<1>16. CASE Register \/ Request \/ UNCHANGED vars
  <2>1. UNCHANGED <<env, unloadRefs, stack, loads, onUnloads, ran, alive>>
      BY <1>16 DEF Register, Request, vars, slots, history
  <2> QED BY <2>1 DEF RanInOrder, ComePast
<1> QED BY <1>2, <1>3, <1>4, <1>5, <1>6, <1>7, <1>8, <1>9, <1>10, <1>11, <1>12, <1>13, <1>14, <1>15, <1>16 DEF Next

\* Only RunUnloadHandler starts one.
LEMMA RanGrows ==
    ASSUME [Next]_vars, ran' # ran PROVE RunUnloadHandler
BY DEF Next, vars, history, slots, Dispatch, Register, OnUnload, Leave, LoadEnds, LoadFails, Announce, Remove, CmdLoad,
       CmdUnload, CmdReload, Request, PendingPlugin, Shutdown, CloseState, BootNext, BootEnds

\* Nothing but a handler is started in the middle of a teardown.
LEMMA OnlyHandlers ==
    ASSUME IInv, [Next]_vars, Doing("unload"), Len(stack') > Len(stack) PROVE RunUnloadHandler
<1>i. TypeOK
    BY DEF IInv
<1>1. ~Idle /\ Top.what = "unload" /\ Len(stack) \in 1..Len(stack) /\ stack[Len(stack)].what = "unload"
    BY <1>i, StackType DEF Doing, Top
<1>3. RunUnloadHandler \/ Announce \/ UNCHANGED vars
    BY <1>1 DEF Next, Doing, CodeRuns, CanCommand, Dispatch, Register, OnUnload, Leave, LoadEnds, LoadFails, Remove,
                      CmdLoad, CmdUnload, CmdReload, Request, PendingPlugin, Shutdown, CloseState, BootNext, BootEnds
<1>4. Len(stack) \in Nat /\ ~(Len(stack) > Len(stack))
    BY <1>1
<1>5. Announce => Len(stack') = Len(stack)
  <2>1. stack \in Seq(Activity)
      BY <1>i, StackType
  <2>2. Announce => stack' = [stack EXCEPT ![Len(stack)] = [Top EXCEPT !.what = "notify"]]
      BY <1>1 DEF Announce, Top
  <2> QED BY <2>1, <2>2
<1>6. UNCHANGED vars => Len(stack') = Len(stack)
    BY DEF vars
<1> QED BY <1>3, <1>4, <1>5, <1>6

-----------------------------------------------------------------------------
(* The theorems                                                            *)

\* With a careful operator and careful plugins, the types hold, m_current is
\* the plugin whose code runs, and nothing that is registered is of an
\* environment already replaced or of a plugin that was stopped.
THEOREM ConsistentAlways == ASSUME Careful PROVE Spec => []Consistent
<1>1. Init => IInv
    BY InitOK
<1>2. IInv /\ [Next]_vars => IInv'
    BY Inductive
<1>3. IInv => Consistent
    BY ScopesRunner DEF IInv, Consistent
<1> QED BY <1>1, <1>2, <1>3, PTL DEF Spec

\* With a careful operator and careful plugins, what lua_list shows between two
\* frames is what runs.
THEOREM LoadedTellsTheTruthAlways == ASSUME Careful PROVE Spec => []LoadedTellsTheTruth
<1>1. Init => IInv
    BY InitOK
<1>2. IInv /\ [Next]_vars => IInv'
    BY Inductive
<1>3. IInv => LoadedTellsTheTruth
  <2> SUFFICES ASSUME IInv, stack = <<>>, NEW n \in known PROVE n \in alive <=> (loaded[n] /\ ~failed[n])
      BY DEF LoadedTellsTheTruth, Idle
  <2>1. n \in Names /\ PluginInOrder(n) /\ booting = {}
      BY DEF IInv, TypeOK, Books
  <2>2. ~Starting(n)
      BY DEF Starting
  <2> QED BY <2>1, <2>2 DEF PluginInOrder
<1> QED BY <1>1, <1>2, <1>3, PTL DEF Spec

\* With a careful operator and careful plugins, a plugin's on_unload handlers
\* run once each and in the reverse of the order of their registration.
THEOREM HandlersInReverseAlways == ASSUME Careful PROVE Spec => HandlersInReverse
<1>1. Init => IInv /\ RanInOrder
  <2>1. Init => RanInOrder
    <3>1. Len(<<>>) = 0
        OBVIOUS
    <3> QED BY <3>1 DEF Init, RanInOrder
  <2> QED BY <2>1, InitOK
<1>2. IInv /\ RanInOrder /\ [Next]_vars => (IInv /\ RanInOrder)'
    BY Inductive, OrderInductive
<1>3. IInv /\ RanInOrder /\ [Next]_vars =>
          [/\ Doing("unload") /\ Len(stack') > Len(stack) => ran' # ran
           /\ \A h \in ran' : h \notin ran => \A g \in ran : g.inc = h.inc => g.n > h.n]_vars
    BY RanGrows, OnlyHandlers, OrderRunUnloadHandler
<1> QED BY <1>1, <1>2, <1>3, PTL DEF Spec, HandlersInReverse

-----------------------------------------------------------------------------
(* HttpServer: the invariant                                               *)

ServerWorker == [at : WorkerStates, sock : Sockets \cup {None}]

\* Who holds a socket holds one, and nobody else holds it.
SocketHeldOnce ==
    /\ \A w \in Workers : HasSocket(worker[w].at) => worker[w].sock \in Sockets
    /\ acceptor.at = "accepted" => acceptor.sock \in Sockets
    /\ \A j, k \in 1..Len(queue) : queue[j] = queue[k] => j = k
    /\ \A w, v \in Workers :
          HasSocket(worker[w].at) /\ HasSocket(worker[v].at) /\ worker[w].sock = worker[v].sock => w = v
    /\ \A w \in Workers : HasSocket(worker[w].at) =>
          /\ \A k \in 1..Len(queue) : queue[k] # worker[w].sock
          /\ acceptor.at = "accepted" => acceptor.sock # worker[w].sock
    /\ acceptor.at = "accepted" => \A k \in 1..Len(queue) : queue[k] # acceptor.sock

\* What a holder is about to do says what has become of its socket.
FatesTold ==
    /\ acceptor.at = "accepted" => fate[acceptor.sock] = "open"
    /\ \A k \in 1..Len(queue) : fate[queue[k]] = "open"
    /\ \A w \in Workers :
          /\ worker[w].at \in {"reading", "header", "parked", "upgrading"} => fate[worker[w].sock] = "open"
          /\ worker[w].at \in {"streaming", "leaving"} => fate[worker[w].sock] = "subscribed"
    /\ \A s \in Sockets : fate[s] \in {"open", "subscribed"} =>
          \/ acceptor.at = "accepted" /\ acceptor.sock = s
          \/ \E k \in 1..Len(queue) : queue[k] = s
          \/ \E w \in Workers : HasSocket(worker[w].at) /\ worker[w].sock = s

\* A connection the game thread is going to answer is there once.
InBatch(s) == \E k \in 1..Len(batch) : batch[k] = s
InPending(s) == \E k \in 1..Len(pending) : pending[k] = s
InHandler(s) == handling # None /\ handling.sock = s

AskedOnce ==
    /\ \A j, k \in 1..Len(pending) : pending[j] = pending[k] => j = k
    /\ \A j, k \in 1..Len(batch) : batch[j] = batch[k] => j = k
    /\ \A s \in Sockets : ~(InPending(s) /\ InBatch(s)) /\ ~(InPending(s) /\ InHandler(s))
                          /\ ~(InBatch(s) /\ InHandler(s))

Parked(s) == \E w \in Workers : worker[w].at = "parked" /\ worker[w].sock = s

\* Its worker waits for the answer, or has given up.
AskedWait ==
    \A s \in Sockets : InPending(s) \/ InBatch(s) \/ InHandler(s) =>
        conn[s].abandoned \/ (~conn[s].done /\ Parked(s))

\* And who waits is going to be answered.
WaitAsked ==
    \A w \in Workers : worker[w].at = "parked" =>
        LET s == worker[w].sock IN conn[s].done \/ InPending(s) \/ InBatch(s) \/ InHandler(s)

Upgrades ==
    /\ \A s \in Sockets : conn[s].done => conn[s].res \in Answers
    /\ \A w \in Workers : worker[w].at = "upgrading" => conn[worker[w].sock].res = "stream"

\* Where the game thread is.
GameTurns ==
    /\ pc = "drain" => handling = None
    /\ handling = None /\ pc # "drain" => batch = <<>>
    /\ pc \in {"stopping", "joining"} => listening

\* A session has its outbox, and nobody else.
Outboxes ==
    /\ SubscribersAreSessions
    /\ \A s \in Sockets : s \notin DOMAIN clients => outbox[s] = <<>> /\ received[s] = <<>>
    /\ \A s \in Sockets :
          /\ \A k \in 1..Len(outbox[s]) : outbox[s][k] = pushes - Len(outbox[s]) + k
          /\ \A k \in 1..Len(received[s]) : received[s][k] <= pushes - Len(outbox[s])
          /\ Increasing(received[s])

ServerInv ==
    /\ ServerTypeOK /\ SocketHeldOnce /\ FatesTold /\ AskedOnce /\ AskedWait /\ WaitAsked
    /\ OneVerdict /\ Upgrades /\ GameTurns /\ StopLeavesNothing /\ Outboxes

\* A worker goes on, and the others do not.
Becomes(w, at, sock) ==
    /\ worker' \in [Workers -> ServerWorker]
    /\ worker'[w].at = at /\ worker'[w].sock = sock
    /\ \A v \in Workers : v # w => worker'[v] = worker[v]

LEMMA WorkerFacts ==
    ASSUME ServerTypeOK
    PROVE  /\ worker \in [Workers -> ServerWorker]
           /\ \A w \in Workers : worker[w].at \in WorkerStates /\ worker[w].sock \in Sockets \cup {None}
BY DEF ServerTypeOK, ServerWorker

LEMMA BecomesFacts ==
    ASSUME ServerTypeOK, NEW w \in Workers, NEW at \in WorkerStates, NEW sock \in Sockets \cup {None},
           worker' = [worker EXCEPT ![w] = [at |-> at, sock |-> sock]]
    PROVE  Becomes(w, at, sock)
BY WorkerFacts DEF Becomes, ServerWorker

LEMMA MoveFacts ==
    ASSUME ServerTypeOK, NEW w \in Workers, NEW at \in WorkerStates, Move(w, at)
    PROVE  Becomes(w, at, worker[w].sock)
<1>1. PICK old \in ServerWorker : old = worker[w]
    BY WorkerFacts
<1>2. PICK new : new = [old EXCEPT !.at = at]
    OBVIOUS
<1>3. new \in ServerWorker /\ new.at = at /\ new.sock = old.sock
    BY <1>2 DEF ServerWorker
<1>4. worker' = [worker EXCEPT ![w] = new]
    BY <1>1, <1>2 DEF Move
<1> QED BY <1>1, <1>3, <1>4, WorkerFacts DEF Becomes

LEMMA FinishFacts ==
    ASSUME ServerTypeOK, SocketHeldOnce, NEW w \in Workers, HasSocket(worker[w].at), NEW how \in Fates, Finish(w, how)
    PROVE  /\ Becomes(w, "ready", None)
           /\ fate' \in [Sockets -> Fates] /\ fate'[worker[w].sock] = how
           /\ \A s \in Sockets : s # worker[w].sock => fate'[s] = fate[s]
           /\ worker[w].sock \in Sockets
<1>1. worker[w].sock \in Sockets
    BY DEF SocketHeldOnce
<1>2. fate' = [fate EXCEPT ![worker[w].sock] = how] /\ fate \in [Sockets -> Fates]
    BY DEF Finish, ServerTypeOK
<1>3. worker' = [worker EXCEPT ![w] = [at |-> "ready", sock |-> None]]
    BY DEF Finish
<1>4. Becomes(w, "ready", None)
    BY <1>3, BecomesFacts DEF WorkerStates
<1> QED BY <1>1, <1>2, <1>4

\* A step that keeps a worker's socket, or its having none.
LEMMA KeepsSocket ==
    ASSUME ServerTypeOK, SocketHeldOnce, FatesTold, NEW w \in Workers, NEW at,
           Becomes(w, at, worker[w].sock), HasSocket(at) <=> HasSocket(worker[w].at),
           UNCHANGED <<acceptor, queue>>,
           HasSocket(at) \/ UNCHANGED fate,
           \A s \in Sockets : s # worker[w].sock => fate'[s] = fate[s],
           at \in {"reading", "header", "parked", "upgrading"} => fate'[worker[w].sock] = "open",
           at \in {"streaming", "leaving"} => fate'[worker[w].sock] = "subscribed"
    PROVE  SocketHeldOnce' /\ FatesTold'
<1>1. \A v \in Workers : worker'[v].sock = worker[v].sock /\ (HasSocket(worker'[v].at) <=> HasSocket(worker[v].at))
    BY DEF Becomes
<1>2. SocketHeldOnce'
    BY <1>1 DEF SocketHeldOnce
<1>3. acceptor.at = "accepted" => fate'[acceptor.sock] = "open"
    BY DEF SocketHeldOnce, FatesTold
<1>4. \A k \in 1..Len(queue) : fate'[queue[k]] = "open"
    BY DEF SocketHeldOnce, FatesTold, ServerTypeOK
<1>5. ASSUME NEW v \in Workers
      PROVE  /\ worker'[v].at \in {"reading", "header", "parked", "upgrading"} => fate'[worker[v].sock] = "open"
             /\ worker'[v].at \in {"streaming", "leaving"} => fate'[worker[v].sock] = "subscribed"
  <2>1. CASE v = w
      BY <2>1 DEF Becomes
  <2>2. CASE v # w
    <3>1. worker'[v] = worker[v]
        BY <2>2 DEF Becomes
    <3>2. CASE ~HasSocket(worker[v].at)
        BY <3>1, <3>2 DEF HasSocket
    <3>3. CASE HasSocket(worker[v].at)
      <4>1. fate'[worker[v].sock] = fate[worker[v].sock]
          BY <2>2, <3>3 DEF SocketHeldOnce
      <4> QED BY <3>1, <4>1 DEF FatesTold
    <3> QED BY <3>2, <3>3
  <2> QED BY <2>1, <2>2
<1>6. ASSUME NEW s \in Sockets, fate'[s] \in {"open", "subscribed"}
      PROVE  \/ acceptor.at = "accepted" /\ acceptor.sock = s
             \/ \E k \in 1..Len(queue) : queue[k] = s
             \/ \E v \in Workers : HasSocket(worker'[v].at) /\ worker'[v].sock = s
  <2>1. CASE s = worker[w].sock /\ HasSocket(at)
      BY <2>1 DEF Becomes
  <2>2. CASE ~(s = worker[w].sock /\ HasSocket(at))
    <3>1. fate'[s] = fate[s]
        BY <2>2
    <3> QED BY <1>1, <1>6, <3>1 DEF FatesTold
  <2> QED BY <2>1, <2>2
<1> QED BY <1>1, <1>2, <1>3, <1>4, <1>5, <1>6 DEF FatesTold

\* A step that ends a connection.
LEMMA Releases ==
    ASSUME ServerTypeOK, SocketHeldOnce, FatesTold, NEW w \in Workers, HasSocket(worker[w].at),
           Becomes(w, "ready", None), UNCHANGED <<acceptor, queue>>,
           fate'[worker[w].sock] \notin {"open", "subscribed"},
           \A s \in Sockets : s # worker[w].sock => fate'[s] = fate[s]
    PROVE  SocketHeldOnce' /\ FatesTold'
<1>1. ~HasSocket("ready")
    BY DEF HasSocket
<1>2. \A v \in Workers : HasSocket(worker'[v].at) => v # w /\ worker'[v] = worker[v]
    BY <1>1 DEF Becomes
<1>3. SocketHeldOnce'
    BY <1>2 DEF SocketHeldOnce
<1>4. acceptor.at = "accepted" => fate'[acceptor.sock] = "open"
    BY DEF SocketHeldOnce, FatesTold
<1>5. \A k \in 1..Len(queue) : fate'[queue[k]] = "open"
    BY DEF SocketHeldOnce, FatesTold, ServerTypeOK
<1>6. ASSUME NEW v \in Workers, HasSocket(worker'[v].at)
      PROVE  /\ worker'[v].at \in {"reading", "header", "parked", "upgrading"} => fate'[worker'[v].sock] = "open"
             /\ worker'[v].at \in {"streaming", "leaving"} => fate'[worker'[v].sock] = "subscribed"
  <2>1. worker'[v] = worker[v] /\ worker[v].sock # worker[w].sock /\ worker[v].sock \in Sockets
      BY <1>2, <1>6 DEF SocketHeldOnce
  <2> QED BY <2>1 DEF FatesTold
<1>7. ASSUME NEW s \in Sockets, fate'[s] \in {"open", "subscribed"}
      PROVE  \/ acceptor.at = "accepted" /\ acceptor.sock = s
             \/ \E k \in 1..Len(queue) : queue[k] = s
             \/ \E v \in Workers : HasSocket(worker'[v].at) /\ worker'[v].sock = s
  <2>1. s # worker[w].sock /\ fate'[s] = fate[s]
      BY <1>7
  <2>2. \A v \in Workers : HasSocket(worker[v].at) /\ worker[v].sock = s => worker'[v] = worker[v]
      BY <2>1 DEF Becomes
  <2> QED BY <1>7, <2>1, <2>2 DEF FatesTold
<1> QED BY <1>3, <1>4, <1>5, <1>6, <1>7 DEF FatesTold, HasSocket

\* Whoever waits for a connection is woken.
Wakes ==
    /\ worker' \in [Workers -> ServerWorker]
    /\ \A w \in Workers : \/ worker'[w] = worker[w]
                          \/ /\ worker[w].at = "waiting" /\ worker'[w].at = "ready"
                             /\ worker'[w].sock = worker[w].sock

LEMMA WakeOne ==
    ASSUME ServerTypeOK, NEW v \in Workers, worker[v].at = "waiting", worker' = [worker EXCEPT ![v].at = "ready"]
    PROVE  Wakes
<1>1. Becomes(v, "ready", worker[v].sock)
    BY MoveFacts DEF Move, WorkerStates
<1> QED BY <1>1 DEF Becomes, Wakes

LEMMA WokenFacts ==
    ASSUME ServerTypeOK, worker' \in Woken
    PROVE  Wakes
<1>1. worker' = worker \/ \E v \in Workers : worker[v].at = "waiting" /\ worker' = [worker EXCEPT ![v].at = "ready"]
    BY DEF Woken
<1>2. CASE worker' = worker
    BY <1>2, WorkerFacts DEF Wakes
<1> QED BY <1>1, <1>2, WakeOne

LEMMA StoppedFacts ==
    ASSUME ServerTypeOK, Stopped
    PROVE  Wakes
<1>1. ASSUME NEW w \in Workers
      PROVE  /\ worker'[w] \in ServerWorker
             /\ \/ worker'[w] = worker[w]
                \/ /\ worker[w].at = "waiting" /\ worker'[w].at = "ready"
                   /\ worker'[w].sock = worker[w].sock
  <2>1. PICK old \in ServerWorker : old = worker[w]
      BY WorkerFacts
  <2>2. PICK new : new = [old EXCEPT !.at = "ready"]
      OBVIOUS
  <2>3. new \in ServerWorker /\ new.at = "ready" /\ new.sock = old.sock
      BY <2>2 DEF ServerWorker, WorkerStates
  <2>4. worker'[w] = IF old.at = "waiting" THEN new ELSE old
      BY <2>1, <2>2 DEF Stopped
  <2> QED BY <2>1, <2>3, <2>4
<1>2. worker' = [w \in Workers |-> worker'[w]]
    BY DEF Stopped
<1> QED BY <1>1, <1>2 DEF Wakes

\* It makes no difference to anybody's socket.
LEMMA WakesKeeps ==
    ASSUME Wakes
    PROVE  \A w \in Workers :
              /\ worker'[w].sock = worker[w].sock
              /\ HasSocket(worker'[w].at) <=> HasSocket(worker[w].at)
              /\ \A at \in {"reading", "header", "parked", "upgrading", "streaming", "leaving", "absent", "exited"} :
                    worker'[w].at = at <=> worker[w].at = at
BY DEF Wakes, HasSocket

-----------------------------------------------------------------------------
(* HttpServer: what a step leaves alone                                    *)

LEMMA SameStreams ==
    ASSUME ServerTypeOK, Outboxes, UNCHANGED streams,
           \A v \in Workers : /\ worker'[v].at \in {"streaming", "leaving"} <=> worker[v].at \in {"streaming", "leaving"}
                              /\ worker[v].at \in {"streaming", "leaving"} => worker'[v].sock = worker[v].sock
    PROVE  Outboxes'
<1>1. UNCHANGED <<clients, outbox, pushes, received>>
    BY DEF streams
<1>2. SubscribersAreSessions'
    BY <1>1 DEF Outboxes, SubscribersAreSessions
<1> QED BY <1>1, <1>2 DEF Outboxes, Increasing

LEMMA SameRequests ==
    ASSUME AskedOnce, AskedWait, WaitAsked, UNCHANGED requests, UNCHANGED <<batch, handling>>,
           \A v \in Workers : /\ worker'[v].at = "parked" <=> worker[v].at = "parked"
                              /\ worker[v].at = "parked" => worker'[v].sock = worker[v].sock
    PROVE  AskedOnce' /\ AskedWait' /\ WaitAsked'
<1>1. UNCHANGED <<pending, conn, batch, handling>>
    BY DEF requests
<1>2. \A s \in Sockets : Parked(s)' = Parked(s)
    BY DEF Parked
<1>3. \A s : /\ InPending(s)' = InPending(s) /\ InBatch(s)' = InBatch(s) /\ InHandler(s)' = InHandler(s)
    BY <1>1 DEF InPending, InBatch, InHandler
<1>4. AskedOnce'
    BY <1>1, <1>3 DEF AskedOnce
<1>5. AskedWait'
    BY <1>1, <1>2, <1>3 DEF AskedWait
<1>6. WaitAsked'
    BY <1>1, <1>3 DEF WaitAsked
<1> QED BY <1>4, <1>5, <1>6

\* A connection that ends without an answer, or begins.
LEMMA SameVerdicts ==
    ASSUME ServerTypeOK, OneVerdict, UNCHANGED conn,
           \A s \in Sockets : \/ fate'[s] = fate[s]
                              \/ fate[s] # "timeout" /\ fate'[s] \in {"open", "bad request", "dropped"}
    PROVE  OneVerdict'
BY DEF OneVerdict

LEMMA SameUpgrades ==
    ASSUME Upgrades, UNCHANGED conn,
           \A v \in Workers : worker'[v].at = "upgrading" =>
                worker[v].at = "upgrading" /\ worker'[v].sock = worker[v].sock
    PROVE  Upgrades'
BY DEF Upgrades

LEMMA SameTurns ==
    ASSUME GameTurns, UNCHANGED <<listening, pc, handling, batch>>
    PROVE  GameTurns'
BY DEF GameTurns

\* Where a thread runs the server is listening.
LEMMA Listens ==
    ASSUME StopLeavesNothing
    PROVE  /\ \A w \in Workers : worker[w].at # "absent" => listening
           /\ acceptor.at # "absent" => listening
BY DEF StopLeavesNothing

LEMMA ListensStill ==
    ASSUME listening = TRUE, UNCHANGED listening
    PROVE  StopLeavesNothing'
BY DEF StopLeavesNothing

\* The types of a step that leaves the requests and the streams alone.
LEMMA PoolTypes ==
    ASSUME ServerTypeOK, UNCHANGED requests, UNCHANGED streams, UNCHANGED <<routes, game>>, UNCHANGED <<stopping, listens, listening>>,
           acceptor' \in [at : {"absent", "selecting", "accepted", "exited"}, sock : Sockets \cup {None}],
           worker' \in [Workers -> ServerWorker], fate' \in [Sockets -> Fates],
           queue' \in Seq(Sockets), Len(queue') <= MaxQueue
    PROVE  ServerTypeOK'
BY DEF ServerTypeOK, ServerWorker, requests, streams, game

-----------------------------------------------------------------------------
(* HttpServer: the workers                                                 *)

\* A worker goes on where nobody can see it.
LEMMA MovesKeep ==
    ASSUME ServerInv, NEW w \in Workers, NEW at \in WorkerStates, Becomes(w, at, worker[w].sock),
           worker[w].at # "absent", worker[w].at # "parked", at \notin {"parked", "upgrading"},
           at \in {"streaming", "leaving"} <=> worker[w].at \in {"streaming", "leaving"},
           HasSocket(at) <=> HasSocket(worker[w].at),
           at \in {"reading", "header"} <=> worker[w].at \in {"reading", "header"},
           UNCHANGED <<listening, stopping, acceptor, queue, listens, requests, routes, streams, game, fate>>
    PROVE  ServerInv'
<1>1. UNCHANGED <<listening, stopping, acceptor, queue, listens, fate, pc, batch, handling>>
      /\ UNCHANGED requests /\ UNCHANGED streams
    BY DEF game
<1>2. worker' \in [Workers -> ServerWorker] /\ \A v \in Workers : v # w => worker'[v] = worker[v]
    BY DEF Becomes
<1>3. worker'[w].at = at /\ worker'[w].sock = worker[w].sock
    BY DEF Becomes
<1>4. ServerTypeOK'
    BY <1>1, <1>2, PoolTypes DEF ServerInv, ServerTypeOK
<1>5. at \in {"streaming", "leaving"} => fate[worker[w].sock] = "subscribed"
    BY DEF ServerInv, FatesTold
<1>6. at \in {"reading", "header", "parked", "upgrading"} => fate[worker[w].sock] = "open"
    BY DEF ServerInv, FatesTold
<1>7. SocketHeldOnce' /\ FatesTold'
    BY <1>1, <1>5, <1>6, KeepsSocket DEF ServerInv
<1>8. AskedOnce' /\ AskedWait' /\ WaitAsked'
  <2>1. \A v \in Workers : /\ worker'[v].at = "parked" <=> worker[v].at = "parked"
                           /\ worker[v].at = "parked" => worker'[v].sock = worker[v].sock
      BY <1>2, <1>3
  <2> QED BY <1>1, <2>1, SameRequests DEF ServerInv
<1>9. OneVerdict' /\ Upgrades'
  <2>1. UNCHANGED conn
      BY <1>1 DEF requests
  <2>2. \A v \in Workers : worker'[v].at = "upgrading" =>
                worker[v].at = "upgrading" /\ worker'[v].sock = worker[v].sock
      BY <1>2, <1>3
  <2> QED BY <1>1, <2>1, <2>2, SameVerdicts, SameUpgrades DEF ServerInv
<1>10. GameTurns'
    BY <1>1, SameTurns DEF ServerInv
<1>11. listening
    BY Listens DEF ServerInv
<1>12. StopLeavesNothing'
    BY <1>1, <1>11 DEF StopLeavesNothing
<1>13. Outboxes'
  <2>1. \A v \in Workers : /\ worker'[v].at \in {"streaming", "leaving"} <=> worker[v].at \in {"streaming", "leaving"}
                           /\ worker[v].at \in {"streaming", "leaving"} => worker'[v].sock = worker[v].sock
      BY <1>2, <1>3
  <2> QED BY <1>1, <2>1, SameStreams DEF ServerInv
<1> QED BY <1>4, <1>7, <1>8, <1>9, <1>10, <1>12, <1>13 DEF ServerInv

LEMMA WaitKeeps ==
    ASSUME ServerInv, NEW w \in Workers, Wait(w)
    PROVE  ServerInv'
<1>1. worker[w].at = "ready" /\ Move(w, "waiting")
    BY DEF Wait
<1>2. Becomes(w, "waiting", worker[w].sock)
    BY <1>1, MoveFacts DEF ServerInv, WorkerStates
<1>3. UNCHANGED <<listening, stopping, acceptor, queue, listens, requests, routes, streams, game, fate>>
    BY DEF Wait
<1> QED BY <1>1, <1>2, <1>3, MovesKeep DEF HasSocket, WorkerStates

LEMMA ExitKeeps ==
    ASSUME ServerInv, NEW w \in Workers, Exit(w)
    PROVE  ServerInv'
<1>1. worker[w].at = "ready" /\ Move(w, "exited")
    BY DEF Exit
<1>2. Becomes(w, "exited", worker[w].sock)
    BY <1>1, MoveFacts DEF ServerInv, WorkerStates
<1>3. UNCHANGED <<listening, stopping, acceptor, queue, listens, requests, routes, streams, game, fate>>
    BY DEF Exit
<1> QED BY <1>1, <1>2, <1>3, MovesKeep DEF HasSocket, WorkerStates

LEMMA HeaderLineKeeps ==
    ASSUME ServerInv, NEW w \in Workers, HeaderLine(w)
    PROVE  ServerInv'
<1>1. worker[w].at = "reading" /\ Move(w, "header")
    BY DEF HeaderLine
<1>2. Becomes(w, "header", worker[w].sock)
    BY <1>1, MoveFacts DEF ServerInv, WorkerStates
<1>3. UNCHANGED <<listening, stopping, acceptor, queue, listens, requests, routes, streams, game, fate>>
    BY DEF HeaderLine
<1> QED BY <1>1, <1>2, <1>3, MovesKeep DEF HasSocket, WorkerStates

LEMMA NextLineKeeps ==
    ASSUME ServerInv, NEW w \in Workers, NextLine(w)
    PROVE  ServerInv'
<1>1. worker[w].at = "header" /\ Move(w, "reading")
    BY DEF NextLine
<1>2. Becomes(w, "reading", worker[w].sock)
    BY <1>1, MoveFacts DEF ServerInv, WorkerStates
<1>3. UNCHANGED <<listening, stopping, acceptor, queue, listens, requests, routes, streams, game, fate>>
    BY DEF NextLine
<1> QED BY <1>1, <1>2, <1>3, MovesKeep DEF HasSocket, WorkerStates

LEMMA StreamStopsKeeps ==
    ASSUME ServerInv, NEW w \in Workers, StreamStops(w)
    PROVE  ServerInv'
<1>1. worker[w].at = "streaming" /\ Move(w, "leaving")
    BY DEF StreamStops
<1>2. Becomes(w, "leaving", worker[w].sock)
    BY <1>1, MoveFacts DEF ServerInv, WorkerStates
<1>3. UNCHANGED <<listening, stopping, acceptor, queue, listens, requests, routes, streams, game, fate>>
    BY DEF StreamStops
<1> QED BY <1>1, <1>2, <1>3, MovesKeep DEF HasSocket, WorkerStates

\* A worker answers its peer, or closes the connection, and nobody waits for it.
LEMMA EndsKeep ==
    ASSUME ServerInv, NEW w \in Workers, NEW how \in Fates \ {"outside", "open", "subscribed", "timeout", "stream"},
           worker[w].at \in {"reading", "header", "parked", "upgrading"}, Finish(w, how),
           worker[w].at = "parked" => conn[worker[w].sock].done,
           how \in {"handler", "error", "refused", "reloading"} => conn[worker[w].sock].res = how,
           UNCHANGED <<listening, stopping, acceptor, queue, listens, requests, routes, streams, game>>
    PROVE  ServerInv'
<1>1. UNCHANGED <<listening, stopping, acceptor, queue, listens, pc, batch, handling, pending, conn>>
      /\ UNCHANGED requests /\ UNCHANGED streams
    BY DEF game, requests
<1>2. HasSocket(worker[w].at)
    BY DEF HasSocket
<1>3. /\ Becomes(w, "ready", None)
      /\ fate' \in [Sockets -> Fates] /\ fate'[worker[w].sock] = how
      /\ \A s \in Sockets : s # worker[w].sock => fate'[s] = fate[s]
      /\ worker[w].sock \in Sockets
    BY <1>2, FinishFacts DEF ServerInv
<1>4. worker' \in [Workers -> ServerWorker] /\ (\A v \in Workers : v # w => worker'[v] = worker[v])
      /\ worker'[w].at = "ready"
    BY <1>3 DEF Becomes
<1>5. fate[worker[w].sock] = "open"
    BY DEF ServerInv, FatesTold
<1>6. ServerTypeOK'
    BY <1>1, <1>3, <1>4, PoolTypes DEF ServerInv, ServerTypeOK
<1>7. SocketHeldOnce' /\ FatesTold'
    BY <1>1, <1>2, <1>3, Releases DEF ServerInv
<1>8. /\ \A s : InPending(s)' = InPending(s) /\ InBatch(s)' = InBatch(s) /\ InHandler(s)' = InHandler(s)
    BY <1>1 DEF InPending, InBatch, InHandler
<1>9. AskedOnce'
    BY <1>1, <1>8 DEF ServerInv, AskedOnce
<1>10. AskedWait'
  <2>1. ASSUME NEW s \in Sockets, Parked(s), ~conn[s].done
        PROVE  Parked(s)'
    <3>1. PICK v \in Workers : worker[v].at = "parked" /\ worker[v].sock = s
        BY <2>1 DEF Parked
    <3>2. v # w
        BY <2>1, <3>1
    <3> QED BY <1>4, <3>1, <3>2 DEF Parked
  <2> QED BY <1>1, <1>8, <2>1 DEF ServerInv, AskedWait
<1>11. WaitAsked'
  <2>1. \A v \in Workers : worker'[v].at = "parked" => worker[v].at = "parked" /\ worker'[v] = worker[v]
      BY <1>4
  <2> QED BY <1>1, <1>8, <2>1 DEF ServerInv, WaitAsked
<1>12. OneVerdict'
  <2>1. ASSUME NEW s \in Sockets
        PROVE  /\ ~(conn[s].done /\ conn[s].abandoned)
               /\ fate'[s] = "timeout" <=> conn[s].abandoned
               /\ fate'[s] \in {"handler", "error", "refused", "reloading"} => conn[s].res = fate'[s]
               /\ fate'[s] \in {"subscribed", "stream"} => conn[s].res = "stream"
    <3>1. CASE s = worker[w].sock
        BY <3>1, <1>3, <1>5 DEF ServerInv, OneVerdict
    <3>2. CASE s # worker[w].sock
        BY <3>2, <1>3 DEF ServerInv, OneVerdict
    <3> QED BY <3>1, <3>2
  <2> QED BY <1>1, <2>1 DEF OneVerdict
<1>13. Upgrades'
  <2>1. \A v \in Workers : worker'[v].at = "upgrading" =>
                worker[v].at = "upgrading" /\ worker'[v].sock = worker[v].sock
      BY <1>4
  <2> QED BY <1>1, <2>1, SameUpgrades DEF ServerInv
<1>14. GameTurns'
    BY <1>1, SameTurns DEF ServerInv
<1>15. StopLeavesNothing'
    BY <1>1, Listens DEF ServerInv, StopLeavesNothing
<1>16. Outboxes'
  <2>1. \A v \in Workers : /\ worker'[v].at \in {"streaming", "leaving"} <=> worker[v].at \in {"streaming", "leaving"}
                           /\ worker[v].at \in {"streaming", "leaving"} => worker'[v].sock = worker[v].sock
      BY <1>4
  <2> QED BY <1>1, <2>1, SameStreams DEF ServerInv
<1> QED BY <1>6, <1>7, <1>9, <1>10, <1>11, <1>12, <1>13, <1>14, <1>15, <1>16 DEF ServerInv

LEMMA ReadFailsKeeps ==
    ASSUME ServerInv, NEW w \in Workers, ReadFails(w)
    PROVE  ServerInv'
<1>1. "bad request" \in Fates
    BY DEF Fates
<1> QED BY <1>1, EndsKeep DEF ReadFails

LEMMA UpgradeFailsKeeps ==
    ASSUME ServerInv, NEW w \in Workers, UpgradeFails(w)
    PROVE  ServerInv'
<1>1. "dropped" \in Fates
    BY DEF Fates
<1> QED BY <1>1, EndsKeep DEF UpgradeFails

\* What the game thread decided is what the peer is sent.
LEMMA AnsweredKeeps ==
    ASSUME Parameters, ServerInv, NEW w \in Workers, Answered(w)
    PROVE  ServerInv'
<1>1. worker[w].at = "parked" /\ conn[worker[w].sock].done
    BY DEF Answered
<1>2. UNCHANGED <<listening, stopping, acceptor, queue, listens, requests, routes, streams, game>>
    BY DEF Answered
<1>3. worker[w].sock \in Sockets
    BY <1>1 DEF ServerInv, SocketHeldOnce, HasSocket
<1>4. PICK res : res = conn[worker[w].sock].res
    OBVIOUS
<1>5. res \in Answers
    BY <1>1, <1>3, <1>4 DEF ServerInv, Upgrades, ServerTypeOK, Conn
<1>6. CASE res # "stream"
  <2>1. Finish(w, res)
      BY <1>4, <1>6 DEF Answered
  <2>2. res \in Fates \ {"outside", "open", "subscribed", "timeout", "stream"}
      BY <1>5, <1>6 DEF Fates, Answers
  <2> QED BY <1>1, <1>2, <1>4, <2>1, <2>2, EndsKeep
<1>7. CASE res = "stream"
  <2>1. Move(w, "upgrading") /\ UNCHANGED fate
      BY <1>4, <1>7 DEF Answered
  <2>2. Becomes(w, "upgrading", worker[w].sock)
      BY <2>1, MoveFacts DEF ServerInv, WorkerStates
  <2>3. UNCHANGED <<listening, stopping, acceptor, queue, listens, pc, batch, handling, pending, conn>>
        /\ UNCHANGED requests /\ UNCHANGED streams
      BY <1>2 DEF game, requests
  <2>4. worker' \in [Workers -> ServerWorker] /\ (\A v \in Workers : v # w => worker'[v] = worker[v])
        /\ worker'[w].at = "upgrading" /\ worker'[w].sock = worker[w].sock
      BY <2>2 DEF Becomes
  <2>5. ServerTypeOK'
      BY <1>2, <2>1, <2>3, <2>4, PoolTypes DEF ServerInv, ServerTypeOK
  <2>6. fate[worker[w].sock] = "open"
      BY <1>1 DEF ServerInv, FatesTold
  <2>7. SocketHeldOnce' /\ FatesTold'
      BY <1>1, <2>1, <2>2, <2>3, <2>6, KeepsSocket DEF ServerInv, HasSocket
  <2>8. \A s : InPending(s)' = InPending(s) /\ InBatch(s)' = InBatch(s) /\ InHandler(s)' = InHandler(s)
      BY <2>3 DEF InPending, InBatch, InHandler
  <2>9. AskedOnce'
      BY <2>3, <2>8 DEF ServerInv, AskedOnce
  <2>10. AskedWait'
    <3>1. ASSUME NEW s \in Sockets, Parked(s), ~conn[s].done
          PROVE  Parked(s)'
      <4>1. PICK v \in Workers : worker[v].at = "parked" /\ worker[v].sock = s
          BY <3>1 DEF Parked
      <4>2. v # w
          BY <1>1, <3>1, <4>1
      <4> QED BY <2>4, <4>1, <4>2 DEF Parked
    <3> QED BY <2>3, <2>8, <3>1 DEF ServerInv, AskedWait
  <2>11. WaitAsked'
    <3>1. \A v \in Workers : worker'[v].at = "parked" => worker[v].at = "parked" /\ worker'[v] = worker[v]
        BY <2>4
    <3> QED BY <2>3, <2>8, <3>1 DEF ServerInv, WaitAsked
  <2>12. OneVerdict' /\ GameTurns'
      BY <2>1, <2>3, SameVerdicts, SameTurns DEF ServerInv
  <2>13. Upgrades'
    <3>1. conn[worker[w].sock].res = "stream"
        BY <1>4, <1>7
    <3>2. \A v \in Workers : worker'[v].at = "upgrading" => conn[worker'[v].sock].res = "stream"
        BY <2>4, <3>1 DEF ServerInv, Upgrades
    <3> QED BY <2>3, <3>2 DEF ServerInv, Upgrades
  <2>14. StopLeavesNothing'
      BY <1>1, <2>3, Listens DEF ServerInv, StopLeavesNothing
  <2>15. Outboxes'
    <3>1. \A v \in Workers : /\ worker'[v].at \in {"streaming", "leaving"} <=> worker[v].at \in {"streaming", "leaving"}
                             /\ worker[v].at \in {"streaming", "leaving"} => worker'[v].sock = worker[v].sock
        BY <1>1, <2>4
    <3> QED BY <2>3, <3>1, SameStreams DEF ServerInv
  <2> QED BY <2>5, <2>7, <2>9, <2>10, <2>11, <2>12, <2>13, <2>14, <2>15 DEF ServerInv
<1> QED BY <1>6, <1>7

\* The timeout: what comes later for this connection is not looked at.
LEMMA GiveUpKeeps ==
    ASSUME ServerInv, NEW w \in Workers, GiveUp(w)
    PROVE  ServerInv'
<1>1. worker[w].at = "parked" /\ ~conn[worker[w].sock].done /\ Finish(w, "timeout")
    BY DEF GiveUp
<1>2. UNCHANGED <<listening, stopping, acceptor, queue, listens, pending, pc, batch, handling>>
      /\ UNCHANGED <<routes, streams, game>>
    BY DEF GiveUp, game
<1>3. HasSocket(worker[w].at) /\ "timeout" \in Fates
    BY <1>1 DEF HasSocket, Fates
<1>4. /\ Becomes(w, "ready", None)
      /\ fate' \in [Sockets -> Fates] /\ fate'[worker[w].sock] = "timeout"
      /\ \A s \in Sockets : s # worker[w].sock => fate'[s] = fate[s]
      /\ worker[w].sock \in Sockets
    BY <1>1, <1>3, FinishFacts DEF ServerInv
<1>5. worker' \in [Workers -> ServerWorker] /\ (\A v \in Workers : v # w => worker'[v] = worker[v])
      /\ worker'[w].at = "ready"
    BY <1>4 DEF Becomes
<1>6. PICK mine \in Conn : mine = conn[worker[w].sock]
    BY <1>4 DEF ServerInv, ServerTypeOK
<1>7. PICK lost : lost = [mine EXCEPT !.abandoned = TRUE]
    OBVIOUS
<1>8. lost \in Conn /\ lost.abandoned = TRUE /\ lost.done = mine.done /\ lost.res = mine.res
    BY <1>7 DEF Conn
<1>9. conn' = [conn EXCEPT ![worker[w].sock] = lost]
    BY <1>6, <1>7 DEF GiveUp
<1>10. conn' \in [Sockets -> Conn] /\ conn'[worker[w].sock] = lost
       /\ \A s \in Sockets : s # worker[w].sock => conn'[s] = conn[s]
    BY <1>4, <1>8, <1>9 DEF ServerInv, ServerTypeOK
<1>11. ServerTypeOK'
    BY <1>2, <1>4, <1>5, <1>10 DEF ServerInv, ServerTypeOK, ServerWorker, streams, game
<1>12. SocketHeldOnce' /\ FatesTold'
    BY <1>2, <1>3, <1>4, Releases DEF ServerInv
<1>13. \A s : InPending(s)' = InPending(s) /\ InBatch(s)' = InBatch(s) /\ InHandler(s)' = InHandler(s)
    BY <1>2 DEF InPending, InBatch, InHandler
<1>14. AskedOnce'
    BY <1>2, <1>13 DEF ServerInv, AskedOnce
<1>15. \A v \in Workers : HasSocket(worker'[v].at) => v # w /\ worker'[v] = worker[v] /\ worker[v].sock # worker[w].sock
                          /\ worker[v].sock \in Sockets
    BY <1>3, <1>5 DEF ServerInv, SocketHeldOnce, HasSocket
<1>16. AskedWait'
  <2>1. ASSUME NEW s \in Sockets, s # worker[w].sock, Parked(s)
        PROVE  Parked(s)'
      BY <1>5, <2>1 DEF Parked
  <2>2. ASSUME NEW s \in Sockets, InPending(s) \/ InBatch(s) \/ InHandler(s)
        PROVE  conn'[s].abandoned \/ (~conn'[s].done /\ Parked(s)')
    <3>1. CASE s = worker[w].sock
        BY <3>1, <1>8, <1>10
    <3>2. CASE s # worker[w].sock
        BY <3>2, <1>10, <2>1, <2>2 DEF ServerInv, AskedWait
    <3> QED BY <3>1, <3>2
  <2> QED BY <1>13, <2>2 DEF AskedWait
<1>17. WaitAsked'
  <2>1. \A v \in Workers : worker'[v].at = "parked" =>
            worker[v].at = "parked" /\ worker'[v] = worker[v] /\ conn'[worker[v].sock] = conn[worker[v].sock]
      BY <1>10, <1>15 DEF HasSocket
  <2> QED BY <1>13, <2>1 DEF ServerInv, WaitAsked
<1>18. OneVerdict'
  <2>1. ASSUME NEW s \in Sockets
        PROVE  /\ ~(conn'[s].done /\ conn'[s].abandoned)
               /\ fate'[s] = "timeout" <=> conn'[s].abandoned
               /\ fate'[s] \in {"handler", "error", "refused", "reloading"} => conn'[s].res = fate'[s]
               /\ fate'[s] \in {"subscribed", "stream"} => conn'[s].res = "stream"
    <3>1. CASE s = worker[w].sock
        BY <3>1, <1>1, <1>4, <1>6, <1>8, <1>10
    <3>2. CASE s # worker[w].sock
        BY <3>2, <1>4, <1>10 DEF ServerInv, OneVerdict
    <3> QED BY <3>1, <3>2
  <2> QED BY <2>1 DEF OneVerdict
<1>19. Upgrades'
  <2>1. \A v \in Workers : worker'[v].at = "upgrading" =>
            worker[v].at = "upgrading" /\ worker'[v] = worker[v] /\ conn'[worker[v].sock] = conn[worker[v].sock]
      BY <1>10, <1>15 DEF HasSocket
  <2>2. \A v \in Workers : worker'[v].at = "upgrading" => conn'[worker'[v].sock].res = "stream"
      BY <2>1 DEF ServerInv, Upgrades
  <2>3. \A s \in Sockets : conn'[s].done => conn'[s].res \in Answers
      BY <1>1, <1>6, <1>8, <1>10 DEF ServerInv, Upgrades
  <2> QED BY <2>2, <2>3 DEF Upgrades
<1>20. GameTurns'
    BY <1>2, SameTurns DEF ServerInv
<1>21. StopLeavesNothing'
    BY <1>1, <1>2, Listens DEF ServerInv, StopLeavesNothing
<1>22. Outboxes'
  <2>1. \A v \in Workers : /\ worker'[v].at \in {"streaming", "leaving"} <=> worker[v].at \in {"streaming", "leaving"}
                           /\ worker[v].at \in {"streaming", "leaving"} => worker'[v].sock = worker[v].sock
      BY <1>1, <1>5
  <2> QED BY <1>2, <2>1, SameStreams DEF ServerInv
<1> QED BY <1>11, <1>12, <1>14, <1>16, <1>17, <1>18, <1>19, <1>20, <1>21, <1>22 DEF ServerInv

LEMMA TakeKeeps ==
    ASSUME Parameters, ServerInv, NEW w \in Workers, Take(w)
    PROVE  ServerInv'
<1>1. worker[w].at = "ready" /\ queue # <<>> /\ queue \in Seq(Sockets)
    BY DEF Take, ServerInv, ServerTypeOK
<1>2. UNCHANGED <<listening, stopping, acceptor, listens, fate, pc, batch, handling, pending, conn>>
      /\ UNCHANGED requests /\ UNCHANGED streams /\ UNCHANGED <<routes, game>>
    BY DEF Take, game, requests
<1>3. PICK n \in Nat : n = Len(queue)
    BY <1>1
<1>4. n >= 1 /\ Head(queue) = queue[1] /\ queue[1] \in Sockets
    BY <1>1, <1>3
<1>5. queue' = Tail(queue)
    BY DEF Take
<1>6. queue' \in Seq(Sockets) /\ Len(queue') = n - 1 /\ \A k \in 1..(n - 1) : queue'[k] = queue[k + 1]
    BY <1>1, <1>3, <1>5
<1>7. PICK s \in Sockets : s = queue[1]
    BY <1>4
<1>8. Becomes(w, "reading", s)
    BY <1>4, <1>7, BecomesFacts DEF Take, ServerInv, WorkerStates
<1>9. worker' \in [Workers -> ServerWorker] /\ (\A v \in Workers : v # w => worker'[v] = worker[v])
      /\ worker'[w].at = "reading" /\ worker'[w].sock = s
    BY <1>8 DEF Becomes
<1>10. ServerTypeOK'
  <2>1. n <= MaxQueue /\ MaxQueue \in Int
      BY <1>3 DEF ServerInv, ServerTypeOK, Parameters
  <2>2. Len(queue') <= MaxQueue
      BY <1>6, <2>1
  <2> QED BY <1>2, <1>6, <1>9, <2>2, PoolTypes DEF ServerInv, ServerTypeOK
<1>11. \A j, k \in 1..n : queue[j] = queue[k] => j = k
    BY <1>3 DEF ServerInv, SocketHeldOnce
<1>12. \A k \in 1..(n - 1) : k + 1 \in 1..n /\ queue'[k] # s
    BY <1>4, <1>6, <1>7, <1>11
<1>13. /\ \A v \in Workers : HasSocket(worker[v].at) =>
              worker[v].sock \in Sockets /\ worker[v].sock # s /\ \A k \in 1..(n - 1) : queue'[k] # worker[v].sock
       /\ acceptor.at = "accepted" => acceptor.sock # s /\ \A k \in 1..(n - 1) : queue'[k] # acceptor.sock
  <2>1. \A v \in Workers : HasSocket(worker[v].at) =>
            worker[v].sock \in Sockets /\ \A k \in 1..n : queue[k] # worker[v].sock
      BY <1>3 DEF ServerInv, SocketHeldOnce
  <2>2. acceptor.at = "accepted" => \A k \in 1..n : queue[k] # acceptor.sock
      BY <1>3 DEF ServerInv, SocketHeldOnce
  <2>3. 1 \in 1..n /\ \A k \in 1..(n - 1) : k + 1 \in 1..n /\ queue'[k] = queue[k + 1]
      BY <1>4, <1>6
  <2>4. \A v \in Workers : HasSocket(worker[v].at) =>
            worker[v].sock # s /\ \A k \in 1..(n - 1) : queue'[k] # worker[v].sock
    <3>1. ASSUME NEW v \in Workers, HasSocket(worker[v].at)
          PROVE  worker[v].sock # s /\ \A k \in 1..(n - 1) : queue'[k] # worker[v].sock
      <4>1. \A k \in 1..n : queue[k] # worker[v].sock
          BY <2>1, <3>1
      <4> QED BY <1>7, <2>3, <4>1
    <3> QED BY <3>1
  <2>5. acceptor.at = "accepted" => acceptor.sock # s /\ \A k \in 1..(n - 1) : queue'[k] # acceptor.sock
      BY <1>7, <2>2, <2>3
  <2> QED BY <2>1, <2>4, <2>5
<1>14. ~HasSocket(worker[w].at) /\ HasSocket("reading")
    BY <1>1 DEF HasSocket
<1>15. SocketHeldOnce'
  <2>1. \A j, k \in 1..(n - 1) : queue'[j] = queue'[k] => j = k
      BY <1>6, <1>11, <1>12
  <2>2. \A v \in Workers : HasSocket(worker'[v].at) => v = w \/ (worker'[v] = worker[v] /\ HasSocket(worker[v].at))
      BY <1>9
  <2>3. \A v \in Workers : HasSocket(worker'[v].at) => worker'[v].sock \in Sockets
      BY <1>9, <1>13, <2>2
  <2>4. \A v, u \in Workers :
          HasSocket(worker'[v].at) /\ HasSocket(worker'[u].at) /\ worker'[v].sock = worker'[u].sock => v = u
    <3>1. ASSUME NEW v \in Workers, NEW u \in Workers, HasSocket(worker'[v].at), HasSocket(worker'[u].at),
                 worker'[v].sock = worker'[u].sock, v # u
          PROVE  FALSE
      <4>1. CASE v = w
          BY <3>1, <4>1, <2>2, <1>9, <1>13
      <4>2. CASE u = w
          BY <3>1, <4>2, <2>2, <1>9, <1>13
      <4>3. CASE v # w /\ u # w
          BY <3>1, <4>3, <1>9 DEF ServerInv, SocketHeldOnce
      <4> QED BY <4>1, <4>2, <4>3
    <3> QED BY <3>1
  <2>5. \A v \in Workers : HasSocket(worker'[v].at) =>
          /\ \A k \in 1..(n - 1) : queue'[k] # worker'[v].sock
          /\ acceptor.at = "accepted" => acceptor.sock # worker'[v].sock
    <3>1. ASSUME NEW v \in Workers, HasSocket(worker'[v].at)
          PROVE  /\ \A k \in 1..(n - 1) : queue'[k] # worker'[v].sock
                 /\ acceptor.at = "accepted" => acceptor.sock # worker'[v].sock
      <4>1. CASE v = w
          BY <4>1, <1>9, <1>12, <1>13
      <4>2. CASE v # w
          BY <3>1, <4>2, <1>9, <1>13 DEF ServerInv, SocketHeldOnce
      <4> QED BY <4>1, <4>2
    <3> QED BY <3>1
  <2>6. acceptor.at = "accepted" => acceptor.sock \in Sockets
      BY DEF ServerInv, SocketHeldOnce
  <2> QED BY <1>2, <1>6, <1>13, <2>1, <2>3, <2>4, <2>5, <2>6 DEF SocketHeldOnce
<1>16. FatesTold'
  <2>1. \A k \in 1..n : fate[queue[k]] = "open"
      BY <1>3 DEF ServerInv, FatesTold
  <2>2. fate[s] = "open" /\ \A k \in 1..(n - 1) : fate[queue'[k]] = "open"
      BY <1>4, <1>6, <1>7, <1>12, <2>1
  <2>3. \A v \in Workers :
          /\ worker'[v].at \in {"reading", "header", "parked", "upgrading"} => fate[worker'[v].sock] = "open"
          /\ worker'[v].at \in {"streaming", "leaving"} => fate[worker'[v].sock] = "subscribed"
      BY <1>9, <2>2 DEF ServerInv, FatesTold
  <2>4. ASSUME NEW t \in Sockets, fate[t] \in {"open", "subscribed"}
        PROVE  \/ acceptor.at = "accepted" /\ acceptor.sock = t
               \/ \E k \in 1..(n - 1) : queue'[k] = t
               \/ \E v \in Workers : HasSocket(worker'[v].at) /\ worker'[v].sock = t
    <3>1. CASE \E v \in Workers : HasSocket(worker[v].at) /\ worker[v].sock = t
        BY <3>1, <1>9, <1>14
    <3>2. CASE \E k \in 1..Len(queue) : queue[k] = t
      <4>1. PICK k \in 1..n : queue[k] = t
          BY <3>2, <1>3
      <4>2. CASE k = 1
          BY <4>1, <4>2, <1>7, <1>9, <1>14
      <4>3. CASE k # 1
        <5>1. k - 1 \in 1..(n - 1) /\ queue'[k - 1] = t
            BY <4>1, <4>3, <1>6
        <5> QED BY <5>1
      <4> QED BY <4>2, <4>3
    <3>3. CASE acceptor.at = "accepted" /\ acceptor.sock = t
        BY <3>3
    <3> QED BY <2>4, <3>1, <3>2, <3>3 DEF ServerInv, FatesTold
  <2>5. acceptor.at = "accepted" => fate[acceptor.sock] = "open"
      BY DEF ServerInv, FatesTold
  <2> QED BY <1>2, <1>6, <2>2, <2>3, <2>4, <2>5 DEF FatesTold
<1>17. AskedOnce' /\ AskedWait' /\ WaitAsked'
  <2>1. \A v \in Workers : /\ worker'[v].at = "parked" <=> worker[v].at = "parked"
                           /\ worker[v].at = "parked" => worker'[v].sock = worker[v].sock
      BY <1>1, <1>9
  <2> QED BY <1>2, <2>1, SameRequests DEF ServerInv
<1>18. OneVerdict' /\ Upgrades'
  <2>1. \A v \in Workers : worker'[v].at = "upgrading" =>
                worker[v].at = "upgrading" /\ worker'[v].sock = worker[v].sock
      BY <1>9
  <2> QED BY <1>2, <2>1, SameVerdicts, SameUpgrades DEF ServerInv
<1>19. GameTurns' /\ StopLeavesNothing'
    BY <1>1, <1>2, SameTurns, Listens DEF ServerInv, StopLeavesNothing
<1>20. Outboxes'
  <2>1. \A v \in Workers : /\ worker'[v].at \in {"streaming", "leaving"} <=> worker[v].at \in {"streaming", "leaving"}
                           /\ worker[v].at \in {"streaming", "leaving"} => worker'[v].sock = worker[v].sock
      BY <1>1, <1>9
  <2> QED BY <1>2, <2>1, SameStreams DEF ServerInv
<1> QED BY <1>10, <1>15, <1>16, <1>17, <1>18, <1>19, <1>20 DEF ServerInv

\* A request that was read is asked for the first time.
LEMMA ReadKeeps ==
    ASSUME ServerInv, NEW w \in Workers, Read(w)
    PROVE  ServerInv'
<1>1. worker[w].at = "reading" /\ Move(w, "parked")
    BY DEF Read
<1>2. UNCHANGED <<listening, stopping, acceptor, queue, listens, fate, pc, batch, handling>>
      /\ UNCHANGED streams /\ UNCHANGED <<routes, game>>
    BY DEF Read, game
<1>3. PICK s \in Sockets : s = worker[w].sock
    BY <1>1 DEF ServerInv, SocketHeldOnce, HasSocket
<1>4. Becomes(w, "parked", s)
    BY <1>1, <1>3, MoveFacts DEF ServerInv, WorkerStates
<1>5. worker' \in [Workers -> ServerWorker] /\ (\A v \in Workers : v # w => worker'[v] = worker[v])
      /\ worker'[w].at = "parked" /\ worker'[w].sock = s
    BY <1>4 DEF Becomes
<1>6. PICK new \in Conn : conn' = [conn EXCEPT ![s] = new] /\ new.done = FALSE /\ new.abandoned = FALSE /\ new.res = None
  <2>1. PICK m \in Methods : conn' = [conn EXCEPT ![s] = [method |-> m, done |-> FALSE, abandoned |-> FALSE, res |-> None]]
      BY <1>3 DEF Read
  <2>2. [method |-> m, done |-> FALSE, abandoned |-> FALSE, res |-> None] \in Conn
      BY DEF Conn
  <2> QED BY <2>1, <2>2
<1>7. conn' \in [Sockets -> Conn] /\ conn'[s] = new /\ \A t \in Sockets : t # s => conn'[t] = conn[t]
    BY <1>6 DEF ServerInv, ServerTypeOK
<1>8. pending \in Seq(Sockets) /\ pending' = Append(pending, s)
    BY <1>3 DEF Read, ServerInv, ServerTypeOK
<1>9. PICK n \in Nat : n = Len(pending)
    BY <1>8
<1>10. pending' \in Seq(Sockets) /\ Len(pending') = n + 1 /\ pending'[n + 1] = s
       /\ \A k \in 1..n : pending'[k] = pending[k]
    BY <1>8, <1>9
<1>11. ServerTypeOK'
    BY <1>2, <1>5, <1>7, <1>10 DEF ServerInv, ServerTypeOK, ServerWorker, streams, game
<1>12. fate[s] = "open"
    BY <1>1, <1>3 DEF ServerInv, FatesTold
<1>13. SocketHeldOnce' /\ FatesTold'
    BY <1>1, <1>2, <1>3, <1>4, <1>12, KeepsSocket DEF ServerInv, HasSocket
<1>14. \A v \in Workers : HasSocket(worker[v].at) /\ worker[v].sock = s => v = w
    BY <1>1, <1>3 DEF ServerInv, SocketHeldOnce, HasSocket
<1>15. ~InPending(s) /\ ~InBatch(s) /\ ~InHandler(s)
  <2>1. ~conn[s].abandoned
      BY <1>12 DEF ServerInv, OneVerdict
  <2>2. ~Parked(s)
      BY <1>1, <1>14 DEF Parked, HasSocket
  <2> QED BY <2>1, <2>2 DEF ServerInv, AskedWait
<1>16. \A t : (InPending(t)' <=> InPending(t) \/ t = s) /\ InBatch(t)' = InBatch(t) /\ InHandler(t)' = InHandler(t)
  <2>1. ASSUME NEW t
        PROVE  (\E k \in 1..(n + 1) : pending'[k] = t) <=> (\E k \in 1..n : pending[k] = t) \/ t = s
    <3>1. ASSUME NEW k \in 1..(n + 1), pending'[k] = t
          PROVE  (\E j \in 1..n : pending[j] = t) \/ t = s
        BY <3>1, <1>10
    <3>2. ASSUME NEW k \in 1..n, pending[k] = t
          PROVE  \E j \in 1..(n + 1) : pending'[j] = t
      <4>1. k \in 1..(n + 1) /\ pending'[k] = t
          BY <3>2, <1>10
      <4> QED BY <4>1
    <3>3. t = s => \E j \in 1..(n + 1) : pending'[j] = t
        BY <1>10
    <3> QED BY <3>1, <3>2, <3>3
  <2> QED BY <1>2, <1>9, <1>10, <2>1 DEF InPending, InBatch, InHandler
<1>17. AskedOnce'
  <2>1. \A k \in 1..n : pending[k] # s
      BY <1>9, <1>15 DEF InPending
  <2>2. \A j, k \in 1..n : pending[j] = pending[k] => j = k
      BY <1>9 DEF ServerInv, AskedOnce
  <2>3. \A j, k \in 1..(n + 1) : pending'[j] = pending'[k] => j = k
      BY <1>10, <2>1, <2>2
  <2> QED BY <1>2, <1>10, <1>15, <1>16, <2>3 DEF ServerInv, AskedOnce
<1>18. AskedWait'
  <2>1. ASSUME NEW t \in Sockets, Parked(t)
        PROVE  Parked(t)'
    <3>1. PICK v \in Workers : worker[v].at = "parked" /\ worker[v].sock = t
        BY <2>1 DEF Parked
    <3>2. worker'[v] = worker[v]
        BY <1>1, <1>5, <3>1
    <3> QED BY <3>1, <3>2 DEF Parked
  <2>2. Parked(s)'
      BY <1>5 DEF Parked
  <2>3. ASSUME NEW t \in Sockets, InPending(t)' \/ InBatch(t)' \/ InHandler(t)'
        PROVE  conn'[t].abandoned \/ (~conn'[t].done /\ Parked(t)')
    <3>1. CASE t = s
        BY <3>1, <2>2, <1>6, <1>7
    <3>2. CASE t # s
        BY <3>2, <2>1, <2>3, <1>7, <1>16 DEF ServerInv, AskedWait
    <3> QED BY <3>1, <3>2
  <2> QED BY <2>3 DEF AskedWait
<1>19. WaitAsked'
  <2>1. ASSUME NEW v \in Workers, worker'[v].at = "parked"
        PROVE  \A t : t = worker'[v].sock => conn'[t].done \/ InPending(t)' \/ InBatch(t)' \/ InHandler(t)'
    <3>1. CASE v = w
        BY <3>1, <1>5, <1>16
    <3>2. CASE v # w
      <4>1. PICK t : t = worker[v].sock
          OBVIOUS
      <4>2. worker'[v] = worker[v] /\ t \in Sockets /\ t # s
          BY <3>2, <2>1, <4>1, <1>5, <1>14 DEF ServerInv, SocketHeldOnce, HasSocket
      <4>3. conn[t].done \/ InPending(t) \/ InBatch(t) \/ InHandler(t)
          BY <2>1, <4>1, <4>2 DEF ServerInv, WaitAsked
      <4>4. conn'[t].done \/ InPending(t)' \/ InBatch(t)' \/ InHandler(t)'
          BY <4>2, <4>3, <1>7, <1>16
      <4> QED BY <4>1, <4>2, <4>4
    <3> QED BY <3>1, <3>2
  <2> QED BY <2>1 DEF WaitAsked
<1>20. OneVerdict'
  <2>1. ASSUME NEW t \in Sockets
        PROVE  /\ ~(conn'[t].done /\ conn'[t].abandoned)
               /\ fate[t] = "timeout" <=> conn'[t].abandoned
               /\ fate[t] \in {"handler", "error", "refused", "reloading"} => conn'[t].res = fate[t]
               /\ fate[t] \in {"subscribed", "stream"} => conn'[t].res = "stream"
    <3>1. CASE t = s
        BY <3>1, <1>6, <1>7, <1>12
    <3>2. CASE t # s
        BY <3>2, <1>7 DEF ServerInv, OneVerdict
    <3> QED BY <3>1, <3>2
  <2> QED BY <1>2, <2>1 DEF OneVerdict
<1>21. Upgrades'
  <2>1. \A v \in Workers : worker'[v].at = "upgrading" =>
            worker[v].at = "upgrading" /\ worker'[v] = worker[v] /\ conn'[worker[v].sock] = conn[worker[v].sock]
      BY <1>5, <1>7, <1>14 DEF HasSocket, ServerInv, SocketHeldOnce
  <2>2. \A v \in Workers : worker'[v].at = "upgrading" => conn'[worker'[v].sock].res = "stream"
      BY <2>1 DEF ServerInv, Upgrades
  <2>3. \A t \in Sockets : conn'[t].done => conn'[t].res \in Answers
      BY <1>6, <1>7 DEF ServerInv, Upgrades
  <2> QED BY <2>2, <2>3 DEF Upgrades
<1>22. GameTurns' /\ StopLeavesNothing'
    BY <1>1, <1>2, SameTurns, Listens DEF ServerInv, StopLeavesNothing
<1>23. Outboxes'
  <2>1. \A v \in Workers : /\ worker'[v].at \in {"streaming", "leaving"} <=> worker[v].at \in {"streaming", "leaving"}
                           /\ worker[v].at \in {"streaming", "leaving"} => worker'[v].sock = worker[v].sock
      BY <1>1, <1>5
  <2> QED BY <1>2, <2>1, SameStreams DEF ServerInv
<1> QED BY <1>11, <1>13, <1>17, <1>18, <1>19, <1>20, <1>21, <1>22, <1>23 DEF ServerInv

\* The headers are sent: the session is one that push reaches.
LEMMA SubscribeKeeps ==
    ASSUME ServerInv, NEW w \in Workers, Subscribe(w)
    PROVE  ServerInv'
<1>1. worker[w].at = "upgrading" /\ Move(w, "streaming")
    BY DEF Subscribe
<1>2. UNCHANGED <<listening, stopping, acceptor, queue, listens, pc, batch, handling, pending, conn, outbox, pushes, received>>
      /\ UNCHANGED requests /\ UNCHANGED <<routes, game>>
    BY DEF Subscribe, game, requests
<1>3. PICK s \in Sockets : s = worker[w].sock
    BY <1>1 DEF ServerInv, SocketHeldOnce, HasSocket
<1>4. Becomes(w, "streaming", s)
    BY <1>1, <1>3, MoveFacts DEF ServerInv, WorkerStates
<1>5. worker' \in [Workers -> ServerWorker] /\ (\A v \in Workers : v # w => worker'[v] = worker[v])
      /\ worker'[w].at = "streaming" /\ worker'[w].sock = s
    BY <1>4 DEF Becomes
<1>6. fate' \in [Sockets -> Fates] /\ fate'[s] = "subscribed" /\ \A t \in Sockets : t # s => fate'[t] = fate[t]
    BY <1>3 DEF Subscribe, ServerInv, ServerTypeOK, Fates
<1>7. DOMAIN clients' = DOMAIN clients \cup {s}
      /\ (\A t \in DOMAIN clients' : clients'[t] \in BOOLEAN)
  <2>1. clients' = [t \in DOMAIN clients \cup {s} |-> IF t = s THEN FALSE ELSE clients[t]]
      BY <1>3 DEF Subscribe
  <2> QED BY <2>1 DEF ServerInv, ServerTypeOK
<1>8. fate[s] = "open" /\ conn[s].res = "stream"
    BY <1>1, <1>3 DEF ServerInv, FatesTold, Upgrades
<1>9. ServerTypeOK'
    BY <1>2, <1>3, <1>5, <1>6, <1>7 DEF ServerInv, ServerTypeOK, ServerWorker, game
<1>10. SocketHeldOnce' /\ FatesTold'
    BY <1>1, <1>2, <1>3, <1>4, <1>6, KeepsSocket DEF ServerInv, HasSocket
<1>11. AskedOnce' /\ AskedWait' /\ WaitAsked'
  <2>1. \A v \in Workers : /\ worker'[v].at = "parked" <=> worker[v].at = "parked"
                           /\ worker[v].at = "parked" => worker'[v].sock = worker[v].sock
      BY <1>1, <1>5
  <2> QED BY <1>2, <2>1, SameRequests DEF ServerInv
<1>12. OneVerdict'
  <2>1. ASSUME NEW t \in Sockets
        PROVE  /\ ~(conn[t].done /\ conn[t].abandoned)
               /\ fate'[t] = "timeout" <=> conn[t].abandoned
               /\ fate'[t] \in {"handler", "error", "refused", "reloading"} => conn[t].res = fate'[t]
               /\ fate'[t] \in {"subscribed", "stream"} => conn[t].res = "stream"
    <3>1. CASE t = s
        BY <3>1, <1>6, <1>8 DEF ServerInv, OneVerdict
    <3>2. CASE t # s
        BY <3>2, <1>6 DEF ServerInv, OneVerdict
    <3> QED BY <3>1, <3>2
  <2> QED BY <1>2, <2>1 DEF OneVerdict
<1>13. Upgrades'
  <2>1. \A v \in Workers : worker'[v].at = "upgrading" =>
                worker[v].at = "upgrading" /\ worker'[v].sock = worker[v].sock
      BY <1>5
  <2> QED BY <1>2, <2>1, SameUpgrades DEF ServerInv
<1>14. GameTurns' /\ StopLeavesNothing'
    BY <1>1, <1>2, SameTurns, Listens DEF ServerInv, StopLeavesNothing
<1>15. SubscribersAreSessions'
  <2>1. ASSUME NEW t
        PROVE  t \in DOMAIN clients' <=> \E v \in Workers : worker'[v].at \in {"streaming", "leaving"} /\ worker'[v].sock = t
    <3>1. t \in DOMAIN clients <=> \E v \in Workers : worker[v].at \in {"streaming", "leaving"} /\ worker[v].sock = t
        BY DEF ServerInv, Outboxes, SubscribersAreSessions
    <3>2. ASSUME NEW v \in Workers, worker[v].at \in {"streaming", "leaving"}, worker[v].sock = t
          PROVE  \E u \in Workers : worker'[u].at \in {"streaming", "leaving"} /\ worker'[u].sock = t
      <4>1. worker'[v] = worker[v]
          BY <1>1, <1>5, <3>2
      <4> QED BY <3>2, <4>1
    <3>3. ASSUME NEW v \in Workers, worker'[v].at \in {"streaming", "leaving"}, worker'[v].sock = t, t # s
          PROVE  \E u \in Workers : worker[u].at \in {"streaming", "leaving"} /\ worker[u].sock = t
      <4>1. worker'[v] = worker[v]
          BY <1>5, <3>3
      <4> QED BY <3>3, <4>1
    <3>4. t = s => \E v \in Workers : worker'[v].at \in {"streaming", "leaving"} /\ worker'[v].sock = t
        BY <1>5
    <3> QED BY <1>7, <3>1, <3>2, <3>3, <3>4
  <2> QED BY <2>1 DEF SubscribersAreSessions
<1>16. Outboxes'
    BY <1>2, <1>7, <1>15 DEF ServerInv, Outboxes, Increasing
<1> QED BY <1>9, <1>10, <1>11, <1>12, <1>13, <1>14, <1>16 DEF ServerInv

\* The number of a message that waits in an outbox says how many are ahead.
Numbered(box, got) ==
    /\ \A k \in 1..Len(box) : box[k] = pushes - Len(box) + k
    /\ \A k \in 1..Len(got) : got[k] <= pushes - Len(box)
    /\ Increasing(got)

LEMMA OutboxFacts ==
    ASSUME ServerInv, NEW s \in Sockets
    PROVE  /\ outbox[s] \in Seq(1..MaxPushes) /\ received[s] \in Seq(1..MaxPushes)
           /\ pushes \in Int /\ Len(outbox[s]) <= MaxOutbox
           /\ Numbered(outbox[s], received[s])
BY DEF ServerInv, ServerTypeOK, Outboxes, Numbered

\* The head of an outbox leaves it.
LEMMA TailFacts ==
    ASSUME NEW N \in Nat, NEW box \in Seq(1..N), box # <<>>, NEW got \in Seq(1..N), pushes \in Int,
           Numbered(box, got)
    PROVE  /\ Tail(box) \in Seq(1..N) /\ Len(Tail(box)) = Len(box) - 1
           /\ Len(box) \in Nat \ {0}
           /\ Numbered(Tail(box), got)
           /\ Append(got, Head(box)) \in Seq(1..N)
           /\ Numbered(Tail(box), Append(got, Head(box)))
<1>1. PICK n \in Nat : n = Len(box)
    OBVIOUS
<1>2. PICK m \in Nat : m = Len(got)
    OBVIOUS
<1>3. n >= 1 /\ Head(box) = box[1] /\ box[1] \in 1..N
    BY <1>1
<1>4. Tail(box) \in Seq(1..N) /\ Len(Tail(box)) = n - 1 /\ \A k \in 1..(n - 1) : Tail(box)[k] = box[k + 1]
    BY <1>1, <1>3
<1>5. PICK first \in 1..N : first = Head(box)
    BY <1>3
<1>6. PICK all : all = Append(got, first)
    OBVIOUS
<1>7. all \in Seq(1..N) /\ Len(all) = m + 1 /\ all[m + 1] = first /\ \A k \in 1..m : all[k] = got[k]
    BY <1>2, <1>5, <1>6
<1>8. (\A k \in 1..n : box[k] = pushes - n + k) /\ (\A k \in 1..m : got[k] <= pushes - n)
      /\ (\A j, k \in 1..m : j < k => got[j] < got[k])
    BY <1>1, <1>2 DEF Numbered, Increasing
<1>9. first = pushes - n + 1
    BY <1>3, <1>5, <1>8
<1>10. \A k \in 1..(n - 1) : Tail(box)[k] = pushes - (n - 1) + k
    BY <1>4, <1>8
<1>11. \A k \in 1..m : got[k] \in Int /\ got[k] <= pushes - (n - 1) /\ got[k] < first
  <2>1. \A k \in 1..m : got[k] \in 1..N
      BY <1>2
  <2> QED BY <2>1, <1>8, <1>9
<1>12. \A k \in 1..(m + 1) : all[k] <= pushes - (n - 1)
  <2>1. ASSUME NEW k \in 1..(m + 1)
        PROVE  all[k] <= pushes - (n - 1)
    <3>1. CASE k = m + 1
        BY <3>1, <1>7, <1>9
    <3>2. CASE k # m + 1
        BY <3>2, <1>7, <1>11
    <3> QED BY <3>1, <3>2
  <2> QED BY <2>1
<1>13. \A j, k \in 1..(m + 1) : j < k => all[j] < all[k]
  <2>1. ASSUME NEW j \in 1..(m + 1), NEW k \in 1..(m + 1), j < k
        PROVE  all[j] < all[k]
    <3>1. j \in 1..m /\ all[j] = got[j]
        BY <2>1, <1>7
    <3>2. CASE k = m + 1
        BY <3>1, <3>2, <1>7, <1>11
    <3>3. CASE k # m + 1
        BY <2>1, <3>1, <3>3, <1>7, <1>8
    <3> QED BY <3>2, <3>3
  <2> QED BY <2>1
<1>14. Numbered(Tail(box), got)
    BY <1>2, <1>4, <1>8, <1>10, <1>11 DEF Numbered, Increasing
<1>15. Numbered(Tail(box), all)
    BY <1>4, <1>7, <1>10, <1>12, <1>13 DEF Numbered, Increasing
<1> QED BY <1>1, <1>3, <1>4, <1>5, <1>6, <1>7, <1>14, <1>15

\* A step of a session that only reads its outbox.
LEMMA OutboxesFrom ==
    ASSUME ServerTypeOK, Outboxes, UNCHANGED <<clients, pushes>>, NEW s \in DOMAIN clients,
           \A v \in Workers : /\ worker'[v].at \in {"streaming", "leaving"} <=> worker[v].at \in {"streaming", "leaving"}
                              /\ worker[v].at \in {"streaming", "leaving"} => worker'[v].sock = worker[v].sock,
           \A t \in Sockets : t # s => outbox'[t] = outbox[t] /\ received'[t] = received[t],
           Numbered(outbox'[s], received'[s])
    PROVE  Outboxes'
<1>1. SubscribersAreSessions'
    BY DEF Outboxes, SubscribersAreSessions
<1>2. \A t \in Sockets : t \notin DOMAIN clients => outbox'[t] = <<>> /\ received'[t] = <<>>
    BY DEF Outboxes
<1>3. ASSUME NEW t \in Sockets
      PROVE  Numbered(outbox'[t], received'[t])
  <2>1. Numbered(outbox[t], received[t])
      BY DEF Outboxes, Numbered
  <2> QED BY <2>1
<1> QED BY <1>1, <1>2, <1>3 DEF Outboxes, Numbered, Increasing

LEMMA SendKeeps ==
    ASSUME Parameters, ServerInv, NEW w \in Workers, Send(w)
    PROVE  ServerInv'
<1>1. worker[w].at = "streaming"
    BY DEF Send
<1>2. UNCHANGED <<listening, stopping, acceptor, worker, queue, listens, pending, conn, pc, batch, handling, fate, clients, pushes>>
      /\ UNCHANGED <<pool, requests, routes, game>>
    BY DEF Send, pool, requests, game
<1>3. PICK s \in DOMAIN clients : s = worker[w].sock
    BY <1>1 DEF ServerInv, Outboxes, SubscribersAreSessions
<1>4. s \in Sockets
    BY DEF ServerInv, ServerTypeOK
<1>5. PICK box \in Seq(1..MaxPushes) : box = outbox[s]
    BY <1>4, OutboxFacts
<1>6. PICK got \in Seq(1..MaxPushes) : got = received[s]
    BY <1>4, OutboxFacts
<1>7. box # <<>> /\ received' = [received EXCEPT ![s] = Append(got, Head(box))]
      /\ outbox' = [outbox EXCEPT ![s] = Tail(box)]
    BY <1>3, <1>4, <1>5, <1>6 DEF Send, ServerInv, ServerTypeOK
<1>8. /\ Tail(box) \in Seq(1..MaxPushes) /\ Len(Tail(box)) = Len(box) - 1
      /\ Len(box) \in Nat \ {0}
      /\ Append(got, Head(box)) \in Seq(1..MaxPushes)
      /\ Numbered(Tail(box), Append(got, Head(box)))
    BY <1>4, <1>5, <1>6, <1>7, OutboxFacts, TailFacts DEF Parameters
<1>9. Len(Tail(box)) <= MaxOutbox
    BY <1>4, <1>5, <1>8, OutboxFacts DEF Parameters
<1>10. /\ outbox' \in [Sockets -> Seq(1..MaxPushes)] /\ received' \in [Sockets -> Seq(1..MaxPushes)]
       /\ outbox'[s] = Tail(box) /\ received'[s] = Append(got, Head(box))
       /\ \A t \in Sockets : t # s => outbox'[t] = outbox[t] /\ received'[t] = received[t]
    BY <1>4, <1>7, <1>8 DEF ServerInv, ServerTypeOK
<1>11. \A t \in Sockets : Len(outbox'[t]) <= MaxOutbox
    BY <1>9, <1>10 DEF ServerInv, ServerTypeOK
<1>12. ServerTypeOK'
    BY <1>2, <1>10, <1>11 DEF ServerInv, ServerTypeOK, game
<1>13. SocketHeldOnce' /\ FatesTold'
    BY <1>2 DEF ServerInv, SocketHeldOnce, FatesTold
<1>14. AskedOnce' /\ AskedWait' /\ WaitAsked'
    BY <1>2, SameRequests DEF ServerInv
<1>15. OneVerdict' /\ Upgrades' /\ GameTurns' /\ StopLeavesNothing'
    BY <1>2 DEF ServerInv, OneVerdict, Upgrades, GameTurns, StopLeavesNothing
<1>16. Outboxes'
    BY <1>2, <1>8, <1>10, OutboxesFrom DEF ServerInv
<1> QED BY <1>12, <1>13, <1>14, <1>15, <1>16 DEF ServerInv

LEMMA SendFailsKeeps ==
    ASSUME Parameters, ServerInv, NEW w \in Workers, SendFails(w)
    PROVE  ServerInv'
<1>1. worker[w].at = "streaming" /\ Move(w, "leaving")
    BY DEF SendFails
<1>2. UNCHANGED <<listening, stopping, acceptor, queue, listens, pending, conn, pc, batch, handling, fate, clients, pushes, received>>
      /\ UNCHANGED <<requests, routes, game>>
    BY DEF SendFails, requests, game
<1>3. PICK s \in DOMAIN clients : s = worker[w].sock
    BY <1>1 DEF ServerInv, Outboxes, SubscribersAreSessions
<1>4. s \in Sockets /\ MaxPushes \in Nat
    BY DEF ServerInv, ServerTypeOK, Parameters
<1>5. PICK box \in Seq(1..MaxPushes) : box = outbox[s]
    BY <1>4, OutboxFacts
<1>6. PICK got \in Seq(1..MaxPushes) : got = received[s]
    BY <1>4, OutboxFacts
<1>7. PICK left : left = IF box = <<>> THEN <<>> ELSE Tail(box)
    OBVIOUS
<1>8. outbox' = [outbox EXCEPT ![s] = left]
    BY <1>3, <1>4, <1>5, <1>7 DEF SendFails, ServerInv, ServerTypeOK
<1>9. left \in Seq(1..MaxPushes) /\ Len(left) <= MaxOutbox /\ Numbered(left, got)
  <2>1. CASE box = <<>>
    <3>1. left = box
        BY <1>7, <2>1
    <3> QED BY <3>1, <1>4, <1>5, <1>6, OutboxFacts
  <2>2. CASE box # <<>>
    <3>1. left = Tail(box)
        BY <1>7, <2>2
    <3>2. /\ Tail(box) \in Seq(1..MaxPushes) /\ Len(Tail(box)) = Len(box) - 1
          /\ Len(box) \in Nat \ {0} /\ Numbered(Tail(box), got)
        BY <1>4, <1>5, <1>6, <2>2, OutboxFacts, TailFacts
    <3>3. Len(Tail(box)) <= MaxOutbox
        BY <1>4, <1>5, <3>2, OutboxFacts DEF Parameters
    <3> QED BY <3>1, <3>2, <3>3
  <2> QED BY <2>1, <2>2
<1>10. /\ outbox' \in [Sockets -> Seq(1..MaxPushes)] /\ outbox'[s] = left
       /\ \A t \in Sockets : t # s => outbox'[t] = outbox[t]
    BY <1>4, <1>8, <1>9 DEF ServerInv, ServerTypeOK
<1>11. Becomes(w, "leaving", s)
    BY <1>1, <1>3, MoveFacts DEF ServerInv, WorkerStates
<1>12. worker' \in [Workers -> ServerWorker] /\ (\A v \in Workers : v # w => worker'[v] = worker[v])
       /\ worker'[w].at = "leaving" /\ worker'[w].sock = s
    BY <1>11 DEF Becomes
<1>13. ServerTypeOK'
  <2>1. \A t \in Sockets : Len(outbox'[t]) <= MaxOutbox
      BY <1>9, <1>10 DEF ServerInv, ServerTypeOK
  <2> QED BY <1>2, <1>10, <1>12, <2>1 DEF ServerInv, ServerTypeOK, ServerWorker, game
<1>14. fate[s] = "subscribed"
    BY <1>1, <1>3 DEF ServerInv, FatesTold
<1>15. SocketHeldOnce' /\ FatesTold'
    BY <1>1, <1>2, <1>3, <1>11, <1>14, KeepsSocket DEF ServerInv, HasSocket
<1>16. AskedOnce' /\ AskedWait' /\ WaitAsked'
  <2>1. \A v \in Workers : /\ worker'[v].at = "parked" <=> worker[v].at = "parked"
                           /\ worker[v].at = "parked" => worker'[v].sock = worker[v].sock
      BY <1>1, <1>12
  <2> QED BY <1>2, <2>1, SameRequests DEF ServerInv
<1>17. OneVerdict' /\ Upgrades'
  <2>1. \A v \in Workers : worker'[v].at = "upgrading" =>
                worker[v].at = "upgrading" /\ worker'[v].sock = worker[v].sock
      BY <1>12
  <2> QED BY <1>2, <2>1, SameVerdicts, SameUpgrades DEF ServerInv
<1>18. GameTurns' /\ StopLeavesNothing'
    BY <1>1, <1>2, SameTurns, Listens DEF ServerInv, StopLeavesNothing
<1>19. Outboxes'
  <2>1. \A v \in Workers : /\ worker'[v].at \in {"streaming", "leaving"} <=> worker[v].at \in {"streaming", "leaving"}
                           /\ worker[v].at \in {"streaming", "leaving"} => worker'[v].sock = worker[v].sock
      BY <1>1, <1>3, <1>12
  <2>2. \A t \in Sockets : t # s => outbox'[t] = outbox[t] /\ received'[t] = received[t]
      BY <1>2, <1>10
  <2>3. Numbered(outbox'[s], received'[s])
      BY <1>2, <1>6, <1>9, <1>10
  <2> QED BY <1>2, <2>1, <2>2, <2>3, OutboxesFrom DEF ServerInv
<1> QED BY <1>13, <1>15, <1>16, <1>17, <1>18, <1>19 DEF ServerInv

\* The subscriber is taken out before the socket is closed.
LEMMA LeaveKeeps ==
    ASSUME Parameters, ServerInv, NEW w \in Workers, LeaveSession(w)
    PROVE  ServerInv'
<1>1. worker[w].at = "leaving" /\ Finish(w, "stream")
    BY DEF LeaveSession
<1>2. UNCHANGED <<listening, stopping, acceptor, queue, listens, pending, conn, pc, batch, handling, pushes>>
      /\ UNCHANGED <<requests, routes, game>>
    BY DEF LeaveSession, requests, game
<1>3. HasSocket(worker[w].at) /\ "stream" \in Fates
    BY <1>1 DEF HasSocket, Fates, Answers
<1>4. PICK s \in Sockets : s = worker[w].sock
    BY <1>3 DEF ServerInv, SocketHeldOnce
<1>5. /\ Becomes(w, "ready", None)
      /\ fate' \in [Sockets -> Fates] /\ fate'[s] = "stream"
      /\ \A t \in Sockets : t # s => fate'[t] = fate[t]
    BY <1>1, <1>3, <1>4, FinishFacts DEF ServerInv
<1>6. worker' \in [Workers -> ServerWorker] /\ (\A v \in Workers : v # w => worker'[v] = worker[v])
      /\ worker'[w].at = "ready"
    BY <1>5 DEF Becomes
<1>7. DOMAIN clients' = DOMAIN clients \ {s} /\ \A t \in DOMAIN clients' : clients'[t] = clients[t]
  <2>1. clients' = [t \in DOMAIN clients \ {s} |-> clients[t]]
      BY <1>4 DEF LeaveSession
  <2> QED BY <2>1
<1>8. /\ outbox' = [outbox EXCEPT ![s] = <<>>] /\ received' = [received EXCEPT ![s] = <<>>]
    BY <1>4 DEF LeaveSession
<1>9. /\ outbox' \in [Sockets -> Seq(1..MaxPushes)] /\ outbox'[s] = <<>>
      /\ received' \in [Sockets -> Seq(1..MaxPushes)] /\ received'[s] = <<>>
      /\ \A t \in Sockets : t # s => outbox'[t] = outbox[t] /\ received'[t] = received[t]
    BY <1>4, <1>8 DEF ServerInv, ServerTypeOK
<1>10. ServerTypeOK'
  <2>1. \A t \in Sockets : Len(outbox'[t]) <= MaxOutbox
    <3>1. Len(outbox'[s]) <= MaxOutbox
        BY <1>9 DEF Parameters
    <3> QED BY <3>1, <1>9 DEF ServerInv, ServerTypeOK
  <2> QED BY <1>2, <1>5, <1>6, <1>7, <1>9, <2>1 DEF ServerInv, ServerTypeOK, ServerWorker, game
<1>11. fate[s] = "subscribed"
    BY <1>1, <1>4 DEF ServerInv, FatesTold
<1>12. SocketHeldOnce' /\ FatesTold'
    BY <1>2, <1>3, <1>4, <1>5, Releases DEF ServerInv
<1>13. AskedOnce' /\ AskedWait' /\ WaitAsked'
  <2>1. \A v \in Workers : /\ worker'[v].at = "parked" <=> worker[v].at = "parked"
                           /\ worker[v].at = "parked" => worker'[v].sock = worker[v].sock
      BY <1>1, <1>6
  <2> QED BY <1>2, <2>1, SameRequests DEF ServerInv
<1>14. OneVerdict'
  <2>1. ASSUME NEW t \in Sockets
        PROVE  /\ ~(conn[t].done /\ conn[t].abandoned)
               /\ fate'[t] = "timeout" <=> conn[t].abandoned
               /\ fate'[t] \in {"handler", "error", "refused", "reloading"} => conn[t].res = fate'[t]
               /\ fate'[t] \in {"subscribed", "stream"} => conn[t].res = "stream"
    <3>1. CASE t = s
        BY <3>1, <1>5, <1>11 DEF ServerInv, OneVerdict
    <3>2. CASE t # s
        BY <3>2, <1>5 DEF ServerInv, OneVerdict
    <3> QED BY <3>1, <3>2
  <2> QED BY <1>2, <2>1 DEF OneVerdict
<1>15. Upgrades'
  <2>1. \A v \in Workers : worker'[v].at = "upgrading" =>
                worker[v].at = "upgrading" /\ worker'[v].sock = worker[v].sock
      BY <1>6
  <2> QED BY <1>2, <2>1, SameUpgrades DEF ServerInv
<1>16. GameTurns' /\ StopLeavesNothing'
    BY <1>1, <1>2, SameTurns, Listens DEF ServerInv, StopLeavesNothing
<1>17. SubscribersAreSessions'
  <2>1. ASSUME NEW t
        PROVE  t \in DOMAIN clients' <=> \E v \in Workers : worker'[v].at \in {"streaming", "leaving"} /\ worker'[v].sock = t
    <3>1. t \in DOMAIN clients <=> \E v \in Workers : worker[v].at \in {"streaming", "leaving"} /\ worker[v].sock = t
        BY DEF ServerInv, Outboxes, SubscribersAreSessions
    <3>2. ASSUME NEW v \in Workers, worker[v].at \in {"streaming", "leaving"}, worker[v].sock = t, t # s
          PROVE  \E u \in Workers : worker'[u].at \in {"streaming", "leaving"} /\ worker'[u].sock = t
      <4>1. worker'[v] = worker[v]
          BY <1>4, <1>6, <3>2
      <4> QED BY <3>2, <4>1
    <3>3. ASSUME NEW v \in Workers, worker'[v].at \in {"streaming", "leaving"}, worker'[v].sock = t
          PROVE  t # s /\ \E u \in Workers : worker[u].at \in {"streaming", "leaving"} /\ worker[u].sock = t
      <4>1. worker'[v] = worker[v] /\ v # w
          BY <1>6, <3>3
      <4>2. worker[v].sock # s
          BY <1>3, <1>4, <3>3, <4>1 DEF ServerInv, SocketHeldOnce, HasSocket
      <4> QED BY <3>3, <4>1, <4>2
    <3> QED BY <1>7, <3>1, <3>2, <3>3
  <2> QED BY <2>1 DEF SubscribersAreSessions
<1>18. Outboxes'
  <2>1. \A t \in Sockets : t \notin DOMAIN clients' => outbox'[t] = <<>> /\ received'[t] = <<>>
      BY <1>7, <1>9 DEF ServerInv, Outboxes
  <2>2. ASSUME NEW t \in Sockets
        PROVE  Numbered(outbox'[t], received'[t])
    <3>1. CASE t = s
        BY <3>1, <1>9 DEF Numbered, Increasing
    <3>2. CASE t # s
        BY <3>2, <1>9, OutboxFacts
    <3> QED BY <3>1, <3>2
  <2> QED BY <1>2, <1>17, <2>1, <2>2 DEF Outboxes, Numbered, Increasing
<1> QED BY <1>10, <1>12, <1>13, <1>14, <1>15, <1>16, <1>18 DEF ServerInv

-----------------------------------------------------------------------------
(* HttpServer: the acceptor                                                *)

LEMMA AcceptKeeps ==
    ASSUME ServerInv, NEW s \in Sockets, Accept(s)
    PROVE  ServerInv'
<1>1. acceptor.at = "selecting" /\ fate[s] = "outside"
    BY DEF Accept
<1>2. UNCHANGED <<listening, stopping, worker, queue, listens, pending, conn, pc, batch, handling>>
      /\ UNCHANGED requests /\ UNCHANGED streams /\ UNCHANGED <<routes, game>>
    BY DEF Accept, requests, game
<1>3. acceptor' \in [at : {"absent", "selecting", "accepted", "exited"}, sock : Sockets \cup {None}]
      /\ acceptor'.at = "accepted" /\ acceptor'.sock = s
    BY DEF Accept
<1>4. fate' \in [Sockets -> Fates] /\ fate'[s] = "open" /\ \A t \in Sockets : t # s => fate'[t] = fate[t]
    BY DEF Accept, ServerInv, ServerTypeOK, Fates
<1>5. ServerTypeOK'
    BY <1>2, <1>3, <1>4, PoolTypes, WorkerFacts DEF ServerInv, ServerTypeOK
<1>6. /\ \A k \in 1..Len(queue) : queue[k] # s
      /\ \A v \in Workers : HasSocket(worker[v].at) => worker[v].sock # s
    BY <1>1 DEF ServerInv, FatesTold, HasSocket
<1>7. SocketHeldOnce'
    BY <1>1, <1>2, <1>3, <1>6 DEF ServerInv, SocketHeldOnce
<1>8. FatesTold'
  <2>1. \A k \in 1..Len(queue) : fate'[queue[k]] = "open"
    <3>1. queue \in Seq(Sockets) /\ \A k \in 1..Len(queue) : fate[queue[k]] = "open"
        BY DEF ServerInv, FatesTold, ServerTypeOK
    <3>2. \A k \in 1..Len(queue) : queue[k] \in Sockets
        BY <3>1
    <3> QED BY <1>4, <1>6, <3>1, <3>2, Zenon
  <2>2. \A v \in Workers : HasSocket(worker[v].at) => fate'[worker[v].sock] = fate[worker[v].sock]
      BY <1>4, <1>6 DEF ServerInv, SocketHeldOnce
  <2>3. \A v \in Workers :
          /\ worker[v].at \in {"reading", "header", "parked", "upgrading"} => fate'[worker[v].sock] = "open"
          /\ worker[v].at \in {"streaming", "leaving"} => fate'[worker[v].sock] = "subscribed"
      BY <2>2 DEF ServerInv, FatesTold, HasSocket
  <2>4. \A t \in Sockets : fate'[t] \in {"open", "subscribed"} =>
            \/ s = t
            \/ \E k \in 1..Len(queue) : queue[k] = t
            \/ \E v \in Workers : HasSocket(worker[v].at) /\ worker[v].sock = t
      BY <1>1, <1>4 DEF ServerInv, FatesTold
  <2> QED BY <1>2, <1>3, <1>4, <2>1, <2>3, <2>4 DEF FatesTold
<1>9. AskedOnce' /\ AskedWait' /\ WaitAsked'
    BY <1>2, SameRequests DEF ServerInv
<1>10. OneVerdict'
    BY <1>1, <1>2, <1>4, SameVerdicts DEF ServerInv
<1>11. Upgrades' /\ GameTurns' /\ StopLeavesNothing'
    BY <1>1, <1>2, Listens DEF ServerInv, Upgrades, GameTurns, StopLeavesNothing
<1>12. Outboxes'
    BY <1>2, SameStreams DEF ServerInv
<1> QED BY <1>5, <1>7, <1>8, <1>9, <1>10, <1>11, <1>12 DEF ServerInv

LEMMA AcceptorExitsKeeps ==
    ASSUME ServerInv, AcceptorExits
    PROVE  ServerInv'
<1>1. acceptor.at = "selecting"
    BY DEF AcceptorExits
<1>2. UNCHANGED <<listening, stopping, worker, queue, listens, pending, conn, pc, batch, handling, fate>>
      /\ UNCHANGED requests /\ UNCHANGED streams /\ UNCHANGED <<routes, game>>
    BY DEF AcceptorExits, requests, game
<1>3. acceptor' \in [at : {"absent", "selecting", "accepted", "exited"}, sock : Sockets \cup {None}]
      /\ acceptor'.at = "exited"
    BY DEF AcceptorExits
<1>4. ServerTypeOK'
    BY <1>2, <1>3, PoolTypes, WorkerFacts DEF ServerInv, ServerTypeOK
<1>5. SocketHeldOnce' /\ FatesTold'
    BY <1>1, <1>2, <1>3 DEF ServerInv, SocketHeldOnce, FatesTold
<1>6. AskedOnce' /\ AskedWait' /\ WaitAsked'
    BY <1>2, SameRequests DEF ServerInv
<1>7. OneVerdict' /\ Upgrades' /\ GameTurns' /\ StopLeavesNothing'
    BY <1>1, <1>2, Listens DEF ServerInv, OneVerdict, Upgrades, GameTurns, StopLeavesNothing
<1>8. Outboxes'
    BY <1>2, SameStreams DEF ServerInv
<1> QED BY <1>4, <1>5, <1>6, <1>7, <1>8 DEF ServerInv

LEMMA EnqueueKeeps ==
    ASSUME Parameters, ServerInv, Enqueue
    PROVE  ServerInv'
<1>1. acceptor.at = "accepted" /\ acceptor' = [at |-> "selecting", sock |-> None]
    BY DEF Enqueue
<1>2. UNCHANGED <<listening, stopping, listens, pending, conn, pc, batch, handling>>
      /\ UNCHANGED requests /\ UNCHANGED streams /\ UNCHANGED <<routes, game>>
    BY DEF Enqueue, requests, game
<1>3. acceptor' \in [at : {"absent", "selecting", "accepted", "exited"}, sock : Sockets \cup {None}]
      /\ acceptor'.at = "selecting"
    BY <1>1
<1>4. PICK s \in Sockets : s = acceptor.sock
    BY <1>1 DEF ServerInv, SocketHeldOnce
<1>5. fate[s] = "open"
    BY <1>1, <1>4 DEF ServerInv, FatesTold
<1>6. PICK n \in Nat : n = Len(queue)
    BY DEF ServerInv, ServerTypeOK
<1>7. queue \in Seq(Sockets) /\ MaxQueue \in Nat
    BY DEF ServerInv, ServerTypeOK, Parameters
<1>8. /\ \A j, k \in 1..n : queue[j] = queue[k] => j = k
      /\ \A k \in 1..n : queue[k] # s /\ fate[queue[k]] = "open" /\ queue[k] \in Sockets
      /\ \A v \in Workers : HasSocket(worker[v].at) =>
            worker[v].sock # s /\ worker[v].sock \in Sockets /\ \A k \in 1..n : queue[k] # worker[v].sock
    BY <1>1, <1>4, <1>6, <1>7 DEF ServerInv, SocketHeldOnce, FatesTold
<1>9. CASE n >= MaxQueue
  <2>1. UNCHANGED <<queue, worker>> /\ fate' = [fate EXCEPT ![s] = "dropped"]
      BY <1>4, <1>6, <1>9 DEF Enqueue
  <2>2. fate' \in [Sockets -> Fates] /\ fate'[s] = "dropped" /\ \A t \in Sockets : t # s => fate'[t] = fate[t]
      BY <2>1 DEF ServerInv, ServerTypeOK, Fates
  <2>3. ServerTypeOK'
      BY <1>2, <1>3, <2>1, <2>2, PoolTypes, WorkerFacts DEF ServerInv, ServerTypeOK
  <2>4. SocketHeldOnce'
      BY <1>3, <2>1 DEF ServerInv, SocketHeldOnce
  <2>5. FatesTold'
    <3>1. \A k \in 1..n : fate'[queue[k]] = "open"
        BY <1>8, <2>2
    <3>2. \A v \in Workers : HasSocket(worker[v].at) => fate'[worker[v].sock] = fate[worker[v].sock]
        BY <1>8, <2>2
    <3>3. \A v \in Workers :
            /\ worker[v].at \in {"reading", "header", "parked", "upgrading"} => fate'[worker[v].sock] = "open"
            /\ worker[v].at \in {"streaming", "leaving"} => fate'[worker[v].sock] = "subscribed"
        BY <3>2 DEF ServerInv, FatesTold, HasSocket
    <3>4. \A t \in Sockets : fate'[t] \in {"open", "subscribed"} =>
              \/ \E k \in 1..Len(queue) : queue[k] = t
              \/ \E v \in Workers : HasSocket(worker[v].at) /\ worker[v].sock = t
        BY <1>4, <2>2 DEF ServerInv, FatesTold
    <3> QED BY <1>3, <1>6, <2>1, <3>1, <3>3, <3>4 DEF FatesTold
  <2>6. AskedOnce' /\ AskedWait' /\ WaitAsked'
      BY <1>2, <2>1, SameRequests DEF ServerInv
  <2>7. OneVerdict'
      BY <1>2, <1>5, <2>2, SameVerdicts DEF ServerInv
  <2>8. Upgrades' /\ GameTurns' /\ StopLeavesNothing'
      BY <1>1, <1>2, <2>1, Listens DEF ServerInv, Upgrades, GameTurns, StopLeavesNothing
  <2>9. Outboxes'
      BY <1>2, <2>1, SameStreams DEF ServerInv
  <2> QED BY <2>3, <2>4, <2>5, <2>6, <2>7, <2>8, <2>9 DEF ServerInv
<1>10. CASE n < MaxQueue
  <2>1. queue' = Append(queue, s) /\ worker' \in Woken /\ UNCHANGED fate
      BY <1>4, <1>6, <1>7, <1>10 DEF Enqueue
  <2>2. queue' \in Seq(Sockets) /\ Len(queue') = n + 1 /\ queue'[n + 1] = s
        /\ \A k \in 1..n : queue'[k] = queue[k]
      BY <1>6, <1>7, <2>1
  <2>3. Wakes
      BY <2>1, WokenFacts DEF ServerInv
  <2>4. worker' \in [Workers -> ServerWorker]
      BY <2>3 DEF Wakes
  <2>5. \A v \in Workers :
              /\ worker'[v].sock = worker[v].sock
              /\ HasSocket(worker'[v].at) <=> HasSocket(worker[v].at)
              /\ \A at \in {"reading", "header", "parked", "upgrading", "streaming", "leaving", "absent", "exited"} :
                    worker'[v].at = at <=> worker[v].at = at
      BY <2>3, WakesKeeps
  <2>6. ServerTypeOK'
    <3>1. Len(queue') <= MaxQueue
        BY <1>7, <1>10, <2>2
    <3> QED BY <1>2, <1>3, <2>1, <2>2, <2>4, <3>1, PoolTypes DEF ServerInv, ServerTypeOK
  <2>7. SocketHeldOnce'
    <3>1. \A j, k \in 1..(n + 1) : queue'[j] = queue'[k] => j = k
      <4>1. \A k \in 1..(n + 1) : k = n + 1 \/ (k \in 1..n /\ queue'[k] = queue[k] /\ queue'[k] # s)
          BY <1>8, <2>2
      <4> QED BY <1>8, <2>2, <4>1
    <3>2. \A v, u \in Workers :
            HasSocket(worker'[v].at) /\ HasSocket(worker'[u].at) /\ worker'[v].sock = worker'[u].sock => v = u
        BY <2>5 DEF ServerInv, SocketHeldOnce
    <3>3. \A v \in Workers : HasSocket(worker'[v].at) =>
            worker'[v].sock \in Sockets /\ \A k \in 1..(n + 1) : queue'[k] # worker'[v].sock
      <4>1. ASSUME NEW v \in Workers, HasSocket(worker'[v].at), NEW k \in 1..(n + 1)
            PROVE  queue'[k] # worker'[v].sock
        <5>1. worker[v].sock # s /\ \A j \in 1..n : queue[j] # worker[v].sock
            BY <1>8, <2>5, <4>1
        <5>2. CASE k = n + 1
            BY <2>2, <2>5, <5>1, <5>2
        <5>3. CASE k # n + 1
            BY <2>2, <2>5, <5>1, <5>3
        <5> QED BY <5>2, <5>3
      <4> QED BY <1>8, <2>5, <4>1
    <3> QED BY <1>3, <2>2, <3>1, <3>2, <3>3 DEF SocketHeldOnce
  <2>8. FatesTold'
    <3>1. \A k \in 1..(n + 1) : fate[queue'[k]] = "open"
      <4>1. \A k \in 1..(n + 1) : k = n + 1 \/ (k \in 1..n /\ queue'[k] = queue[k])
          BY <2>2
      <4> QED BY <1>5, <1>8, <2>2, <4>1
    <3>2. \A v \in Workers :
            /\ worker'[v].at \in {"reading", "header", "parked", "upgrading"} => fate[worker'[v].sock] = "open"
            /\ worker'[v].at \in {"streaming", "leaving"} => fate[worker'[v].sock] = "subscribed"
        BY <2>5 DEF ServerInv, FatesTold
    <3>3. ASSUME NEW t \in Sockets, fate[t] \in {"open", "subscribed"}
          PROVE  \/ \E k \in 1..(n + 1) : queue'[k] = t
                 \/ \E v \in Workers : HasSocket(worker'[v].at) /\ worker'[v].sock = t
      <4>1. CASE t = s
          BY <2>2, <4>1
      <4>2. CASE \E k \in 1..Len(queue) : queue[k] = t
        <5>1. PICK k \in 1..n : queue[k] = t
            BY <1>6, <4>2
        <5>2. k \in 1..(n + 1) /\ queue'[k] = t
            BY <2>2, <5>1
        <5> QED BY <5>2
      <4>3. CASE \E v \in Workers : HasSocket(worker[v].at) /\ worker[v].sock = t
          BY <2>5, <4>3
      <4> QED BY <1>4, <3>3, <4>1, <4>2, <4>3 DEF ServerInv, FatesTold
    <3> QED BY <1>3, <2>1, <2>2, <3>1, <3>2, <3>3 DEF FatesTold
  <2>9. AskedOnce' /\ AskedWait' /\ WaitAsked'
      BY <1>2, <2>5, SameRequests DEF ServerInv
  <2>10. OneVerdict'
      BY <1>2, <2>1, SameVerdicts DEF ServerInv
  <2>11. UNCHANGED conn
      BY <1>2
  <2>12. Upgrades'
      BY <2>5, <2>11, SameUpgrades DEF ServerInv
  <2>13. GameTurns' /\ StopLeavesNothing'
      BY <1>1, <1>2, Listens, SameTurns DEF ServerInv, StopLeavesNothing
  <2>14. Outboxes'
      BY <1>2, <2>5, SameStreams DEF ServerInv
  <2> QED BY <2>6, <2>7, <2>8, <2>9, <2>10, <2>12, <2>13, <2>14 DEF ServerInv
<1> QED BY <1>6, <1>7, <1>9, <1>10

-----------------------------------------------------------------------------
(* HttpServer: Lua code                                                    *)

\* A step that leaves threads, requests and sessions alone.
LEMMA QuietKeeps ==
    ASSUME ServerInv, UNCHANGED <<acceptor, worker, queue, fate, pending, conn, batch, handling, streams, listening>>,
           stopping' \in BOOLEAN, listens' \in 0..MaxListens, detached' \in BOOLEAN, routes' \subseteq Route,
           pc' \in {"lua", "drain", "stopping", "joining"}, GameTurns'
    PROVE  ServerInv'
<1>1. UNCHANGED <<clients, outbox, pushes, received>> /\ UNCHANGED streams /\ UNCHANGED requests
    BY DEF streams, requests
<1>2. ServerTypeOK'
    BY <1>1 DEF ServerInv, ServerTypeOK
<1>3. SocketHeldOnce' /\ FatesTold'
    BY DEF ServerInv, SocketHeldOnce, FatesTold
<1>4. AskedOnce' /\ AskedWait' /\ WaitAsked'
    BY <1>1, SameRequests DEF ServerInv
<1>5. OneVerdict' /\ Upgrades' /\ StopLeavesNothing'
    BY DEF ServerInv, OneVerdict, Upgrades, StopLeavesNothing
<1>6. Outboxes'
    BY <1>1, SameStreams DEF ServerInv
<1> QED BY <1>2, <1>3, <1>4, <1>5, <1>6 DEF ServerInv

LEMMA AddRouteKeeps ==
    ASSUME ServerInv, NEW r \in Route, AddRoute(r)
    PROVE  ServerInv'
<1>1. UNCHANGED <<acceptor, worker, queue, fate, pending, conn, batch, handling, streams, listening>>
      /\ UNCHANGED <<stopping, listens, detached, pc>> /\ routes' = routes \cup {r}
    BY DEF AddRoute, pool, requests, game
<1>2. GameTurns'
    BY <1>1, SameTurns DEF ServerInv
<1> QED BY <1>1, <1>2, QuietKeeps DEF ServerInv, ServerTypeOK

LEMMA RemovePluginKeeps ==
    ASSUME ServerInv, NEW p \in Plugins, RemovePlugin(p)
    PROVE  ServerInv'
<1>1. UNCHANGED <<acceptor, worker, queue, fate, pending, conn, batch, handling, streams, listening>>
      /\ UNCHANGED <<stopping, listens, detached, pc>> /\ routes' \subseteq routes
    BY DEF RemovePlugin, pool, requests, game
<1>2. GameTurns'
    BY <1>1, SameTurns DEF ServerInv
<1> QED BY <1>1, <1>2, QuietKeeps DEF ServerInv, ServerTypeOK

LEMMA EndDrainKeeps ==
    ASSUME ServerInv, EndDrain
    PROVE  ServerInv'
<1>1. UNCHANGED <<acceptor, worker, queue, fate, pending, conn, batch, handling, streams, listening>>
      /\ UNCHANGED <<stopping, listens, detached, routes>> /\ pc' = "lua"
    BY DEF EndDrain, pool, requests
<1>2. GameTurns'
    BY <1>1 DEF EndDrain, GameTurns
<1> QED BY <1>1, <1>2, QuietKeeps DEF ServerInv, ServerTypeOK

\* Every session gets the message, and a full outbox loses its oldest.
LEMMA PushMessageKeeps ==
    ASSUME Parameters, ServerInv, PushMessage
    PROVE  ServerInv'
<1>1. UNCHANGED <<acceptor, worker, queue, fate, pending, conn, batch, handling, listening, stopping, listens, detached, pc,
                  routes, clients, received>> /\ UNCHANGED requests
      /\ pushes < MaxPushes /\ pushes' = pushes + 1
    BY DEF PushMessage, pool, requests, game
<1>2. pushes \in Nat /\ MaxPushes \in Nat /\ MaxOutbox \in Nat \ {0} /\ pushes' \in 1..MaxPushes
    BY <1>1 DEF ServerInv, ServerTypeOK, Parameters
<1>3. ASSUME NEW s \in Sockets
      PROVE  /\ outbox'[s] \in Seq(1..MaxPushes) /\ Len(outbox'[s]) <= MaxOutbox
             /\ s \notin DOMAIN clients => outbox'[s] = outbox[s]
             /\ Numbered(outbox[s], received[s])'
  <2>1. PICK box \in Seq(1..MaxPushes) : box = outbox[s]
      BY OutboxFacts
  <2>2. PICK got \in Seq(1..MaxPushes) : got = received[s]
      BY OutboxFacts
  <2>3. Numbered(box, got) /\ Len(box) <= MaxOutbox
      BY <2>1, <2>2, OutboxFacts
  <2>4. PICK last \in 1..MaxPushes : last = pushes + 1
      BY <1>1, <1>2
  <2>5. CASE s \notin DOMAIN clients
    <3>1. outbox'[s] = outbox[s]
        BY <2>5 DEF PushMessage
    <3>2. outbox[s] = <<>> /\ received[s] = <<>>
        BY <2>5 DEF ServerInv, Outboxes
    <3> QED BY <3>1, <3>2, <2>1, <2>3, <2>5, <1>1 DEF Numbered, Increasing
  <2>6. CASE s \in DOMAIN clients
    <3>1. PICK kept : kept = IF Len(box) >= MaxOutbox THEN Tail(box) ELSE box
        OBVIOUS
    <3>2. outbox'[s] = Append(kept, last)
        BY <2>1, <2>4, <2>6, <3>1 DEF PushMessage
    <3>3. kept \in Seq(1..MaxPushes) /\ Len(kept) < MaxOutbox /\ Numbered(kept, got)
      <4>1. CASE Len(box) >= MaxOutbox
        <5>1. box # <<>>
            BY <1>2, <4>1
        <5>2. Tail(box) \in Seq(1..MaxPushes) /\ Len(Tail(box)) = Len(box) - 1 /\ Numbered(Tail(box), got)
            BY <1>2, <2>3, <5>1, TailFacts
        <5>3. Len(box) \in Nat
            OBVIOUS
        <5> QED BY <1>2, <2>3, <3>1, <4>1, <5>2, <5>3
      <4>2. CASE ~(Len(box) >= MaxOutbox)
        <5>1. Len(box) \in Nat
            OBVIOUS
        <5> QED BY <1>2, <2>3, <3>1, <4>2, <5>1
      <4> QED BY <4>1, <4>2
    <3>4. PICK n \in Nat : n = Len(kept)
        BY <3>3
    <3>5. PICK m \in Nat : m = Len(got)
        OBVIOUS
    <3>6. PICK new : new = Append(kept, last)
        OBVIOUS
    <3>7. new \in Seq(1..MaxPushes) /\ Len(new) = n + 1 /\ new[n + 1] = last /\ \A k \in 1..n : new[k] = kept[k]
        BY <3>3, <3>4, <3>6
    <3>8. (\A k \in 1..n : kept[k] = pushes - n + k) /\ (\A k \in 1..m : got[k] <= pushes - n)
          /\ Increasing(got)
        BY <3>3, <3>4, <3>5 DEF Numbered
    <3>9. \A k \in 1..(n + 1) : new[k] = pushes' - (n + 1) + k
      <4>1. ASSUME NEW k \in 1..(n + 1)
            PROVE  new[k] = pushes' - (n + 1) + k
        <5>1. CASE k = n + 1
            BY <5>1, <1>1, <1>2, <2>4, <3>7
        <5>2. CASE k # n + 1
            BY <5>2, <1>1, <1>2, <3>7, <3>8
        <5> QED BY <5>1, <5>2
      <4> QED BY <4>1
    <3>10. \A k \in 1..m : got[k] <= pushes' - (n + 1)
        BY <1>1, <1>2, <3>8
    <3>11. Numbered(outbox[s], received[s])'
      <4>1. outbox'[s] = new /\ received'[s] = got
          BY <1>1, <2>2, <3>2, <3>6
      <4> QED BY <4>1, <3>5, <3>7, <3>8, <3>9, <3>10 DEF Numbered, Increasing
    <3>12. Len(outbox'[s]) <= MaxOutbox
        BY <1>2, <3>2, <3>3, <3>4, <3>6, <3>7
    <3> QED BY <2>6, <3>2, <3>6, <3>7, <3>11, <3>12
  <2> QED BY <2>5, <2>6
<1>4. outbox' \in [Sockets -> Seq(1..MaxPushes)]
  <2>1. outbox' = [s \in Sockets |-> outbox'[s]]
      BY DEF PushMessage
  <2> QED BY <1>3, <2>1
<1>5. ServerTypeOK'
    BY <1>1, <1>2, <1>3, <1>4 DEF ServerInv, ServerTypeOK
<1>6. SocketHeldOnce' /\ FatesTold'
    BY <1>1 DEF ServerInv, SocketHeldOnce, FatesTold
<1>7. AskedOnce' /\ AskedWait' /\ WaitAsked'
    BY <1>1, SameRequests DEF ServerInv
<1>8. OneVerdict' /\ Upgrades' /\ GameTurns' /\ StopLeavesNothing'
    BY <1>1 DEF ServerInv, OneVerdict, Upgrades, GameTurns, StopLeavesNothing
<1>9. Outboxes'
  <2>1. SubscribersAreSessions'
      BY <1>1 DEF ServerInv, Outboxes, SubscribersAreSessions
  <2>2. \A s \in Sockets : s \notin DOMAIN clients => outbox'[s] = <<>> /\ received'[s] = <<>>
      BY <1>1, <1>3 DEF ServerInv, Outboxes
  <2> QED BY <1>1, <1>3, <2>1, <2>2 DEF Outboxes, Numbered, Increasing
<1> QED BY <1>5, <1>6, <1>7, <1>8, <1>9 DEF ServerInv

\* Nobody runs and no socket is open, and the pool is built anew.
LEMMA ListenKeeps ==
    ASSUME Parameters, ServerInv, Listen
    PROVE  ServerInv'
<1>1. UNCHANGED <<queue, pending, conn, batch, handling, pc, detached, routes, fate>>
      /\ UNCHANGED requests /\ UNCHANGED streams
      /\ ~listening /\ listening' = TRUE /\ stopping' = FALSE /\ listens < MaxListens /\ listens' = listens + 1
      /\ acceptor' = [at |-> "selecting", sock |-> None]
    BY DEF Listen, requests, game
<1>2. (\A w \in Workers : worker[w].at = "absent")
      /\ acceptor.at = "absent" /\ \A s \in Sockets : fate[s] \notin {"open", "subscribed"}
    BY <1>1 DEF ServerInv, StopLeavesNothing
<1>3. PICK new : new = [at |-> "ready", sock |-> None]
    OBVIOUS
<1>4. worker' = [w \in Workers |-> new]
    BY <1>3 DEF Listen
<1>5. worker' \in [Workers -> ServerWorker] /\ \A w \in Workers : worker'[w].at = "ready"
  <2>1. new \in ServerWorker /\ new.at = "ready"
      BY <1>3 DEF ServerWorker, WorkerStates
  <2> QED BY <1>4, <2>1
<1>6. acceptor' \in [at : {"absent", "selecting", "accepted", "exited"}, sock : Sockets \cup {None}]
      /\ acceptor'.at = "selecting"
    BY <1>1
<1>7. ServerTypeOK'
  <2>1. UNCHANGED <<clients, outbox, pushes, received>>
      BY <1>1 DEF streams
  <2>2. listens' \in 0..MaxListens
      BY <1>1 DEF ServerInv, ServerTypeOK, Parameters
  <2> QED BY <1>1, <1>5, <1>6, <2>1, <2>2 DEF ServerInv, ServerTypeOK, ServerWorker
<1>8. \A w \in Workers : ~HasSocket(worker'[w].at) /\ ~HasSocket(worker[w].at)
    BY <1>2, <1>5 DEF HasSocket
<1>9. SocketHeldOnce'
    BY <1>1, <1>6, <1>8 DEF ServerInv, SocketHeldOnce
<1>10. FatesTold'
  <2>1. \A k \in 1..Len(queue) : fate[queue[k]] = "open"
      BY DEF ServerInv, FatesTold
  <2>2. \A w \in Workers : worker'[w].at \notin {"reading", "header", "parked", "upgrading", "streaming", "leaving"}
      BY <1>5
  <2> QED BY <1>1, <1>2, <1>6, <2>1, <2>2 DEF FatesTold
<1>11. AskedOnce' /\ AskedWait' /\ WaitAsked'
  <2>1. \A w \in Workers : worker'[w].at # "parked" /\ worker[w].at # "parked"
      BY <1>2, <1>5
  <2> QED BY <1>1, <2>1, SameRequests DEF ServerInv
<1>12. OneVerdict' /\ Upgrades' /\ GameTurns' /\ StopLeavesNothing'
  <2>1. \A w \in Workers : worker'[w].at # "upgrading"
      BY <1>5
  <2> QED BY <1>1, <2>1 DEF ServerInv, OneVerdict, Upgrades, GameTurns, StopLeavesNothing
<1>13. Outboxes'
  <2>1. \A w \in Workers : worker'[w].at \notin {"streaming", "leaving"} /\ worker[w].at \notin {"streaming", "leaving"}
      BY <1>2, <1>5
  <2> QED BY <1>1, <2>1, SameStreams DEF ServerInv
<1> QED BY <1>7, <1>9, <1>10, <1>11, <1>12, <1>13 DEF ServerInv

-----------------------------------------------------------------------------
(* HttpServer: stop_listening                                              *)

LEMMA StopKeeps ==
    ASSUME ServerInv, Stop
    PROVE  ServerInv'
<1>1. UNCHANGED <<listening, acceptor, queue, listens, pending, conn, batch, handling, detached, routes, fate>>
      /\ UNCHANGED requests /\ UNCHANGED streams
      /\ listening /\ stopping' = TRUE /\ pc = "lua" /\ pc' = "stopping" /\ Stopped
    BY DEF Stop, requests, Stopped, InLua
<1>2. Wakes
    BY <1>1, StoppedFacts DEF ServerInv
<1>3. worker' \in [Workers -> ServerWorker]
    BY <1>2 DEF Wakes
<1>4. \A v \in Workers :
              /\ worker'[v].sock = worker[v].sock
              /\ HasSocket(worker'[v].at) <=> HasSocket(worker[v].at)
              /\ \A at \in {"reading", "header", "parked", "upgrading", "streaming", "leaving", "absent", "exited"} :
                    worker'[v].at = at <=> worker[v].at = at
    BY <1>2, WakesKeeps
<1>5. ServerTypeOK'
  <2>1. UNCHANGED <<clients, outbox, pushes, received>>
      BY <1>1 DEF streams
  <2> QED BY <1>1, <1>3, <2>1 DEF ServerInv, ServerTypeOK, ServerWorker
<1>6. SocketHeldOnce' /\ FatesTold'
    BY <1>1, <1>4 DEF ServerInv, SocketHeldOnce, FatesTold
<1>7. AskedOnce' /\ AskedWait' /\ WaitAsked'
    BY <1>1, <1>4, SameRequests DEF ServerInv
<1>8. OneVerdict' /\ Upgrades'
    BY <1>1, <1>4, SameUpgrades DEF ServerInv, OneVerdict
<1>9. GameTurns' /\ StopLeavesNothing'
    BY <1>1 DEF ServerInv, GameTurns, StopLeavesNothing
<1>10. Outboxes'
    BY <1>1, <1>4, SameStreams DEF ServerInv
<1> QED BY <1>5, <1>6, <1>7, <1>8, <1>9, <1>10 DEF ServerInv

LEMMA StopClientsKeeps ==
    ASSUME ServerInv, StopClients
    PROVE  ServerInv'
<1>1. UNCHANGED <<listening, stopping, acceptor, worker, queue, listens, pending, conn, batch, handling, detached, routes, fate,
                  outbox, pushes, received>>
      /\ UNCHANGED requests /\ pc = "stopping" /\ pc' = "joining"
      /\ clients' = [s \in DOMAIN clients |-> TRUE]
    BY DEF StopClients, requests, pool
<1>2. DOMAIN clients' = DOMAIN clients /\ \A s \in DOMAIN clients' : clients'[s] \in BOOLEAN
    BY <1>1
<1>3. ServerTypeOK'
    BY <1>1, <1>2 DEF ServerInv, ServerTypeOK
<1>4. SocketHeldOnce' /\ FatesTold'
    BY <1>1 DEF ServerInv, SocketHeldOnce, FatesTold
<1>5. AskedOnce' /\ AskedWait' /\ WaitAsked'
    BY <1>1, SameRequests DEF ServerInv
<1>6. OneVerdict' /\ Upgrades' /\ GameTurns' /\ StopLeavesNothing'
    BY <1>1 DEF ServerInv, OneVerdict, Upgrades, GameTurns, StopLeavesNothing
<1>7. Outboxes'
    BY <1>1, <1>2 DEF ServerInv, Outboxes, SubscribersAreSessions, Increasing
<1> QED BY <1>3, <1>4, <1>5, <1>6, <1>7 DEF ServerInv

\* No thread holds a socket, so what is open is in the queue.
LEMMA JoinedKeeps ==
    ASSUME Parameters, ServerInv, Joined
    PROVE  ServerInv'
<1>1. UNCHANGED <<stopping, listens, pending, conn, batch, handling, detached, routes>>
      /\ UNCHANGED requests /\ UNCHANGED streams
      /\ pc = "joining" /\ pc' = "lua" /\ listening' = FALSE /\ queue' = <<>>
      /\ acceptor.at = "exited" /\ acceptor' = [at |-> "absent", sock |-> None]
      /\ \A w \in Workers : worker[w].at = "exited"
    BY DEF Joined, requests
<1>2. PICK new : new = [at |-> "absent", sock |-> None]
    OBVIOUS
<1>3. worker' = [w \in Workers |-> new]
    BY <1>2 DEF Joined
<1>4. worker' \in [Workers -> ServerWorker] /\ \A w \in Workers : worker'[w].at = "absent"
  <2>1. new \in ServerWorker /\ new.at = "absent"
      BY <1>2 DEF ServerWorker, WorkerStates
  <2> QED BY <1>3, <2>1
<1>5. acceptor' \in [at : {"absent", "selecting", "accepted", "exited"}, sock : Sockets \cup {None}]
      /\ acceptor'.at = "absent"
    BY <1>1
<1>6. \A w \in Workers : ~HasSocket(worker'[w].at) /\ ~HasSocket(worker[w].at)
    BY <1>1, <1>4 DEF HasSocket
<1>7. ASSUME NEW s \in Sockets
      PROVE  /\ fate'[s] \in Fates /\ fate'[s] \notin {"open", "subscribed"}
             /\ fate'[s] = fate[s] \/ (fate[s] = "open" /\ fate'[s] = "dropped")
  <2>1. fate'[s] = IF s \in Elements(queue) THEN "dropped" ELSE fate[s]
      BY DEF Joined
  <2>2. s \in Elements(queue) <=> \E k \in 1..Len(queue) : queue[k] = s
      BY DEF Elements
  <2>3. s \in Elements(queue) => fate[s] = "open"
      BY <2>2 DEF ServerInv, FatesTold
  <2>4. fate[s] \in {"open", "subscribed"} => s \in Elements(queue)
      BY <1>1, <1>6, <2>2 DEF ServerInv, FatesTold
  <2>5. fate[s] \in Fates /\ "dropped" \in Fates
      BY DEF ServerInv, ServerTypeOK, Fates
  <2> QED BY <2>1, <2>3, <2>4, <2>5
<1>8. fate' \in [Sockets -> Fates]
  <2>1. fate' = [s \in Sockets |-> fate'[s]]
      BY DEF Joined
  <2> QED BY <1>7, <2>1
<1>9. ServerTypeOK'
  <2>1. UNCHANGED <<clients, outbox, pushes, received>>
      BY <1>1 DEF streams
  <2>2. queue' \in Seq(Sockets) /\ Len(queue') <= MaxQueue
      BY <1>1 DEF Parameters
  <2> QED BY <1>1, <1>4, <1>5, <1>8, <2>1, <2>2 DEF ServerInv, ServerTypeOK, ServerWorker
<1>10. SocketHeldOnce'
    BY <1>1, <1>5, <1>6 DEF SocketHeldOnce
<1>11. FatesTold'
  <2>1. \A w \in Workers : worker'[w].at \notin {"reading", "header", "parked", "upgrading", "streaming", "leaving"}
      BY <1>4
  <2>2. \A k \in 1..Len(queue') : FALSE
      BY <1>1
  <2> QED BY <1>5, <1>7, <2>1, <2>2 DEF FatesTold
<1>12. AskedOnce' /\ AskedWait' /\ WaitAsked'
  <2>1. \A w \in Workers : worker'[w].at # "parked" /\ worker[w].at # "parked"
      BY <1>1, <1>4
  <2> QED BY <1>1, <2>1, SameRequests DEF ServerInv
<1>13. OneVerdict'
    BY <1>1, <1>7, SameVerdicts DEF ServerInv
<1>14. Upgrades' /\ GameTurns' /\ StopLeavesNothing'
  <2>1. \A w \in Workers : worker'[w].at # "upgrading"
      BY <1>4
  <2> QED BY <1>1, <1>4, <1>5, <1>7, <2>1 DEF ServerInv, Upgrades, GameTurns, StopLeavesNothing
<1>15. Outboxes'
  <2>1. \A w \in Workers : worker'[w].at \notin {"streaming", "leaving"} /\ worker[w].at \notin {"streaming", "leaving"}
      BY <1>1, <1>4
  <2> QED BY <1>1, <2>1, SameStreams DEF ServerInv
<1> QED BY <1>9, <1>10, <1>11, <1>12, <1>13, <1>14, <1>15 DEF ServerInv

-----------------------------------------------------------------------------
(* HttpServer: the game thread                                             *)

\* The connection is answered, unless its worker has given up.
LEMMA PublishFacts ==
    ASSUME ServerTypeOK, NEW s \in Sockets, NEW res \in Answers, Publish(s, res)
    PROVE  /\ conn' \in [Sockets -> Conn]
           /\ \A t \in Sockets : t # s => conn'[t] = conn[t]
           /\ conn[s].abandoned => conn' = conn
           /\ ~conn[s].abandoned => conn'[s].done /\ ~conn'[s].abandoned /\ conn'[s].res = res
<1>1. PICK old \in Conn : old = conn[s]
    BY DEF ServerTypeOK
<1>2. CASE old.abandoned
    BY <1>1, <1>2 DEF Publish, ServerTypeOK
<1>3. CASE ~old.abandoned
  <2>1. PICK half : half = [old EXCEPT !.res = res]
      OBVIOUS
  <2>2. PICK new : new = [half EXCEPT !.done = TRUE]
      OBVIOUS
  <2>3. half \in Conn /\ half.res = res /\ half.abandoned = old.abandoned
      BY <2>1 DEF Conn
  <2>4. new \in Conn /\ new.res = res /\ new.abandoned = old.abandoned /\ new.done = TRUE
      BY <2>2, <2>3 DEF Conn
  <2>5. conn' = [conn EXCEPT ![s] = new]
    <3>1. conn' = [conn EXCEPT ![s].res = res, ![s].done = TRUE]
        BY <1>1, <1>3 DEF Publish
    <3>2. conn \in [Sockets -> Conn]
        BY DEF ServerTypeOK
    <3> QED BY <1>1, <2>1, <2>2, <3>1, <3>2
  <2> QED BY <1>1, <1>3, <2>4, <2>5 DEF ServerTypeOK
<1> QED BY <1>2, <1>3

BeingAsked(s) == InPending(s) \/ InBatch(s) \/ InHandler(s)

\* Who is asked and has not given up is open, and its worker waits.
LEMMA AskedIsOpen ==
    ASSUME ServerInv, NEW s \in Sockets, BeingAsked(s), ~conn[s].abandoned
    PROVE  /\ ~conn[s].done /\ Parked(s) /\ fate[s] = "open"
           /\ \A v \in Workers : worker[v].at = "upgrading" => worker[v].sock # s
<1>1. ~conn[s].done /\ Parked(s)
    BY DEF ServerInv, AskedWait, BeingAsked
<1>2. PICK w \in Workers : worker[w].at = "parked" /\ worker[w].sock = s
    BY <1>1 DEF Parked
<1>3. fate[s] = "open"
    BY <1>2 DEF ServerInv, FatesTold
<1>4. \A v \in Workers : worker[v].at = "upgrading" => worker[v].sock # s
    BY <1>2 DEF ServerInv, SocketHeldOnce, HasSocket
<1> QED BY <1>1, <1>3, <1>4

\* And who waits has not given up.
LEMMA ParkedIsOpen ==
    ASSUME ServerInv, NEW w \in Workers, worker[w].at \in {"parked", "upgrading"}
    PROVE  worker[w].sock \in Sockets /\ ~conn[worker[w].sock].abandoned
<1>1. worker[w].sock \in Sockets /\ fate[worker[w].sock] = "open"
    BY DEF ServerInv, SocketHeldOnce, FatesTold, HasSocket
<1> QED BY <1>1 DEF ServerInv, OneVerdict

\* One connection is done with.
LEMMA AnswerKeeps ==
    ASSUME ServerInv, NEW s \in Sockets, NEW res \in Answers, BeingAsked(s), Publish(s, res),
           UNCHANGED <<listening, stopping, acceptor, worker, queue, listens, streams, routes, detached, fate>>,
           pending' \in Seq(Sockets), batch' \in Seq(Sockets),
           handling' \in [sock : Sockets, stream : BOOLEAN] \cup {None},
           pc' \in {"lua", "drain", "stopping", "joining"},
           \A t \in Sockets : BeingAsked(t)' <=> BeingAsked(t) /\ t # s,
           AskedOnce', GameTurns'
    PROVE  ServerInv'
<1>1. /\ conn' \in [Sockets -> Conn]
      /\ \A t \in Sockets : t # s => conn'[t] = conn[t]
      /\ conn[s].abandoned => conn' = conn
      /\ ~conn[s].abandoned => conn'[s].done /\ ~conn'[s].abandoned /\ conn'[s].res = res
    BY PublishFacts DEF ServerInv
<1>2. UNCHANGED <<clients, outbox, pushes, received>> /\ UNCHANGED streams
    BY DEF streams
<1>3. ServerTypeOK'
    BY <1>1, <1>2 DEF ServerInv, ServerTypeOK
<1>4. SocketHeldOnce' /\ FatesTold'
    BY DEF ServerInv, SocketHeldOnce, FatesTold
<1>5. AskedWait'
  <2>1. ASSUME NEW t \in Sockets, BeingAsked(t)'
        PROVE  conn'[t].abandoned \/ (~conn'[t].done /\ Parked(t)')
    <3>1. BeingAsked(t) /\ t # s /\ conn'[t] = conn[t]
        BY <1>1, <2>1
    <3>2. conn[t].abandoned \/ (~conn[t].done /\ Parked(t))
        BY <3>1 DEF ServerInv, AskedWait, BeingAsked
    <3>3. Parked(t)' = Parked(t)
        BY DEF Parked
    <3> QED BY <3>1, <3>2, <3>3
  <2> QED BY <2>1 DEF AskedWait, BeingAsked
<1>6. WaitAsked'
  <2>1. ASSUME NEW v \in Workers, worker[v].at = "parked"
        PROVE  \A t : t = worker[v].sock => conn'[t].done \/ BeingAsked(t)'
    <3>1. PICK t \in Sockets : t = worker[v].sock /\ ~conn[t].abandoned
        BY <2>1, ParkedIsOpen
    <3>2. conn[t].done \/ BeingAsked(t)
        BY <2>1, <3>1 DEF ServerInv, WaitAsked, BeingAsked
    <3>3. CASE t = s
        BY <1>1, <3>1, <3>3
    <3>4. CASE t # s
      <4>1. conn'[t].done \/ BeingAsked(t)'
          BY <1>1, <3>2, <3>4
      <4> QED BY <3>1, <4>1
    <3> QED BY <3>1, <3>3, <3>4
  <2> QED BY <2>1 DEF WaitAsked, BeingAsked
<1>7. OneVerdict'
  <2>1. ASSUME NEW t \in Sockets
        PROVE  /\ ~(conn'[t].done /\ conn'[t].abandoned)
               /\ fate[t] = "timeout" <=> conn'[t].abandoned
               /\ fate[t] \in {"handler", "error", "refused", "reloading"} => conn'[t].res = fate[t]
               /\ fate[t] \in {"subscribed", "stream"} => conn'[t].res = "stream"
    <3>1. CASE t = s /\ ~conn[s].abandoned
        BY <1>1, <3>1, AskedIsOpen
    <3>2. CASE ~(t = s /\ ~conn[s].abandoned)
      <4>1. conn'[t] = conn[t]
          BY <1>1, <3>2
      <4> QED BY <4>1 DEF ServerInv, OneVerdict
    <3> QED BY <3>1, <3>2
  <2> QED BY <2>1 DEF OneVerdict
<1>8. Upgrades'
  <2>1. \A t \in Sockets : conn'[t].done => conn'[t].res \in Answers
    <3>1. ASSUME NEW t \in Sockets, conn'[t].done
          PROVE  conn'[t].res \in Answers
      <4>1. CASE t = s /\ ~conn[s].abandoned
          BY <1>1, <4>1
      <4>2. CASE ~(t = s /\ ~conn[s].abandoned)
        <5>1. conn'[t] = conn[t]
            BY <1>1, <4>2
        <5> QED BY <3>1, <5>1 DEF ServerInv, Upgrades
      <4> QED BY <4>1, <4>2
    <3> QED BY <3>1
  <2>2. ASSUME NEW v \in Workers, worker[v].at = "upgrading"
        PROVE  conn'[worker[v].sock].res = "stream"
    <3>1. PICK t \in Sockets : t = worker[v].sock /\ ~conn[t].abandoned
        BY <2>2, ParkedIsOpen
    <3>2. t # s
        BY <2>2, <3>1, AskedIsOpen
    <3>3. conn[t].res = "stream"
        BY <2>2, <3>1 DEF ServerInv, Upgrades
    <3> QED BY <1>1, <3>1, <3>2, <3>3
  <2> QED BY <2>1, <2>2 DEF Upgrades
<1>9. StopLeavesNothing'
    BY DEF ServerInv, StopLeavesNothing
<1>10. Outboxes'
    BY <1>2, SameStreams DEF ServerInv
<1> QED BY <1>3, <1>4, <1>5, <1>6, <1>7, <1>8, <1>9, <1>10 DEF ServerInv

\* The head of the batch leaves it, and stays where else it is.
LEMMA HeadLeaves ==
    ASSUME ServerTypeOK, AskedOnce, batch # <<>>, batch' = Tail(batch)
    PROVE  /\ Head(batch) \in Sockets /\ InBatch(Head(batch)) /\ batch' \in Seq(Sockets)
           /\ \A t : InBatch(t)' <=> InBatch(t) /\ t # Head(batch)
           /\ \A j, k \in 1..Len(batch') : batch'[j] = batch'[k] => j = k
<1>1. batch \in Seq(Sockets)
    BY DEF ServerTypeOK
<1>2. PICK n \in Nat : n = Len(batch)
    BY <1>1
<1>3. n >= 1 /\ Head(batch) = batch[1] /\ batch[1] \in Sockets
    BY <1>1, <1>2
<1>4. batch' \in Seq(Sockets) /\ Len(batch') = n - 1 /\ \A k \in 1..(n - 1) : batch'[k] = batch[k + 1]
    BY <1>1, <1>2, <1>3
<1>5. \A j, k \in 1..n : batch[j] = batch[k] => j = k
    BY <1>2 DEF AskedOnce
<1>6. ASSUME NEW t
      PROVE  (\E k \in 1..(n - 1) : batch'[k] = t) <=> (\E k \in 1..n : batch[k] = t) /\ t # batch[1]
  <2>1. ASSUME NEW k \in 1..(n - 1), batch'[k] = t
        PROVE  (\E j \in 1..n : batch[j] = t) /\ t # batch[1]
    <3>1. k + 1 \in 1..n /\ 1 \in 1..n /\ batch[k + 1] = t
        BY <1>3, <1>4, <2>1
    <3> QED BY <3>1, <1>5
  <2>2. ASSUME NEW k \in 1..n, batch[k] = t, t # batch[1]
        PROVE  \E j \in 1..(n - 1) : batch'[j] = t
    <3>1. k # 1
        BY <2>2
    <3>2. k - 1 \in 1..(n - 1) /\ batch'[k - 1] = t
        BY <3>1, <2>2, <1>4
    <3> QED BY <3>2
  <2> QED BY <2>1, <2>2
<1>7. \A j, k \in 1..(n - 1) : batch'[j] = batch'[k] => j = k
  <2>1. ASSUME NEW j \in 1..(n - 1), NEW k \in 1..(n - 1), batch'[j] = batch'[k]
        PROVE  j = k
    <3>1. j + 1 \in 1..n /\ k + 1 \in 1..n /\ batch[j + 1] = batch[k + 1]
        BY <1>4, <2>1
    <3>2. j + 1 = k + 1
        BY <3>1, <1>5
    <3> QED BY <3>2
  <2> QED BY <2>1
<1>8. InBatch(Head(batch))
    BY <1>2, <1>3 DEF InBatch
<1> QED BY <1>2, <1>3, <1>4, <1>6, <1>7, <1>8 DEF InBatch

LEMMA BatchShrinks ==
    ASSUME ServerInv, pc = "drain", batch # <<>>, batch' = Tail(batch), UNCHANGED <<pc, pending, handling>>
    PROVE  /\ Head(batch) \in Sockets /\ BeingAsked(Head(batch)) /\ batch' \in Seq(Sockets)
           /\ \A t \in Sockets : BeingAsked(t)' <=> BeingAsked(t) /\ t # Head(batch)
           /\ AskedOnce'
<1>1. /\ Head(batch) \in Sockets /\ InBatch(Head(batch)) /\ batch' \in Seq(Sockets)
      /\ \A t : InBatch(t)' <=> InBatch(t) /\ t # Head(batch)
      /\ \A j, k \in 1..Len(batch') : batch'[j] = batch'[k] => j = k
    BY HeadLeaves DEF ServerInv
<1>2. \A t : InPending(t)' = InPending(t) /\ InHandler(t)' = InHandler(t)
    BY DEF InPending, InHandler
<1>3. ~InPending(Head(batch)) /\ ~InHandler(Head(batch))
    BY <1>1 DEF ServerInv, AskedOnce
<1>4. AskedOnce'
    BY <1>1, <1>2 DEF ServerInv, AskedOnce
<1> QED BY <1>1, <1>2, <1>3, <1>4 DEF BeingAsked

LEMMA SkipAbandonedKeeps ==
    ASSUME ServerInv, SkipAbandoned
    PROVE  ServerInv'
<1>1. pc = "drain" /\ batch # <<>> /\ conn[Head(batch)].abandoned /\ batch' = Tail(batch)
      /\ UNCHANGED <<pc, pending, handling, conn, streams, routes, detached, fate>>
      /\ UNCHANGED <<listening, stopping, acceptor, worker, queue, listens>>
    BY DEF SkipAbandoned, requests, pool
<1>2. PICK s \in Sockets : s = Head(batch)
    BY <1>1, BatchShrinks
<1>3. Publish(s, "refused") /\ "refused" \in Answers
    BY <1>1, <1>2 DEF Publish, Answers
<1>4. GameTurns'
    BY <1>1 DEF ServerInv, GameTurns
<1>5. /\ BeingAsked(s) /\ batch' \in Seq(Sockets) /\ AskedOnce'
      /\ \A t \in Sockets : BeingAsked(t)' <=> BeingAsked(t) /\ t # s
    BY <1>1, <1>2, BatchShrinks
<1> QED BY <1>1, <1>3, <1>4, <1>5, AnswerKeeps DEF ServerInv, ServerTypeOK

LEMMA RefuseKeeps ==
    ASSUME ServerInv, Refuse
    PROVE  ServerInv'
<1>1. pc = "drain" /\ batch # <<>> /\ batch' = Tail(batch)
      /\ UNCHANGED <<pc, pending, handling, streams, routes, detached, fate>>
      /\ UNCHANGED <<listening, stopping, acceptor, worker, queue, listens>>
    BY DEF Refuse, requests, pool
<1>2. PICK s \in Sockets : s = Head(batch)
    BY <1>1, BatchShrinks
<1>3. Publish(s, "refused") /\ "refused" \in Answers
    BY <1>2 DEF Refuse, Answers
<1>4. GameTurns'
    BY <1>1 DEF ServerInv, GameTurns
<1>5. /\ BeingAsked(s) /\ batch' \in Seq(Sockets) /\ AskedOnce'
      /\ \A t \in Sockets : BeingAsked(t)' <=> BeingAsked(t) /\ t # s
    BY <1>1, <1>2, BatchShrinks
<1> QED BY <1>1, <1>3, <1>4, <1>5, AnswerKeeps DEF ServerInv, ServerTypeOK

\* The connection goes from the batch to the stack.
LEMMA CallHandlerKeeps ==
    ASSUME Parameters, ServerInv, CallHandler
    PROVE  ServerInv'
<1>1. pc = "drain" /\ batch # <<>> /\ batch' = Tail(batch) /\ pc' = "lua"
      /\ UNCHANGED <<pending, conn, routes, detached, fate>>
      /\ UNCHANGED requests /\ UNCHANGED streams
      /\ UNCHANGED <<listening, stopping, acceptor, worker, queue, listens>>
    BY DEF CallHandler, requests, pool
<1>2. /\ Head(batch) \in Sockets /\ InBatch(Head(batch)) /\ batch' \in Seq(Sockets)
      /\ \A t : InBatch(t)' <=> InBatch(t) /\ t # Head(batch)
      /\ \A j, k \in 1..Len(batch') : batch'[j] = batch'[k] => j = k
    BY <1>1, HeadLeaves DEF ServerInv
<1>3. PICK s \in Sockets : s = Head(batch)
    BY <1>2
<1>4. handling = None
    BY <1>1 DEF ServerInv, GameTurns
<1>5. handling' \in [sock : Sockets, stream : BOOLEAN] /\ handling'.sock = s
  <2>1. PICK r \in Route : handling' = [sock |-> s, stream |-> r.stream]
      BY <1>3 DEF CallHandler, Matched, Matching, ServerInv, ServerTypeOK
  <2>2. r.stream \in BOOLEAN
      BY DEF Route
  <2> QED BY <2>1, <2>2
<1>6. handling' # None
    BY <1>5 DEF Parameters
<1>7. \A t : /\ InPending(t)' = InPending(t)
             /\ InBatch(t)' <=> InBatch(t) /\ t # s
             /\ InHandler(t)' <=> t = s
             /\ ~InHandler(t)
    BY <1>1, <1>2, <1>3, <1>4, <1>5, <1>6 DEF InPending, InHandler
<1>8. \A t : BeingAsked(t)' <=> BeingAsked(t)
    BY <1>2, <1>3, <1>7 DEF BeingAsked
<1>9. ServerTypeOK'
  <2>1. UNCHANGED <<clients, outbox, pushes, received>>
      BY <1>1 DEF streams
  <2> QED BY <1>1, <1>2, <1>5, <2>1 DEF ServerInv, ServerTypeOK
<1>10. SocketHeldOnce' /\ FatesTold'
    BY <1>1 DEF ServerInv, SocketHeldOnce, FatesTold
<1>11. AskedOnce'
  <2>1. ~InPending(s)
      BY <1>2, <1>3 DEF ServerInv, AskedOnce
  <2> QED BY <1>1, <1>2, <1>7, <2>1 DEF ServerInv, AskedOnce
<1>12. AskedWait'
  <2>1. \A t \in Sockets : Parked(t)' = Parked(t)
      BY <1>1 DEF Parked
  <2> QED BY <1>1, <1>8, <2>1 DEF ServerInv, AskedWait, BeingAsked
<1>13. WaitAsked'
    BY <1>1, <1>8 DEF ServerInv, WaitAsked, BeingAsked
<1>14. OneVerdict' /\ Upgrades' /\ GameTurns' /\ StopLeavesNothing'
    BY <1>1, <1>6 DEF ServerInv, OneVerdict, Upgrades, GameTurns, StopLeavesNothing
<1>15. Outboxes'
    BY <1>1, SameStreams DEF ServerInv
<1> QED BY <1>9, <1>10, <1>11, <1>12, <1>13, <1>14, <1>15 DEF ServerInv

LEMMA HandlerReturnsKeeps ==
    ASSUME ServerInv, HandlerReturns
    PROVE  ServerInv'
<1>1. handling # None /\ handling' = None /\ pc' = "drain"
      /\ UNCHANGED <<pending, batch, streams, routes, detached, fate>>
      /\ UNCHANGED <<listening, stopping, acceptor, worker, queue, listens>>
    BY DEF HandlerReturns, pool
<1>2. PICK s \in Sockets : s = handling.sock
    BY <1>1 DEF ServerInv, ServerTypeOK
<1>3. PICK res \in Answers : Publish(s, res)
    BY <1>2 DEF HandlerReturns, Answers
<1>4. \A t : /\ InPending(t)' = InPending(t) /\ InBatch(t)' = InBatch(t)
             /\ ~InHandler(t)'
             /\ InHandler(t) <=> t = s
    BY <1>1, <1>2 DEF InPending, InBatch, InHandler
<1>5. \A t \in Sockets : BeingAsked(t)' <=> BeingAsked(t) /\ t # s
    BY <1>4 DEF ServerInv, AskedOnce, BeingAsked
<1>6. BeingAsked(s)
    BY <1>4 DEF BeingAsked
<1>7. AskedOnce'
    BY <1>1, <1>4 DEF ServerInv, AskedOnce
<1>8. GameTurns'
    BY <1>1 DEF GameTurns
<1>9. batch' \in Seq(Sockets) /\ pending' \in Seq(Sockets)
    BY <1>1 DEF ServerInv, ServerTypeOK
<1> QED BY <1>1, <1>3, <1>5, <1>6, <1>7, <1>8, <1>9, AnswerKeeps

\* What was read since is what this frame answers.
LEMMA StartDrainKeeps ==
    ASSUME ServerInv, StartDrain
    PROVE  ServerInv'
<1>1. pc = "lua" /\ handling = None /\ pc' = "drain" /\ batch' = pending /\ pending' = <<>>
      /\ UNCHANGED <<conn, handling, routes, detached, fate>> /\ UNCHANGED streams
      /\ UNCHANGED <<listening, stopping, acceptor, worker, queue, listens>>
    BY DEF StartDrain, BetweenFrames, InLua, pool
<1>2. batch = <<>>
    BY <1>1 DEF ServerInv, GameTurns
<1>3. \A t : /\ ~InBatch(t) /\ ~InPending(t)' /\ ~InHandler(t) /\ ~InHandler(t)'
             /\ InBatch(t)' = InPending(t)
    BY <1>1, <1>2 DEF InBatch, InPending, InHandler
<1>4. \A t : BeingAsked(t)' <=> BeingAsked(t)
    BY <1>3 DEF BeingAsked
<1>5. ServerTypeOK'
  <2>1. UNCHANGED <<clients, outbox, pushes, received>>
      BY <1>1 DEF streams
  <2> QED BY <1>1, <2>1 DEF ServerInv, ServerTypeOK
<1>6. SocketHeldOnce' /\ FatesTold'
    BY <1>1 DEF ServerInv, SocketHeldOnce, FatesTold
<1>7. AskedOnce'
    BY <1>1, <1>3 DEF ServerInv, AskedOnce
<1>8. AskedWait'
  <2>1. \A t \in Sockets : Parked(t)' = Parked(t)
      BY <1>1 DEF Parked
  <2> QED BY <1>1, <1>4, <2>1 DEF ServerInv, AskedWait, BeingAsked
<1>9. WaitAsked'
    BY <1>1, <1>4 DEF ServerInv, WaitAsked, BeingAsked
<1>10. OneVerdict' /\ Upgrades' /\ GameTurns' /\ StopLeavesNothing'
    BY <1>1 DEF ServerInv, OneVerdict, Upgrades, GameTurns, StopLeavesNothing
<1>11. Outboxes'
    BY <1>1, SameStreams DEF ServerInv
<1> QED BY <1>5, <1>6, <1>7, <1>8, <1>9, <1>10, <1>11 DEF ServerInv

\* Everybody who waits is told that the server reloads.
LEMMA AnswerWaitingKeeps ==
    ASSUME ServerInv, BetweenFrames, AnswerWaiting, Wakes,
           UNCHANGED <<listening, acceptor, queue, listens, streams, batch, handling, fate>>,
           stopping' \in BOOLEAN, detached' \in BOOLEAN, pc' \in {"lua", "stopping"},
           pc' = "stopping" => listening
    PROVE  ServerInv'
<1>1. handling = None /\ batch = <<>> /\ UNCHANGED streams
    BY DEF BetweenFrames, InLua, ServerInv, GameTurns
<1>2. pending' = <<>> /\ routes' = {}
    BY DEF AnswerWaiting
<1>3. \A t : ~InBatch(t) /\ ~InBatch(t)' /\ ~InPending(t)' /\ ~InHandler(t) /\ ~InHandler(t)'
    BY <1>1, <1>2 DEF InBatch, InPending, InHandler
<1>4. worker' \in [Workers -> ServerWorker]
    BY DEF Wakes
<1>5. \A v \in Workers :
              /\ worker'[v].sock = worker[v].sock
              /\ HasSocket(worker'[v].at) <=> HasSocket(worker[v].at)
              /\ \A at \in {"reading", "header", "parked", "upgrading", "streaming", "leaving", "absent", "exited"} :
                    worker'[v].at = at <=> worker[v].at = at
    BY WakesKeeps
<1>6. ASSUME NEW s \in Sockets
      PROVE  /\ conn'[s] \in Conn
             /\ InPending(s) /\ ~conn[s].abandoned =>
                    conn'[s].done /\ ~conn'[s].abandoned /\ conn'[s].res = "reloading"
             /\ ~(InPending(s) /\ ~conn[s].abandoned) => conn'[s] = conn[s]
  <2>1. PICK old \in Conn : old = conn[s]
      BY DEF ServerInv, ServerTypeOK
  <2>2. PICK half : half = [old EXCEPT !.res = "reloading"]
      OBVIOUS
  <2>3. PICK new : new = [half EXCEPT !.done = TRUE]
      OBVIOUS
  <2>4. half \in Conn /\ half.res = "reloading" /\ half.abandoned = old.abandoned
      BY <2>2 DEF Conn, Answers
  <2>5. new \in Conn /\ new.res = "reloading" /\ new.abandoned = old.abandoned /\ new.done = TRUE
      BY <2>3, <2>4 DEF Conn
  <2>6. s \in Elements(pending) <=> InPending(s)
      BY DEF Elements, InPending
  <2>7. conn'[s] = IF s \in Elements(pending) /\ ~conn[s].abandoned
                   THEN [conn[s] EXCEPT !.res = "reloading", !.done = TRUE] ELSE conn[s]
      BY DEF AnswerWaiting
  <2>8. conn'[s] = IF InPending(s) /\ ~old.abandoned THEN new ELSE old
      BY <2>1, <2>2, <2>3, <2>6, <2>7
  <2> QED BY <2>1, <2>5, <2>8
<1>7. conn' \in [Sockets -> Conn]
  <2>1. conn' = [s \in Sockets |-> conn'[s]]
      BY DEF AnswerWaiting
  <2> QED BY <1>6, <2>1
<1>8. ServerTypeOK'
  <2>1. UNCHANGED <<clients, outbox, pushes, received>>
      BY <1>1 DEF streams
  <2> QED BY <1>2, <1>4, <1>7, <2>1 DEF ServerInv, ServerTypeOK, ServerWorker
<1>9. SocketHeldOnce' /\ FatesTold'
    BY <1>5 DEF ServerInv, SocketHeldOnce, FatesTold
<1>10. AskedOnce'
    BY <1>1, <1>2, <1>3 DEF AskedOnce
<1>11. AskedWait'
    BY <1>3 DEF AskedWait
<1>12. WaitAsked'
  <2>1. ASSUME NEW v \in Workers, worker'[v].at = "parked"
        PROVE  conn'[worker'[v].sock].done
    <3>1. worker[v].at = "parked" /\ worker'[v].sock = worker[v].sock
        BY <1>5, <2>1
    <3>2. PICK t \in Sockets : t = worker[v].sock /\ ~conn[t].abandoned
        BY <3>1, ParkedIsOpen
    <3>3. conn[t].done \/ InPending(t)
        BY <1>3, <3>1, <3>2 DEF ServerInv, WaitAsked
    <3>4. conn'[t].done
        BY <1>6, <3>2, <3>3
    <3> QED BY <3>1, <3>2, <3>4
  <2> QED BY <2>1 DEF WaitAsked
<1>13. OneVerdict'
  <2>1. ASSUME NEW t \in Sockets
        PROVE  /\ ~(conn'[t].done /\ conn'[t].abandoned)
               /\ fate[t] = "timeout" <=> conn'[t].abandoned
               /\ fate[t] \in {"handler", "error", "refused", "reloading"} => conn'[t].res = fate[t]
               /\ fate[t] \in {"subscribed", "stream"} => conn'[t].res = "stream"
    <3>1. CASE InPending(t) /\ ~conn[t].abandoned
        BY <1>6, <3>1, AskedIsOpen DEF BeingAsked
    <3>2. CASE ~(InPending(t) /\ ~conn[t].abandoned)
      <4>1. conn'[t] = conn[t]
          BY <1>6, <3>2
      <4> QED BY <4>1 DEF ServerInv, OneVerdict
    <3> QED BY <3>1, <3>2
  <2> QED BY <2>1 DEF OneVerdict
<1>14. Upgrades'
  <2>1. \A t \in Sockets : conn'[t].done => conn'[t].res \in Answers
      BY <1>6 DEF ServerInv, Upgrades, Answers
  <2>2. ASSUME NEW v \in Workers, worker'[v].at = "upgrading"
        PROVE  conn'[worker'[v].sock].res = "stream"
    <3>1. worker[v].at = "upgrading" /\ worker'[v].sock = worker[v].sock
        BY <1>5, <2>2
    <3>2. PICK t \in Sockets : t = worker[v].sock /\ ~conn[t].abandoned
        BY <3>1, ParkedIsOpen
    <3>3. ~InPending(t)
        BY <3>1, <3>2, AskedIsOpen DEF BeingAsked
    <3>4. conn'[t] = conn[t] /\ conn[t].res = "stream"
        BY <1>6, <3>1, <3>2, <3>3 DEF ServerInv, Upgrades
    <3> QED BY <3>1, <3>2, <3>4
  <2> QED BY <2>1, <2>2 DEF Upgrades
<1>15. GameTurns' /\ StopLeavesNothing'
    BY <1>1, <1>5 DEF ServerInv, GameTurns, StopLeavesNothing
<1>16. Outboxes'
    BY <1>1, <1>5, SameStreams DEF ServerInv
<1> QED BY <1>8, <1>9, <1>10, <1>11, <1>12, <1>13, <1>14, <1>15, <1>16 DEF ServerInv

LEMMA ResetKeeps ==
    ASSUME ServerInv, Reset
    PROVE  ServerInv'
<1>1. BetweenFrames /\ AnswerWaiting /\ UNCHANGED worker /\ pc = "lua"
      /\ UNCHANGED <<stopping, detached, pc>>
      /\ UNCHANGED <<listening, acceptor, queue, listens, streams, batch, handling, fate>>
    BY DEF Reset, pool, game, BetweenFrames, InLua
<1>2. Wakes
    BY <1>1, WorkerFacts DEF Wakes, ServerInv
<1>3. stopping \in BOOLEAN /\ detached \in BOOLEAN
    BY DEF ServerInv, ServerTypeOK
<1> QED BY <1>1, <1>2, <1>3, AnswerWaitingKeeps

LEMMA ShutdownKeeps ==
    ASSUME ServerInv, ServerShutdown
    PROVE  ServerInv'
<1>1. BetweenFrames /\ AnswerWaiting /\ detached' = TRUE /\ pc = "lua"
      /\ UNCHANGED <<listening, acceptor, queue, listens, streams, batch, handling, fate>>
    BY DEF ServerShutdown, BetweenFrames, InLua
<1>2. CASE listening
  <2>1. Stopped /\ stopping' = TRUE /\ pc' = "stopping"
      BY <1>2 DEF ServerShutdown, Stopped
  <2> QED BY <1>1, <1>2, <2>1, StoppedFacts, AnswerWaitingKeeps DEF ServerInv
<1>3. CASE ~listening
  <2>1. UNCHANGED <<stopping, worker, pc>>
      BY <1>3 DEF ServerShutdown
  <2>2. Wakes
      BY <2>1, WorkerFacts DEF Wakes, ServerInv
  <2>3. stopping \in BOOLEAN
      BY DEF ServerInv, ServerTypeOK
  <2> QED BY <1>1, <2>1, <2>2, <2>3, AnswerWaitingKeeps
<1> QED BY <1>2, <1>3

-----------------------------------------------------------------------------
(* HttpServer: the invariant holds                                         *)

LEMMA ServerBegins ==
    ASSUME Parameters, ServerInit
    PROVE  ServerInv
<1>1. PICK idle : idle = [at |-> "absent", sock |-> None]
    OBVIOUS
<1>2. idle \in ServerWorker /\ idle.at = "absent"
    BY <1>1 DEF ServerWorker, WorkerStates
<1>3. PICK fresh : fresh = [method |-> Get, done |-> FALSE, abandoned |-> FALSE, res |-> None]
    OBVIOUS
<1>4. fresh \in Conn /\ fresh.done = FALSE /\ fresh.abandoned = FALSE
    BY <1>3 DEF Conn, Parameters
<1>5. worker = [w \in Workers |-> idle] /\ conn = [s \in Sockets |-> fresh]
    BY <1>1, <1>3 DEF ServerInit
<1>6. /\ acceptor \in [at : {"absent", "selecting", "accepted", "exited"}, sock : Sockets \cup {None}]
      /\ acceptor.at = "absent"
    BY DEF ServerInit
<1>7. DOMAIN clients = {}
  <2>1. clients = [s \in {} |-> FALSE]
      BY DEF ServerInit
  <2> QED BY <2>1
<1>8. "outside" \in Fates
    BY DEF Fates
<1>9. ServerTypeOK
  <2>1. listening \in BOOLEAN /\ stopping \in BOOLEAN /\ detached \in BOOLEAN
    <3>1. listening = FALSE /\ stopping = FALSE /\ detached = FALSE
        BY DEF ServerInit
    <3> QED BY <3>1
  <2>4. /\ listens \in 0..MaxListens /\ pushes \in 0..MaxPushes
        /\ queue \in Seq(Sockets) /\ Len(queue) <= MaxQueue /\ pending \in Seq(Sockets) /\ batch \in Seq(Sockets)
      BY DEF ServerInit, Parameters
  <2>2. worker \in [Workers -> ServerWorker] /\ conn \in [Sockets -> Conn] /\ fate \in [Sockets -> Fates]
      BY <1>2, <1>4, <1>5, <1>8 DEF ServerInit
  <2>3. outbox \in [Sockets -> Seq(1..MaxPushes)] /\ received \in [Sockets -> Seq(1..MaxPushes)]
        /\ \A s \in Sockets : Len(outbox[s]) <= MaxOutbox
      BY DEF ServerInit, Parameters
  <2> QED BY <1>6, <1>7, <2>1, <2>2, <2>3, <2>4 DEF ServerInit, ServerTypeOK, ServerWorker
<1>10. \A w \in Workers : worker[w].at = "absent" /\ ~HasSocket(worker[w].at)
    BY <1>2, <1>5 DEF HasSocket
<1>11. SocketHeldOnce
    BY <1>6, <1>10 DEF ServerInit, SocketHeldOnce
<1>12. FatesTold
    BY <1>6, <1>10 DEF ServerInit, FatesTold
<1>13. \A t : ~InPending(t) /\ ~InBatch(t) /\ ~InHandler(t)
    BY DEF ServerInit, InPending, InBatch, InHandler
<1>14. AskedOnce /\ AskedWait /\ WaitAsked
    BY <1>10, <1>13 DEF ServerInit, AskedOnce, AskedWait, WaitAsked
<1>15. OneVerdict /\ Upgrades /\ GameTurns /\ StopLeavesNothing
    BY <1>4, <1>5, <1>6, <1>10 DEF ServerInit, OneVerdict, Upgrades, GameTurns, StopLeavesNothing
<1>16. Outboxes
  <2>1. SubscribersAreSessions
      BY <1>7, <1>10 DEF SubscribersAreSessions
  <2>2. \A s \in Sockets : outbox[s] = <<>> /\ received[s] = <<>>
      BY DEF ServerInit
  <2> QED BY <2>1, <2>2 DEF Outboxes, Increasing
<1> QED BY <1>9, <1>11, <1>12, <1>14, <1>15, <1>16 DEF ServerInv

LEMMA ServerStutters ==
    ASSUME ServerInv, UNCHANGED serverVars
    PROVE  ServerInv'
<1>1. UNCHANGED <<acceptor, worker, queue, fate, pending, conn, batch, handling, streams, listening>>
      /\ UNCHANGED <<stopping, listens, detached, routes, pc>>
    BY DEF serverVars, pool, requests, game
<1>2. GameTurns'
    BY <1>1, SameTurns DEF ServerInv
<1> QED BY <1>1, <1>2, QuietKeeps DEF ServerInv, ServerTypeOK

LEMMA ServerStep ==
    ASSUME Parameters, ServerInv, [ServerNext]_serverVars
    PROVE  ServerInv'
<1>1. CASE \E s \in Sockets : Accept(s)
    BY <1>1, AcceptKeeps
<1>2. CASE AcceptorStep
    BY <1>2, EnqueueKeeps, AcceptorExitsKeeps DEF AcceptorStep
<1>3. ASSUME NEW w \in Workers, Proceed(w)
      PROVE  ServerInv'
    BY <1>3, TakeKeeps, WaitKeeps, ExitKeeps, HeaderLineKeeps, NextLineKeeps, ReadKeeps, ReadFailsKeeps, AnsweredKeeps, GiveUpKeeps,
       SubscribeKeeps, UpgradeFailsKeeps, StreamStopsKeeps, LeaveKeeps DEF Proceed
<1>4. ASSUME NEW w \in Workers, Send(w) \/ SendFails(w)
      PROVE  ServerInv'
    BY <1>4, SendKeeps, SendFailsKeeps
<1>5. CASE (\E r \in Route : AddRoute(r)) \/ (\E p \in Plugins : RemovePlugin(p))
    BY <1>5, AddRouteKeeps, RemovePluginKeeps
<1>6. CASE PushMessage \/ Listen \/ Stop \/ StartDrain \/ HandlerReturns
    BY <1>6, PushMessageKeeps, ListenKeeps, StopKeeps, StartDrainKeeps, HandlerReturnsKeeps
<1>7. CASE GameStep
    BY <1>7, StopClientsKeeps, JoinedKeeps, SkipAbandonedKeeps, RefuseKeeps, CallHandlerKeeps, EndDrainKeeps
       DEF GameStep
<1>8. CASE Reset \/ ServerShutdown
    BY <1>8, ResetKeeps, ShutdownKeeps
<1>9. CASE UNCHANGED serverVars
    BY <1>9, ServerStutters
<1> QED BY <1>1, <1>2, <1>3, <1>4, <1>5, <1>6, <1>7, <1>8, <1>9 DEF ServerNext

LEMMA ServerInvariant == ServerSpec => []ServerInv
<1>1. ServerInit => ServerInv
    BY ServerBegins, ServerConstants
<1>2. ServerInv /\ [ServerNext]_serverVars => ServerInv'
    BY ServerStep, ServerConstants
<1> QED BY <1>1, <1>2, PTL DEF ServerSpec

-----------------------------------------------------------------------------
(* HttpServer: what the invariant says of sockets and sessions             *)

LEMMA AtMostOne ==
    ASSUME NEW S, \A x, y \in S : x = y
    PROVE  Cardinality(S) = IF S = {} THEN 0 ELSE 1
<1>1. CASE S = {}
    BY <1>1, FS_EmptySet
<1>2. CASE S # {}
  <2>1. PICK x : x \in S
      BY <1>2
  <2>2. S = {x}
      BY <2>1
  <2> QED BY <1>2, <2>2, FS_Singleton
<1> QED BY <1>1, <1>2

\* What HttpServer calls the cardinality of a set is its cardinality.
LEMMA SameCount ==
    ASSUME NEW S
    PROVE  Cardinality(S) = Cardinality(S)
BY DEF Cardinality

LEMMA OneHolderHolds ==
    ASSUME ServerInv
    PROVE  OneHolder
<1>1. SUFFICES ASSUME NEW s \in Sockets
               PROVE  Holders(s) = IF fate[s] \in {"open", "subscribed"} THEN 1 ELSE 0
    BY DEF OneHolder
<1>2. PICK Q : Q = {k \in 1..Len(queue) : queue[k] = s}
    OBVIOUS
<1>3. PICK W : W = {w \in Workers : HasSocket(worker[w].at) /\ worker[w].sock = s}
    OBVIOUS
<1>4. PICK q : q = Cardinality(Q)
    OBVIOUS
<1>5. PICK n : n = Cardinality(W)
    OBVIOUS
<1>6. Holders(s) = q + n + (IF acceptor.at = "accepted" /\ acceptor.sock = s THEN 1 ELSE 0)
    BY <1>2, <1>3, <1>4, <1>5, SameCount DEF Holders
<1>7. q = IF Q = {} THEN 0 ELSE 1
  <2>1. \A j, k \in Q : j = k
      BY <1>2 DEF ServerInv, SocketHeldOnce
  <2> QED BY <2>1, <1>4, AtMostOne
<1>8. n = IF W = {} THEN 0 ELSE 1
  <2>1. \A w, v \in W : w = v
      BY <1>3 DEF ServerInv, SocketHeldOnce
  <2> QED BY <2>1, <1>5, AtMostOne
<1>9. ~(Q # {} /\ W # {}) /\ ~(Q # {} /\ acceptor.at = "accepted" /\ acceptor.sock = s)
      /\ ~(W # {} /\ acceptor.at = "accepted" /\ acceptor.sock = s)
    BY <1>2, <1>3 DEF ServerInv, SocketHeldOnce
<1>10. fate[s] \in {"open", "subscribed"} =>
           Q # {} \/ W # {} \/ (acceptor.at = "accepted" /\ acceptor.sock = s)
    BY <1>2, <1>3 DEF ServerInv, FatesTold
<1>11. Q # {} \/ W # {} \/ (acceptor.at = "accepted" /\ acceptor.sock = s) => fate[s] \in {"open", "subscribed"}
    BY <1>2, <1>3 DEF ServerInv, FatesTold, HasSocket
<1> QED BY <1>6, <1>7, <1>8, <1>9, <1>10, <1>11

LEMMA ConsistentHolds ==
    ASSUME ServerInv
    PROVE  ServerConsistent
<1>1. \A s : /\ s \in Elements(pending) <=> InPending(s)
             /\ s \in Elements(batch) <=> InBatch(s)
    BY DEF Elements, InPending, InBatch
<1>2. NobodyForgotten
  <2>1. ASSUME NEW w \in Workers, worker[w].at = "parked"
        PROVE  \A s : s = worker[w].sock =>
                  \/ conn[s].done
                  \/ s \in Elements(pending) \cup Elements(batch)
                  \/ handling # None /\ handling.sock = s
    <3>1. PICK s : s = worker[w].sock
        OBVIOUS
    <3>2. conn[s].done \/ InPending(s) \/ InBatch(s) \/ InHandler(s)
        BY <2>1, <3>1 DEF ServerInv, WaitAsked
    <3> QED BY <1>1, <3>1, <3>2 DEF InHandler
  <2> QED BY <2>1 DEF NobodyForgotten
<1> QED BY <1>2, OneHolderHolds DEF ServerConsistent, ServerInv

\* Sockets and threads, for every number of both: a socket that is open is in
\* the hands of one thread or of the queue, a worker that waits is not
\* forgotten, the timeout and the answer exclude each other, and a stop leaves
\* nothing.
THEOREM ServerConsistentAlways == ServerSpec => []ServerConsistent
<1>1. ServerInv => ServerConsistent
    BY ConsistentHolds
<1> QED BY <1>1, ServerInvariant, PTL

LEMMA InOrderHolds ==
    ASSUME ServerInv
    PROVE  StreamInOrder
<1>1. ASSUME NEW s \in DOMAIN clients
      PROVE  /\ Increasing(received[s] \o outbox[s])
             /\ \A k \in 1..Len(outbox[s]) : outbox[s][k] = pushes - Len(outbox[s]) + k
  <2>1. s \in Sockets
      BY DEF ServerInv, ServerTypeOK
  <2>2. PICK box : box = outbox[s]
      OBVIOUS
  <2>3. PICK got : got = received[s]
      OBVIOUS
  <2>4. box \in Seq(1..MaxPushes) /\ got \in Seq(1..MaxPushes) /\ pushes \in Int /\ Numbered(box, got)
      BY <2>1, <2>2, <2>3, OutboxFacts
  <2>5. PICK n \in Nat : n = Len(box)
      BY <2>4
  <2>6. PICK m \in Nat : m = Len(got)
      BY <2>4
  <2>7. PICK all : all = got \o box
      OBVIOUS
  <2>8. Len(all) = m + n
      BY <2>4, <2>5, <2>6, <2>7
  <2>9. \A k \in 1..m : all[k] = got[k] /\ got[k] \in Int /\ got[k] <= pushes - n
    <3>1. \A k \in 1..m : all[k] = got[k]
        BY <2>4, <2>5, <2>6, <2>7
    <3>2. \A k \in 1..m : got[k] \in 1..MaxPushes
      <4>1. ASSUME NEW k \in 1..m
            PROVE  got[k] \in 1..MaxPushes
        <5>1. PICK S : S = 1..MaxPushes
            OBVIOUS
        <5>2. got \in Seq(S) /\ k \in 1..Len(got)
            BY <2>4, <2>6, <5>1
        <5>3. got[k] \in S
            BY <5>2
        <5> QED BY <5>1, <5>3
      <4> QED BY <4>1
    <3>3. \A k \in 1..m : got[k] <= pushes - n
        BY <2>4, <2>5, <2>6 DEF Numbered
    <3> QED BY <3>1, <3>2, <3>3
  <2>10. \A k \in 1..(m + n) : k > m => all[k] = pushes - n + (k - m)
    <3>1. ASSUME NEW k \in 1..(m + n), k > m
          PROVE  all[k] = pushes - n + (k - m)
      <4>1. k - m \in 1..n /\ all[k] = box[k - m]
          BY <2>4, <2>5, <2>6, <2>7, <3>1
      <4> QED BY <2>4, <2>5, <4>1 DEF Numbered
    <3> QED BY <3>1
  <2>11. \A j, k \in 1..m : j < k => got[j] < got[k]
      BY <2>4, <2>6 DEF Numbered, Increasing
  <2>12. ASSUME NEW j \in 1..(m + n), NEW k \in 1..(m + n), j < k
         PROVE  all[j] < all[k]
    <3>1. CASE k <= m
        BY <3>1, <2>9, <2>11, <2>12
    <3>2. CASE j <= m /\ k > m
        BY <3>2, <2>4, <2>9, <2>10
    <3>3. CASE j > m
        BY <3>3, <2>4, <2>10, <2>12
    <3> QED BY <3>1, <3>2, <3>3
  <2>13. Increasing(all)
      BY <2>8, <2>12 DEF Increasing
  <2> QED BY <2>2, <2>3, <2>4, <2>7, <2>13 DEF Numbered
<1> QED BY <1>1 DEF StreamInOrder, ServerInv, Outboxes

\* Sessions and their outboxes: whoever streams is pushed to and nobody else is,
\* messages come in their order, and what waits ends with the last.
THEOREM StreamInOrderAlways == ServerSpec => []StreamInOrder
<1>1. ServerInv => StreamInOrder
    BY InOrderHolds
<1> QED BY <1>1, ServerInvariant, PTL

-----------------------------------------------------------------------------
(* HttpServer implements RequestLedger                                     *)

Told(f) ==
    IF f = "outside" THEN "unasked"
    ELSE IF f = "open" THEN "waiting"
    ELSE IF f = "dropped" THEN "dropped" ELSE "called"

LEMMA BarFacts ==
    /\ statusBar = [s \in Sockets |-> Told(fate[s])]
    /\ statusBar' = [s \in Sockets |-> Told(fate'[s])]
BY DEF statusBar, Told

\* One connection is answered or closed.
LEMMA OneIsTold ==
    ASSUME NEW s \in Sockets, fate[s] = "open", Told(fate'[s]) \in {"called", "dropped"},
           \A t \in Sockets : t # s => fate'[t] = fate[t]
    PROVE  Ledger!Next
<1>1. statusBar[s] = "waiting"
    BY BarFacts DEF Told
<1>2. \A t \in Sockets : t # s => statusBar'[t] = statusBar[t]
    BY BarFacts
<1>3. statusBar = [t \in Sockets |-> statusBar[t]] /\ statusBar' = [t \in Sockets |-> statusBar'[t]]
    BY BarFacts
<1>4. CASE Told(fate'[s]) = "called"
  <2>1. statusBar'[s] = "called"
      BY <1>4, BarFacts
  <2>2. statusBar' = [statusBar EXCEPT ![s] = "called"]
      BY <1>2, <1>3, <2>1
  <2>3. Ledger!CallBack(s)
      BY <1>1, <2>2 DEF Ledger!CallBack
  <2> QED BY <2>3 DEF Ledger!Next
<1>5. CASE Told(fate'[s]) = "dropped"
  <2>1. statusBar'[s] = "dropped"
      BY <1>5, BarFacts
  <2>2. statusBar' = [t \in Sockets |-> IF t \in {s} THEN "dropped" ELSE statusBar[t]]
      BY <1>2, <1>3, <2>1
  <2>3. {s} \in SUBSET Ledger!Waiting
      BY <1>1 DEF Ledger!Waiting
  <2>4. Ledger!Drop({s})
      BY <2>2, <2>3 DEF Ledger!Drop
  <2> QED BY <2>3, <2>4 DEF Ledger!Next
<1> QED BY <1>4, <1>5

LEMMA FinishTold ==
    ASSUME ServerInv, NEW w \in Workers, worker[w].at \in {"reading", "header", "parked", "upgrading"},
           NEW how \in Fates \ {"outside", "open"}, Finish(w, how)
    PROVE  Ledger!Next
<1>1. HasSocket(worker[w].at)
    BY DEF HasSocket
<1>2. PICK s \in Sockets : s = worker[w].sock
    BY <1>1 DEF ServerInv, SocketHeldOnce
<1>3. fate'[s] = how /\ \A t \in Sockets : t # s => fate'[t] = fate[t]
    BY <1>1, <1>2, FinishFacts DEF ServerInv
<1>4. fate[s] = "open"
    BY <1>2 DEF ServerInv, FatesTold
<1>5. Told(how) \in {"called", "dropped"}
    BY DEF Told
<1> QED BY <1>3, <1>4, <1>5, OneIsTold

LEMMA StreamEndTold ==
    ASSUME ServerInv, NEW w \in Workers, LeaveSession(w)
    PROVE  UNCHANGED statusBar
<1>1. worker[w].at = "leaving" /\ Finish(w, "stream")
    BY DEF LeaveSession
<1>2. HasSocket(worker[w].at) /\ "stream" \in Fates
    BY <1>1 DEF HasSocket, Fates, Answers
<1>3. PICK s \in Sockets : s = worker[w].sock
    BY <1>2 DEF ServerInv, SocketHeldOnce
<1>4. fate'[s] = "stream" /\ \A t \in Sockets : t # s => fate'[t] = fate[t]
    BY <1>1, <1>2, <1>3, FinishFacts DEF ServerInv
<1>5. fate[s] = "subscribed"
    BY <1>1, <1>3 DEF ServerInv, FatesTold
<1>6. \A t \in Sockets : Told(fate'[t]) = Told(fate[t])
    BY <1>4, <1>5 DEF Told
<1> QED BY <1>6, BarFacts

LEMMA AcceptTold ==
    ASSUME ServerInv, NEW s \in Sockets, Accept(s)
    PROVE  Ledger!Next
<1>1. fate[s] = "outside" /\ fate'[s] = "open" /\ \A t \in Sockets : t # s => fate'[t] = fate[t]
    BY DEF Accept, ServerInv, ServerTypeOK
<1>2. statusBar[s] = "unasked" /\ statusBar'[s] = "waiting" /\ \A t \in Sockets : t # s => statusBar'[t] = statusBar[t]
    BY <1>1, BarFacts DEF Told
<1>3. statusBar = [t \in Sockets |-> statusBar[t]] /\ statusBar' = [t \in Sockets |-> statusBar'[t]]
    BY BarFacts
<1>4. statusBar' = [statusBar EXCEPT ![s] = "waiting"]
    BY <1>2, <1>3
<1>5. Ledger!Ask(s)
    BY <1>2, <1>4 DEF Ledger!Ask
<1> QED BY <1>5 DEF Ledger!Next

LEMMA EnqueueTold ==
    ASSUME ServerInv, Enqueue
    PROVE  UNCHANGED fate \/ Ledger!Next
<1>1. acceptor.at = "accepted"
    BY DEF Enqueue
<1>2. PICK s \in Sockets : s = acceptor.sock
    BY <1>1 DEF ServerInv, SocketHeldOnce
<1>3. UNCHANGED fate \/ fate' = [fate EXCEPT ![s] = "dropped"]
    BY <1>2 DEF Enqueue
<1>4. CASE fate' = [fate EXCEPT ![s] = "dropped"]
  <2>1. fate'[s] = "dropped" /\ \A t \in Sockets : t # s => fate'[t] = fate[t]
      BY <1>4 DEF ServerInv, ServerTypeOK
  <2>2. fate[s] = "open"
      BY <1>1, <1>2 DEF ServerInv, FatesTold
  <2>3. Told(fate'[s]) = "dropped"
      BY <2>1 DEF Told
  <2> QED BY <2>1, <2>2, <2>3, OneIsTold
<1> QED BY <1>3, <1>4

LEMMA JoinedTold ==
    ASSUME ServerInv, Joined
    PROVE  Ledger!Next
<1>1. PICK left : left = Elements(queue)
    OBVIOUS
<1>2. fate' = [s \in Sockets |-> IF s \in left THEN "dropped" ELSE fate[s]]
    BY <1>1 DEF Joined
<1>3. \A s \in left : s \in Sockets /\ fate[s] = "open"
    BY <1>1 DEF ServerInv, ServerTypeOK, FatesTold, Elements
<1>4. left \in SUBSET Ledger!Waiting
    BY <1>3, BarFacts DEF Ledger!Waiting, Told
<1>5. \A s \in Sockets : statusBar'[s] = IF s \in left THEN "dropped" ELSE statusBar[s]
    BY <1>2, BarFacts DEF Told
<1>6. statusBar' = [s \in Sockets |-> IF s \in left THEN "dropped" ELSE statusBar[s]]
    BY <1>5, BarFacts
<1>7. Ledger!Drop(left)
    BY <1>4, <1>6 DEF Ledger!Drop
<1> QED BY <1>4, <1>7 DEF Ledger!Next

LEMMA ProceedTold ==
    ASSUME Parameters, ServerInv, NEW w \in Workers, Proceed(w)
    PROVE  UNCHANGED statusBar \/ Ledger!Next
<1>1. CASE \/ Take(w) \/ Wait(w) \/ Exit(w) \/ StreamStops(w)
           \/ HeaderLine(w) \/ NextLine(w) \/ Read(w)
  <2>1. UNCHANGED fate
      BY <1>1 DEF Take, Wait, Exit, HeaderLine, NextLine, Read, StreamStops
  <2> QED BY <2>1 DEF statusBar
<1>2. CASE ReadFails(w) \/ UpgradeFails(w) \/ GiveUp(w)
  <2>1. /\ "bad request" \in Fates \ {"outside", "open"} /\ "dropped" \in Fates \ {"outside", "open"}
        /\ "timeout" \in Fates \ {"outside", "open"}
      BY DEF Fates
  <2> QED BY <1>2, <2>1, FinishTold DEF ReadFails, UpgradeFails, GiveUp
<1>3. CASE Answered(w)
  <2>1. worker[w].at = "parked" /\ conn[worker[w].sock].done
      BY <1>3 DEF Answered
  <2>2. PICK s \in Sockets : s = worker[w].sock
      BY <2>1 DEF ServerInv, SocketHeldOnce, HasSocket
  <2>3. PICK res \in Answers : res = conn[s].res
      BY <2>1, <2>2 DEF ServerInv, Upgrades
  <2>4. UNCHANGED fate \/ Finish(w, res)
      BY <1>3, <2>2, <2>3 DEF Answered
  <2>5. res \in Fates \ {"outside", "open"}
      BY DEF Fates, Answers
  <2>6. UNCHANGED fate => UNCHANGED statusBar
      BY DEF statusBar
  <2> QED BY <2>1, <2>4, <2>5, <2>6, FinishTold
<1>4. CASE Subscribe(w)
  <2>1. worker[w].at = "upgrading"
      BY <1>4 DEF Subscribe
  <2>2. PICK s \in Sockets : s = worker[w].sock
      BY <2>1 DEF ServerInv, SocketHeldOnce, HasSocket
  <2>3. fate'[s] = "subscribed" /\ \A t \in Sockets : t # s => fate'[t] = fate[t]
      BY <1>4, <2>2 DEF Subscribe, ServerInv, ServerTypeOK
  <2>4. fate[s] = "open"
      BY <2>1, <2>2 DEF ServerInv, FatesTold
  <2>5. Told(fate'[s]) = "called"
      BY <2>3 DEF Told
  <2> QED BY <2>3, <2>4, <2>5, OneIsTold
<1>5. CASE LeaveSession(w)
    BY <1>5, StreamEndTold
<1> QED BY <1>1, <1>2, <1>3, <1>4, <1>5 DEF Proceed

LEMMA NextTold ==
    ASSUME Parameters, ServerInv, [ServerNext]_serverVars
    PROVE  [Ledger!Next]_statusBar
<1>1. UNCHANGED fate => UNCHANGED statusBar
    BY DEF statusBar
<1>2. CASE AcceptorStep
    BY <1>1, <1>2, EnqueueTold DEF AcceptorStep, AcceptorExits
<1>3. ASSUME NEW w \in Workers, Send(w) \/ SendFails(w)
      PROVE  UNCHANGED fate
    BY <1>3 DEF Send, SendFails
<1>4. CASE (\E r \in Route : AddRoute(r)) \/ (\E p \in Plugins : RemovePlugin(p))
  <2>1. UNCHANGED fate
      BY <1>4 DEF AddRoute, RemovePlugin
  <2> QED BY <1>1, <2>1
<1>5. CASE PushMessage \/ Listen \/ Stop \/ StartDrain \/ HandlerReturns \/ Reset \/ ServerShutdown
  <2>1. UNCHANGED fate
      BY <1>5 DEF PushMessage, Listen, Stop, StartDrain, HandlerReturns, Reset, ServerShutdown
  <2> QED BY <1>1, <2>1
<1>6. CASE StopClients \/ SkipAbandoned \/ Refuse \/ CallHandler \/ EndDrain
  <2>1. UNCHANGED fate
      BY <1>6 DEF StopClients, SkipAbandoned, Refuse, CallHandler, EndDrain
  <2> QED BY <1>1, <2>1
<1>7. CASE UNCHANGED serverVars
    BY <1>1, <1>7 DEF serverVars
<1> QED BY <1>1, <1>2, <1>3, <1>4, <1>5, <1>6, <1>7, AcceptTold, ProceedTold, JoinedTold DEF ServerNext, GameStep

\* Acceptor, pool, frames and teardowns implement what RequestLedger promises:
\* a connection is answered once, or closed without an answer once.
THEOREM ServerImplementsLedger == ServerSpec => KeepsLedger
<1>1. ServerInit => Ledger!Init
  <2>1. ASSUME ServerInit PROVE \A s \in Sockets : Told(fate[s]) = "unasked"
      BY <2>1 DEF ServerInit, Told
  <2> QED BY <2>1, BarFacts DEF Ledger!Init
<1>2. ServerInv /\ [ServerNext]_serverVars => [Ledger!Next]_statusBar
    BY NextTold, ServerConstants
<1>3. ServerSpec => []ServerInv
    BY ServerInvariant
<1> QED BY <1>1, <1>2, <1>3, PTL DEF ServerSpec, KeepsLedger, Ledger!Spec
=============================================================================
