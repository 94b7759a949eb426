---------------------- MODULE TimersAndMessagesProofs ----------------------
(***************************************************************************)
(* Theorems about Timers for any plugins, names, registry slots, waits and *)
(* bounds.                                                                 *)
(*                                                                         *)
(* The inductive invariant is Consistent and NothingDueBehind, with two    *)
(* facts they need.  Numbered: an id of the present Lua state is given     *)
(* once, or a new timer could share the id and then the slot of an old     *)
(* one.  InPass: a pass that no teardown disturbed stands at the timer     *)
(* whose callback runs, and that one is no longer due; so moving the index *)
(* on leaves nobody behind, and what ReturnError kills is the thrower.     *)
(*                                                                         *)
(* What an erase leaves of the vector is computed by recursion over its    *)
(* positions; Induction says what comes of it, once (WithoutPicks).        *)
(*                                                                         *)
(* For the promise a step is looked at timer by timer: one whose new       *)
(* vector has only timers that Stem from old ones, with the same wait, is  *)
(* a Drop (DroppedSome); what is set anew, fires or counts down is one     *)
(* timer's or everybody's.                                                 *)
(*                                                                         *)
(* Messages has its theorems here too, for the induction they share: for   *)
(* any players, types, sizes of ring, window and piece.  What its steps    *)
(* rest on: Begun, that a message is open at the engine until a careless   *)
(* handler (then Broken holds); Watching, that the watch knows nothing of  *)
(* who is gone; and Rings.  A ring Follows the history: from its write     *)
(* position back it has the newest messages, then only records too old to  *)
(* be told.  The log adds the ring up from its first place, so the sums    *)
(* are compared going around (TotalOfRing), and a panel is followed turn   *)
(* by turn of its loop (ScreenIsWhole).                                    *)
(***************************************************************************)
EXTENDS Timers, Messages, WellFoundedInduction, TLAPS

-----------------------------------------------------------------------------
(* Induction over the positions of the vector                              *)

LEMMA Least == ASSUME NEW T \in SUBSET Nat, T # {}
               PROVE  \E x \in T : \A y \in T : x <= y
<1> DEFINE R == {ss \in Nat \X Nat : ss[1] < ss[2]}
<1>1. IsWellFoundedOn(R, Nat)
  BY NatLessThanWellFounded DEF OpToRel
<1>2. \A x, y \in Nat : x < y => <<x, y>> \in R
  OBVIOUS
<1> HIDE DEF R
<1>3. \E x \in T : \A y \in T : ~(<<y, x>> \in R)
  BY <1>1, WFMin
<1>4. PICK x \in T : \A y \in T : ~(<<y, x>> \in R)
  BY <1>3
<1>5. \A y \in T : ~(y < x) /\ x \in Nat /\ y \in Nat
  BY <1>2, <1>4
<1> QED BY <1>5, <1>4

\* Induction over an interval, in the form that needs no operator parameter.
LEMMA Induction ==
    ASSUME NEW n \in Nat, NEW S, 0 \in S,
           \A k \in 0..n : k + 1 <= n /\ k \in S => k + 1 \in S
    PROVE  0..n \subseteq S
<1> DEFINE T == {k \in 0..n : k \notin S}
<1>1. CASE T = {}
    BY <1>1
<1>2. CASE T # {}
  <2>1. T \in SUBSET Nat
      OBVIOUS
  <2>2. PICK x \in T : \A y \in T : x <= y
      BY <1>2, <2>1, Least
  <2>3. x # 0 /\ x \in 0..n /\ x \notin S
      OBVIOUS
  <2>4. x - 1 \in 0..n /\ x - 1 \notin T /\ (x - 1) + 1 = x
      BY <2>2, <2>3
  <2>5. x - 1 \in S
      BY <2>4
  <2> QED BY <2>3, <2>4, <2>5
<1> QED BY <1>1, <1>2


\* What stays of the first n timers is a function of n that the recursion describes.
Keeps(seq, doomed, n, f) ==
    /\ f = [k \in 0..n |-> f[k]]
    /\ f[0] = <<>>
    /\ \A k \in 1..n : f[k] = IF seq[k] \in doomed THEN f[k - 1] ELSE Append(f[k - 1], seq[k])

LEMMA KeepsExists ==
    ASSUME NEW seq, Len(seq) \in Nat, NEW doomed
    PROVE  \E f : Keeps(seq, doomed, Len(seq), f)
<1> DEFINE S == {n \in 0..Len(seq) : \E f : Keeps(seq, doomed, n, f)}
<1>1. 0 \in S
  <2>1. Keeps(seq, doomed, 0, [k \in 0..0 |-> <<>>])
      BY DEF Keeps
  <2> QED BY <2>1
<1>2. ASSUME NEW n \in 0..Len(seq), n + 1 <= Len(seq), n \in S
      PROVE  n + 1 \in S
  <2>1. PICK f : Keeps(seq, doomed, n, f)
      BY <1>2
  <2> DEFINE ending == IF seq[n + 1] \in doomed THEN f[n] ELSE Append(f[n], seq[n + 1])
             g == [k \in 0..(n + 1) |-> IF k = n + 1 THEN ending ELSE f[k]]
  <2>2. g[n + 1] = ending /\ \A k \in 0..n : g[k] = f[k]
      OBVIOUS
  <2>3. g = [k \in 0..(n + 1) |-> g[k]]
      OBVIOUS
  <2>4. \A k \in 1..(n + 1) : g[k] = IF seq[k] \in doomed THEN g[k - 1] ELSE Append(g[k - 1], seq[k])
    <3> SUFFICES ASSUME NEW k \in 1..(n + 1)
                 PROVE  g[k] = IF seq[k] \in doomed THEN g[k - 1] ELSE Append(g[k - 1], seq[k])
        OBVIOUS
    <3>1. CASE k = n + 1
      <4>1. g[k - 1] = f[n]
          BY <3>1, <2>2
      <4> QED BY <3>1, <4>1, <2>2
    <3>2. CASE k \in 1..n
      <4>1. g[k - 1] = f[k - 1] /\ g[k] = f[k]
          BY <3>2, <2>2
      <4> QED BY <4>1, <3>2, <2>1 DEF Keeps
    <3> QED BY <3>1, <3>2
  <2>5. g[0] = <<>>
      BY <2>1, <2>2 DEF Keeps
  <2>6. Keeps(seq, doomed, n + 1, g)
    <3> HIDE DEF g
    <3> QED BY <2>3, <2>4, <2>5 DEF Keeps
  <2>7. n + 1 \in 0..Len(seq)
      BY <1>2
  <2> HIDE DEF g
  <2> QED BY <2>6, <2>7
<1>3. 0..Len(seq) \subseteq S
  <2> HIDE DEF S
  <2> QED BY <1>1, <1>2, Induction
<1> QED BY <1>3

LEMMA WithoutKeeps ==
    ASSUME NEW seq, Len(seq) \in Nat, NEW doomed
    PROVE  \E f : Keeps(seq, doomed, Len(seq), f) /\ Without(seq, doomed) = f[Len(seq)]
<1> DEFINE Rule(f) == f = [n \in 0..Len(seq) |->
                             IF n = 0 THEN <<>>
                             ELSE IF seq[n] \in doomed THEN f[n - 1]
                             ELSE Append(f[n - 1], seq[n])]
           kept == CHOOSE f : Rule(f)
<1>1. Without(seq, doomed) = kept[Len(seq)]
    BY DEF Without
<1>2. PICK f : Keeps(seq, doomed, Len(seq), f)
    BY KeepsExists
<1>3. Rule(f)
  <2>1. \A n \in 0..Len(seq) : f[n] = IF n = 0 THEN <<>>
                             ELSE IF seq[n] \in doomed THEN f[n - 1]
                             ELSE Append(f[n - 1], seq[n])
    <3>1. \A n \in 0..Len(seq) : n = 0 \/ n \in 1..Len(seq)
        OBVIOUS
    <3>2. f[0] = <<>> /\ \A n \in 1..Len(seq) : f[n] =
             IF seq[n] \in doomed THEN f[n - 1] ELSE Append(f[n - 1], seq[n])
        BY <1>2 DEF Keeps
    <3>3. \A n \in 1..Len(seq) : n # 0
        OBVIOUS
    <3> QED BY <3>1, <3>2, <3>3
  <2>2. f = [n \in 0..Len(seq) |-> f[n]]
      BY <1>2 DEF Keeps
  <2> QED BY <2>1, <2>2
<1>4. Rule(kept)
  <2> HIDE DEF Rule
  <2> QED BY <1>3
<1>5. Keeps(seq, doomed, Len(seq), kept)
  <2> HIDE DEF kept
  <2>1. \A n \in 0..Len(seq) : kept[n] = IF n = 0 THEN <<>>
                             ELSE IF seq[n] \in doomed THEN kept[n - 1]
                             ELSE Append(kept[n - 1], seq[n])
      BY <1>4
  <2>2. kept = [n \in 0..Len(seq) |-> kept[n]]
      BY <1>4
  <2>3. kept[0] = <<>>
      BY <2>1
  <2>4. \A n \in 1..Len(seq) : n \in 0..Len(seq) /\ n # 0
      OBVIOUS
  <2>5. \A n \in 1..Len(seq) : kept[n] = IF seq[n] \in doomed THEN kept[n - 1]
                                        ELSE Append(kept[n - 1], seq[n])
      BY <2>1, <2>4
  <2> QED BY <2>2, <2>3, <2>5 DEF Keeps
<1> QED BY <1>1, <1>5

\* The n-th stage is a subsequence of the first n timers, with none of the doomed.
Picks(seq, doomed, n, kept, from) ==
    /\ from \in [1..Len(kept) -> 1..n]
    /\ \A k \in 1..Len(kept) : kept[k] = seq[from[k]] /\ kept[k] \notin doomed /\ k <= from[k]
    /\ \A j, k \in 1..Len(kept) : j < k => from[j] < from[k]
    /\ \A i \in 1..n : seq[i] \notin doomed => \E k \in 1..Len(kept) : from[k] = i
    /\ Len(kept) <= n
    /\ (\E i \in 1..n : seq[i] \in doomed) => Len(kept) < n

LEMMA WithoutPicks ==
    ASSUME NEW T, NEW seq \in Seq(T), NEW doomed
    PROVE  /\ Without(seq, doomed) \in Seq(T)
           /\ \E from : Picks(seq, doomed, Len(seq), Without(seq, doomed), from)
<1>1. PICK f : Keeps(seq, doomed, Len(seq), f) /\ Without(seq, doomed) = f[Len(seq)]
    BY WithoutKeeps
<1> DEFINE S == {n \in 0..Len(seq) : f[n] \in Seq(T) /\ \E from : Picks(seq, doomed, n, f[n], from)}
<1>2. 0 \in S
  <2>1. f[0] = <<>> /\ <<>> \in Seq(T) /\ 0 \in 0..Len(seq)
      BY <1>1 DEF Keeps
  <2>2. Picks(seq, doomed, 0, <<>>, <<>>)
    <3>1. Len(<<>>) = 0 /\ 1..0 = {}
        OBVIOUS
    <3>2. <<>> \in [{} -> {}]
        OBVIOUS
    <3> QED BY <3>1, <3>2 DEF Picks
  <2>3. f[0] \in Seq(T) /\ \E from : Picks(seq, doomed, 0, f[0], from)
      BY <2>1, <2>2
  <2> QED BY <2>1, <2>3
<1>3. ASSUME NEW n \in 0..Len(seq), n + 1 <= Len(seq), n \in S
      PROVE  n + 1 \in S
  <2>1. f[n + 1] = IF seq[n + 1] \in doomed THEN f[n] ELSE Append(f[n], seq[n + 1])
    <3>1. n + 1 \in 1..Len(seq) /\ (n + 1) - 1 = n
        BY <1>3
    <3>2. \A k \in 1..Len(seq) : f[k] =
             IF seq[k] \in doomed THEN f[k - 1] ELSE Append(f[k - 1], seq[k])
        BY <1>1 DEF Keeps
    <3> QED BY <3>1, <3>2
  <2>2. PICK from : Picks(seq, doomed, n, f[n], from)
      BY <1>3
  <2>3. f[n] \in Seq(T) /\ Len(f[n]) \in Nat
      BY <1>3
  <2>4. CASE seq[n + 1] \in doomed
    <3>1. f[n + 1] = f[n]
        BY <2>1, <2>4
    <3>2. Picks(seq, doomed, n + 1, f[n], from)
      <4> DEFINE g == f[n]
      <4> HIDE DEF g
      <4>1. Len(g) \in Nat /\ Picks(seq, doomed, n, g, from)
          BY <2>2, <2>3 DEF g
      <4>2. from \in [1..Len(g) -> 1..(n + 1)] /\ Len(g) <= n + 1 /\ Len(g) < n + 1
          BY <4>1 DEF Picks
      <4>3. \A i \in 1..(n + 1) : seq[i] \notin doomed => \E k \in 1..Len(g) : from[k] = i
        <5>1. \A i \in 1..(n + 1) : seq[i] \notin doomed => i \in 1..n
            BY <2>4
        <5> QED BY <5>1, <4>1 DEF Picks
      <4>4. Picks(seq, doomed, n + 1, g, from)
          BY <4>1, <4>2, <4>3 DEF Picks
      <4> QED BY <4>4 DEF g
    <3> QED BY <3>1, <3>2, <2>3, <1>3
  <2>5. CASE seq[n + 1] \notin doomed
    <3> DEFINE m == Len(f[n])
               from2 == [k \in 1..(m + 1) |-> IF k = m + 1 THEN n + 1 ELSE from[k]]
    <3>1. f[n + 1] = Append(f[n], seq[n + 1]) /\ seq[n + 1] \in T
        BY <2>1, <2>5, <1>3
    <3>2. /\ f[n + 1] \in Seq(T) /\ Len(f[n + 1]) = m + 1
          /\ f[n + 1][m + 1] = seq[n + 1]
          /\ \A k \in 1..m : f[n + 1][k] = f[n][k]
        BY <3>1, <2>3
    <3>3. from2[m + 1] = n + 1 /\ \A k \in 1..m : from2[k] = from[k]
        BY <2>3
    <3>4. from2 \in [1..(m + 1) -> 1..(n + 1)]
      <4>1. \A k \in 1..m : from[k] \in 1..n
          BY <2>2 DEF Picks
      <4> QED BY <4>1, <2>3
    <3>5. \A k \in 1..(m + 1) : f[n + 1][k] = seq[from2[k]] /\ f[n + 1][k] \notin doomed /\ k <= from2[k]
      <4> HIDE DEF from2
      <4>1. \A k \in 1..m : f[n + 1][k] = seq[from2[k]] /\ f[n + 1][k] \notin doomed /\ k <= from2[k]
          BY <3>2, <3>3, <2>2 DEF Picks
      <4>2. m <= n
          BY <2>2 DEF Picks
      <4>3. f[n + 1][m + 1] = seq[from2[m + 1]] /\ f[n + 1][m + 1] \notin doomed /\ m + 1 <= from2[m + 1]
          BY <3>2, <3>3, <2>5, <4>2, <2>3
      <4>4. \A k \in 1..(m + 1) : k \in 1..m \/ k = m + 1
          BY <2>3
      <4> QED BY <4>1, <4>3, <4>4
    <3>6. \A j, k \in 1..(m + 1) : j < k => from2[j] < from2[k]
      <4> HIDE DEF from2
      <4>1. \A k \in 1..m : from[k] \in 1..n
          BY <2>2 DEF Picks
      <4>2. \A j, k \in 1..m : j < k => from2[j] < from2[k]
          BY <3>3, <2>2 DEF Picks
      <4>3. \A j \in 1..m : from2[j] < from2[m + 1]
          BY <4>1, <3>3
      <4> QED BY <4>2, <4>3, <2>3
    <3>7. \A i \in 1..(n + 1) : seq[i] \notin doomed => \E k \in 1..(m + 1) : from2[k] = i
      <4> HIDE DEF from2
      <4>1. \A i \in 1..n : seq[i] \notin doomed => \E k \in 1..m : from2[k] = i
          BY <3>3, <2>2 DEF Picks
      <4>2. m + 1 \in 1..(m + 1) /\ \A k \in 1..m : k \in 1..(m + 1)
          BY <2>3
      <4> QED BY <4>1, <4>2, <3>3
    <3>8. m + 1 <= n + 1 /\ ((\E i \in 1..(n + 1) : seq[i] \in doomed) => m + 1 < n + 1)
      <4>1. m <= n /\ ((\E i \in 1..n : seq[i] \in doomed) => m < n)
          BY <2>2 DEF Picks
      <4> QED BY <4>1, <2>5, <2>3
    <3>9. Picks(seq, doomed, n + 1, f[n + 1], from2)
      <4> HIDE DEF from2
      <4> QED BY <3>2, <3>4, <3>5, <3>6, <3>7, <3>8 DEF Picks
    <3> QED BY <3>9, <3>2, <1>3
  <2> QED BY <2>4, <2>5
<1>4. Len(seq) \in S
  <2> HIDE DEF S
  <2>1. 0..Len(seq) \subseteq S
      BY <1>2, <1>3, Induction
  <2> QED BY <2>1
<1> QED BY <1>1, <1>4

-----------------------------------------------------------------------------
(* The invariant                                                           *)

\* Ids of the present Lua state are given once.
Numbered == \A k \in Indices : timers[k].id < nextId

\* A pass that no teardown disturbed stands at the timer whose callback runs,
\* and that one is not due again; between callbacks it is in the vector or just
\* behind it.
InPass ==
    /\ (pc = "callback" /\ ~disturbed) =>
          /\ at \in Indices /\ timers[at].id = owner /\ ~Due(timers[at])
    /\ (pc = "walk" /\ ~disturbed) => at <= Len(timers) + 1

IInv == Consistent /\ NothingDueBehind /\ Numbered /\ InPass

LEMMA InvariantParts ==
    IInv <=> /\ TypeOK /\ RefsMatchTimers /\ OneTimerPerName
             /\ NothingDueBehind /\ Numbered /\ InPass
BY DEF IInv, Consistent

LEMMA InvariantPartsNext ==
    IInv' <=> /\ TypeOK' /\ RefsMatchTimers' /\ OneTimerPerName'
              /\ NothingDueBehind' /\ Numbered' /\ InPass'
BY DEF IInv, Consistent

LEMMA TimerFacts ==
    /\ \A t \in Timer : /\ t.id \in Ids /\ t.id \in Int /\ t.ref \in Refs /\ t.plugin \in Plugins
                        /\ t.next \in Nat /\ t.interval \in Nat /\ t.dead \in BOOLEAN
                        /\ t.name \in Names \cup {NoName} /\ t.persist \in BOOLEAN
    /\ Ids \subseteq Nat \ {0}
    /\ 0 \notin Ids
<1>1. Ids \subseteq Nat \ {0}
    BY TimerConstants DEF Ids
<1>2. \A t \in Timer : /\ t.id \in Ids /\ t.ref \in Refs /\ t.plugin \in Plugins
                        /\ t.next \in Nat /\ t.interval \in Nat /\ t.dead \in BOOLEAN
                        /\ t.name \in Names \cup {NoName} /\ t.persist \in BOOLEAN
    BY DEF Timer
<1>3. \A id \in Ids : id \in Int /\ id # 0
    BY <1>1
<1> QED BY <1>1, <1>2, <1>3

LEMMA VectorFacts ==
    ASSUME TypeOK
    PROVE  /\ timers \in Seq(Timer) /\ Len(timers) \in Nat
           /\ \A k \in Indices : timers[k] \in Timer
           /\ at \in Nat /\ clock \in Nat /\ nextId \in Nat
           /\ disturbed \in BOOLEAN
<1>1. clock \in Nat /\ nextId \in Nat
    BY TimerConstants DEF TypeOK
<1> QED BY <1>1 DEF TypeOK, Indices

\* Distinct timers have distinct slots.
LEMMA SlotsDistinct ==
    ASSUME TypeOK, RefsMatchTimers
    PROVE  \A j, k \in Indices : timers[j].ref = timers[k].ref => j = k
BY DEF RefsMatchTimers

-----------------------------------------------------------------------------
(* Changes of the vector                                                   *)

\* The same timers at the same indices, some of them dead now or with another time.
LEMMA SameTimers ==
    ASSUME TypeOK, RefsMatchTimers, OneTimerPerName, Numbered,
           Len(timers') = Len(timers), registry' = registry, nextId' = nextId,
           \A k \in Indices :
              /\ timers'[k].id = timers[k].id /\ timers'[k].ref = timers[k].ref
              /\ timers'[k].plugin = timers[k].plugin /\ timers'[k].name = timers[k].name
              /\ ~timers'[k].dead => ~timers[k].dead
    PROVE  RefsMatchTimers' /\ OneTimerPerName' /\ Numbered'
<1>1. Indices' = Indices
    BY DEF Indices
<1>2. RefsMatchTimers'
    BY <1>1 DEF RefsMatchTimers
<1>3. OneTimerPerName'
    BY <1>1 DEF OneTimerPerName
<1>4. Numbered'
    BY <1>1 DEF Numbered
<1> QED BY <1>2, <1>3, <1>4

\* The vector without the timers that are gone, in their order.
Thinned(new, gone, from) ==
    /\ from \in [1..Len(new) -> Indices]
    /\ \A j, k \in 1..Len(new) : j < k => from[j] < from[k]
    /\ \A k \in 1..Len(new) :
          /\ timers[from[k]] \notin gone
          /\ new[k].id = timers[from[k]].id /\ new[k].ref = timers[from[k]].ref
          /\ new[k].plugin = timers[from[k]].plugin /\ new[k].name = timers[from[k]].name
          /\ new[k].dead = timers[from[k]].dead
    /\ \A i \in Indices : timers[i] \notin gone => \E k \in 1..Len(new) : from[k] = i

LEMMA ThinnedOnce ==
    ASSUME TypeOK, NEW new, Len(new) \in Nat, NEW gone, NEW from, Thinned(new, gone, from)
    PROVE  \A j, k \in 1..Len(new) : from[j] = from[k] => j = k
<1>1. \A k \in 1..Len(new) : from[k] \in Int
    BY DEF Thinned, Indices
<1>2. ASSUME NEW j \in 1..Len(new), NEW k \in 1..Len(new), from[j] = from[k]
      PROVE  j = k
  <2>1. ~(j < k) /\ ~(k < j)
      BY <1>1, <1>2 DEF Thinned
  <2> QED BY <2>1
<1> QED BY <1>2

LEMMA ThinnedKeeps ==
    ASSUME TypeOK, RefsMatchTimers, OneTimerPerName, Numbered,
           Len(timers') \in Nat, nextId' = nextId, NEW gone \in SUBSET Entries, NEW from,
           Thinned(timers', gone, from), registry' = Released(RefsOf(gone))
    PROVE  RefsMatchTimers' /\ OneTimerPerName' /\ Numbered'
<1>1. Indices' = 1..Len(timers')
    BY DEF Indices
<1>2. \A k \in Indices' :
         /\ from[k] \in Indices /\ timers[from[k]] \notin gone
         /\ timers'[k].id = timers[from[k]].id /\ timers'[k].ref = timers[from[k]].ref
         /\ timers'[k].plugin = timers[from[k]].plugin
         /\ timers'[k].name = timers[from[k]].name
         /\ timers'[k].dead = timers[from[k]].dead
    BY <1>1 DEF Thinned
<1>3. \A j, k \in Indices' : from[j] = from[k] => j = k
  <2>1. PICK new : new = timers'
      OBVIOUS
  <2> QED BY <1>1, <2>1, ThinnedOnce
<1>4. \A i \in Indices : timers[i].ref \in RefsOf(gone) => timers[i] \in gone
  <2> SUFFICES ASSUME NEW i \in Indices, NEW t \in gone, timers[i].ref = t.ref
               PROVE  timers[i] \in gone
      BY DEF RefsOf
  <2>1. PICK j \in Indices : t = timers[j]
      BY DEF Entries
  <2> QED BY <2>1, SlotsDistinct
<1>5. \A i \in Indices : timers[i].ref \in Refs
    BY VectorFacts, TimerFacts
<1>6. RefsMatchTimers'
  <2>1. ASSUME NEW k \in Indices' PROVE registry'[timers'[k].ref] = timers'[k].id
    <3>1. timers[from[k]].ref \notin RefsOf(gone) /\ timers[from[k]].ref \in Refs
        BY <1>2, <1>4, <1>5
    <3> QED BY <1>2, <3>1 DEF RefsMatchTimers, Released
  <2>2. ASSUME NEW r \in Refs, registry'[r] # Free
        PROVE  \E k \in Indices' : timers'[k].ref = r
    <3>1. r \notin RefsOf(gone) /\ registry[r] # Free
        BY <2>2 DEF Released
    <3>2. PICK i \in Indices : timers[i].ref = r
        BY <3>1 DEF RefsMatchTimers
    <3>3. timers[i] \notin gone
        BY <3>1, <3>2 DEF RefsOf
    <3>4. PICK k \in Indices' : from[k] = i
        BY <3>3, <1>1 DEF Thinned
    <3> QED BY <3>2, <3>4, <1>2
  <2>3. \A j, k \in Indices' : timers'[j].id = timers'[k].id => j = k
      BY <1>2, <1>3 DEF RefsMatchTimers
  <2> QED BY <2>1, <2>2, <2>3 DEF RefsMatchTimers
<1>7. OneTimerPerName'
  <2> SUFFICES ASSUME NEW j \in Indices', NEW k \in Indices',
                      ~timers'[j].dead, ~timers'[k].dead,
                      timers'[j].plugin = timers'[k].plugin,
                      timers'[j].name = timers'[k].name, timers'[j].name # NoName
               PROVE  j = k
      BY DEF OneTimerPerName
  <2>1. from[j] = from[k]
      BY <1>2 DEF OneTimerPerName
  <2> QED BY <2>1, <1>3
<1>8. Numbered'
    BY <1>2 DEF Numbered
<1> QED BY <1>6, <1>7, <1>8

\* What Without leaves, in these terms.
LEMMA WithoutThins ==
    ASSUME TypeOK, NEW gone
    PROVE  /\ Without(timers, gone) \in Seq(Timer)
           /\ \E from : /\ Thinned(Without(timers, gone), gone, from)
                        /\ \A k \in 1..Len(Without(timers, gone)) :
                              Without(timers, gone)[k] = timers[from[k]]
<1> DEFINE kept == Without(timers, gone)
<1>1. kept \in Seq(Timer) /\ \E from : Picks(timers, gone, Len(timers), kept, from)
    BY WithoutPicks DEF TypeOK
<1> HIDE DEF kept
<1>2. PICK from : Picks(timers, gone, Len(timers), kept, from)
    BY <1>1
<1>3. \A k \in 1..Len(kept) : kept[k] = timers[from[k]] /\ kept[k] \notin gone
    BY <1>2 DEF Picks
<1>4. Thinned(kept, gone, from)
    BY <1>2, <1>3 DEF Picks, Thinned, Indices
<1> QED BY <1>1, <1>3, <1>4 DEF kept

LEMMA ReleasedType == ASSUME TypeOK, NEW refs PROVE Released(refs) \in [Refs -> Ids \cup {Free}]
BY DEF TypeOK, Released

\* Writing one entry of the vector.
LEMMA PutAt ==
    ASSUME NEW seq \in Seq(Timer), NEW k \in 1..Len(seq), NEW t \in Timer
    PROVE  LET new == [seq EXCEPT ![k] = t]
           IN  /\ new \in Seq(Timer) /\ Len(new) = Len(seq) /\ new[k] = t
               /\ \A j \in 1..Len(seq) : j # k => new[j] = seq[j]
<1>1. seq \in [1..Len(seq) -> Timer] /\ Len(seq) \in Nat
    OBVIOUS
<1> DEFINE new == [seq EXCEPT ![k] = t]
<1>2. new \in [1..Len(seq) -> Timer] /\ new[k] = t /\ \A j \in 1..Len(seq) : j # k => new[j] = seq[j]
    BY <1>1
<1>3. new \in Seq(Timer) /\ Len(new) = Len(seq)
  <2> HIDE DEF new
  <2> QED BY <1>1, <1>2
<1> QED BY <1>2, <1>3

-----------------------------------------------------------------------------
(* Every step keeps the invariant: Lua code                                *)

LEMMA AddStep ==
    ASSUME IInv, NEW p \in Plugins, NEW delay \in Nat, NEW interval \in Nat,
           NEW name \in Names \cup {NoName}, NEW persist \in BOOLEAN,
           name # NoName => FindNamed(p, name) = {}, InLua,
           Add(p, delay, interval, name, persist)
    PROVE  IInv'
<1>1. TypeOK /\ RefsMatchTimers /\ OneTimerPerName /\ NothingDueBehind /\ Numbered /\ InPass
    BY InvariantParts
<1>2. PICK r \in FreeRefs :
          /\ registry' = [registry EXCEPT ![r] = nextId]
          /\ timers' = Append(timers,
                [id |-> nextId, ref |-> r, plugin |-> p, next |-> clock + delay,
                 interval |-> interval, dead |-> FALSE, name |-> name, persist |-> persist])
    BY DEF Add
<1> DEFINE t == [id |-> nextId, ref |-> r, plugin |-> p, next |-> clock + delay,
                 interval |-> interval, dead |-> FALSE, name |-> name, persist |-> persist]
<1>3. /\ nextId \in Ids /\ nextId' = nextId + 1
      /\ UNCHANGED <<clock, last, pc, at, owner, disturbed>>
      /\ r \in Refs /\ registry[r] = Free /\ Free # nextId
    BY <1>2, TimerConstants DEF Add, FreeRefs
<1>4. /\ timers \in Seq(Timer) /\ Len(timers) \in Nat /\ clock \in Nat /\ at \in Nat
      /\ nextId \in Nat
    BY <1>1, VectorFacts
<1>5. t \in Timer /\ t.id = nextId /\ t.ref = r /\ t.plugin = p /\ t.name = name /\ ~t.dead
    BY <1>3, <1>4 DEF Timer
<1> HIDE DEF t
<1>6. /\ timers' \in Seq(Timer) /\ Len(timers') = Len(timers) + 1
      /\ timers'[Len(timers) + 1] = t
      /\ \A k \in Indices : timers'[k] = timers[k]
    BY <1>2, <1>4, <1>5 DEF t, Indices
<1>7. /\ \A k \in Indices' : k \in Indices \/ k = Len(timers) + 1
      /\ \A k \in Indices : k \in Indices' /\ k <= Len(timers)
      /\ Len(timers) + 1 \in Indices'
    BY <1>4, <1>6 DEF Indices
<1>8. TypeOK'
  <2>1. nextId' \in 1..MaxTimers + 1
      BY <1>3, TimerConstants DEF Ids
  <2>2. registry' \in [Refs -> Ids \cup {Free}]
      BY <1>1, <1>2, <1>3 DEF TypeOK
  <2> QED BY <1>1, <1>3, <1>6, <2>1, <2>2 DEF TypeOK
<1>9. registry'[r] = nextId /\ \A s \in Refs : s # r => registry'[s] = registry[s]
    BY <1>1, <1>2, <1>3 DEF TypeOK
<1>10. \A k \in Indices : timers[k].id # nextId /\ timers[k].id \in Ids
                          /\ timers[k].ref \in Refs /\ timers[k].ref # r
  <2>1. \A k \in Indices : timers[k].id \in Ids /\ timers[k].id \in Int
                           /\ timers[k].id < nextId /\ timers[k].ref \in Refs
      BY <1>1, VectorFacts, TimerFacts DEF Numbered
  <2>2. \A k \in Indices : registry[timers[k].ref] = timers[k].id
      BY <1>1 DEF RefsMatchTimers
  <2> QED BY <1>3, <1>4, <2>1, <2>2, TimerConstants
<1>11. RefsMatchTimers'
  <2>1. \A k \in Indices' : registry'[timers'[k].ref] = timers'[k].id
      BY <1>1, <1>5, <1>6, <1>7, <1>9, <1>10 DEF RefsMatchTimers
  <2>2. \A s \in Refs : registry'[s] # Free => \E k \in Indices' : timers'[k].ref = s
      BY <1>1, <1>5, <1>6, <1>7, <1>9 DEF RefsMatchTimers
  <2>3. \A j, k \in Indices' : timers'[j].id = timers'[k].id => j = k
      BY <1>1, <1>5, <1>6, <1>7, <1>10 DEF RefsMatchTimers
  <2> QED BY <2>1, <2>2, <2>3 DEF RefsMatchTimers
<1>12. OneTimerPerName'
  <2>1. \A k \in Indices : (~timers[k].dead /\ timers[k].plugin = p /\ timers[k].name = name)
                           => name = NoName
    <3>1. SUFFICES ASSUME NEW k \in Indices, ~timers[k].dead, timers[k].plugin = p,
                          timers[k].name = name, name # NoName
                   PROVE  FALSE
        OBVIOUS
    <3>2. k \in Named(p, name)
        BY <3>1 DEF Named
    <3>3. \A j \in Named(p, name) : j = k
        BY <1>1, <3>1 DEF Named, OneTimerPerName
    <3>4. k \in Nat /\ k <= k
        BY DEF Indices
    <3>5. k \in FindNamed(p, name)
        BY <3>2, <3>3, <3>4 DEF FindNamed
    <3> QED BY <3>1, <3>5
  <2>2. ASSUME NEW j \in Indices', NEW k \in Indices',
               ~timers'[j].dead, ~timers'[k].dead, timers'[j].plugin = timers'[k].plugin,
               timers'[j].name = timers'[k].name, timers'[j].name # NoName
        PROVE  j = k
    <3>1. CASE j \in Indices /\ k \in Indices
        BY <1>1, <1>6, <2>2, <3>1 DEF OneTimerPerName
    <3>2. CASE j \in Indices /\ k = Len(timers) + 1
        BY <1>5, <1>6, <2>1, <2>2, <3>2
    <3>3. CASE k \in Indices /\ j = Len(timers) + 1
        BY <1>5, <1>6, <2>1, <2>2, <3>3
    <3> QED BY <1>7, <3>1, <3>2, <3>3
  <2> QED BY <2>2 DEF OneTimerPerName
<1>13. NothingDueBehind'
  <2> SUFFICES ASSUME pc # "idle", ~disturbed, NEW k \in Indices', k < at
               PROVE  ~Due(timers[k])'
      BY <1>3 DEF NothingDueBehind
  <2>1. at \in Indices
      BY <1>1 DEF InPass, InLua
  <2>2. k \in Indices
      BY <1>4, <1>7, <2>1
  <2> QED BY <1>1, <1>3, <1>6, <2>2 DEF NothingDueBehind, Due
<1>14. Numbered'
  <2>1. \A k \in Indices : timers[k].id \in Int /\ timers[k].id < nextId
      BY <1>1, VectorFacts, TimerFacts DEF Numbered
  <2>2. \A k \in Indices : timers'[k].id < nextId'
      BY <1>3, <1>4, <1>6, <2>1
  <2>3. timers'[Len(timers) + 1].id < nextId'
      BY <1>3, <1>4, <1>5, <1>6
  <2> QED BY <1>7, <2>2, <2>3 DEF Numbered
<1>15. InPass'
  <2>1. (pc = "callback" /\ ~disturbed) =>
           at \in Indices' /\ timers'[at].id = owner /\ ~Due(timers[at])'
      BY <1>1, <1>3, <1>6, <1>7 DEF InPass, Due
  <2>2. pc # "walk"
      BY DEF InLua
  <2> QED BY <1>3, <2>1, <2>2 DEF InPass
<1> QED BY <1>8, <1>11, <1>12, <1>13, <1>14, <1>15, InvariantPartsNext

\* timer.create of a name that is there: the timer stays where it is.
LEMMA ReplaceStep ==
    ASSUME IInv, InLua, NEW p \in Plugins, NEW name \in Names, NEW period \in Periods,
           NEW once \in BOOLEAN, NEW persist \in BOOLEAN,
           NEW k \in FindNamed(p, name), NEW r \in Refs,
           r = timers[k].ref \/ r \in FreeRefs,
           registry' = [Released({timers[k].ref}) EXCEPT ![r] = timers[k].id],
           timers' = [timers EXCEPT ![k].ref = r,
                                    ![k].next = clock + period,
                                    ![k].interval = IF once THEN 0 ELSE period,
                                    ![k].persist = persist],
           UNCHANGED <<nextId, clock, last, pc, at, owner, disturbed>>
    PROVE  IInv'
<1>1. TypeOK /\ RefsMatchTimers /\ OneTimerPerName /\ NothingDueBehind /\ Numbered /\ InPass
    BY InvariantParts
<1>2. /\ timers \in Seq(Timer) /\ Len(timers) \in Nat /\ clock \in Nat /\ at \in Nat
      /\ \A j \in Indices : timers[j] \in Timer
    BY <1>1, VectorFacts
<1>3. k \in Indices /\ ~timers[k].dead
    BY DEF FindNamed, Named
<1>4. period \in Nat /\ period > 0
    BY TimerConstants DEF Periods
<1> DEFINE t == [timers[k] EXCEPT !.ref = r, !.next = clock + period,
                                  !.interval = IF once THEN 0 ELSE period, !.persist = persist]
<1>5. /\ t \in Timer /\ t.id = timers[k].id /\ t.ref = r /\ t.plugin = timers[k].plugin
      /\ t.name = timers[k].name /\ t.next = clock + period /\ t.dead = timers[k].dead
  <2> DEFINE i == IF once THEN 0 ELSE period
  <2>1. i \in Nat /\ clock + period \in Nat
      BY <1>2, <1>4
  <2> HIDE DEF i
  <2>2. PICK u \in Timer : u = timers[k]
      BY <1>2, <1>3
  <2>3. PICK n \in Nat : n = clock + period
      BY <2>1
  <2> DEFINE v == [u EXCEPT !.ref = r, !.next = n, !.interval = i, !.persist = persist]
  <2>4. v \in Timer
      BY <2>1 DEF Timer
  <2>5. /\ v.id = u.id /\ v.ref = r /\ v.plugin = u.plugin
        /\ v.name = u.name /\ v.next = n /\ v.dead = u.dead
      BY DEF Timer
  <2>6. t = v
      BY <2>2, <2>3 DEF i
  <2> HIDE DEF t, v
  <2> QED BY <2>2, <2>3, <2>4, <2>5, <2>6
<1>6. timers' = [timers EXCEPT ![k] = t]
    BY <1>2, <1>3
<1> HIDE DEF t
<1>7. /\ timers' \in Seq(Timer) /\ Len(timers') = Len(timers) /\ timers'[k] = t
      /\ \A j \in Indices : j # k => timers'[j] = timers[j]
  <2> DEFINE new == [timers EXCEPT ![k] = t]
  <2>1. /\ new \in Seq(Timer) /\ Len(new) = Len(timers) /\ new[k] = t
        /\ \A j \in Indices : j # k => new[j] = timers[j]
      BY <1>2, <1>3, <1>5, PutAt DEF Indices
  <2>2. timers' = new
      BY <1>6
  <2> HIDE DEF new
  <2> QED BY <2>1, <2>2
<1>8. Indices' = Indices
    BY <1>7 DEF Indices
<1>9. \A j \in Indices : timers[j].ref \in Refs /\ timers[j].id \in Ids
    BY <1>2, TimerFacts
<1>10. \A j \in Indices : j # k => timers[j].ref # r /\ timers[j].ref # timers[k].ref
  <2>1. \A j \in Indices : registry[timers[j].ref] # Free
      BY <1>1, <1>9, TimerConstants DEF RefsMatchTimers
  <2> QED BY <1>1, <1>3, <2>1, SlotsDistinct DEF FreeRefs
<1>11. /\ registry'[r] = timers[k].id
       /\ \A s \in Refs : s # r => registry'[s] = IF s = timers[k].ref THEN Free ELSE registry[s]
    BY DEF Released
<1>12. TypeOK'
  <2>1. registry' \in [Refs -> Ids \cup {Free}]
      BY <1>1, <1>3, <1>9, ReleasedType
  <2> QED BY <1>1, <1>7, <2>1 DEF TypeOK
<1>13. RefsMatchTimers'
  <2>1. \A j \in Indices : registry'[timers'[j].ref] = timers'[j].id
    <3>1. registry'[timers'[k].ref] = timers'[k].id
        BY <1>5, <1>7, <1>11
    <3>2. \A j \in Indices : j # k => registry'[timers[j].ref] = registry[timers[j].ref]
        BY <1>9, <1>10, <1>11
    <3>3. \A j \in Indices : registry[timers[j].ref] = timers[j].id
        BY <1>1 DEF RefsMatchTimers
    <3>4. ASSUME NEW j \in Indices, j # k
          PROVE  registry'[timers'[j].ref] = timers'[j].id
      <4>1. timers'[j] = timers[j]
          BY <1>7, <3>4
      <4>2. registry'[timers[j].ref] = timers[j].id
          BY <3>2, <3>3, <3>4
      <4> QED BY <4>1, <4>2
    <3> QED BY <3>1, <3>4
  <2>2. ASSUME NEW s \in Refs, registry'[s] # Free
        PROVE  \E j \in Indices : timers'[j].ref = s
    <3>1. CASE s = r
        BY <1>3, <1>5, <1>7, <3>1
    <3>2. CASE s # r
      <4>1. s # timers[k].ref /\ registry[s] # Free
          BY <1>11, <2>2, <3>2
      <4>2. PICK j \in Indices : timers[j].ref = s
          BY <1>1, <4>1 DEF RefsMatchTimers
      <4> QED BY <1>7, <4>1, <4>2
    <3> QED BY <3>1, <3>2
  <2>3. \A i, j \in Indices : timers'[i].id = timers'[j].id => i = j
    <3>1. \A j \in Indices : timers'[j].id = timers[j].id
        BY <1>5, <1>7
    <3> QED BY <1>1, <3>1 DEF RefsMatchTimers
  <2> QED BY <1>8, <2>1, <2>2, <2>3 DEF RefsMatchTimers
<1>14. OneTimerPerName'
  <2>1. \A j \in Indices : /\ timers'[j].plugin = timers[j].plugin
                           /\ timers'[j].name = timers[j].name
                           /\ timers'[j].dead = timers[j].dead
      BY <1>5, <1>7
  <2> QED BY <1>1, <1>8, <2>1 DEF OneTimerPerName
<1>15. \A j \in Indices : Due(timers[j])' => Due(timers[j])
  <2>1. \A j \in Indices : j # k => (Due(timers[j])' <=> Due(timers[j]))
      BY <1>7 DEF Due
  <2>2. ~Due(timers[k])'
      BY <1>2, <1>4, <1>5, <1>7 DEF Due
  <2> QED BY <2>1, <2>2
<1>16. NothingDueBehind'
    BY <1>1, <1>8, <1>15 DEF NothingDueBehind
<1>17. Numbered' /\ \A j \in Indices : timers'[j].id = timers[j].id
    BY <1>1, <1>5, <1>7, <1>8 DEF Numbered
<1>18. InPass'
    BY <1>1, <1>7, <1>8, <1>15, <1>17 DEF InPass
<1> QED BY <1>12, <1>13, <1>14, <1>16, <1>17, <1>18, InvariantPartsNext

LEMMA CreateStep ==
    ASSUME IInv, NEW p \in Plugins, NEW name \in Names, NEW period \in Periods,
           NEW once \in BOOLEAN, NEW persist \in BOOLEAN,
           Create(p, name, period, once, persist)
    PROVE  IInv'
<1>1. period \in Nat /\ (IF once THEN 0 ELSE period) \in Nat /\ InLua
    BY TimerConstants DEF Periods, Create
<1>2. CASE FindNamed(p, name) = {}
    BY <1>1, <1>2, AddStep DEF Create
<1>3. CASE FindNamed(p, name) # {}
  <2>1. PICK k \in FindNamed(p, name), r \in Refs :
            /\ r = timers[k].ref \/ r \in FreeRefs
            /\ registry' = [Released({timers[k].ref}) EXCEPT ![r] = timers[k].id]
            /\ timers' = [timers EXCEPT ![k].ref = r,
                                        ![k].next = clock + period,
                                        ![k].interval = IF once THEN 0 ELSE period,
                                        ![k].persist = persist]
      BY <1>3 DEF Create
  <2>2. UNCHANGED <<nextId, clock, last, pc, at, owner, disturbed>>
      BY <1>3 DEF Create
  <2> QED BY <1>1, <2>1, <2>2, ReplaceStep
<1> QED BY <1>2, <1>3

\* One timer is dead from now on: a cancel, or an error of a callback.
LEMMA Killed ==
    ASSUME TypeOK, NEW k \in Indices, timers' = [timers EXCEPT ![k].dead = TRUE]
    PROVE  /\ timers' \in Seq(Timer) /\ Len(timers') = Len(timers)
           /\ timers'[k].dead
           /\ \A j \in Indices : j # k => timers'[j] = timers[j]
           /\ \A j \in Indices :
                 /\ timers'[j].id = timers[j].id /\ timers'[j].ref = timers[j].ref
                 /\ timers'[j].plugin = timers[j].plugin /\ timers'[j].name = timers[j].name
                 /\ timers'[j].next = timers[j].next
                 /\ timers'[j].interval = timers[j].interval
                 /\ timers'[j].persist = timers[j].persist
                 /\ ~timers'[j].dead => ~timers[j].dead
<1>1. timers \in Seq(Timer) /\ timers[k] \in Timer /\ Len(timers) \in Nat
    BY VectorFacts
<1> DEFINE t == [timers[k] EXCEPT !.dead = TRUE]
<1>2. /\ t \in Timer /\ t.id = timers[k].id /\ t.ref = timers[k].ref
      /\ t.plugin = timers[k].plugin /\ t.name = timers[k].name /\ t.next = timers[k].next
      /\ t.interval = timers[k].interval /\ t.persist = timers[k].persist /\ t.dead
    BY <1>1 DEF Timer
<1>3. timers' = [timers EXCEPT ![k] = t]
    BY <1>1
<1> HIDE DEF t
<1>4. /\ timers' \in Seq(Timer) /\ Len(timers') = Len(timers) /\ timers'[k] = t
      /\ \A j \in Indices : j # k => timers'[j] = timers[j]
  <2> DEFINE new == [timers EXCEPT ![k] = t]
  <2>1. /\ new \in Seq(Timer) /\ Len(new) = Len(timers) /\ new[k] = t
        /\ \A j \in Indices : j # k => new[j] = timers[j]
      BY <1>1, <1>2, PutAt DEF Indices
  <2>2. timers' = new
      BY <1>3
  <2> HIDE DEF new
  <2> QED BY <2>1, <2>2
<1> QED BY <1>2, <1>4

LEMMA KillStep ==
    ASSUME IInv, NEW k \in Indices, Kill(k)
    PROVE  IInv'
<1>1. TypeOK /\ RefsMatchTimers /\ OneTimerPerName /\ NothingDueBehind /\ Numbered /\ InPass
    BY InvariantParts
<1>2. /\ timers' = [timers EXCEPT ![k].dead = TRUE]
      /\ UNCHANGED <<nextId, clock, last, registry, pc, at, owner, disturbed>>
    BY DEF Kill
<1>3. /\ timers' \in Seq(Timer) /\ Len(timers') = Len(timers)
      /\ \A j \in Indices :
            /\ timers'[j].id = timers[j].id /\ timers'[j].ref = timers[j].ref
            /\ timers'[j].plugin = timers[j].plugin /\ timers'[j].name = timers[j].name
            /\ timers'[j].next = timers[j].next
            /\ ~timers'[j].dead => ~timers[j].dead
    BY <1>1, <1>2, Killed
<1>4. TypeOK'
    BY <1>1, <1>2, <1>3 DEF TypeOK
<1>5. RefsMatchTimers' /\ OneTimerPerName' /\ Numbered'
    BY <1>1, <1>2, <1>3, SameTimers
<1>6. Indices' = Indices /\ \A j \in Indices : Due(timers[j])' => Due(timers[j])
    BY <1>2, <1>3 DEF Indices, Due
<1>7. NothingDueBehind'
    BY <1>1, <1>2, <1>6 DEF NothingDueBehind
<1>8. InPass'
    BY <1>1, <1>2, <1>3, <1>6 DEF InPass
<1> QED BY <1>4, <1>5, <1>7, <1>8, InvariantPartsNext

\* Erase: some are gone, with their slots.
LEMMA Erased ==
    ASSUME TypeOK, RefsMatchTimers, OneTimerPerName, Numbered,
           NEW gone \in SUBSET Entries, Erase(gone), nextId' = nextId
    PROVE  /\ timers' \in Seq(Timer) /\ registry' \in [Refs -> Ids \cup {Free}]
           /\ RefsMatchTimers' /\ OneTimerPerName' /\ Numbered'
<1>1. timers' = Without(timers, gone) /\ registry' = Released(RefsOf(gone))
    BY DEF Erase
<1>2. timers' \in Seq(Timer) /\ \E from : Thinned(timers', gone, from)
    BY <1>1, WithoutThins
<1>3. Len(timers') \in Nat
    BY <1>2
<1> QED BY <1>1, <1>2, <1>3, ThinnedKeeps, ReleasedType

LEMMA RemovePluginStep ==
    ASSUME IInv, NEW p \in Plugins, RemovePlugin(p)
    PROVE  IInv'
<1>1. TypeOK /\ RefsMatchTimers /\ OneTimerPerName /\ NothingDueBehind /\ Numbered /\ InPass
    BY InvariantParts
<1>2. /\ Erase({t \in Entries : t.plugin = p}) /\ pc \in {"idle", "callback"}
      /\ disturbed' = (disturbed \/ (pc = "callback" /\ timers' # timers))
      /\ UNCHANGED <<nextId, clock, last, pc, at, owner>>
    BY DEF RemovePlugin, InLua
<1>3. /\ timers' \in Seq(Timer) /\ registry' \in [Refs -> Ids \cup {Free}]
      /\ RefsMatchTimers' /\ OneTimerPerName' /\ Numbered'
    BY <1>1, <1>2, Erased
<1>4. TypeOK'
    BY <1>1, <1>2, <1>3 DEF TypeOK
<1>5. CASE pc = "callback" /\ timers' = timers
  <2>1. disturbed' => disturbed \/ FALSE
      BY <1>2, <1>5
  <2>2. disturbed => disturbed'
      BY <1>2
  <2> QED BY <1>1, <1>2, <1>3, <1>4, <1>5, <2>1, <2>2, InvariantPartsNext
          DEF NothingDueBehind, InPass, Indices, Due
<1>6. CASE ~(pc = "callback" /\ timers' = timers)
  <2>1. pc = "idle" \/ disturbed'
      BY <1>2, <1>6
  <2> QED BY <1>2, <1>3, <1>4, <2>1, InvariantPartsNext DEF NothingDueBehind, InPass
<1> QED BY <1>5, <1>6


-----------------------------------------------------------------------------
(* Every step keeps the invariant: the pass                                *)

LEMMA TickStep == ASSUME IInv, Tick PROVE IInv'
<1>1. TypeOK /\ RefsMatchTimers /\ OneTimerPerName /\ Numbered
    BY InvariantParts
<1>2. /\ clock' = clock + 1 /\ clock < MaxClock /\ last' = clock + 1 /\ disturbed' = FALSE
      /\ pc' = IF timers = <<>> THEN "idle" ELSE "walk"
      /\ at' = IF timers = <<>> THEN 0 ELSE 1
      /\ UNCHANGED <<timers, nextId, registry, owner>>
    BY DEF Tick
<1>3. Len(timers) \in Nat /\ Indices' = Indices /\ \A k \in Indices : k >= 1
    BY <1>1, <1>2, VectorFacts DEF Indices
<1>4. TypeOK'
  <2>1. clock' \in 0..MaxClock
      BY <1>1, <1>2, TimerConstants DEF TypeOK
  <2> QED BY <1>1, <1>2, <2>1 DEF TypeOK
<1>5. RefsMatchTimers' /\ OneTimerPerName' /\ Numbered'
    BY <1>1, <1>2 DEF RefsMatchTimers, OneTimerPerName, Numbered, Indices
<1>6. NothingDueBehind'
  <2>1. at' <= 1 /\ at' \in Int
      BY <1>2
  <2>2. \A k \in Indices : k \in Int /\ ~(k < at')
      BY <1>3, <2>1 DEF Indices
  <2> QED BY <1>3, <2>2 DEF NothingDueBehind
<1>7. InPass'
  <2>1. pc' # "callback"
      BY <1>2
  <2>2. pc' = "walk" => at' <= Len(timers') + 1
      BY <1>2, <1>3
  <2> QED BY <2>1, <2>2 DEF InPass
<1> QED BY <1>4, <1>5, <1>6, <1>7, InvariantPartsNext

LEMMA PassStep == ASSUME IInv, Pass PROVE IInv'
<1>1. TypeOK /\ RefsMatchTimers /\ OneTimerPerName /\ NothingDueBehind /\ Numbered
    BY InvariantParts
<1>2. /\ pc = "walk" /\ at \in Indices /\ ~Due(timers[at]) /\ at' = at + 1
      /\ UNCHANGED <<timers, nextId, clock, last, registry, pc, owner, disturbed>>
    BY DEF Pass
<1>3. Len(timers) \in Nat /\ at \in Nat /\ at <= Len(timers) /\ Indices' = Indices
    BY <1>1, <1>2, VectorFacts DEF Indices
<1>4. TypeOK'
    BY <1>1, <1>2 DEF TypeOK
<1>5. RefsMatchTimers' /\ OneTimerPerName' /\ Numbered'
    BY <1>1, <1>2 DEF RefsMatchTimers, OneTimerPerName, Numbered, Indices
<1>6. NothingDueBehind'
  <2> SUFFICES ASSUME ~disturbed, NEW k \in Indices, k < at + 1
               PROVE  ~Due(timers[k])
      BY <1>2, <1>3 DEF NothingDueBehind, Due
  <2>1. k < at \/ k = at
      BY <1>3 DEF Indices
  <2> QED BY <1>1, <1>2, <2>1 DEF NothingDueBehind
<1>7. InPass'
    BY <1>2, <1>3 DEF InPass
<1> QED BY <1>4, <1>5, <1>6, <1>7, InvariantPartsNext

\* The timer that is called: armed again, or dead.
LEMMA Called ==
    ASSUME TypeOK, Call
    PROVE  /\ at \in Indices /\ Due(timers[at])
           /\ timers' \in Seq(Timer) /\ Len(timers') = Len(timers)
           /\ \A j \in Indices : j # at => timers'[j] = timers[j]
           /\ \A j \in Indices :
                 /\ timers'[j].id = timers[j].id /\ timers'[j].ref = timers[j].ref
                 /\ timers'[j].plugin = timers[j].plugin /\ timers'[j].name = timers[j].name
                 /\ timers'[j].interval = timers[j].interval
                 /\ timers'[j].persist = timers[j].persist
                 /\ ~timers'[j].dead => ~timers[j].dead
           /\ IF timers[at].interval > 0
              THEN timers'[at].next = clock + timers[at].interval /\ ~timers'[at].dead
              ELSE timers'[at].dead
<1>1. /\ at \in Indices /\ Due(timers[at])
      /\ timers' = IF timers[at].interval > 0
                   THEN [timers EXCEPT ![at].next = clock + timers[at].interval]
                   ELSE [timers EXCEPT ![at].dead = TRUE]
    BY DEF Call
<1>2. CASE ~(timers[at].interval > 0)
  <2>1. timers' = [timers EXCEPT ![at].dead = TRUE]
      BY <1>1, <1>2
  <2> QED BY <1>1, <1>2, <2>1, Killed
<1>3. CASE timers[at].interval > 0
  <2>1. timers \in Seq(Timer) /\ timers[at] \in Timer /\ Len(timers) \in Nat /\ clock \in Nat
      BY <1>1, VectorFacts
  <2>2. PICK n : n = clock + timers[at].interval
      OBVIOUS
  <2>3. n \in Nat
      BY <2>1, <2>2, TimerFacts
  <2> DEFINE t == [timers[at] EXCEPT !.next = n]
  <2>4. /\ t \in Timer /\ t.id = timers[at].id /\ t.ref = timers[at].ref
        /\ t.plugin = timers[at].plugin /\ t.name = timers[at].name /\ t.next = n
        /\ t.interval = timers[at].interval /\ t.persist = timers[at].persist
        /\ t.dead = timers[at].dead
      BY <2>1, <2>3 DEF Timer
  <2>5. timers' = [timers EXCEPT ![at] = t]
      BY <1>1, <1>3, <2>1, <2>2
  <2> HIDE DEF t
  <2>6. /\ timers' \in Seq(Timer) /\ Len(timers') = Len(timers) /\ timers'[at] = t
        /\ \A j \in Indices : j # at => timers'[j] = timers[j]
    <3> DEFINE new == [timers EXCEPT ![at] = t]
    <3>1. /\ new \in Seq(Timer) /\ Len(new) = Len(timers) /\ new[at] = t
          /\ \A j \in Indices : j # at => new[j] = timers[j]
        BY <1>1, <2>1, <2>4, PutAt DEF Indices
    <3>2. timers' = new
        BY <2>5
    <3> HIDE DEF new
    <3> QED BY <3>1, <3>2
  <2>7. ~timers[at].dead
      BY <1>1 DEF Due
  <2> QED BY <1>1, <1>3, <2>2, <2>4, <2>6, <2>7
<1> QED BY <1>2, <1>3

LEMMA CallStep == ASSUME IInv, Call PROVE IInv'
<1>1. TypeOK /\ RefsMatchTimers /\ OneTimerPerName /\ NothingDueBehind /\ Numbered
    BY InvariantParts
<1>2. /\ pc = "walk" /\ pc' = "callback" /\ owner' = timers[at].id
      /\ UNCHANGED <<nextId, clock, last, registry, at, disturbed>>
    BY DEF Call
<1>3. /\ at \in Indices
      /\ timers' \in Seq(Timer) /\ Len(timers') = Len(timers)
      /\ \A j \in Indices : j # at => timers'[j] = timers[j]
      /\ \A j \in Indices :
            /\ timers'[j].id = timers[j].id /\ timers'[j].ref = timers[j].ref
            /\ timers'[j].plugin = timers[j].plugin /\ timers'[j].name = timers[j].name
            /\ ~timers'[j].dead => ~timers[j].dead
      /\ IF timers[at].interval > 0
         THEN timers'[at].next = clock + timers[at].interval /\ ~timers'[at].dead
         ELSE timers'[at].dead
    BY <1>1, Called
<1>4. Indices' = Indices
    BY <1>3 DEF Indices
<1>5. timers[at] \in Timer /\ clock \in Nat
    BY <1>1, <1>3, VectorFacts
<1>6. TypeOK'
  <2>1. owner' \in 0..MaxTimers
      BY <1>2, <1>5, TimerFacts DEF Ids
  <2> QED BY <1>1, <1>2, <1>3, <2>1 DEF TypeOK
<1>7. RefsMatchTimers' /\ OneTimerPerName' /\ Numbered'
    BY <1>1, <1>2, <1>3, SameTimers
<1>8. ~Due(timers[at])'
  <2>1. CASE timers[at].interval > 0
    <3>1. timers[at].interval \in Nat
        BY <1>5, TimerFacts
    <3>2. timers'[at].next = clock + timers[at].interval
        BY <1>3, <2>1
    <3>3. ~(clock + timers[at].interval <= clock)
        BY <1>5, <2>1, <3>1
    <3> QED BY <1>2, <3>2, <3>3 DEF Due
  <2>2. CASE ~(timers[at].interval > 0)
      BY <1>2, <1>3, <2>2 DEF Due
  <2> QED BY <2>1, <2>2
<1>9. NothingDueBehind'
  <2> SUFFICES ASSUME ~disturbed, NEW k \in Indices, k < at
               PROVE  ~Due(timers[k])'
      BY <1>2, <1>4 DEF NothingDueBehind
  <2>1. ~Due(timers[k])
      BY <1>1, <1>2 DEF NothingDueBehind
  <2>2. k # at
      BY <1>3 DEF Indices
  <2>3. timers'[k] = timers[k]
      BY <1>3, <2>2
  <2> QED BY <1>2, <2>1, <2>3 DEF Due
<1>10. InPass'
  <2>1. timers'[at].id = timers[at].id
      BY <1>3
  <2> QED BY <1>2, <1>3, <1>4, <1>8, <2>1 DEF InPass
<1> QED BY <1>6, <1>7, <1>9, <1>10, InvariantPartsNext

LEMMA ReturnStep == ASSUME IInv, Return PROVE IInv'
<1>1. TypeOK /\ RefsMatchTimers /\ OneTimerPerName /\ NothingDueBehind /\ Numbered /\ InPass
    BY InvariantParts
<1>2. /\ pc = "callback" /\ pc' = "walk" /\ at' = at + 1 /\ owner' = 0
      /\ UNCHANGED <<timers, nextId, clock, last, registry, disturbed>>
    BY DEF Return
<1>3. Len(timers) \in Nat /\ at \in Nat /\ Indices' = Indices
    BY <1>1, <1>2, VectorFacts DEF Indices
<1>4. TypeOK'
    BY <1>1, <1>2, TimerConstants DEF TypeOK
<1>5. RefsMatchTimers' /\ OneTimerPerName' /\ Numbered'
    BY <1>1, <1>2 DEF RefsMatchTimers, OneTimerPerName, Numbered, Indices
<1>6. NothingDueBehind'
  <2> SUFFICES ASSUME ~disturbed, NEW k \in Indices, k < at + 1
               PROVE  ~Due(timers[k])
      BY <1>2, <1>3 DEF NothingDueBehind, Due
  <2>1. k < at \/ k = at
      BY <1>3 DEF Indices
  <2> QED BY <1>1, <1>2, <2>1 DEF NothingDueBehind, InPass
<1>7. InPass'
  <2>1. ~disturbed => at <= Len(timers)
      BY <1>1, <1>2, <1>3 DEF InPass, Indices
  <2>2. ~disturbed => at' <= Len(timers') + 1
      BY <1>2, <1>3, <2>1
  <2> QED BY <1>2, <2>2 DEF InPass
<1> QED BY <1>4, <1>5, <1>6, <1>7, InvariantPartsNext

LEMMA ReturnErrorStep == ASSUME IInv, ReturnError PROVE IInv'
<1>1. TypeOK /\ RefsMatchTimers /\ OneTimerPerName /\ NothingDueBehind /\ Numbered /\ InPass
    BY InvariantParts
<1>2. /\ pc = "callback" /\ pc' = "walk" /\ at' = at + 1 /\ owner' = 0
      /\ timers' = IF at \in Indices THEN [timers EXCEPT ![at].dead = TRUE] ELSE timers
      /\ UNCHANGED <<nextId, clock, last, registry, disturbed>>
    BY DEF ReturnError
<1>3. Len(timers) \in Nat /\ at \in Nat
    BY <1>1, VectorFacts
<1>4. /\ timers' \in Seq(Timer) /\ Len(timers') = Len(timers)
      /\ \A j \in Indices :
            /\ timers'[j].id = timers[j].id /\ timers'[j].ref = timers[j].ref
            /\ timers'[j].plugin = timers[j].plugin /\ timers'[j].name = timers[j].name
            /\ timers'[j].next = timers[j].next
            /\ ~timers'[j].dead => ~timers[j].dead
  <2>1. CASE at \in Indices
    <3>1. timers' = [timers EXCEPT ![at].dead = TRUE]
        BY <1>2, <2>1
    <3> QED BY <1>1, <2>1, <3>1, Killed
  <2>2. CASE at \notin Indices
    <3>1. timers' = timers
        BY <1>2, <2>2
    <3> QED BY <1>1, <3>1, VectorFacts
  <2> QED BY <2>1, <2>2
<1>5. Indices' = Indices /\ \A j \in Indices : Due(timers[j])' => Due(timers[j])
    BY <1>2, <1>4 DEF Indices, Due
<1>6. TypeOK'
    BY <1>1, <1>2, <1>4, TimerConstants DEF TypeOK
<1>7. RefsMatchTimers' /\ OneTimerPerName' /\ Numbered'
    BY <1>1, <1>2, <1>4, SameTimers
<1>8. NothingDueBehind'
  <2> SUFFICES ASSUME ~disturbed, NEW k \in Indices, k < at + 1
               PROVE  ~Due(timers[k])'
      BY <1>2, <1>5 DEF NothingDueBehind
  <2>1. k < at \/ k = at
      BY <1>3 DEF Indices
  <2>2. ~Due(timers[k])
      BY <1>1, <1>2, <2>1 DEF NothingDueBehind, InPass
  <2> QED BY <1>5, <2>2
<1>9. InPass'
  <2>1. ~disturbed => at <= Len(timers)
      BY <1>1, <1>2, <1>3 DEF InPass, Indices
  <2>2. ~disturbed => at' <= Len(timers') + 1
      BY <1>2, <1>3, <1>4, <2>1
  <2> QED BY <1>2, <2>2 DEF InPass
<1> QED BY <1>6, <1>7, <1>8, <1>9, InvariantPartsNext

LEMMA EndPassStep == ASSUME IInv, EndPass PROVE IInv'
<1>1. TypeOK /\ RefsMatchTimers /\ OneTimerPerName /\ Numbered
    BY InvariantParts
<1>2. /\ Erase({t \in Entries : t.dead}) /\ pc' = "idle" /\ at' = 0 /\ disturbed' = FALSE
      /\ UNCHANGED <<nextId, clock, last, owner>>
    BY DEF EndPass
<1>3. /\ timers' \in Seq(Timer) /\ registry' \in [Refs -> Ids \cup {Free}]
      /\ RefsMatchTimers' /\ OneTimerPerName' /\ Numbered'
    BY <1>1, <1>2, Erased
<1>4. TypeOK'
    BY <1>1, <1>2, <1>3 DEF TypeOK
<1> QED BY <1>2, <1>3, <1>4, InvariantPartsNext DEF NothingDueBehind, InPass

-----------------------------------------------------------------------------
(* Every step keeps the invariant: maps and Lua states                     *)

\* What is left of a vector when a map ends, timer by timer.
LEMMA Rebased ==
    ASSUME TypeOK, Rebase
    PROVE  /\ timers' \in Seq(Timer)
           /\ \E from : /\ Thinned(timers', {t \in Entries : ~t.persist}, from)
                        /\ \A k \in 1..Len(timers') :
                              /\ timers'[k].next = LeftAt(timers[from[k]], last)
                              /\ timers'[k].interval = timers[from[k]].interval
                              /\ timers'[k].persist = timers[from[k]].persist
<1> DEFINE leave == {t \in Entries : ~t.persist}
           stay == Without(timers, leave)
           new == [k \in 1..Len(stay) |-> [stay[k] EXCEPT !.next = LeftAt(stay[k], last)]]
<1>1. timers' = new
    BY DEF Rebase
<1>2. stay \in Seq(Timer)
      /\ \E from : /\ Thinned(stay, leave, from)
                   /\ \A k \in 1..Len(stay) : stay[k] = timers[from[k]]
    BY WithoutThins
<1> HIDE DEF leave, stay
<1>3. last \in Nat /\ Len(stay) \in Nat
    BY <1>2, VectorFacts DEF TypeOK
<1>4. PICK from : /\ Thinned(stay, leave, from)
                  /\ \A k \in 1..Len(stay) : stay[k] = timers[from[k]]
    BY <1>2
<1>5. ASSUME NEW k \in 1..Len(stay)
      PROVE  /\ new[k] \in Timer
             /\ new[k].next = LeftAt(stay[k], last)
             /\ new[k].id = stay[k].id /\ new[k].ref = stay[k].ref
             /\ new[k].plugin = stay[k].plugin /\ new[k].name = stay[k].name
             /\ new[k].dead = stay[k].dead /\ new[k].interval = stay[k].interval
             /\ new[k].persist = stay[k].persist
  <2>1. PICK t \in Timer : t = stay[k]
      BY <1>2
  <2>2. LeftAt(t, last) \in Nat
      BY <1>3, TimerFacts DEF LeftAt
  <2>3. PICK n \in Nat : n = LeftAt(t, last)
      BY <2>2
  <2> DEFINE u == [t EXCEPT !.next = n]
  <2>4. /\ u \in Timer /\ u.next = n /\ u.id = t.id /\ u.ref = t.ref /\ u.plugin = t.plugin
        /\ u.name = t.name /\ u.dead = t.dead /\ u.interval = t.interval
        /\ u.persist = t.persist
      BY DEF Timer
  <2>5. new[k] = u
      BY <2>1, <2>3
  <2> HIDE DEF u, new
  <2> QED BY <2>1, <2>3, <2>4, <2>5
<1>6. new \in Seq(Timer) /\ Len(new) = Len(stay)
  <2>1. new = [k \in 1..Len(stay) |-> new[k]]
      OBVIOUS
  <2> HIDE DEF new
  <2>2. new \in [1..Len(stay) -> Timer]
      BY <1>5, <2>1
  <2> QED BY <1>3, <2>2
<1> HIDE DEF new
<1>7. Thinned(new, leave, from)
    BY <1>4, <1>5, <1>6 DEF Thinned
<1>8. \A k \in 1..Len(new) : /\ new[k].next = LeftAt(timers[from[k]], last)
                             /\ new[k].interval = timers[from[k]].interval
                             /\ new[k].persist = timers[from[k]].persist
    BY <1>4, <1>5, <1>6
<1> QED BY <1>1, <1>6, <1>7, <1>8 DEF leave

LEMMA RebaseStep == ASSUME IInv, Rebase PROVE IInv'
<1>1. TypeOK /\ RefsMatchTimers /\ OneTimerPerName /\ Numbered
    BY InvariantParts
<1> DEFINE leave == {t \in Entries : ~t.persist}
<1>2. /\ pc = "idle" /\ clock' = 0 /\ last' = 0 /\ registry' = Released(RefsOf(leave))
      /\ UNCHANGED <<nextId, pc, at, owner, disturbed>>
    BY DEF Rebase
<1>3. timers' \in Seq(Timer) /\ \E from : Thinned(timers', leave, from)
    BY <1>1, Rebased
<1>4. leave \in SUBSET Entries /\ Len(timers') \in Nat
    BY <1>3
<1> HIDE DEF leave
<1>5. RefsMatchTimers' /\ OneTimerPerName' /\ Numbered'
    BY <1>1, <1>2, <1>3, <1>4, ThinnedKeeps
<1>6. TypeOK'
  <2>1. registry' \in [Refs -> Ids \cup {Free}]
      BY <1>1, <1>2, ReleasedType
  <2>2. clock' \in 0..MaxClock
      BY <1>2, TimerConstants
  <2> QED BY <1>1, <1>2, <1>3, <2>1, <2>2 DEF TypeOK
<1> QED BY <1>2, <1>5, <1>6, InvariantPartsNext DEF NothingDueBehind, InPass

LEMMA ClearStep == ASSUME IInv, Clear PROVE IInv'
<1>1. TypeOK
    BY InvariantParts
<1>2. /\ pc = "idle" /\ timers' = <<>> /\ nextId' = 1 /\ last' = 0
      /\ registry' = [r \in Refs |-> Free]
      /\ UNCHANGED <<clock, pc, at, owner, disturbed>>
    BY DEF Clear
<1>3. Indices' = {} /\ timers' \in Seq(Timer)
    BY <1>2 DEF Indices
<1>4. TypeOK'
  <2>1. nextId' \in 1..MaxTimers + 1
      BY <1>2, TimerConstants
  <2>2. registry' \in [Refs -> Ids \cup {Free}]
      BY <1>2
  <2> QED BY <1>1, <1>2, <1>3, <2>1, <2>2 DEF TypeOK
<1> QED BY <1>2, <1>3, <1>4, InvariantPartsNext
        DEF RefsMatchTimers, OneTimerPerName, NothingDueBehind, Numbered, InPass

LEMMA InitHolds == Init => IInv
<1> SUFFICES ASSUME Init PROVE IInv
    OBVIOUS
<1>1. Indices = {} /\ timers \in Seq(Timer)
    BY DEF Init, Indices
<1>2. TypeOK
  <2>1. 1 \in 1..MaxTimers + 1 /\ 0 \in 0..MaxClock /\ 0 \in 0..MaxTimers
      BY TimerConstants
  <2> QED BY <1>1, <2>1 DEF Init, TypeOK
<1> QED BY <1>1, <1>2, InvariantParts
        DEF Init, RefsMatchTimers, OneTimerPerName, NothingDueBehind, Numbered, InPass

LEMMA StutterStep == ASSUME IInv, UNCHANGED vars PROVE IInv'
BY DEF vars, IInv, Consistent, TypeOK, RefsMatchTimers, OneTimerPerName, NothingDueBehind,
       Numbered, InPass, Indices, Due

LEMMA NextKeeps == IInv /\ [Next]_vars => IInv'
<1> SUFFICES ASSUME IInv, [Next]_vars PROVE IInv'
    OBVIOUS
<1>1. ASSUME NEW p \in Plugins, NEW persist \in BOOLEAN, NEW d \in Delays, After(p, d, persist)
      PROVE  IInv'
  <2>1. d \in Nat /\ NoName \in Names \cup {NoName} /\ 0 \in Nat
      BY TimerConstants
  <2> QED BY <1>1, <2>1, AddStep DEF After
<1>2. ASSUME NEW p \in Plugins, NEW persist \in BOOLEAN, NEW d \in Periods, Every(p, d, persist)
      PROVE  IInv'
  <2>1. d \in Nat /\ NoName \in Names \cup {NoName}
      BY TimerConstants DEF Periods
  <2> QED BY <1>2, <2>1, AddStep DEF Every
<1>3. ASSUME NEW id \in Ids, Cancel(id) PROVE IInv'
    BY <1>3, KillStep DEF Cancel
<1>4. ASSUME NEW p \in Plugins, NEW n \in Names, Destroy(p, n) PROVE IInv'
    BY <1>4, KillStep DEF Destroy, FindNamed, Named
<1> QED BY <1>1, <1>2, <1>3, <1>4, CreateStep, RemovePluginStep, TickStep, PassStep, CallStep,
           ReturnStep, ReturnErrorStep, EndPassStep, RebaseStep, ClearStep, StutterStep
        DEF Next

-----------------------------------------------------------------------------
(* Results                                                                 *)

LEMMA InvariantAlways == Spec => []IInv
BY InitHolds, NextKeeps, PTL DEF Spec

\* Between any two steps every timer has its own registry slot and every used
\* slot its timer, ids are distinct, and a plugin has one live timer of a name.
THEOREM ConsistentAlways == Spec => []Consistent
<1>1. IInv => Consistent
    BY DEF IInv
<1> QED BY <1>1, InvariantAlways, PTL

\* A pass that no teardown disturbs leaves nobody behind who is due.
THEOREM NothingDueBehindAlways == Spec => []NothingDueBehind
<1>1. IInv => NothingDueBehind
    BY DEF IInv
<1> QED BY <1>1, InvariantAlways, PTL

\* In such a pass an error of a callback kills the timer it belongs to, nobody else.
THEOREM ErrorKillsAlways == Spec => ErrorKillsOnlyTheThrower
<1>1. ASSUME IInv, ~disturbed, ReturnError, NEW k \in Indices, ~timers[k].dead, timers'[k].dead
      PROVE  timers[k].id = owner
  <2>1. TypeOK /\ InPass
      BY <1>1, InvariantParts
  <2>2. at \in Indices /\ timers[at].id = owner
      BY <1>1, <2>1 DEF ReturnError, InPass
  <2>3. timers' = [timers EXCEPT ![at].dead = TRUE]
      BY <1>1, <2>2 DEF ReturnError
  <2>4. \A j \in Indices : j # at => timers'[j] = timers[j]
      BY <2>1, <2>2, <2>3, Killed
  <2>5. k = at
      BY <1>1, <2>4
  <2> QED BY <2>2, <2>5
<1>2. IInv => [~disturbed => ErrorKillsOwner]_vars
    BY <1>1 DEF ErrorKillsOwner
<1> QED BY <1>2, InvariantAlways, PTL DEF ErrorKillsOnlyTheThrower

-----------------------------------------------------------------------------
(* The promise                                                             *)

\* The state of TimerPromise that a vector and a clock stand for.
LiveIn(seq) == {seq[k].id : k \in {j \in 1..Len(seq) : ~seq[j].dead}}

Holder(seq, id) == seq[CHOOSE k \in 1..Len(seq) : seq[k].id = id]

LeftIn(seq, now) == [id \in LiveIn(seq) |-> LeftAt(Holder(seq, id), now)]

EveryIn(seq) == [id \in LiveIn(seq) |-> Holder(seq, id).interval]

KeepsIn(seq) == [id \in LiveIn(seq) |-> Holder(seq, id).persist]

\* Every live timer stands for itself, and nothing else is set.
LEMMA Standing ==
    ASSUME NEW seq, NEW now,
           \A j, k \in 1..Len(seq) : seq[j].id = seq[k].id => j = k
    PROVE  /\ DOMAIN LeftIn(seq, now) = LiveIn(seq)
           /\ DOMAIN EveryIn(seq) = LiveIn(seq)
           /\ DOMAIN KeepsIn(seq) = LiveIn(seq)
           /\ \A k \in 1..Len(seq) : ~seq[k].dead =>
                 /\ seq[k].id \in LiveIn(seq)
                 /\ LeftIn(seq, now)[seq[k].id] = LeftAt(seq[k], now)
                 /\ EveryIn(seq)[seq[k].id] = seq[k].interval
                 /\ KeepsIn(seq)[seq[k].id] = seq[k].persist
           /\ \A id \in LiveIn(seq) : \E k \in 1..Len(seq) : seq[k].id = id /\ ~seq[k].dead
<1>1. \A k \in 1..Len(seq) : Holder(seq, seq[k].id) = seq[k]
    BY DEF Holder
<1>2. \A k \in 1..Len(seq) : ~seq[k].dead => seq[k].id \in LiveIn(seq)
    BY DEF LiveIn
<1>3. \A id \in LiveIn(seq) : \E k \in 1..Len(seq) : seq[k].id = id /\ ~seq[k].dead
    BY DEF LiveIn
<1> QED BY <1>1, <1>2, <1>3 DEF LeftIn, EveryIn, KeepsIn

LEMMA Mapped ==
    /\ Waits = LeftIn(timers, clock) /\ Waits' = LeftIn(timers', clock')
    /\ Repeats = EveryIn(timers) /\ Repeats' = EveryIn(timers')
    /\ Survives = KeepsIn(timers) /\ Survives' = KeepsIn(timers')
<1>1. /\ Live = LiveIn(timers) /\ Live' = LiveIn(timers')
      /\ \A id : TimerOf(id) = Holder(timers, id)
      /\ \A id : TimerOf(id)' = Holder(timers', id)
    BY DEF Live, LiveIn, TimerOf, Holder, Indices
<1>2. Waits = LeftIn(timers, clock) /\ Repeats = EveryIn(timers) /\ Survives = KeepsIn(timers)
    BY <1>1 DEF Waits, Repeats, Survives, LeftIn, EveryIn, KeepsIn
<1>3. Waits' = LeftIn(timers', clock') /\ Repeats' = EveryIn(timers')
      /\ Survives' = KeepsIn(timers')
    BY <1>1 DEF Waits, Repeats, Survives, LeftIn, EveryIn, KeepsIn
<1> QED BY <1>2, <1>3

\* Both sides of a step, in terms of the timers.
LEMMA BothSides ==
    ASSUME IInv, IInv'
    PROVE  /\ \A k \in Indices : ~timers[k].dead =>
                 /\ timers[k].id \in LiveIn(timers)
                 /\ LeftIn(timers, clock)[timers[k].id] = LeftAt(timers[k], clock)
                 /\ EveryIn(timers)[timers[k].id] = timers[k].interval
                 /\ KeepsIn(timers)[timers[k].id] = timers[k].persist
           /\ \A id \in LiveIn(timers) : \E k \in Indices : timers[k].id = id /\ ~timers[k].dead
           /\ \A k \in Indices' : ~timers'[k].dead =>
                 /\ timers'[k].id \in LiveIn(timers')
                 /\ LeftIn(timers', clock')[timers'[k].id] = LeftAt(timers'[k], clock')
                 /\ EveryIn(timers')[timers'[k].id] = timers'[k].interval
                 /\ KeepsIn(timers')[timers'[k].id] = timers'[k].persist
           /\ \A id \in LiveIn(timers') : \E k \in Indices' : timers'[k].id = id /\ ~timers'[k].dead
<1>1. PICK new, later : new = timers' /\ later = clock'
    OBVIOUS
<1>2. \A j, k \in 1..Len(timers) : timers[j].id = timers[k].id => j = k
    BY InvariantParts DEF RefsMatchTimers, Indices
<1>3. \A j, k \in 1..Len(new) : new[j].id = new[k].id => j = k
    BY InvariantPartsNext, <1>1 DEF RefsMatchTimers, Indices
<1>4. /\ \A k \in 1..Len(new) : ~new[k].dead =>
            /\ new[k].id \in LiveIn(new)
            /\ LeftIn(new, later)[new[k].id] = LeftAt(new[k], later)
            /\ EveryIn(new)[new[k].id] = new[k].interval
            /\ KeepsIn(new)[new[k].id] = new[k].persist
      /\ \A id \in LiveIn(new) : \E k \in 1..Len(new) : new[k].id = id /\ ~new[k].dead
    BY <1>3, Standing
<1> QED BY <1>1, <1>2, <1>4, Standing DEF Indices

\* A live timer of the new vector that was there before, with the wait it had.
Stems(k, j) ==
    /\ ~timers[j].dead /\ timers'[k].id = timers[j].id
    /\ LeftAt(timers'[k], clock') = LeftAt(timers[j], clock)
    /\ timers'[k].interval = timers[j].interval
    /\ timers'[k].persist = timers[j].persist

\* Nobody is new: the others were dropped.
LEMMA Dropped ==
    ASSUME IInv, IInv', NEW ids, LiveIn(timers') = LiveIn(timers) \ ids,
           \A k \in Indices' : ~timers'[k].dead => \E j \in Indices : Stems(k, j)
    PROVE  Promise!Drop(ids)
<1>1. ASSUME NEW id \in LiveIn(timers')
      PROVE  /\ LeftIn(timers', clock')[id] = LeftIn(timers, clock)[id]
             /\ EveryIn(timers')[id] = EveryIn(timers)[id]
             /\ KeepsIn(timers')[id] = KeepsIn(timers)[id]
  <2>1. PICK k \in Indices' : timers'[k].id = id /\ ~timers'[k].dead
      BY BothSides
  <2>2. PICK j \in Indices : Stems(k, j)
      BY <2>1
  <2> QED BY <2>1, <2>2, BothSides DEF Stems
<1>2. /\ LeftIn(timers', clock') = [id \in LiveIn(timers) \ ids |-> LeftIn(timers, clock)[id]]
      /\ EveryIn(timers') = [id \in LiveIn(timers) \ ids |-> EveryIn(timers)[id]]
      /\ KeepsIn(timers') = [id \in LiveIn(timers) \ ids |-> KeepsIn(timers)[id]]
    BY <1>1 DEF LeftIn, EveryIn, KeepsIn
<1> QED BY <1>2, Mapped DEF LeftIn, EveryIn, KeepsIn, Promise!Drop, Promise!Without

LEMMA DroppedSome ==
    ASSUME IInv, IInv', \A k \in Indices' : ~timers'[k].dead => \E j \in Indices : Stems(k, j)
    PROVE  Promise!Next
<1>1. LiveIn(timers') \subseteq LiveIn(timers)
  <2> SUFFICES ASSUME NEW id \in LiveIn(timers') PROVE id \in LiveIn(timers)
      OBVIOUS
  <2>1. PICK k \in Indices' : timers'[k].id = id /\ ~timers'[k].dead
      BY BothSides
  <2>2. PICK j \in Indices : Stems(k, j)
      BY <2>1
  <2> QED BY <2>1, <2>2, BothSides DEF Stems
<1>2. LiveIn(timers') = LiveIn(timers) \ (LiveIn(timers) \ LiveIn(timers'))
    BY <1>1
<1>3. Promise!Drop(LiveIn(timers) \ LiveIn(timers'))
    BY <1>2, Dropped
<1>4. Promise!IsSet = LiveIn(timers)
    BY Mapped DEF Promise!IsSet, LeftIn
<1>5. DOMAIN Waits' = LiveIn(timers')
    BY Mapped DEF LeftIn
<1>6. Promise!Drop(Promise!IsSet \ DOMAIN Waits')
    BY <1>3, <1>4, <1>5
<1> QED BY <1>6 DEF Promise!Next

\* The timer id has just been set; the others are as they were.
LEMMA SetAnew ==
    ASSUME IInv, IInv', NEW id \in Ids, NEW n \in Indices', timers'[n].id = id, ~timers'[n].dead,
           timers'[n].interval \in {0, LeftAt(timers'[n], clock')},
           LeftAt(timers'[n], clock') \in Delays, timers'[n].persist \in BOOLEAN,
           \A k \in Indices' : ~timers'[k].dead /\ k # n => \E j \in Indices : Stems(k, j),
           \A j \in Indices : ~timers[j].dead /\ timers[j].id # id =>
              \E k \in Indices' : ~timers'[k].dead /\ timers'[k].id = timers[j].id
    PROVE  Promise!Set(id)
<1> DEFINE d == LeftAt(timers'[n], clock')
           period == timers'[n].interval
           keep == timers'[n].persist
<1>1. LiveIn(timers') = LiveIn(timers) \cup {id}
  <2>1. ASSUME NEW i \in LiveIn(timers') PROVE i \in LiveIn(timers) \cup {id}
    <3>1. PICK k \in Indices' : timers'[k].id = i /\ ~timers'[k].dead
        BY BothSides
    <3>2. CASE k = n
        BY <3>1, <3>2
    <3>3. CASE k # n
      <4>1. PICK j \in Indices : Stems(k, j)
          BY <3>1, <3>3
      <4> QED BY <3>1, <4>1, BothSides DEF Stems
    <3> QED BY <3>2, <3>3
  <2>2. ASSUME NEW i \in LiveIn(timers), i # id PROVE i \in LiveIn(timers')
    <3>1. PICK j \in Indices : timers[j].id = i /\ ~timers[j].dead
        BY BothSides
    <3>2. PICK k \in Indices' : ~timers'[k].dead /\ timers'[k].id = timers[j].id
        BY <2>2, <3>1
    <3> QED BY <3>1, <3>2, BothSides
  <2>3. id \in LiveIn(timers')
      BY BothSides
  <2> QED BY <2>1, <2>2, <2>3
<1>2. /\ LeftIn(timers', clock')[id] = d
      /\ EveryIn(timers')[id] = period
      /\ KeepsIn(timers')[id] = keep
    BY BothSides
<1>3. ASSUME NEW i \in LiveIn(timers'), i # id
      PROVE  /\ LeftIn(timers', clock')[i] = LeftIn(timers, clock)[i]
             /\ EveryIn(timers')[i] = EveryIn(timers)[i]
             /\ KeepsIn(timers')[i] = KeepsIn(timers)[i]
  <2>1. PICK k \in Indices' : timers'[k].id = i /\ ~timers'[k].dead
      BY BothSides
  <2>2. k # n
      BY <1>3, <2>1
  <2>3. PICK j \in Indices : Stems(k, j)
      BY <2>1, <2>2
  <2> QED BY <2>1, <2>3, BothSides DEF Stems
<1>4. d \in Delays /\ period \in {0, d} /\ keep \in BOOLEAN
    OBVIOUS
<1> HIDE DEF d, period, keep
<1>5. /\ LeftIn(timers', clock') = [i \in LiveIn(timers) \cup {id} |->
                                       IF i = id THEN d ELSE LeftIn(timers, clock)[i]]
      /\ EveryIn(timers') = [i \in LiveIn(timers) \cup {id} |->
                                       IF i = id THEN period ELSE EveryIn(timers)[i]]
      /\ KeepsIn(timers') = [i \in LiveIn(timers) \cup {id} |->
                                       IF i = id THEN keep ELSE KeepsIn(timers)[i]]
    BY <1>1, <1>2, <1>3 DEF LeftIn, EveryIn, KeepsIn
<1>6. /\ LeftIn(timers', clock') = Promise!With(LeftIn(timers, clock), id, d)
      /\ EveryIn(timers') = Promise!With(EveryIn(timers), id, period)
      /\ KeepsIn(timers') = Promise!With(KeepsIn(timers), id, keep)
    BY <1>5 DEF LeftIn, EveryIn, KeepsIn, Promise!With
<1> QED BY <1>4, <1>6, Mapped DEF Promise!Set

\* Unchanged timers stem from themselves.
LEMMA Same ==
    ASSUME NEW k \in Indices, timers'[k] = timers[k], clock' = clock, ~timers[k].dead
    PROVE  Stems(k, k)
BY DEF Stems

LEMMA AddSets ==
    ASSUME IInv, IInv', NEW p \in Plugins, NEW d \in Delays, NEW interval \in {0, d},
           NEW name \in Names \cup {NoName}, NEW persist \in BOOLEAN,
           Add(p, d, interval, name, persist)
    PROVE  Promise!Next
<1>1. TypeOK /\ Numbered /\ timers \in Seq(Timer) /\ Len(timers) \in Nat /\ clock \in Nat
      /\ nextId \in Nat
    BY InvariantParts, VectorFacts
<1>2. PICK r \in FreeRefs : timers' = Append(timers,
                [id |-> nextId, ref |-> r, plugin |-> p, next |-> clock + d,
                 interval |-> interval, dead |-> FALSE, name |-> name, persist |-> persist])
    BY DEF Add
<1> DEFINE t == [id |-> nextId, ref |-> r, plugin |-> p, next |-> clock + d,
                 interval |-> interval, dead |-> FALSE, name |-> name, persist |-> persist]
<1>3. nextId \in Ids /\ clock' = clock
    BY DEF Add
<1>4. d \in Nat /\ clock + d \in Nat /\ LeftAt(t, clock) = d /\ t.id = nextId /\ ~t.dead
      /\ t.interval = interval /\ t.persist = persist
    BY <1>1, TimerConstants DEF LeftAt
<1> HIDE DEF t
<1>5. /\ Len(timers') = Len(timers) + 1 /\ timers'[Len(timers) + 1] = t
      /\ \A k \in Indices : timers'[k] = timers[k]
    BY <1>1, <1>2 DEF t, Indices
<1>6. /\ Len(timers) + 1 \in Indices' /\ \A k \in Indices : k \in Indices'
      /\ \A k \in Indices' : k # Len(timers) + 1 => k \in Indices
    BY <1>1, <1>5 DEF Indices
<1>7. PICK n \in Indices' : n = Len(timers) + 1
    BY <1>6
<1>8. /\ timers'[n].id = nextId /\ ~timers'[n].dead /\ LeftAt(timers'[n], clock') = d
      /\ timers'[n].interval = interval /\ timers'[n].persist = persist
    BY <1>3, <1>4, <1>5, <1>7
<1>9. \A k \in Indices' : ~timers'[k].dead /\ k # n => \E j \in Indices : Stems(k, j)
    BY <1>3, <1>5, <1>6, <1>7, Same
<1>10. \A j \in Indices : ~timers[j].dead => ~timers'[j].dead /\ timers'[j].id = timers[j].id
    BY <1>5
<1>11. Promise!Set(nextId)
    BY <1>3, <1>6, <1>8, <1>9, <1>10, SetAnew
<1> QED BY <1>3, <1>11 DEF Promise!Next

LEMMA ReplaceSets ==
    ASSUME IInv, IInv', NEW p \in Plugins, NEW name \in Names, NEW period \in Periods,
           NEW once \in BOOLEAN, NEW persist \in BOOLEAN,
           NEW k \in FindNamed(p, name), NEW r \in Refs, clock' = clock,
           timers' = [timers EXCEPT ![k].ref = r,
                                    ![k].next = clock + period,
                                    ![k].interval = IF once THEN 0 ELSE period,
                                    ![k].persist = persist]
    PROVE  Promise!Next
<1>1. /\ timers \in Seq(Timer) /\ Len(timers) \in Nat /\ clock \in Nat
      /\ k \in Indices /\ ~timers[k].dead /\ timers[k] \in Timer
    BY InvariantParts, VectorFacts DEF FindNamed, Named
<1>2. period \in Nat /\ period \in Delays
    BY TimerConstants DEF Periods
<1> DEFINE i == IF once THEN 0 ELSE period
<1>3. i \in {0, period} /\ i \in Nat
    BY <1>2
<1> HIDE DEF i
<1>4. PICK u \in Timer : u = timers[k]
    BY <1>1
<1>5. PICK next \in Nat : next = clock + period
    BY <1>1, <1>2
<1> DEFINE t == [u EXCEPT !.ref = r, !.next = next, !.interval = i, !.persist = persist]
<1>6. /\ t.id = u.id /\ t.next = next /\ t.dead = u.dead /\ t.interval = i
      /\ t.persist = persist /\ t \in Timer
  <2>1. /\ t.id = u.id /\ t.next = next /\ t.dead = u.dead /\ t.interval = i
        /\ t.persist = persist
      BY DEF Timer
  <2>2. t \in Timer
      BY <1>3 DEF Timer
  <2> QED BY <2>1, <2>2
<1>7. timers' = [timers EXCEPT ![k] = t]
    BY <1>1, <1>4, <1>5 DEF i
<1> HIDE DEF t
<1>8. /\ Len(timers') = Len(timers) /\ timers'[k] = t
      /\ \A j \in Indices : j # k => timers'[j] = timers[j]
  <2> DEFINE new == [timers EXCEPT ![k] = t]
  <2>1. /\ Len(new) = Len(timers) /\ new[k] = t
        /\ \A j \in Indices : j # k => new[j] = timers[j]
      BY <1>1, <1>6, PutAt DEF Indices
  <2> HIDE DEF new
  <2> QED BY <1>7, <2>1 DEF new
<1>9. Indices' = Indices
    BY <1>8 DEF Indices
<1>10. LeftAt(t, clock) = period
    BY <1>1, <1>2, <1>5, <1>6 DEF LeftAt
<1>11. timers[k].id \in Ids
    BY <1>1, TimerFacts
<1>12. PICK n \in Indices' : n = k
    BY <1>1, <1>9
<1>13. /\ timers'[n].id = timers[k].id /\ ~timers'[n].dead
       /\ LeftAt(timers'[n], clock') = period
       /\ timers'[n].interval \in {0, period} /\ timers'[n].persist = persist
    BY <1>1, <1>3, <1>4, <1>6, <1>8, <1>10, <1>12
<1>14. \A j \in Indices' : ~timers'[j].dead /\ j # n => \E m \in Indices : Stems(j, m)
    BY <1>8, <1>9, <1>12, Same
<1>15. \A j \in Indices : ~timers[j].dead /\ timers[j].id # timers[k].id =>
             ~timers'[j].dead /\ timers'[j].id = timers[j].id
    BY <1>8
<1>16. Promise!Set(timers[k].id)
  <2>1. PICK id \in Ids : id = timers[k].id
      BY <1>11
  <2>2. /\ timers'[n].id = id /\ ~timers'[n].dead /\ timers'[n].persist \in BOOLEAN
        /\ timers'[n].interval \in {0, LeftAt(timers'[n], clock')}
        /\ LeftAt(timers'[n], clock') \in Delays
      BY <1>2, <1>13, <2>1
  <2>3. \A j \in Indices : ~timers[j].dead /\ timers[j].id # id =>
           \E m \in Indices' : ~timers'[m].dead /\ timers'[m].id = timers[j].id
      BY <1>9, <1>15, <2>1
  <2>4. Promise!Set(id)
      BY <1>14, <2>2, <2>3, SetAnew
  <2> QED BY <2>1, <2>4
<1> QED BY <1>11, <1>16 DEF Promise!Next

LEMMA CreateSets ==
    ASSUME IInv, IInv', NEW p \in Plugins, NEW name \in Names, NEW period \in Periods,
           NEW once \in BOOLEAN, NEW persist \in BOOLEAN,
           Create(p, name, period, once, persist)
    PROVE  Promise!Next
<1>1. period \in Delays /\ (IF once THEN 0 ELSE period) \in {0, period}
    BY DEF Periods
<1>2. CASE FindNamed(p, name) = {}
    BY <1>1, <1>2, AddSets DEF Create
<1>3. CASE FindNamed(p, name) # {}
  <2>1. PICK k \in FindNamed(p, name), r \in Refs :
            timers' = [timers EXCEPT ![k].ref = r,
                                     ![k].next = clock + period,
                                     ![k].interval = IF once THEN 0 ELSE period,
                                     ![k].persist = persist]
      BY <1>3 DEF Create
  <2>2. clock' = clock
      BY <1>3 DEF Create
  <2> QED BY <2>1, <2>2, ReplaceSets
<1> QED BY <1>2, <1>3

\* Tombstones.
LEMMA KillDrops ==
    ASSUME IInv, IInv', NEW k \in Indices, timers' = [timers EXCEPT ![k].dead = TRUE],
           clock' = clock
    PROVE  Promise!Next
<1>1. TypeOK
    BY InvariantParts
<1>2. /\ Len(timers') = Len(timers) /\ timers'[k].dead
      /\ \A j \in Indices : j # k => timers'[j] = timers[j]
    BY <1>1, Killed
<1>3. Indices' = Indices
    BY <1>2 DEF Indices
<1>4. \A j \in Indices' : ~timers'[j].dead => \E m \in Indices : Stems(j, m)
    BY <1>2, <1>3, Same
<1> QED BY <1>4, DroppedSome

\* Nothing happens to the vector.
LEMMA NothingDropped == ASSUME IInv, IInv', timers' = timers, clock' = clock PROVE Promise!Next
<1>1. \A j \in Indices' : ~timers'[j].dead => \E m \in Indices : Stems(j, m)
    BY Same DEF Indices
<1> QED BY <1>1, DroppedSome

LEMMA EraseDrops ==
    ASSUME IInv, IInv', NEW gone, Erase(gone), clock' = clock
    PROVE  Promise!Next
<1>1. TypeOK /\ timers' = Without(timers, gone)
    BY InvariantParts DEF Erase
<1>2. PICK from : /\ Thinned(Without(timers, gone), gone, from)
                  /\ \A k \in 1..Len(Without(timers, gone)) :
                        Without(timers, gone)[k] = timers[from[k]]
    BY <1>1, WithoutThins
<1>3. \A k \in Indices' : from[k] \in Indices /\ timers'[k] = timers[from[k]]
    BY <1>1, <1>2 DEF Thinned, Indices
<1>4. \A k \in Indices' : ~timers'[k].dead => Stems(k, from[k])
    BY <1>3 DEF Stems
<1> QED BY <1>3, <1>4, DroppedSome

LEMMA TickTicks == ASSUME IInv, IInv', Tick PROVE Promise!Tick
<1>1. /\ clock' = clock + 1 /\ timers' = timers /\ clock \in Nat
      /\ \A k \in Indices : timers[k] \in Timer
    BY InvariantParts, VectorFacts DEF Tick
<1>2. /\ LiveIn(timers') = LiveIn(timers) /\ EveryIn(timers') = EveryIn(timers)
      /\ KeepsIn(timers') = KeepsIn(timers) /\ Indices' = Indices
    BY <1>1 DEF Indices
<1>3. ASSUME NEW id \in LiveIn(timers)
      PROVE  LeftIn(timers', clock')[id] = IF LeftIn(timers, clock)[id] = 0
                                           THEN 0 ELSE LeftIn(timers, clock)[id] - 1
  <2>1. PICK k \in Indices : timers[k].id = id /\ ~timers[k].dead
      BY BothSides
  <2>2. /\ LeftIn(timers, clock)[id] = LeftAt(timers[k], clock)
        /\ LeftIn(timers', clock')[id] = LeftAt(timers[k], clock + 1)
      BY <1>1, <1>2, <2>1, BothSides
  <2>3. timers[k].next \in Nat
      BY <1>1, TimerFacts
  <2> QED BY <1>1, <2>2, <2>3 DEF LeftAt
<1>4. LeftIn(timers', clock') = [id \in LiveIn(timers) |->
                                   IF LeftIn(timers, clock)[id] = 0
                                   THEN 0 ELSE LeftIn(timers, clock)[id] - 1]
    BY <1>2, <1>3 DEF LeftIn
<1>5. Promise!IsSet = LiveIn(timers)
    BY Mapped DEF Promise!IsSet, LeftIn
<1> QED BY <1>2, <1>4, <1>5, Mapped DEF Promise!Tick

LEMMA CallFires == ASSUME IInv, IInv', Call PROVE Promise!Next
<1>1. /\ TypeOK /\ clock' = clock /\ clock \in Nat
      /\ \A k \in Indices : timers[k] \in Timer
    BY InvariantParts, VectorFacts DEF Call
<1>2. /\ at \in Indices /\ Due(timers[at]) /\ Len(timers') = Len(timers)
      /\ \A j \in Indices : j # at => timers'[j] = timers[j]
      /\ timers'[at].id = timers[at].id /\ timers'[at].interval = timers[at].interval
      /\ timers'[at].persist = timers[at].persist
      /\ IF timers[at].interval > 0
         THEN timers'[at].next = clock + timers[at].interval /\ ~timers'[at].dead
         ELSE timers'[at].dead
    BY <1>1, Called
<1>3. Indices' = Indices
    BY <1>2 DEF Indices
<1>4. PICK id \in Ids : id = timers[at].id
    BY <1>1, <1>2, TimerFacts
<1>5. timers[at].next \in Nat /\ timers[at].interval \in Nat
    BY <1>1, <1>2, TimerFacts
<1>6. /\ id \in LiveIn(timers) /\ LeftIn(timers, clock)[id] = 0
      /\ EveryIn(timers)[id] = timers[at].interval
  <2>1. ~timers[at].dead /\ timers[at].next <= clock
      BY <1>2 DEF Due
  <2>2. LeftAt(timers[at], clock) = 0
      BY <1>1, <1>5, <2>1 DEF LeftAt
  <2> QED BY <1>2, <1>4, <2>1, <2>2, BothSides
<1>7. Promise!IsSet = LiveIn(timers)
    BY Mapped DEF Promise!IsSet, LeftIn
<1>8. \A j, k \in Indices : timers[j].id = timers[k].id => j = k
    BY InvariantParts DEF RefsMatchTimers
<1>9. CASE timers[at].interval = 0
  <2>1. timers'[at].dead
      BY <1>2, <1>9
  <2>2. \A k \in Indices' : ~timers'[k].dead => \E j \in Indices : Stems(k, j)
      BY <1>1, <1>2, <1>3, <2>1, Same
  <2>3. LiveIn(timers') = LiveIn(timers) \ {id}
    <3>1. ASSUME NEW i \in LiveIn(timers') PROVE i \in LiveIn(timers) \ {id}
      <4>1. PICK k \in Indices : timers'[k].id = i /\ ~timers'[k].dead
          BY <1>3, BothSides
      <4>2. k # at /\ timers'[k] = timers[k]
          BY <1>2, <2>1, <4>1
      <4> QED BY <1>2, <1>4, <1>8, <4>1, <4>2, BothSides
    <3>2. ASSUME NEW i \in LiveIn(timers), i # id PROVE i \in LiveIn(timers')
      <4>1. PICK k \in Indices : timers[k].id = i /\ ~timers[k].dead
          BY BothSides
      <4>2. k # at /\ timers'[k] = timers[k]
          BY <1>2, <1>4, <3>2, <4>1
      <4> QED BY <1>3, <4>1, <4>2, BothSides
    <3> QED BY <3>1, <3>2
  <2>4. Promise!Drop({id})
      BY <2>2, <2>3, Dropped
  <2>5. Promise!Fire(id)
      BY <1>6, <1>7, <1>9, <2>4, Mapped DEF Promise!Fire
  <2> QED BY <2>5 DEF Promise!Next
<1>10. CASE timers[at].interval # 0
  <2>1. timers'[at].next = clock + timers[at].interval /\ ~timers'[at].dead
      BY <1>2, <1>5, <1>10
  <2>2. LeftAt(timers'[at], clock') = timers[at].interval
      BY <1>1, <1>5, <2>1 DEF LeftAt
  <2>3. LiveIn(timers') = LiveIn(timers)
    <3>1. \A k \in Indices : timers'[k].id = timers[k].id /\ (timers'[k].dead <=> timers[k].dead)
        BY <1>2, <2>1 DEF Due
    <3>2. \A i \in LiveIn(timers') : i \in LiveIn(timers)
        BY <1>3, <3>1, BothSides
    <3>3. \A i \in LiveIn(timers) : i \in LiveIn(timers')
        BY <1>3, <3>1, BothSides
    <3> QED BY <3>2, <3>3
  <2>4. /\ LeftIn(timers', clock')[id] = timers[at].interval
        /\ EveryIn(timers')[id] = EveryIn(timers)[id]
        /\ KeepsIn(timers')[id] = KeepsIn(timers)[id]
    <3>1. ~timers[at].dead
        BY <1>2 DEF Due
    <3> QED BY <1>2, <1>3, <1>4, <2>1, <2>2, <3>1, BothSides
  <2>5. ASSUME NEW i \in LiveIn(timers), i # id
        PROVE  /\ LeftIn(timers', clock')[i] = LeftIn(timers, clock)[i]
               /\ EveryIn(timers')[i] = EveryIn(timers)[i]
               /\ KeepsIn(timers')[i] = KeepsIn(timers)[i]
    <3>1. PICK k \in Indices : timers[k].id = i /\ ~timers[k].dead
        BY BothSides
    <3>2. k # at /\ timers'[k] = timers[k]
        BY <1>2, <1>4, <2>5, <3>1
    <3> QED BY <1>1, <1>3, <3>1, <3>2, BothSides
  <2>6. /\ LeftIn(timers', clock') =
              [i \in LiveIn(timers) |-> IF i = id THEN timers[at].interval
                                        ELSE LeftIn(timers, clock)[i]]
        /\ EveryIn(timers') = EveryIn(timers) /\ KeepsIn(timers') = KeepsIn(timers)
      BY <2>3, <2>4, <2>5 DEF LeftIn, EveryIn, KeepsIn
  <2>7. LeftIn(timers', clock') = [LeftIn(timers, clock) EXCEPT ![id] = EveryIn(timers)[id]]
      BY <1>6, <2>6 DEF LeftIn
  <2>8. EveryIn(timers)[id] # 0
      BY <1>6, <1>10
  <2>9. Promise!Fire(id)
      BY <1>6, <1>7, <2>6, <2>7, <2>8, Mapped DEF Promise!Fire
  <2> QED BY <2>9 DEF Promise!Next
<1> QED BY <1>9, <1>10

\* A frame has run since the last reload, so the waits are those of the present clock.
LEMMA RebaseChanges == ASSUME IInv, IInv', FrameFirst, Rebase PROVE Promise!ChangeMap
<1>1. /\ TypeOK /\ last = clock /\ clock' = 0 /\ clock \in Nat
      /\ \A k \in Indices : timers[k] \in Timer
    BY InvariantParts, VectorFacts DEF Rebase
<1> DEFINE leave == {t \in Entries : ~t.persist}
<1>2. PICK from : /\ Thinned(timers', leave, from)
                  /\ \A k \in 1..Len(timers') :
                        /\ timers'[k].next = LeftAt(timers[from[k]], last)
                        /\ timers'[k].interval = timers[from[k]].interval
                        /\ timers'[k].persist = timers[from[k]].persist
    BY <1>1, Rebased
<1>3. \A k \in Indices : timers[k] \in leave <=> ~timers[k].persist
    BY DEF Entries
<1> HIDE DEF leave
<1>4. ASSUME NEW k \in Indices'
      PROVE  /\ from[k] \in Indices /\ timers[from[k]].persist
             /\ timers'[k].id = timers[from[k]].id /\ timers'[k].dead = timers[from[k]].dead
             /\ LeftAt(timers'[k], clock') = LeftAt(timers[from[k]], clock)
             /\ timers'[k].interval = timers[from[k]].interval
             /\ timers'[k].persist = timers[from[k]].persist
  <2>1. k \in 1..Len(timers')
      BY DEF Indices
  <2>2. from[k] \in Indices /\ timers[from[k]] \notin leave
      BY <1>2, <2>1 DEF Thinned
  <2>3. LeftAt(timers[from[k]], clock) \in Nat
      BY <1>1, <2>2, TimerFacts DEF LeftAt
  <2>4. timers'[k].next = LeftAt(timers[from[k]], clock)
      BY <1>1, <1>2, <2>1
  <2>5. LeftAt(timers'[k], clock') = LeftAt(timers[from[k]], clock)
    <3>1. PICK n \in Nat : n = LeftAt(timers[from[k]], clock)
        BY <2>3
    <3>2. timers'[k].next = n
        BY <2>4, <3>1
    <3> QED BY <1>1, <3>1, <3>2 DEF LeftAt
  <2> QED BY <1>2, <1>3, <2>1, <2>2, <2>5 DEF Thinned
<1>5. \A k \in Indices' : ~timers'[k].dead => \E j \in Indices : Stems(k, j)
    BY <1>4 DEF Stems
<1> DEFINE ids == {id \in LiveIn(timers) : ~KeepsIn(timers)[id]}
<1>6. LiveIn(timers') = LiveIn(timers) \ ids
  <2>1. ASSUME NEW i \in LiveIn(timers') PROVE i \in LiveIn(timers) /\ KeepsIn(timers)[i]
    <3>1. PICK k \in Indices' : timers'[k].id = i /\ ~timers'[k].dead
        BY BothSides
    <3> QED BY <1>4, <3>1, BothSides
  <2>2. ASSUME NEW i \in LiveIn(timers), KeepsIn(timers)[i] PROVE i \in LiveIn(timers')
    <3>1. PICK j \in Indices : timers[j].id = i /\ ~timers[j].dead
        BY BothSides
    <3>2. timers[j] \notin leave
        BY <1>3, <2>2, <3>1, BothSides
    <3>3. PICK k \in Indices' : from[k] = j
        BY <1>2, <3>2 DEF Thinned, Indices
    <3> QED BY <1>4, <3>1, <3>3, BothSides
  <2> QED BY <2>1, <2>2
<1> HIDE DEF ids
<1>7. Promise!Drop(ids)
    BY <1>5, <1>6, Dropped
<1>8. Promise!IsSet = LiveIn(timers)
    BY Mapped DEF Promise!IsSet, LeftIn
<1>9. ids = {id \in Promise!IsSet : ~Survives[id]}
    BY <1>8, Mapped DEF ids
<1> QED BY <1>7, <1>9 DEF Promise!ChangeMap

LEMMA ClearDrops == ASSUME IInv, IInv', Clear PROVE Promise!Next
<1>1. Indices' = {}
    BY DEF Clear, Indices
<1> QED BY <1>1, DroppedSome

\* The initial state, and every step, as the promise has it.
LEMMA InitPromises == Init => Promise!Init
<1> SUFFICES ASSUME Init PROVE Promise!Init
    OBVIOUS
<1>1. Live = {}
    BY DEF Init, Live, Indices
<1> QED BY <1>1 DEF Promise!Init, Waits, Repeats, Survives

LEMMA StutterPromises == ASSUME UNCHANGED vars PROVE UNCHANGED Promise!vars
<1>1. timers' = timers /\ clock' = clock
    BY DEF vars
<1> QED BY <1>1, Mapped DEF Promise!vars

LEMMA NextPromises ==
    ASSUME FrameFirst, IInv, IInv', [Next]_vars
    PROVE  [Promise!Next]_(Promise!vars)
<1>1. ASSUME NEW p \in Plugins, NEW persist \in BOOLEAN, NEW d \in Delays, After(p, d, persist)
      PROVE  Promise!Next
    BY <1>1, AddSets DEF After
<1>2. ASSUME NEW p \in Plugins, NEW persist \in BOOLEAN, NEW d \in Periods, Every(p, d, persist)
      PROVE  Promise!Next
    BY <1>2, AddSets DEF Every, Periods
<1>3. ASSUME NEW id \in Ids, Cancel(id) PROVE Promise!Next
    BY <1>3, KillDrops DEF Cancel, Kill
<1>4. ASSUME NEW p \in Plugins, NEW n \in Names, Destroy(p, n) PROVE Promise!Next
    BY <1>4, KillDrops DEF Destroy, FindNamed, Named, Kill
<1>5. ASSUME NEW p \in Plugins, RemovePlugin(p) PROVE Promise!Next
    BY <1>5, EraseDrops DEF RemovePlugin
<1>6. CASE Tick
    BY <1>6, TickTicks DEF Promise!Next
<1>7. CASE Pass \/ Return
    BY <1>7, NothingDropped DEF Pass, Return
<1>8. CASE ReturnError
    BY <1>8, NothingDropped, KillDrops DEF ReturnError
<1>9. CASE EndPass
    BY <1>9, EraseDrops DEF EndPass
<1>10. CASE Rebase
    BY <1>10, RebaseChanges DEF Promise!Next
<1> QED BY <1>1, <1>2, <1>3, <1>4, <1>5, <1>6, <1>7, <1>8, <1>9, <1>10,
           CreateSets, CallFires, ClearDrops, StutterPromises DEF Next

\* A timer waits as many frames as was asked, over changes of map, as long as a
\* frame runs between a reload and the next map.
THEOREM ImplementsPromise == ASSUME FrameFirst PROVE Spec => KeepsPromise
<1>1. IInv /\ IInv' /\ [Next]_vars => [Promise!Next]_(Promise!vars)
    BY NextPromises
<1> QED BY <1>1, InitPromises, InvariantAlways, PTL DEF Spec, KeepsPromise, Promise!Spec
-----------------------------------------------------------------------------
(* Messages                                                                *)

-----------------------------------------------------------------------------
(* Sums                                                                    *)

\* The sums of the first n numbers, for every n.
Sums(seq, S) ==
    /\ S \in [0..Len(seq) -> Int]
    /\ S[0] = 0
    /\ \A k \in 1..Len(seq) : S[k] = S[k - 1] + seq[k]

LEMMA SumsUpTo ==
    ASSUME NEW seq \in Seq(Int), NEW N \in Nat, N = Len(seq)
    PROVE  \A n \in 0..N : \E S : /\ S \in [0..n -> Int] /\ S[0] = 0
                                  /\ \A k \in 1..n : S[k] = S[k - 1] + seq[k]
<1> DEFINE Good(n, S) == /\ S \in [0..n -> Int] /\ S[0] = 0
                         /\ \A k \in 1..n : S[k] = S[k - 1] + seq[k]
           T == {n \in 0..N : \E S : Good(n, S)}
<1>1. 0 \in T
  <2>1. Good(0, [k \in 0..0 |-> 0])
      OBVIOUS
  <2>2. 0 \in 0..N
      OBVIOUS
  <2> HIDE DEF Good
  <2> QED BY <2>1, <2>2
<1>2. ASSUME NEW n \in 0..N, n + 1 <= N, n \in T
      PROVE  n + 1 \in T
  <2>1. PICK S : Good(n, S)
      BY <1>2
  <2> DEFINE next == S[n] + seq[n + 1]
             S2 == [k \in 0..n + 1 |-> IF k = n + 1 THEN next ELSE S[k]]
  <2>2. n \in Nat /\ n + 1 \in 0..N /\ n + 1 \in 1..N /\ seq[n + 1] \in Int
      BY <1>2
  <2>3. next \in Int
      BY <2>1, <2>2
  <2>4. S2[n + 1] = next /\ \A k \in 0..n : S2[k] = S[k]
      BY <2>2
  <2>5. S2 \in [0..n + 1 -> Int]
    <3>1. \A k \in 0..n + 1 : k = n + 1 \/ k \in 0..n
        BY <2>2
    <3>2. \A k \in 0..n + 1 : (IF k = n + 1 THEN next ELSE S[k]) \in Int
        BY <3>1, <2>1, <2>3
    <3> HIDE DEF next
    <3> QED BY <3>2
  <2>6. \A k \in 1..n + 1 : S2[k] = S2[k - 1] + seq[k]
    <3> HIDE DEF S2
    <3>1. \A k \in 1..n + 1 : k = n + 1 \/ k \in 1..n
        BY <2>2
    <3>2. S2[n + 1] = S2[(n + 1) - 1] + seq[n + 1]
        BY <2>2, <2>4
    <3>3. \A k \in 1..n : S2[k] = S2[k - 1] + seq[k]
      <4>1. \A k \in 1..n : k \in 0..n /\ k - 1 \in 0..n
          BY <2>2
      <4>2. \A k \in 1..n : S[k] = S[k - 1] + seq[k]
          BY <2>1
      <4> HIDE DEF Good
      <4> QED BY <4>1, <4>2, <2>4
    <3> QED BY <3>1, <3>2, <3>3
  <2>7. S2[0] = 0
      BY <2>1, <2>2, <2>4
  <2>8. Good(n + 1, S2)
    <3> HIDE DEF S2
    <3> QED BY <2>5, <2>6, <2>7
  <2> HIDE DEF Good, S2
  <2> QED BY <2>8, <2>2
<1>3. 0..N \subseteq T
  <2> HIDE DEF T
  <2> QED BY <1>1, <1>2, Induction
<1> QED BY <1>3

LEMMA TotalSums ==
    ASSUME NEW seq \in Seq(Int)
    PROVE  \E S : Sums(seq, S) /\ Total(seq) = S[Len(seq)]
<1> DEFINE Rule(S) == S = [n \in 0..Len(seq) |-> IF n = 0 THEN 0 ELSE S[n - 1] + seq[n]]
           sum == CHOOSE S : Rule(S)
<1>1. Total(seq) = sum[Len(seq)]
    BY DEF Total
<1>2. PICK S : Sums(seq, S)
  <2>1. Len(seq) \in Nat /\ Len(seq) \in 0..Len(seq)
      OBVIOUS
  <2>2. \E S : /\ S \in [0..Len(seq) -> Int] /\ S[0] = 0
               /\ \A k \in 1..Len(seq) : S[k] = S[k - 1] + seq[k]
      BY <2>1, SumsUpTo
  <2> QED BY <2>2 DEF Sums
<1>3. Rule(S)
  <2>1. S = [n \in 0..Len(seq) |-> S[n]]
      BY <1>2 DEF Sums
  <2>2. \A n \in 0..Len(seq) : S[n] = IF n = 0 THEN 0 ELSE S[n - 1] + seq[n]
    <3>1. \A n \in 0..Len(seq) : n = 0 \/ (n \in 1..Len(seq) /\ n # 0)
        OBVIOUS
    <3> QED BY <3>1, <1>2 DEF Sums
  <2> QED BY <2>1, <2>2
<1>4. Rule(sum)
  <2> HIDE DEF Rule
  <2> QED BY <1>3
<1>5. Len(seq) \in Nat
    OBVIOUS
<1>6. /\ sum = [n \in 0..Len(seq) |-> sum[n]] /\ sum[0] = 0
      /\ \A k \in 1..Len(seq) : sum[k] = sum[k - 1] + seq[k]
  <2> HIDE DEF sum
  <2>1. \A n \in 0..Len(seq) : sum[n] = IF n = 0 THEN 0 ELSE sum[n - 1] + seq[n]
      BY <1>4
  <2>2. \A k \in 1..Len(seq) : k \in 0..Len(seq) /\ k # 0
      BY <1>5
  <2>3. sum = [n \in 0..Len(seq) |-> sum[n]]
      BY <1>4
  <2>4. 0 \in 0..Len(seq)
      BY <1>5
  <2> QED BY <2>1, <2>2, <2>3, <2>4
<1>7. \A n \in 0..Len(seq) : sum[n] = S[n]
  <2> HIDE DEF sum
  <2> DEFINE T == {n \in 0..Len(seq) : sum[n] = S[n]}
  <2>1. 0 \in T
      BY <1>2, <1>5, <1>6 DEF Sums
  <2>2. ASSUME NEW n \in 0..Len(seq), n + 1 <= Len(seq), n \in T
        PROVE  n + 1 \in T
    <3>1. n + 1 \in 1..Len(seq) /\ (n + 1) - 1 = n /\ n + 1 \in 0..Len(seq)
        BY <2>2, <1>5
    <3>2. sum[n + 1] = sum[n] + seq[n + 1] /\ S[n + 1] = S[n] + seq[n + 1]
        BY <3>1, <1>2, <1>6 DEF Sums
    <3> QED BY <3>1, <3>2, <2>2
  <2>3. 0..Len(seq) \subseteq T
    <3> HIDE DEF T
    <3> QED BY <2>1, <2>2, <1>5, Induction
  <2> QED BY <2>3
<1>8. Total(seq) = S[Len(seq)]
  <2>1. Len(seq) \in 0..Len(seq)
      BY <1>5
  <2> HIDE DEF sum
  <2> QED BY <1>1, <1>7, <2>1
<1> QED BY <1>2, <1>8

\* A ring holds a sequence from some place on, behind what counts for nothing: the
\* sums are equal.
LEMMA TotalOfRing ==
    ASSUME NEW f \in Seq(Int), NEW g \in Seq(Int), NEW c \in Nat, NEW t \in Nat, NEW m \in 0..c,
           c = Len(f), t = Len(g), t <= c,
           \A j \in 1..c :
              f[IF m + j <= c THEN m + j ELSE m + j - c] =
                  IF j <= c - t THEN 0 ELSE g[j - (c - t)]
    PROVE  Total(f) = Total(g)
<1>1. PICK F : Sums(f, F) /\ Total(f) = F[c]
    BY TotalSums
<1>2. PICK G : Sums(g, G) /\ Total(g) = G[t]
    BY TotalSums
<1> DEFINE h(j) == IF j <= c - m THEN F[m + j] - F[m] ELSE F[c] - F[m] + F[m + j - c]
           e(j) == IF j <= c - t THEN 0 ELSE G[j - (c - t)]
           T == {j \in 0..c : h(j) = e(j)}
<1>3. /\ \A k \in 0..c : F[k] \in Int
      /\ F[0] = 0 /\ \A k \in 1..c : F[k] = F[k - 1] + f[k]
    BY <1>1 DEF Sums
<1>4. /\ \A k \in 0..t : G[k] \in Int
      /\ G[0] = 0 /\ \A k \in 1..t : G[k] = G[k - 1] + g[k]
    BY <1>2 DEF Sums
<1>5. 0 \in T
  <2>1. h(0) = 0
      BY <1>3
  <2>2. e(0) = 0
      OBVIOUS
  <2> QED BY <2>1, <2>2
<1>6. ASSUME NEW j \in 0..c, j + 1 <= c, j \in T
      PROVE  j + 1 \in T
  <2> DEFINE so == IF m + (j + 1) <= c THEN m + (j + 1) ELSE m + (j + 1) - c
  <2>1. f[so] = IF j + 1 <= c - t THEN 0 ELSE g[j + 1 - (c - t)]
    <3>1. j + 1 \in 1..c
        BY <1>6
    <3> QED BY <3>1
  <2>2. h(j + 1) = h(j) + f[so]
    <3>1. CASE j + 1 <= c - m
      <4>1. m + (j + 1) \in 1..c /\ m + (j + 1) - 1 = m + j /\ m + (j + 1) <= c /\ j <= c - m
          BY <3>1, <1>6
      <4>2. F[m + (j + 1)] = F[m + j] + f[m + (j + 1)]
          BY <4>1, <1>3
      <4>3. m + j \in 0..c /\ m + (j + 1) \in 0..c /\ m \in 0..c
          BY <4>1, <1>6
      <4>4. F[m + j] \in Int /\ F[m + (j + 1)] \in Int /\ F[m] \in Int
          BY <4>3, <1>3
      <4>5. h(j + 1) = F[m + (j + 1)] - F[m] /\ h(j) = F[m + j] - F[m] /\ so = m + (j + 1)
          BY <3>1, <4>1
      <4>6. f[so] = F[m + (j + 1)] - F[m + j]
        <5>1. f[m + (j + 1)] \in Int
            BY <4>1
        <5> QED BY <5>1, <4>2, <4>4, <4>5
      <4>7. \A x, y, z \in Int : y - z = (x - z) + (y - x)
          OBVIOUS
      <4>8. F[m + (j + 1)] - F[m] = (F[m + j] - F[m]) + (F[m + (j + 1)] - F[m + j])
          BY <4>4, <4>7
      <4> HIDE DEF h, so
      <4> QED BY <4>5, <4>6, <4>8
    <3>2. CASE ~(j + 1 <= c - m)
      <4>1. /\ m + (j + 1) - c \in 1..c /\ (m + (j + 1) - c) - 1 = m + j - c
            /\ ~(m + (j + 1) <= c)
        <5>1. j \in Nat /\ m \in Nat /\ m <= c /\ j + 1 <= c
            BY <1>6
        <5> HIDE DEF h, so
        <5> QED BY <5>1, <3>2
      <4>2. F[m + (j + 1) - c] = F[m + j - c] + f[m + (j + 1) - c]
        <5>1. \A k \in 1..c : F[k] = F[k - 1] + f[k]
            BY <1>3
        <5>2. PICK k \in 1..c : k = m + (j + 1) - c /\ k - 1 = m + j - c
            BY <4>1
        <5>3. F[k] = F[k - 1] + f[k]
            BY <5>1, <5>2
        <5> QED BY <5>2, <5>3
      <4>3. m + j - c \in 0..c /\ m + (j + 1) - c \in 0..c /\ m \in 0..c /\ c \in 0..c
        <5>1. \A k \in 1..c : k \in 0..c /\ k - 1 \in 0..c
            OBVIOUS
        <5>2. PICK k : k = m + (j + 1) - c
            OBVIOUS
        <5>3. k \in 1..c /\ k - 1 = m + j - c
            BY <4>1, <5>2, Zenon
        <5>4. k \in 0..c /\ k - 1 \in 0..c
            BY <5>1, <5>3, Zenon
        <5>5. c \in 0..c
            OBVIOUS
        <5> QED BY <5>2, <5>3, <5>4, <5>5, Zenon
      <4>4. F[m + j - c] \in Int /\ F[m + (j + 1) - c] \in Int /\ F[m] \in Int /\ F[c] \in Int
          BY <4>3, <1>3
      <4>5. h(j) = F[c] - F[m] + F[m + j - c]
        <5>1. CASE j <= c - m
          <6>1. m + j = c /\ m + j - c = 0
              BY <5>1, <3>2, <1>6
          <6>2. h(j) = F[c] - F[m] /\ F[m + j - c] = 0
              BY <6>1, <5>1, <1>3
          <6>3. \A x, y \in Int : x - y = x - y + 0
              OBVIOUS
          <6> HIDE DEF h
          <6> QED BY <6>2, <6>3, <4>4
        <5>2. CASE ~(j <= c - m)
            BY <5>2
        <5> QED BY <5>1, <5>2
      <4>6. h(j + 1) = F[c] - F[m] + F[m + (j + 1) - c] /\ so = m + (j + 1) - c
          BY <3>2, <4>1
      <4>7. f[so] = F[m + (j + 1) - c] - F[m + j - c]
        <5>1. f[m + (j + 1) - c] \in Int
            BY <4>1
        <5>2. \A x, y, z \in Int : y = x + z => z = y - x
            OBVIOUS
        <5>3. f[m + (j + 1) - c] = F[m + (j + 1) - c] - F[m + j - c]
            BY <5>1, <5>2, <4>2, <4>4
        <5> QED BY <5>3, <4>6
      <4>8. \A w, x, y, z \in Int : w - z + y = (w - z + x) + (y - x)
          OBVIOUS
      <4>9. F[c] - F[m] + F[m + (j + 1) - c]
               = (F[c] - F[m] + F[m + j - c]) + (F[m + (j + 1) - c] - F[m + j - c])
          BY <4>4, <4>8
      <4> HIDE DEF h, so
      <4>10. /\ h(j + 1) = (F[c] - F[m] + F[m + j - c]) + (F[m + (j + 1) - c] - F[m + j - c])
             /\ h(j) + f[so] = (F[c] - F[m] + F[m + j - c]) + (F[m + (j + 1) - c] - F[m + j - c])
        <5>1. h(j + 1) = F[c] - F[m] + F[m + (j + 1) - c]
            BY <4>6
        <5> QED BY <5>1, <4>5, <4>7, <4>9, Zenon
      <4> QED BY <4>10, Zenon
    <3> QED BY <3>1, <3>2
  <2>3. e(j + 1) = e(j) + f[so]
    <3> HIDE DEF so
    <3>1. CASE j + 1 <= c - t
      <4>1. j <= c - t
          BY <3>1
      <4>2. e(j) = 0 /\ e(j + 1) = 0 /\ f[so] = 0
          BY <3>1, <4>1, <2>1
      <4> HIDE DEF h, e
      <4> QED BY <4>2
    <3>2. CASE ~(j + 1 <= c - t)
      <4>1. j + 1 - (c - t) \in 1..t /\ (j + 1 - (c - t)) - 1 = j - (c - t)
        <5> HIDE DEF h, e, T
        <5>1. j \in Nat /\ j + 1 <= c
            BY <1>6
        <5> QED BY <5>1, <3>2
      <4>2. G[j + 1 - (c - t)] = G[j - (c - t)] + g[j + 1 - (c - t)]
          BY <4>1, <1>4
      <4>3. e(j) = G[j - (c - t)]
        <5>1. CASE j <= c - t
          <6>1. j - (c - t) = 0
              BY <5>1, <3>2
          <6> QED BY <6>1, <5>1, <1>4
        <5>2. CASE ~(j <= c - t)
            BY <5>2
        <5> QED BY <5>1, <5>2
      <4>4. e(j + 1) = G[j + 1 - (c - t)]
          BY <3>2
      <4>5. f[so] = g[j + 1 - (c - t)]
          BY <2>1, <3>2
      <4> HIDE DEF h, e
      <4> QED BY <4>2, <4>3, <4>4, <4>5, Zenon
    <3> QED BY <3>1, <3>2
  <2>4. h(j + 1) = e(j + 1)
    <3>1. h(j) = e(j)
        BY <1>6
    <3> HIDE DEF h, e, so
    <3> QED BY <3>1, <2>2, <2>3
  <2>5. j + 1 \in 0..c
      BY <1>6
  <2> HIDE DEF h, e
  <2> QED BY <2>4, <2>5
<1>7. 0..c \subseteq T
  <2> HIDE DEF T
  <2> QED BY <1>5, <1>6, Induction
<1>8. h(c) = e(c)
  <2>1. c \in 0..c
      OBVIOUS
  <2> HIDE DEF h, e
  <2> QED BY <1>7, <2>1
<1>9. h(c) = F[c]
  <2>1. F[c] \in Int /\ F[m] \in Int /\ m \in Int
      BY <1>3
  <2>2. CASE c <= c - m
    <3>1. m = 0 /\ m + c = c
        BY <2>2
    <3> QED BY <3>1, <2>2, <2>1, <1>3
  <2>3. CASE ~(c <= c - m)
    <3>1. m + c - c = m
        BY <2>1
    <3> QED BY <3>1, <2>3, <2>1
  <2> QED BY <2>2, <2>3
<1>10. e(c) = G[t]
  <2>1. CASE c <= c - t
    <3>1. t = 0
        BY <2>1
    <3> QED BY <3>1, <2>1, <1>4
  <2>2. CASE ~(c <= c - t)
    <3>1. c - (c - t) = t
        OBVIOUS
    <3> QED BY <3>1, <2>2
  <2> QED BY <2>1, <2>2
<1> HIDE DEF h, e
<1> QED BY <1>1, <1>2, <1>8, <1>9, <1>10

-----------------------------------------------------------------------------
(* The ring of a player                                                    *)

SlotType == [ring : [0..RingSize - 1 -> Record], next : 0..RingSize - 1,
         count : 0..RingSize, building : BOOLEAN, bytes : Bytes]

\* The place of the k-th newest record, when the next one goes to n.
Back(n, k) == IF k <= n THEN n - k ELSE n - k + RingSize

\* How many of the messages of the window are in the ring.
Told(q) == IF Len(q) <= RingSize THEN Len(q) ELSE RingSize

\* The ring has the newest messages of the window in their order, and behind them
\* only records too old to be told.
Follows(s, q) ==
    /\ s.count < RingSize => s.next = s.count
    /\ Told(q) <= s.count
    /\ \A k \in 1..Told(q) : s.ring[Back(s.next, k)] = q[Len(q) - k + 1]
    /\ \A k \in Told(q) + 1..s.count : ~IsRecent(s.ring[Back(s.next, k)])

\* The messages of the window are in the order of time.
InTime(q) ==
    /\ \A k \in 1..Len(q) : IsRecent(q[k])
    /\ \A j, k \in 1..Len(q) : j < k => q[j].age >= q[k].age

LEMMA ParameterFacts ==
    ASSUME Parameters
    PROVE  /\ RingSize \in Nat /\ RingSize >= 1 /\ Window \in Nat /\ Chunk \in Nat /\ Chunk >= 1
           /\ Cap \in Nat /\ MaxBytes \in Nat /\ MaxText \in Nat /\ MaxHides \in Nat
           /\ MaxSent \in Nat /\ Nobody \notin Players /\ ClCorpse \in Types
BY DEF Parameters

LEMMA NextPlace ==
    ASSUME Parameters, NEW n \in 0..RingSize - 1
    PROVE  (n + 1) % RingSize = IF n + 1 = RingSize THEN 0 ELSE n + 1
<1>1. PICK R : R = RingSize
    OBVIOUS
<1>2. R \in Nat /\ R >= 1 /\ n \in 0..R - 1
    BY <1>1, ParameterFacts
<1>3. (n + 1) % R = IF n + 1 = R THEN 0 ELSE n + 1
    BY <1>2
<1> QED BY <1>1, <1>3

LEMMA RecordFacts ==
    ASSUME Parameters
    PROVE  /\ \A r \in Record : r.age \in Nat /\ r.age <= Window + 1 /\ r.bytes \in Nat
           /\ \A b \in Bytes : [bytes |-> b, age |-> 0] \in Record
<1>1. 0 \in 0..Window + 1 /\ Window \in Nat
    BY ParameterFacts
<1>2. \A b \in Bytes : b \in Nat
    BY ParameterFacts DEF Bytes
<1> QED BY <1>1, <1>2 DEF Record

LEMMA PushedFields ==
    ASSUME Parameters, NEW s \in SlotType
    PROVE  /\ Pushed(s) \in SlotType
           /\ Pushed(s).ring = [s.ring EXCEPT ![s.next] = [bytes |-> s.bytes, age |-> 0]]
           /\ Pushed(s).next = IF s.next + 1 = RingSize THEN 0 ELSE s.next + 1
           /\ Pushed(s).count = IF s.count < RingSize THEN s.count + 1 ELSE s.count
           /\ Pushed(s).building = FALSE
           /\ Pushed(s).bytes = s.bytes
<1>1. /\ s.ring \in [0..RingSize - 1 -> Record] /\ s.next \in 0..RingSize - 1
      /\ s.count \in 0..RingSize /\ s.bytes \in Bytes
    BY DEF SlotType
<1>2. /\ Pushed(s).ring = [s.ring EXCEPT ![s.next] = [bytes |-> s.bytes, age |-> 0]]
      /\ Pushed(s).next = (s.next + 1) % RingSize
      /\ Pushed(s).count = (IF s.count < RingSize THEN s.count + 1 ELSE s.count)
      /\ Pushed(s).building = FALSE
      /\ Pushed(s).bytes = s.bytes
    BY DEF Pushed, SlotType
<1>3. (s.next + 1) % RingSize = IF s.next + 1 = RingSize THEN 0 ELSE s.next + 1
    BY <1>1, NextPlace
<1>4. Pushed(s).ring \in [0..RingSize - 1 -> Record]
    BY <1>1, <1>2, RecordFacts
<1>5. Pushed(s).next \in 0..RingSize - 1 /\ Pushed(s).count \in 0..RingSize
  <2>1. PICK R \in Nat : R = RingSize /\ R >= 1
      BY ParameterFacts
  <2>2. s.next \in 0..R - 1 /\ s.count \in 0..R
      BY <1>1, <2>1
  <2>3. (IF s.next + 1 = R THEN 0 ELSE s.next + 1) \in 0..R - 1
      BY <2>1, <2>2
  <2>4. (IF s.count < R THEN s.count + 1 ELSE s.count) \in 0..R
      BY <2>1, <2>2
  <2> QED BY <2>1, <2>3, <2>4, <1>2, <1>3
<1>6. \A ring \in [0..RingSize - 1 -> Record], next \in 0..RingSize - 1, count \in 0..RingSize :
         [s EXCEPT !.ring = ring, !.next = next, !.count = count, !.building = FALSE] \in SlotType
    BY DEF SlotType
<1>7. Pushed(s) \in SlotType
  <2>1. PICK ring, next, count :
           /\ ring = [s.ring EXCEPT ![s.next] = [bytes |-> s.bytes, age |-> 0]]
           /\ next = (s.next + 1) % RingSize
           /\ count = IF s.count < RingSize THEN s.count + 1 ELSE s.count
      OBVIOUS
  <2>2. Pushed(s) = [s EXCEPT !.ring = ring, !.next = next, !.count = count, !.building = FALSE]
      BY <2>1 DEF Pushed
  <2>3. ring \in [0..RingSize - 1 -> Record] /\ next \in 0..RingSize - 1 /\ count \in 0..RingSize
    <3>1. ring = Pushed(s).ring /\ next = Pushed(s).next /\ count = Pushed(s).count
        BY <2>1, <1>2
    <3> QED BY <3>1, <1>4, <1>5
  <2>4. [s EXCEPT !.ring = ring, !.next = next, !.count = count, !.building = FALSE] \in SlotType
      BY <2>3, <1>6, Zenon
  <2> QED BY <2>2, <2>4, Zenon
<1> QED BY <1>2, <1>3, <1>7

LEMMA AppendFacts ==
    ASSUME NEW T, NEW q \in Seq(T), NEW r \in T
    PROVE  /\ Append(q, r) \in Seq(T)
           /\ Len(q) \in Nat
           /\ Len(Append(q, r)) = Len(q) + 1
           /\ Append(q, r)[Len(q) + 1] = r
           /\ \A k \in 1..Len(q) : Append(q, r)[k] = q[k]
OBVIOUS

\* What is counted at the end of a message is what was sent.
LEMMA PushFollows ==
    ASSUME Parameters, NEW s \in SlotType, NEW q \in Seq(Record), Follows(s, q), InTime(q)
    PROVE  /\ Follows(Pushed(s), Append(q, [bytes |-> s.bytes, age |-> 0]))
           /\ InTime(Append(q, [bytes |-> s.bytes, age |-> 0]))
<1> DEFINE r == [bytes |-> s.bytes, age |-> 0]
           q2 == Append(q, r)
           s2 == Pushed(s)
<1>1. r \in Record /\ r.age = 0
    BY RecordFacts DEF SlotType
<1>2. PICK n \in Nat : n = Len(q)
    OBVIOUS
<1>3. /\ q2 \in Seq(Record) /\ Len(q2) = n + 1 /\ q2[n + 1] = r
      /\ \A k \in 1..n : q2[k] = q[k]
    BY <1>1, <1>2, AppendFacts
<1>4. /\ s.ring \in [0..RingSize - 1 -> Record] /\ s.next \in 0..RingSize - 1
      /\ s.count \in 0..RingSize
    BY DEF SlotType
<1>5. /\ s2.ring = [s.ring EXCEPT ![s.next] = r]
      /\ s2.next = IF s.next + 1 = RingSize THEN 0 ELSE s.next + 1
      /\ s2.count = IF s.count < RingSize THEN s.count + 1 ELSE s.count
    BY PushedFields
<1>6. PICK R \in Nat : R = RingSize /\ R >= 1
    BY ParameterFacts
<1>7. Window \in Nat
    BY ParameterFacts
<1>8. \A k \in 1..n : q[k] \in Record /\ q[k].age \in Nat
    BY <1>2, RecordFacts
<1> HIDE DEF r, q2, s2
<1>9. InTime(q2)
  <2>1. \A k \in 1..n + 1 : k \in 1..n \/ k = n + 1
      BY <1>2
  <2>2. \A k \in 1..n + 1 : IsRecent(q2[k])
    <3>1. IsRecent(r)
        BY <1>1, <1>7 DEF IsRecent
    <3> QED BY <2>1, <3>1, <1>2, <1>3 DEF InTime
  <2>3. \A j, k \in 1..n + 1 : j < k => q2[j].age >= q2[k].age
    <3> SUFFICES ASSUME NEW j \in 1..n + 1, NEW k \in 1..n + 1, j < k
                 PROVE  q2[j].age >= q2[k].age
        OBVIOUS
    <3>1. j \in 1..n
        BY <1>2
    <3>2. CASE k = n + 1
        BY <3>1, <3>2, <1>1, <1>3, <1>8
    <3>3. CASE k \in 1..n
        BY <3>1, <3>3, <1>2, <1>3 DEF InTime
    <3> QED BY <2>1, <3>2, <3>3
  <2> QED BY <2>2, <2>3, <1>3 DEF InTime
<1>10. Follows(s2, q2)
  <2>1. s2.count < RingSize => s2.next = s2.count
      BY <1>4, <1>5, <1>6 DEF Follows
  <2>2. /\ Told(q2) = IF n + 1 <= R THEN n + 1 ELSE R
        /\ Told(q) = IF n <= R THEN n ELSE R
      BY <1>2, <1>3, <1>6 DEF Told
  <2>3. Told(q2) <= s2.count
      BY <2>2, <1>2, <1>4, <1>5, <1>6 DEF Follows
  <2>4. Back(s2.next, 1) = s.next
      BY <1>4, <1>5, <1>6 DEF Back
  <2>5. \A k \in 2..R : Back(s2.next, k) = Back(s.next, k - 1) /\ Back(s.next, k - 1) \in 0..R - 1
                        /\ Back(s.next, k - 1) # s.next
      BY <1>4, <1>5, <1>6 DEF Back
  <2>6. s2.ring[s.next] = r
      BY <1>4, <1>5
  <2>7. \A k \in 2..R : s2.ring[Back(s2.next, k)] = s.ring[Back(s.next, k - 1)]
      BY <2>5, <1>4, <1>5, <1>6
  <2>8. ASSUME NEW k \in 1..Told(q2)
        PROVE  s2.ring[Back(s2.next, k)] = q2[Len(q2) - k + 1]
    <3>1. k \in 1..R /\ k <= n + 1
        BY <2>2, <1>6
    <3>2. CASE k = 1
      <4>1. Len(q2) - k + 1 = n + 1
          BY <3>2, <1>3
      <4> QED BY <3>2, <4>1, <2>4, <2>6, <1>3
    <3>3. CASE k # 1
      <4>1. k \in 2..R /\ k - 1 \in 1..Told(q) /\ Len(q2) - k + 1 = n - (k - 1) + 1
            /\ n - (k - 1) + 1 \in 1..n
          BY <3>1, <3>3, <2>2, <1>3, <1>6
      <4>2. s.ring[Back(s.next, k - 1)] = q[n - (k - 1) + 1]
          BY <4>1, <1>2 DEF Follows
      <4> QED BY <4>1, <4>2, <2>7, <1>3
    <3> QED BY <3>2, <3>3
  <2>9. ASSUME NEW k \in Told(q2) + 1..s2.count
        PROVE  ~IsRecent(s2.ring[Back(s2.next, k)])
    <3>1. k \in 2..R /\ k - 1 \in Told(q) + 1..s.count
        BY <2>2, <1>2, <1>4, <1>5, <1>6
    <3>2. ~IsRecent(s.ring[Back(s.next, k - 1)])
        BY <3>1 DEF Follows
    <3> QED BY <3>1, <3>2, <2>7
  <2> QED BY <2>1, <2>3, <2>8, <2>9 DEF Follows
<1> QED BY <1>9, <1>10 DEF q2, s2, r

LEMMA OlderFacts ==
    ASSUME Parameters, NEW r \in Record
    PROVE  /\ Older(r) \in Record
           /\ Older(r).age = IF r.age <= Window THEN r.age + 1 ELSE r.age
           /\ ~IsRecent(r) => ~IsRecent(Older(r))
<1>1. PICK W \in Nat : W = Window
    BY ParameterFacts
<1>2. r.age \in 0..W + 1 /\ r.bytes \in Bytes
    BY <1>1 DEF Record
<1>3. Older(r).age = (IF r.age <= Window THEN r.age + 1 ELSE r.age) /\ Older(r).bytes = r.bytes
    BY DEF Older, Record
<1>4. Older(r).age \in 0..W + 1
    BY <1>1, <1>2, <1>3
<1>5. \A a \in 0..Window + 1 : [r EXCEPT !.age = a] \in Record
    BY DEF Record
<1>6. Older(r) \in Record
  <2>1. PICK a : a = IF r.age <= Window THEN r.age + 1 ELSE r.age
      OBVIOUS
  <2>2. Older(r) = [r EXCEPT !.age = a]
      BY <2>1 DEF Older
  <2>3. a \in 0..Window + 1
      BY <2>1, <1>1, <1>2
  <2> QED BY <2>2, <2>3, <1>5
<1>7. ~IsRecent(r) => ~IsRecent(Older(r))
    BY <1>3 DEF IsRecent
<1> QED BY <1>3, <1>6, <1>7

\* When the oldest come first, those that are recent are the last.
LEMMA RecentIsASuffix ==
    ASSUME Parameters, NEW q \in Seq(Record),
           \A j, k \in 1..Len(q) : j < k => q[j].age >= q[k].age
    PROVE  \E d \in 0..Len(q) :
              /\ Recent(q) \in Seq(Record) /\ Len(Recent(q)) = Len(q) - d
              /\ \A k \in 1..Len(q) - d : Recent(q)[k] = q[k + d] /\ IsRecent(q[k + d])
              /\ \A k \in 1..d : ~IsRecent(q[k])
<1> DEFINE Splits(n) == /\ \A k \in 1..n - 1 : ~IsRecent(q[k])
                        /\ \A k \in n..Len(q) : IsRecent(q[k])
           T == {k \in 1..Len(q) : IsRecent(q[k])}
           first == CHOOSE n \in 1..Len(q) + 1 : Splits(n)
<1>1. PICK N \in Nat : N = Len(q)
    OBVIOUS
<1>2. \A k \in 1..N : q[k].age \in Nat /\ q[k] \in Record
    BY <1>1, RecordFacts
<1>3. Window \in Nat
    BY ParameterFacts
<1>4. \E n \in 1..N + 1 : Splits(n)
  <2>1. CASE T = {}
    <3>1. \A k \in 1..(N + 1) - 1 : k \in 1..N
        BY <1>1
    <3>2. Splits(N + 1)
        BY <2>1, <3>1, <1>1
    <3>3. N + 1 \in 1..N + 1
        BY <1>1
    <3> HIDE DEF Splits
    <3> QED BY <3>2, <3>3
  <2>2. CASE T # {}
    <3>1. T \in SUBSET Nat
        OBVIOUS
    <3>2. PICK n \in T : \A k \in T : n <= k
        BY <2>2, <3>1, Least
    <3>3. n \in 1..N /\ IsRecent(q[n])
        BY <3>2, <1>1
    <3>4. \A k \in 1..n - 1 : ~IsRecent(q[k])
      <4>1. \A k \in 1..n - 1 : k \in 1..N /\ ~(n <= k)
          BY <3>3, <1>1
      <4> QED BY <4>1, <3>2, <1>1
    <3>5. \A k \in n..N : IsRecent(q[k])
      <4> SUFFICES ASSUME NEW k \in n..N PROVE IsRecent(q[k])
          OBVIOUS
      <4>1. k = n \/ (n < k /\ k \in 1..N)
          BY <3>3
      <4>2. CASE n < k
        <5>1. q[n].age >= q[k].age
            BY <4>1, <4>2, <3>3, <1>1
        <5>2. q[n].age \in Nat /\ q[k].age \in Nat /\ q[n].age <= Window
            BY <4>1, <4>2, <3>3, <1>2 DEF IsRecent
        <5> QED BY <5>1, <5>2, <1>3 DEF IsRecent
      <4> QED BY <4>1, <4>2, <3>3
    <3>6. Splits(n) /\ n \in 1..N + 1
        BY <3>3, <3>4, <3>5, <1>1
    <3> HIDE DEF Splits
    <3> QED BY <3>6
  <2> QED BY <2>1, <2>2
<1>5. first \in 1..N + 1 /\ Splits(first)
  <2> HIDE DEF Splits
  <2> QED BY <1>1, <1>4
<1>6. Recent(q) = SubSeq(q, first, N)
    BY <1>1 DEF Recent
<1>7. PICK n \in 1..N + 1 : n = first
    BY <1>5
<1> HIDE DEF first
<1>8. /\ Recent(q) \in Seq(Record) /\ Len(Recent(q)) = N - (n - 1)
      /\ \A k \in 1..N - (n - 1) : Recent(q)[k] = q[k + (n - 1)]
  <2>1. \A k \in n..N : q[k] \in Record
      BY <1>2
  <2>2. Len(SubSeq(q, n, N)) = N - (n - 1)
      BY <1>1
  <2>3. \A k \in 1..N - (n - 1) : SubSeq(q, n, N)[k] = q[k + (n - 1)]
      BY <1>1
  <2>4. SubSeq(q, n, N) \in Seq(Record)
      BY <1>1
  <2> QED BY <1>6, <1>7, <2>2, <2>3, <2>4
<1>9. n - 1 \in 0..N /\ \A k \in 1..N - (n - 1) : k + (n - 1) \in n..N
    BY <1>1
<1>10. /\ \A k \in 1..n - 1 : ~IsRecent(q[k])
       /\ \A k \in n..N : IsRecent(q[k])
    BY <1>1, <1>5, <1>7
<1> QED BY <1>1, <1>8, <1>9, <1>10

Aged(ring) == [n \in 0..RingSize - 1 |-> Older(ring[n])]

AgedSent(q) == [n \in 1..Len(q) |-> Older(q[n])]

\* A history is thinned out from its old end, and stays in the order of time.
LEMMA AgedHistory ==
    ASSUME Parameters, NEW q \in Seq(Record), InTime(q)
    PROVE  \E d \in 0..Len(q) :
              /\ Recent(AgedSent(q)) \in Seq(Record) /\ Len(Recent(AgedSent(q))) = Len(q) - d
              /\ \A k \in 1..Len(q) - d : Recent(AgedSent(q))[k] = Older(q[k + d])
              /\ \A k \in 1..d : ~IsRecent(Older(q[k]))
              /\ InTime(Recent(AgedSent(q)))
<1>1. PICK N \in Nat : N = Len(q)
    OBVIOUS
<1>2. PICK a : a = AgedSent(q)
    OBVIOUS
<1>3. \A k \in 1..N : q[k] \in Record /\ q[k].age \in Nat
    BY <1>1, RecordFacts
<1>4. a \in Seq(Record) /\ Len(a) = N /\ \A k \in 1..N : a[k] = Older(q[k])
    BY <1>1, <1>2, <1>3, OlderFacts DEF AgedSent
<1>5. \A j, k \in 1..N : j < k => a[j].age >= a[k].age
  <2> SUFFICES ASSUME NEW j \in 1..N, NEW k \in 1..N, j < k
               PROVE  a[j].age >= a[k].age
      OBVIOUS
  <2>1. q[j].age >= q[k].age /\ q[j].age \in Nat /\ q[k].age \in Nat
      BY <1>1, <1>3 DEF InTime
  <2>2. /\ a[j].age = IF q[j].age <= Window THEN q[j].age + 1 ELSE q[j].age
        /\ a[k].age = IF q[k].age <= Window THEN q[k].age + 1 ELSE q[k].age
      BY <1>3, <1>4, OlderFacts
  <2>3. Window \in Nat
      BY ParameterFacts
  <2> QED BY <2>1, <2>2, <2>3
<1>6. PICK d \in 0..N :
         /\ Recent(a) \in Seq(Record) /\ Len(Recent(a)) = N - d
         /\ \A k \in 1..N - d : Recent(a)[k] = a[k + d] /\ IsRecent(a[k + d])
         /\ \A k \in 1..d : ~IsRecent(a[k])
    BY <1>4, <1>5, RecentIsASuffix
<1>7. PICK q2 : q2 = Recent(a)
    OBVIOUS
<1>8. /\ q2 \in Seq(Record) /\ Len(q2) = N - d
      /\ \A k \in 1..N - d : q2[k] = a[k + d] /\ IsRecent(a[k + d])
    BY <1>6, <1>7
<1>9. InTime(q2)
  <2>1. \A k \in 1..N - d : k + d \in 1..N /\ k \in Int
      OBVIOUS
  <2>2. \A j, k \in 1..N - d : j < k => q2[j].age >= q2[k].age
    <3> SUFFICES ASSUME NEW j \in 1..N - d, NEW k \in 1..N - d, j < k
                 PROVE  q2[j].age >= q2[k].age
        OBVIOUS
    <3>1. j + d \in 1..N /\ k + d \in 1..N /\ j + d < k + d
        OBVIOUS
    <3>2. a[j + d].age >= a[k + d].age
        BY <3>1, <1>5
    <3> QED BY <3>2, <1>8
  <2> QED BY <2>2, <1>8 DEF InTime
<1>10. \A k \in 1..N - d : k + d \in 1..N
    OBVIOUS
<1>11. \A k \in 1..N - d : q2[k] = Older(q[k + d])
    BY <1>4, <1>8, <1>10
<1>12. \A k \in 1..d : ~IsRecent(Older(q[k]))
  <2>1. \A k \in 1..d : k \in 1..N
      OBVIOUS
  <2> QED BY <2>1, <1>4, <1>6
<1>13. Len(q2) = Len(q) - d
    BY <1>1, <1>8
<1> QED BY <1>1, <1>2, <1>7, <1>8, <1>9, <1>11, <1>12, <1>13

LEMMA HistoryAges ==
    ASSUME Parameters, NEW q \in Seq(Record), InTime(q)
    PROVE  /\ Recent(AgedSent(q)) \in Seq(Record)
           /\ Len(Recent(AgedSent(q))) <= Len(q)
           /\ InTime(Recent(AgedSent(q)))
<1>1. PICK d \in 0..Len(q) :
         /\ Recent(AgedSent(q)) \in Seq(Record) /\ Len(Recent(AgedSent(q))) = Len(q) - d
         /\ InTime(Recent(AgedSent(q)))
    BY AgedHistory
<1>2. Len(q) \in Nat
    OBVIOUS
<1>3. Len(q) - d <= Len(q)
    BY <1>2
<1> QED BY <1>1, <1>3

\* What is too old for the log is too old for the history.
LEMMA AgeFollows ==
    ASSUME Parameters, NEW s \in SlotType, NEW q \in Seq(Record), Follows(s, q), InTime(q),
           NEW s2 \in SlotType, s2.ring = Aged(s.ring), s2.next = s.next, s2.count = s.count
    PROVE  Follows(s2, Recent(AgedSent(q)))
<1>1. PICK N \in Nat : N = Len(q)
    OBVIOUS
<1>2. PICK d \in 0..Len(q) :
         /\ Len(Recent(AgedSent(q))) = Len(q) - d
         /\ \A k \in 1..Len(q) - d : Recent(AgedSent(q))[k] = Older(q[k + d])
         /\ \A k \in 1..d : ~IsRecent(Older(q[k]))
    BY AgedHistory
<1>3. PICK q2 : q2 = Recent(AgedSent(q))
    OBVIOUS
<1>4. d \in 0..N /\ Len(q2) = N - d /\ \A k \in 1..N - d : q2[k] = Older(q[k + d])
    BY <1>1, <1>2, <1>3
<1>5. \A k \in 1..d : ~IsRecent(Older(q[k]))
    BY <1>2
<1>10. PICK R \in Nat : R = RingSize /\ R >= 1
    BY ParameterFacts
<1>11. s.next \in 0..R - 1 /\ s.count \in 0..R /\ s.ring \in [0..RingSize - 1 -> Record]
    BY <1>10 DEF SlotType
<1>12. \A k \in 1..R : Back(s.next, k) \in 0..R - 1
    BY <1>10, <1>11 DEF Back
<1>13. \A k \in 1..R : /\ s2.ring[Back(s.next, k)] = Older(s.ring[Back(s.next, k)])
                       /\ s.ring[Back(s.next, k)] \in Record
    BY <1>10, <1>11, <1>12 DEF Aged
<1>14. /\ Told(q) = IF N <= R THEN N ELSE R
       /\ Told(q2) = IF N - d <= R THEN N - d ELSE R
    BY <1>1, <1>4, <1>10 DEF Told
<1>15. /\ s.count < RingSize => s.next = s.count
       /\ Told(q) <= s.count
       /\ \A k \in 1..Told(q) : s.ring[Back(s.next, k)] = q[N - k + 1]
       /\ \A k \in Told(q) + 1..s.count : ~IsRecent(s.ring[Back(s.next, k)])
    BY <1>1 DEF Follows
<1>16. \A k \in 1..Told(q) : s2.ring[Back(s.next, k)] = Older(q[N - k + 1]) /\ N - k + 1 \in 1..N
  <2>1. \A k \in 1..Told(q) : k \in 1..R /\ N - k + 1 \in 1..N
      BY <1>14
  <2> QED BY <2>1, <1>13, <1>15
<1>17. Follows(s2, q2)
  <2>1. s2.count < RingSize => s2.next = s2.count
      BY <1>15
  <2>2. Told(q2) <= Told(q) /\ Told(q) \in Int /\ Told(q2) \in Int
      BY <1>4, <1>14
  <2>3. Told(q2) <= s2.count
      BY <2>2, <1>11, <1>15
  <2>4. ASSUME NEW k \in 1..Told(q2)
        PROVE  s2.ring[Back(s2.next, k)] = q2[Len(q2) - k + 1]
    <3>1. k \in 1..Told(q) /\ (N - d) - k + 1 \in 1..N - d /\ ((N - d) - k + 1) + d = N - k + 1
        BY <1>4, <1>14
    <3>2. q2[(N - d) - k + 1] = Older(q[N - k + 1])
        BY <3>1, <1>4
    <3> QED BY <3>1, <3>2, <1>4, <1>16
  <2>5. ASSUME NEW k \in Told(q2) + 1..s2.count
        PROVE  ~IsRecent(s2.ring[Back(s2.next, k)])
    <3>1. k \in 1..R
        BY <1>4, <1>11, <1>14
    <3>2. CASE k <= Told(q)
      <4>1. k \in 1..Told(q) /\ N - k + 1 \in 1..d
          BY <3>1, <3>2, <1>4, <1>14
      <4> QED BY <4>1, <1>5, <1>16
    <3>3. CASE ~(k <= Told(q))
      <4>1. k \in Told(q) + 1..s.count
          BY <3>3, <2>2, <1>11
      <4>2. ~IsRecent(s.ring[Back(s.next, k)])
          BY <4>1, <1>15
      <4> QED BY <4>2, <3>1, <1>13, OlderFacts
    <3> QED BY <3>2, <3>3
  <2> QED BY <2>1, <2>3, <2>4, <2>5 DEF Follows
<1> QED BY <1>3, <1>17

\* Whoever goes through the ring from its first place meets the same records.
LEMMA RingTotal ==
    ASSUME Parameters, NEW s \in SlotType, NEW t \in 0..s.count,
           s.count < RingSize => s.next = s.count,
           NEW f \in Seq(Int), Len(f) = s.count, NEW g \in Seq(Int), Len(g) = t,
           \A k \in 1..t : f[Back(s.next, k) + 1] = g[t - k + 1],
           \A k \in t + 1..s.count : f[Back(s.next, k) + 1] = 0
    PROVE  Total(f) = Total(g)
<1>1. PICK R \in Nat : R = RingSize /\ R >= 1
    BY ParameterFacts
<1>2. PICK c \in 0..R : c = s.count
    BY <1>1 DEF SlotType
<1>3. PICK n \in 0..R - 1 : n = s.next
    BY <1>1 DEF SlotType
<1>4. PICK m \in 0..c : m = IF c = R THEN n ELSE 0
    OBVIOUS
<1>5. c < R => n = c
    BY <1>1, <1>2, <1>3
<1>6. ASSUME NEW j \in 1..c
      PROVE  f[IF m + j <= c THEN m + j ELSE m + j - c] = IF j <= c - t THEN 0 ELSE g[j - (c - t)]
  <2>1. PICK k \in 1..c : k = c - j + 1
      OBVIOUS
  <2>2. (IF m + j <= c THEN m + j ELSE m + j - c) = Back(n, k) + 1
    <3>1. CASE c = R
        BY <3>1, <2>1, <1>1, <1>4 DEF Back
    <3>2. CASE c < R
        BY <3>2, <2>1, <1>1, <1>4, <1>5 DEF Back
    <3> QED BY <3>1, <3>2
  <2>3. t \in 0..c
      BY <1>2
  <2>4. CASE j <= c - t
    <3>1. k \in t + 1..c
        BY <2>1, <2>3, <2>4
    <3>2. f[Back(n, k) + 1] = 0
        BY <3>1, <1>2, <1>3
    <3> QED BY <3>2, <2>2, <2>4
  <2>5. CASE ~(j <= c - t)
    <3>1. k \in 1..t /\ t - k + 1 = j - (c - t)
        BY <2>1, <2>3, <2>5
    <3>2. f[Back(n, k) + 1] = g[t - k + 1]
        BY <3>1, <1>3
    <3> QED BY <3>1, <3>2, <2>2, <2>5
  <2> QED BY <2>4, <2>5
<1>7. c \in Nat /\ t \in Nat /\ t <= c /\ c = Len(f) /\ t = Len(g)
    BY <1>2
<1> QED BY <1>6, <1>7, TotalOfRing

LEMMA TotalOfOnes ==
    ASSUME NEW t \in Nat
    PROVE  /\ [k \in 1..t |-> 1] \in Seq(Int) /\ Len([k \in 1..t |-> 1]) = t
           /\ Total([k \in 1..t |-> 1]) = t
<1>1. PICK g : g = [k \in 1..t |-> 1]
    OBVIOUS
<1>2. g \in Seq(Int) /\ Len(g) = t /\ \A k \in 1..t : g[k] = 1
    BY <1>1
<1>3. PICK G : Sums(g, G) /\ Total(g) = G[t]
    BY <1>2, TotalSums
<1> DEFINE T == {k \in 0..t : G[k] = k}
<1>4. 0 \in T
    BY <1>3 DEF Sums
<1>5. ASSUME NEW k \in 0..t, k + 1 <= t, k \in T
      PROVE  k + 1 \in T
  <2>1. k + 1 \in 1..t /\ (k + 1) - 1 = k /\ k + 1 \in 0..t
      BY <1>5
  <2>2. G[k + 1] = G[k] + g[k + 1]
      BY <2>1, <1>2, <1>3 DEF Sums
  <2> QED BY <2>1, <2>2, <1>2, <1>5
<1>6. 0..t \subseteq T
  <2> HIDE DEF T
  <2> QED BY <1>4, <1>5, Induction
<1>7. G[t] = t
  <2>1. t \in 0..t
      OBVIOUS
  <2> QED BY <1>6, <2>1
<1> QED BY <1>1, <1>2, <1>3, <1>7

LEMMA LastOfFacts ==
    ASSUME Parameters, NEW q \in Seq(Record)
    PROVE  /\ Told(q) \in Nat /\ Told(q) <= Len(q)
           /\ LastOf(q, RingSize) \in Seq(Record) /\ Len(LastOf(q, RingSize)) = Told(q)
           /\ \A k \in 1..Told(q) :
                 LastOf(q, RingSize)[Told(q) - k + 1] = q[Len(q) - k + 1]
<1>1. PICK R \in Nat : R = RingSize /\ R >= 1
    BY ParameterFacts
<1>2. PICK N \in Nat : N = Len(q)
    OBVIOUS
<1>3. Told(q) = IF N <= R THEN N ELSE R
    BY <1>1, <1>2 DEF Told
<1>4. CASE N <= R
    BY <1>1, <1>2, <1>3, <1>4 DEF LastOf
<1>5. CASE ~(N <= R)
  <2>1. LastOf(q, RingSize) = SubSeq(q, N - R + 1, N)
      BY <1>1, <1>2, <1>5 DEF LastOf
  <2>2. /\ N - R + 1 \in 1..N
        /\ \A k \in 1..R : R - k + 1 \in 1..R /\ (R - k + 1) + (N - R + 1) - 1 = N - k + 1
      BY <1>5, <1>1
  <2>3. /\ SubSeq(q, N - R + 1, N) \in Seq(Record)
        /\ Len(SubSeq(q, N - R + 1, N)) = R
        /\ \A i \in 1..R : SubSeq(q, N - R + 1, N)[i] = q[i + (N - R + 1) - 1]
      BY <2>2, <1>1, <1>2, <1>5
  <2>4. \A k \in 1..R : SubSeq(q, N - R + 1, N)[R - k + 1] = q[N - k + 1]
    <3> SUFFICES ASSUME NEW k \in 1..R
                 PROVE  SubSeq(q, N - R + 1, N)[R - k + 1] = q[N - k + 1]
        OBVIOUS
    <3>1. PICK i \in 1..R : i = R - k + 1
        BY <2>2
    <3>2. i + (N - R + 1) - 1 = N - k + 1
        BY <3>1
    <3>3. SubSeq(q, N - R + 1, N)[i] = q[i + (N - R + 1) - 1]
        BY <2>3
    <3> QED BY <3>1, <3>2, <3>3
  <2>5. Told(q) = R
      BY <1>3, <1>5
  <2> QED BY <2>1, <2>3, <2>4, <2>5, <1>1, <1>2, <1>5
<1> QED BY <1>4, <1>5

\* What a ring that follows the history tells is the end of the history.
LEMMA DumpOfRing ==
    ASSUME Parameters, NEW p, slot[p] \in SlotType, sent[p] \in Seq(Record),
           Follows(slot[p], sent[p]), InTime(sent[p])
    PROVE  Dump(p) = [messages |-> Len(LastOf(sent[p], RingSize)),
                      bytes |-> Total([n \in 1..Len(LastOf(sent[p], RingSize)) |->
                                          LastOf(sent[p], RingSize)[n].bytes])]
<1>1. PICK s \in SlotType : s = slot[p]
    OBVIOUS
<1>2. PICK q \in Seq(Record) : q = sent[p]
    OBVIOUS
<1>3. PICK told : told = LastOf(q, RingSize)
    OBVIOUS
<1>4. PICK t \in Nat : t = Told(q)
    BY LastOfFacts
<1>5. /\ t <= Len(q) /\ told \in Seq(Record) /\ Len(told) = t
      /\ \A k \in 1..t : told[t - k + 1] = q[Len(q) - k + 1]
    BY <1>3, <1>4, LastOfFacts
<1>6. /\ s.count < RingSize => s.next = s.count
      /\ t <= s.count
      /\ \A k \in 1..t : s.ring[Back(s.next, k)] = q[Len(q) - k + 1]
      /\ \A k \in t + 1..s.count : ~IsRecent(s.ring[Back(s.next, k)])
    BY <1>1, <1>2, <1>4 DEF Follows
<1>7. PICK R \in Nat : R = RingSize /\ R >= 1
    BY ParameterFacts
<1>8. s.next \in 0..R - 1 /\ s.count \in 0..R /\ s.ring \in [0..RingSize - 1 -> Record]
    BY <1>7 DEF SlotType
<1>9. \A k \in 1..t : IsRecent(q[Len(q) - k + 1])
  <2>1. \A k \in 1..t : Len(q) - k + 1 \in 1..Len(q)
      BY <1>5
  <2> QED BY <2>1, <1>2 DEF InTime
<1>10. \A k \in 1..s.count : Back(s.next, k) + 1 \in 1..s.count
  <2>1. PICK n \in 0..R - 1 : n = s.next
      BY <1>8
  <2>2. PICK c \in 0..R : c = s.count
      BY <1>8
  <2>3. c < R => n = c
      BY <1>6, <1>7, <2>1, <2>2
  <2>4. \A k \in 1..c : Back(n, k) + 1 \in 1..c
      BY <1>7, <2>3 DEF Back
  <2> QED BY <2>1, <2>2, <2>4
<1>11. \A k \in 1..t : k \in 1..s.count
    BY <1>6, <1>8
<1>12. \A k \in t + 1..s.count : k \in 1..s.count
    BY <1>6, <1>8
<1>13. \A n \in 1..s.count : s.ring[n - 1] \in Record /\ s.ring[n - 1].bytes \in Int
  <2> SUFFICES ASSUME NEW n \in 1..s.count
               PROVE  s.ring[n - 1] \in Record /\ s.ring[n - 1].bytes \in Int
      OBVIOUS
  <2>1. n - 1 \in 0..RingSize - 1
      BY <1>7, <1>8
  <2>2. s.ring[n - 1] \in Record
      BY <2>1, <1>8
  <2> QED BY <2>2, RecordFacts
<1>14. \A k \in 1..s.count : Back(s.next, k) \in Int /\ (Back(s.next, k) + 1) - 1 = Back(s.next, k)
  <2>1. \A k \in 1..s.count : Back(s.next, k) \in Int
      BY <1>7, <1>8 DEF Back
  <2> QED BY <2>1
<1>15. \A k \in 1..t : t - k + 1 \in 1..t
    OBVIOUS
<1> DEFINE counted(n) == IF IsRecent(s.ring[n - 1]) THEN 1 ELSE 0
           summed(n) == IF IsRecent(s.ring[n - 1]) THEN s.ring[n - 1].bytes ELSE 0
<1>16. Total([n \in 1..s.count |-> counted(n)]) = t
  <2>1. PICK f : f = [n \in 1..s.count |-> counted(n)]
      OBVIOUS
  <2>2. f \in Seq(Int) /\ Len(f) = s.count /\ \A n \in 1..s.count : f[n] = counted(n)
    <3>1. PICK c \in Nat : c = s.count
        BY <1>8
    <3>2. \A n \in 1..c : counted(n) \in Int
        BY <3>1
    <3> HIDE DEF counted
    <3> QED BY <2>1, <3>1, <3>2
  <2>3. PICK g : g = [k \in 1..t |-> 1]
      OBVIOUS
  <2>4. g \in Seq(Int) /\ Len(g) = t /\ Total(g) = t /\ \A k \in 1..t : g[k] = 1
      BY <2>3, TotalOfOnes
  <2>5. \A k \in 1..t : f[Back(s.next, k) + 1] = g[t - k + 1]
    <3> SUFFICES ASSUME NEW k \in 1..t PROVE f[Back(s.next, k) + 1] = g[t - k + 1]
        OBVIOUS
    <3>1. IsRecent(s.ring[Back(s.next, k)])
        BY <1>6, <1>9
    <3>2. f[Back(s.next, k) + 1] = counted(Back(s.next, k) + 1)
        BY <2>2, <1>10, <1>11
    <3>3. counted(Back(s.next, k) + 1) = 1
        BY <3>1, <1>11, <1>14
    <3> QED BY <3>2, <3>3, <2>4, <1>15
  <2>6. \A k \in t + 1..s.count : f[Back(s.next, k) + 1] = 0
    <3> SUFFICES ASSUME NEW k \in t + 1..s.count PROVE f[Back(s.next, k) + 1] = 0
        OBVIOUS
    <3>1. ~IsRecent(s.ring[Back(s.next, k)])
        BY <1>6
    <3>2. f[Back(s.next, k) + 1] = counted(Back(s.next, k) + 1)
        BY <2>2, <1>10, <1>12
    <3>3. counted(Back(s.next, k) + 1) = 0
        BY <3>1, <1>12, <1>14
    <3> QED BY <3>2, <3>3
  <2>7. t \in 0..s.count
      BY <1>6, <1>8
  <2>8. Total(f) = Total(g)
      BY <2>2, <2>4, <2>5, <2>6, <2>7, <1>6, RingTotal
  <2> QED BY <2>1, <2>4, <2>8
<1>17. Total([n \in 1..s.count |-> summed(n)]) = Total([n \in 1..t |-> told[n].bytes])
  <2>1. PICK f : f = [n \in 1..s.count |-> summed(n)]
      OBVIOUS
  <2>2. f \in Seq(Int) /\ Len(f) = s.count /\ \A n \in 1..s.count : f[n] = summed(n)
    <3>1. PICK c \in Nat : c = s.count
        BY <1>8
    <3>2. \A n \in 1..c : summed(n) \in Int
        BY <3>1, <1>13
    <3> HIDE DEF summed
    <3> QED BY <2>1, <3>1, <3>2
  <2>3. PICK g : g = [n \in 1..t |-> told[n].bytes]
      OBVIOUS
  <2>4. g \in Seq(Int) /\ Len(g) = t /\ \A n \in 1..t : g[n] = told[n].bytes
    <3>1. \A n \in 1..t : told[n].bytes \in Int
        BY <1>5, RecordFacts
    <3> QED BY <2>3, <3>1
  <2>5. \A k \in 1..t : f[Back(s.next, k) + 1] = g[t - k + 1]
    <3> SUFFICES ASSUME NEW k \in 1..t PROVE f[Back(s.next, k) + 1] = g[t - k + 1]
        OBVIOUS
    <3>1. IsRecent(s.ring[Back(s.next, k)]) /\ s.ring[Back(s.next, k)] = told[t - k + 1]
        BY <1>5, <1>6, <1>9
    <3>2. f[Back(s.next, k) + 1] = summed(Back(s.next, k) + 1)
        BY <2>2, <1>10, <1>11
    <3>3. summed(Back(s.next, k) + 1) = told[t - k + 1].bytes
        BY <3>1, <1>11, <1>14
    <3> QED BY <3>2, <3>3, <2>4, <1>15
  <2>6. \A k \in t + 1..s.count : f[Back(s.next, k) + 1] = 0
    <3> SUFFICES ASSUME NEW k \in t + 1..s.count PROVE f[Back(s.next, k) + 1] = 0
        OBVIOUS
    <3>1. ~IsRecent(s.ring[Back(s.next, k)])
        BY <1>6
    <3>2. f[Back(s.next, k) + 1] = summed(Back(s.next, k) + 1)
        BY <2>2, <1>10, <1>12
    <3>3. summed(Back(s.next, k) + 1) = 0
        BY <3>1, <1>12, <1>14
    <3> QED BY <3>2, <3>3
  <2>7. t \in 0..s.count
      BY <1>6, <1>8
  <2>8. Total(f) = Total(g)
      BY <2>2, <2>4, <2>5, <2>6, <2>7, <1>6, RingTotal
  <2> QED BY <2>1, <2>3, <2>8
<1>18. Dump(p) = [messages |-> Total([n \in 1..s.count |-> counted(n)]),
                  bytes |-> Total([n \in 1..s.count |-> summed(n)])]
    BY <1>1 DEF Dump
<1> HIDE DEF counted, summed
<1> QED BY <1>1, <1>2, <1>3, <1>5, <1>16, <1>17, <1>18

-----------------------------------------------------------------------------
(* Panels in pieces                                                        *)

Takes(so, length) == IF so.done < length THEN SendsPiece(so, length) ELSE so

AtFirst == [done |-> 0, screen |-> [parts |-> 0, shown |-> 0]]

\* The loop after its first turn and each of n more, for a client with nothing in hand.
Turns(n, length, turn) ==
    /\ turn = [k \in 0..n |-> turn[k]]
    /\ turn[0] = SendsPiece(AtFirst, length)
    /\ \A k \in 1..n : turn[k] = Takes(turn[k - 1], length)

LEMMA TurnsExist ==
    ASSUME NEW length, NEW N \in Nat
    PROVE  \E turn : Turns(N, length, turn)
<1> DEFINE T == {n \in 0..N : \E turn : Turns(n, length, turn)}
<1>1. 0 \in T
  <2>1. Turns(0, length, [k \in 0..0 |-> SendsPiece(AtFirst, length)])
      BY DEF Turns
  <2> QED BY <2>1
<1>2. ASSUME NEW n \in 0..N, n + 1 <= N, n \in T
      PROVE  n + 1 \in T
  <2>1. PICK turn : Turns(n, length, turn)
      BY <1>2
  <2> DEFINE next == Takes(turn[n], length)
             more == [k \in 0..n + 1 |-> IF k = n + 1 THEN next ELSE turn[k]]
  <2>2. n + 1 \in 0..N /\ n \in Nat
      BY <1>2
  <2>3. more[n + 1] = next /\ \A k \in 0..n : more[k] = turn[k]
      BY <2>2
  <2>4. more = [k \in 0..n + 1 |-> more[k]]
      OBVIOUS
  <2> HIDE DEF more
  <2>5. \A k \in 1..n + 1 : more[k] = Takes(more[k - 1], length)
    <3>1. \A k \in 1..n + 1 : k = n + 1 \/ (k \in 1..n /\ k \in 0..n /\ k - 1 \in 0..n)
        BY <2>2
    <3>2. n \in 0..n /\ (n + 1) - 1 = n
        BY <2>2
    <3> QED BY <3>1, <3>2, <2>1, <2>3 DEF Turns
  <2>6. more[0] = SendsPiece(AtFirst, length)
      BY <2>1, <2>2, <2>3 DEF Turns
  <2>7. Turns(n + 1, length, more)
      BY <2>4, <2>5, <2>6 DEF Turns
  <2> QED BY <2>2, <2>7
<1>3. 0..N \subseteq T
  <2> HIDE DEF T
  <2> QED BY <1>1, <1>2, Induction
<1> QED BY <1>3

LEMMA ScreenTurns ==
    ASSUME Parameters, NEW length \in 0..MaxText
    PROVE  \E turn : Turns(length, length, turn) /\ Screen[0][length] = turn[length].screen
<1> DEFINE Rule(turn) == turn = [n \in 0..length |->
                  IF n = 0
                  THEN SendsPiece([done |-> 0, screen |-> [parts |-> 0, shown |-> 0]], length)
                  ELSE IF turn[n - 1].done < length THEN SendsPiece(turn[n - 1], length)
                  ELSE turn[n - 1]]
           loop == CHOOSE turn : Rule(turn)
<1>1. length \in Nat /\ 0 \in 0..MaxText
    BY ParameterFacts
<1>2. Screen[0][length] = loop[length].screen
    BY <1>1 DEF Screen
<1>3. PICK turn : Turns(length, length, turn)
    BY <1>1, TurnsExist
<1>4. Rule(turn)
  <2>1. \A n \in 0..length : n = 0 \/ (n \in 1..length /\ n # 0)
      BY <1>1
  <2>2. \A n \in 0..length : turn[n] =
           IF n = 0
           THEN SendsPiece([done |-> 0, screen |-> [parts |-> 0, shown |-> 0]], length)
           ELSE IF turn[n - 1].done < length THEN SendsPiece(turn[n - 1], length)
           ELSE turn[n - 1]
      BY <1>3, <2>1 DEF Turns, Takes, AtFirst
  <2>3. turn = [n \in 0..length |-> turn[n]]
      BY <1>3 DEF Turns
  <2> QED BY <2>2, <2>3
<1>5. Rule(loop)
  <2> HIDE DEF Rule
  <2> QED BY <1>4
<1>6. Turns(length, length, loop)
  <2> HIDE DEF loop
  <2>1. \A n \in 0..length : loop[n] =
           IF n = 0
           THEN SendsPiece([done |-> 0, screen |-> [parts |-> 0, shown |-> 0]], length)
           ELSE IF loop[n - 1].done < length THEN SendsPiece(loop[n - 1], length)
           ELSE loop[n - 1]
      BY <1>5
  <2>2. loop = [n \in 0..length |-> loop[n]]
      BY <1>5
  <2>3. 0 \in 0..length /\ \A k \in 1..length : k \in 0..length /\ k # 0
      BY <1>1
  <2>4. loop[0] = SendsPiece(AtFirst, length)
      BY <2>1, <2>3 DEF AtFirst
  <2>5. \A k \in 1..length : loop[k] = Takes(loop[k - 1], length)
      BY <2>1, <2>3 DEF Takes
  <2> QED BY <2>2, <2>4, <2>5 DEF Turns
<1> HIDE DEF loop
<1> QED BY <1>2, <1>6

\* While there is more to send, the client has all of it in hand; then it shows it all.
OnItsWay(so, n, length) ==
    \/ /\ so.done \in n..length - 1
       /\ so.screen = [parts |-> so.done, shown |-> 0]
    \/ so.done = length /\ so.screen = [parts |-> 0, shown |-> length]

LEMMA PieceOnItsWay ==
    ASSUME Parameters, NEW length \in Nat, NEW n \in Nat, NEW d \in n..length, NEW so,
           so.done = d, so.screen = [parts |-> d, shown |-> 0]
    PROVE  OnItsWay(SendsPiece(so, length), n + 1, length)
<1>1. PICK C \in Nat : C = Chunk /\ C >= 1
    BY ParameterFacts
<1>2. CASE length - d <= C
  <2>1. SendsPiece(so, length) =
           [done |-> d + (length - d),
            screen |-> Client(so.screen, [bytes |-> length - d, last |-> IsLast(length - d)])]
      BY <1>1, <1>2 DEF SendsPiece
  <2>2. IsLast(length - d)
      BY <1>1, <1>2 DEF IsLast
  <2>3. Client(so.screen, [bytes |-> length - d, last |-> IsLast(length - d)])
           = [parts |-> 0, shown |-> d + (length - d)]
      BY <2>2 DEF Client
  <2>4. d + (length - d) = length
      OBVIOUS
  <2> QED BY <2>1, <2>3, <2>4 DEF OnItsWay
<1>3. CASE ~(length - d <= C)
  <2>1. SendsPiece(so, length) =
           [done |-> d + C,
            screen |-> Client(so.screen, [bytes |-> C, last |-> IsLast(length - d)])]
      BY <1>1, <1>3 DEF SendsPiece
  <2>2. ~IsLast(length - d)
      BY <1>1, <1>3 DEF IsLast
  <2>3. Client(so.screen, [bytes |-> C, last |-> IsLast(length - d)])
           = [parts |-> d + C, shown |-> 0]
      BY <2>2 DEF Client
  <2>4. d + C \in n + 1..length - 1
      BY <1>1, <1>3
  <2> QED BY <2>1, <2>3, <2>4 DEF OnItsWay
<1> QED BY <1>1, <1>2, <1>3

\* The loop ends with the last piece and shows every byte, whatever the length.
LEMMA ScreenIsWhole ==
    ASSUME Parameters, NEW length \in 0..MaxText
    PROVE  Screen[0][length] = [parts |-> 0, shown |-> length]
<1>1. PICK turn : Turns(length, length, turn) /\ Screen[0][length] = turn[length].screen
    BY ScreenTurns
<1>2. length \in Nat
    BY ParameterFacts
<1> DEFINE T == {n \in 0..length : OnItsWay(turn[n], n + 1, length)}
<1>3. 0 \in T
  <2>1. AtFirst.done = 0 /\ AtFirst.screen = [parts |-> 0, shown |-> 0]
      BY DEF AtFirst
  <2>2. 0 \in 0..length /\ 0 \in Nat
      BY <1>2
  <2>3. OnItsWay(SendsPiece(AtFirst, length), 0 + 1, length)
      BY <2>1, <2>2, <1>2, PieceOnItsWay
  <2>4. turn[0] = SendsPiece(AtFirst, length)
      BY <1>1 DEF Turns
  <2> QED BY <2>2, <2>3, <2>4
<1>4. ASSUME NEW n \in 0..length, n + 1 <= length, n \in T
      PROVE  n + 1 \in T
  <2>1. n \in Nat /\ n + 1 \in 1..length /\ (n + 1) - 1 = n /\ n + 1 \in 0..length
      BY <1>2, <1>4
  <2>2. turn[n + 1] = Takes(turn[n], length)
      BY <2>1, <1>1 DEF Turns
  <2>3. OnItsWay(turn[n], n + 1, length)
      BY <1>4
  <2>4. CASE turn[n].done = length
    <3>1. ~(length < length) /\ ~(length \in n + 1..length - 1)
        BY <1>2, <2>1
    <3>2. turn[n].screen = [parts |-> 0, shown |-> length]
        BY <2>3, <2>4, <3>1 DEF OnItsWay
    <3>3. turn[n + 1] = turn[n]
        BY <2>2, <2>4, <3>1 DEF Takes
    <3>4. OnItsWay(turn[n + 1], (n + 1) + 1, length)
        BY <2>4, <3>2, <3>3 DEF OnItsWay
    <3> QED BY <3>4, <2>1
  <2>5. CASE turn[n].done # length
    <3>1. PICK d \in n + 1..length - 1 :
             d = turn[n].done /\ turn[n].screen = [parts |-> d, shown |-> 0]
        BY <2>3, <2>5 DEF OnItsWay
    <3>2. d < length /\ d \in n + 1..length /\ n + 1 \in Nat
        BY <2>1, <1>2
    <3>3. OnItsWay(SendsPiece(turn[n], length), (n + 1) + 1, length)
        BY <3>1, <3>2, <1>2, PieceOnItsWay
    <3>4. turn[n + 1] = SendsPiece(turn[n], length)
        BY <3>1, <3>2, <2>2 DEF Takes
    <3> QED BY <3>3, <3>4, <2>1
  <2> QED BY <2>1, <2>4, <2>5
<1>5. OnItsWay(turn[length], length + 1, length)
  <2>1. 0..length \subseteq T
    <3> HIDE DEF T
    <3> QED BY <1>2, <1>3, <1>4, Induction
  <2>2. length \in 0..length
      BY <1>2
  <2> QED BY <2>1, <2>2
<1>6. ~(turn[length].done \in length + 1..length - 1)
    BY <1>2
<1> QED BY <1>1, <1>5, <1>6 DEF OnItsWay

-----------------------------------------------------------------------------
(* The invariant                                                           *)

\* After a careless handler the engine has a message open that nobody will end; the
\* next that is begun there brings it down, and only a swallowed one can come before.
Broken == (careless /\ ~crashed) =>
    /\ engine.open = TRUE /\ game # "handlers"
    /\ game = "writing" => suppressing

\* Until then, a message that is not swallowed is open at the engine, and there is
\* room for it in the history.
Begun == (~careless /\ game # "idle" /\ ~suppressing) =>
    /\ engine.open = TRUE
    /\ engine.to \in connected => Len(sent[engine.to]) < MaxSent

\* The watch follows who is there, and knows nothing of who is not; it counts for
\* one player at a time.
Watching ==
    /\ active # Nobody => active \in connected
    /\ careless \/ \A p \in Players : slot[p].building => p = active
    /\ careless \/ ~suppressing \/ active = Nobody
    /\ \A p \in Players \ connected : slot[p].count = 0 /\ slot[p].next = 0

\* The ring of whoever is there follows the history.
Rings ==
    /\ \A p \in Players : InTime(sent[p])
    /\ \A p \in connected : Follows(slot[p], sent[p])

MsgInv == /\ MsgTypeOK /\ AllSeeOneMessage /\ EngineInTurn /\ PanelsAreComplete
        /\ Broken /\ Begun /\ Watching /\ Rings

LEMMA MsgTypeFacts ==
    ASSUME Parameters, MsgTypeOK
    PROVE  /\ connected \subseteq Players /\ Nobody \notin connected
           /\ hides \in Nat
           /\ hook.active \in BOOLEAN /\ hook.bytes \in Nat
           /\ slot \in [Players -> SlotType]
           /\ \A p \in Players : /\ slot[p].bytes \in Nat /\ slot[p].building \in BOOLEAN
                                 /\ sent[p] \in Seq(Record) /\ Len(sent[p]) \in Nat
           /\ engine.bytes \in Nat /\ engine.to \in Players \cup {Nobody}
<1>1. \A b \in Bytes : b \in Nat
    BY ParameterFacts DEF Bytes
<1>2. slot \in [Players -> SlotType]
    BY DEF MsgTypeOK, SlotType
<1>3. hook.active \in BOOLEAN /\ hook.bytes \in Bytes
    BY DEF MsgTypeOK
<1>4. engine.bytes \in Bytes /\ engine.to \in Players \cup {Nobody}
    BY DEF MsgTypeOK
<1>5. \A p \in Players : slot[p].bytes \in Bytes /\ slot[p].building \in BOOLEAN
    BY <1>2 DEF SlotType
<1>6. hides \in Nat
    BY ParameterFacts DEF MsgTypeOK
<1>7. connected \subseteq Players /\ Nobody \notin connected
    BY ParameterFacts DEF MsgTypeOK
<1>8. \A p \in Players : sent[p] \in Seq(Record) /\ Len(sent[p]) \in Nat
  <2> SUFFICES ASSUME NEW p \in Players
               PROVE  sent[p] \in Seq(Record) /\ Len(sent[p]) \in Nat
      OBVIOUS
  <2>1. sent[p] \in Seq(Record)
      BY DEF MsgTypeOK
  <2> QED BY <2>1
<1> QED BY <1>1, <1>2, <1>3, <1>4, <1>5, <1>6, <1>7, <1>8

LEMMA NothingYet ==
    ASSUME Parameters
    PROVE  /\ NoSlot \in SlotType /\ Blank \in Record
           /\ \A s \in SlotType : (s.count = 0 /\ s.next = 0) => Follows(s, <<>>)
           /\ InTime(<<>>) /\ <<>> \in Seq(Record) /\ Len(<<>>) = 0
<1>1. PICK R \in Nat : R = RingSize /\ R >= 1
    BY ParameterFacts
<1>2. 0 \in 0..R - 1 /\ 0 \in 0..R
    BY <1>1
<1>3. 0 \in Bytes /\ Window + 1 \in 0..Window + 1
    BY ParameterFacts DEF Bytes
<1>4. Blank \in Record
    BY <1>3 DEF Blank, Record
<1>5. NoSlot \in SlotType
    BY <1>1, <1>2, <1>3, <1>4 DEF NoSlot, SlotType
<1>6. <<>> \in Seq(Record) /\ Len(<<>>) = 0
    OBVIOUS
<1>7. InTime(<<>>)
  <2>1. 1..0 = {}
      OBVIOUS
  <2> QED BY <1>6, <2>1 DEF InTime
<1>8. Told(<<>>) = 0
    BY <1>1, <1>6 DEF Told
<1>9. ASSUME NEW s \in SlotType, s.count = 0, s.next = 0
      PROVE  Follows(s, <<>>)
  <2>1. 1..0 = {} /\ 0 + 1..0 = {}
      OBVIOUS
  <2> QED BY <1>8, <1>9, <2>1 DEF Follows
<1> QED BY <1>4, <1>5, <1>6, <1>7, <1>9

LEMMA MsgInvBegins ==
    ASSUME Parameters, MsgInit
    PROVE  MsgInv
<1>1. MsgTypeOK
  <2>1. NoHook \in [active : BOOLEAN, bytes : Bytes]
      BY ParameterFacts DEF NoHook, Bytes
  <2>2. Closed \in [open : BOOLEAN, type : Types, to : Players \cup {Nobody}, bytes : Bytes]
      BY ParameterFacts DEF Closed, Bytes
  <2>3. ShownWhole \in [parts : 0..MaxText, whole : BOOLEAN]
      BY ParameterFacts DEF ShownWhole
  <2>4. slot \in [Players -> SlotType]
      BY NothingYet DEF MsgInit
  <2>5. sent \in [Players -> Seq(Record)] /\ \A p \in Players : Len(sent[p]) <= MaxSent
    <3>1. 0 <= MaxSent
        BY ParameterFacts
    <3>2. \A p \in Players : sent[p] = <<>>
        BY DEF MsgInit
    <3>3. sent \in [Players -> Seq(Record)]
        BY NothingYet DEF MsgInit
    <3> QED BY <3>1, <3>2, <3>3, NothingYet
  <2>6. suppressing \in BOOLEAN /\ crashed \in BOOLEAN /\ careless \in BOOLEAN
      BY DEF MsgInit
  <2>7. hides \in 0..MaxHides
      BY ParameterFacts DEF MsgInit
  <2> QED BY <2>1, <2>2, <2>3, <2>4, <2>5, <2>6, <2>7 DEF MsgInit, MsgTypeOK, SlotType
<1>2. AllSeeOneMessage /\ EngineInTurn
    BY DEF MsgInit, AllSeeOneMessage, EngineInTurn, NoHook, NoSlot, Closed
<1>3. PanelsAreComplete /\ Rings /\ Broken /\ Begun
    BY NothingYet DEF MsgInit, PanelsAreComplete, Rings, Broken, Begun
<1>4. Watching
    BY DEF MsgInit, Watching, NoSlot
<1> QED BY <1>1, <1>2, <1>3, <1>4 DEF MsgInv

-----------------------------------------------------------------------------
(* The steps                                                               *)

OpenMessages == [open : BOOLEAN, type : Types, to : Players \cup {Nobody}, bytes : Bytes]

Copies == [active : BOOLEAN, bytes : Bytes]

LEMMA MsgTypeParts ==
    MsgTypeOK <=>
      /\ connected \subseteq Players /\ watched \subseteq Types /\ hides \in 0..MaxHides
      /\ suppressing \in BOOLEAN /\ hook \in Copies /\ active \in Players \cup {Nobody}
      /\ slot \in [Players -> SlotType] /\ engine \in OpenMessages
      /\ game \in {"idle", "writing", "handlers"} /\ crashed \in BOOLEAN /\ careless \in BOOLEAN
      /\ panel \in [Players -> [parts : 0..MaxText, whole : BOOLEAN]]
      /\ sent \in [Players -> Seq(Record)] /\ \A p \in Players : Len(sent[p]) <= MaxSent
      /\ own \subseteq Players
BY DEF MsgTypeOK, SlotType, OpenMessages, Copies

LEMMA MsgTypePartsNext ==
    ASSUME /\ connected' \subseteq Players /\ watched' \subseteq Types /\ hides' \in 0..MaxHides
           /\ suppressing' \in BOOLEAN /\ hook' \in Copies /\ active' \in Players \cup {Nobody}
           /\ slot' \in [Players -> SlotType] /\ engine' \in OpenMessages
           /\ game' \in {"idle", "writing", "handlers"}
           /\ crashed' \in BOOLEAN /\ careless' \in BOOLEAN
           /\ panel' \in [Players -> [parts : 0..MaxText, whole : BOOLEAN]]
           /\ sent' \in [Players -> Seq(Record)] /\ \A p \in Players : Len(sent'[p]) <= MaxSent
           /\ own' \subseteq Players
    PROVE  MsgTypeOK'
BY DEF MsgTypeOK, SlotType, OpenMessages, Copies

\* What follows the history in this state follows it in the next.
LEMMA FollowsNext ==
    ASSUME NEW p, NEW s, NEW q, slot'[p] = s, sent'[p] = q
    PROVE  Follows(s, q) => Follows(slot[p], sent[p])'
BY DEF Follows, Told, Back, IsRecent

LEMMA InTimeNext ==
    ASSUME NEW p, NEW q, sent'[p] = q
    PROVE  InTime(q) => InTime(sent[p])'
BY DEF InTime, IsRecent

\* Who stays and whose records stay is told the same.
LEMMA RingsKeep ==
    ASSUME Rings, connected' \subseteq connected, sent' = sent,
           \A p \in connected' :
              /\ slot'[p].ring = slot[p].ring /\ slot'[p].next = slot[p].next
              /\ slot'[p].count = slot[p].count
    PROVE  Rings'
<1>1. \A p \in Players : InTime(sent[p])'
    BY InTimeNext DEF Rings
<1>2. ASSUME NEW p \in connected' PROVE Follows(slot[p], sent[p])'
  <2>1. PICK q : q = sent[p] /\ q = sent'[p]
      OBVIOUS
  <2>2. Follows(slot[p], q) /\ Told(q) = Told(q)'
      BY <2>1 DEF Told, Rings
  <2> QED BY <2>1, <2>2, <1>2 DEF Follows, Told, Back, IsRecent
<1> QED BY <1>1, <1>2 DEF Rings

LEMMA BuildingFacts ==
    ASSUME Parameters
    PROVE  \A s \in SlotType, b \in Bytes :
              /\ [s EXCEPT !.building = TRUE, !.bytes = 0] \in SlotType
              /\ [s EXCEPT !.bytes = b] \in SlotType
              /\ [s EXCEPT !.next = 0, !.count = 0, !.building = FALSE] \in SlotType
<1>1. PICK R \in Nat : R = RingSize /\ R >= 1
    BY ParameterFacts
<1>2. 0 \in 0..RingSize - 1 /\ 0 \in 0..RingSize
    BY <1>1
<1>3. 0 \in Bytes
    BY ParameterFacts DEF Bytes
<1> QED BY <1>2, <1>3 DEF SlotType

LEMMA MessageBeginKeeps ==
    ASSUME Parameters, MsgInv, ~crashed, NEW t \in Types, NEW to \in Players \cup {Nobody},
           MessageBegin(t, to)
    PROVE  MsgInv'
<1> USE DEF MessageBegin
<1>1. MsgTypeOK /\ AllSeeOneMessage /\ EngineInTurn /\ PanelsAreComplete /\ Broken /\ Begun
      /\ Watching /\ Rings
    BY DEF MsgInv
<1>2. UNCHANGED <<connected, watched, hides, panel, sent, careless>> /\ game = "idle"
      /\ game' = "writing" /\ own' \subseteq Players
    OBVIOUS
<1>3. PanelsAreComplete'
    BY <1>1, <1>2 DEF PanelsAreComplete
<1>4. suppressing' = TRUE \/ suppressing' = FALSE
    OBVIOUS
<1>5. CASE suppressing' = TRUE
  <2>1. hook' = NoHook /\ UNCHANGED <<active, slot, engine, crashed>>
      BY <1>5
  <2>2. NoHook \in Copies /\ NoHook.active = FALSE
      BY ParameterFacts DEF NoHook, Copies, Bytes
  <2>3. MsgTypeOK'
      BY <1>1, <1>2, <1>5, <2>1, <2>2, MsgTypeParts, MsgTypePartsNext
  <2>4. AllSeeOneMessage'
      BY <1>2, <1>5, <2>1, <2>2 DEF AllSeeOneMessage
  <2>5. EngineInTurn' /\ Broken' /\ Begun'
      BY <1>1, <1>2, <1>5, <2>1 DEF EngineInTurn, Broken, Begun
  <2>6. Watching'
      BY <1>1, <1>2, <2>1 DEF Watching, AllSeeOneMessage
  <2>7. Rings'
      BY <1>1, <1>2, <2>1, RingsKeep
  <2> QED BY <1>3, <2>3, <2>4, <2>5, <2>6, <2>7 DEF MsgInv
<1>6. CASE suppressing' = FALSE
  <2>1. /\ WatchBegins(to) /\ EngineBegins(t, to)
        /\ hook' = IF t \in watched THEN [active |-> TRUE, bytes |-> 0] ELSE NoHook
        /\ to \in connected \cup {Nobody} /\ (to \in connected => Len(sent[to]) < MaxSent)
      BY <1>6
  <2>2. engine' = [open |-> TRUE, type |-> t, to |-> to, bytes |-> 0]
        /\ crashed' = (crashed \/ engine.open)
      BY <2>1 DEF EngineBegins
  <2>3. engine'.open = TRUE /\ engine'.to = to /\ engine'.bytes = 0
      BY <2>2
  <2>4. hook'.active => hook'.bytes = 0
      BY <2>1 DEF NoHook
  <2>5. connected \subseteq Players /\ Nobody \notin connected /\ slot \in [Players -> SlotType]
      BY <1>1, MsgTypeFacts
  <2>6. \/ /\ to \in connected /\ active' = to
           /\ slot' = [slot EXCEPT ![to].building = TRUE, ![to].bytes = 0]
        \/ to \notin connected /\ active' = Nobody /\ slot' = slot
      BY <2>1 DEF WatchBegins
  <2>7. \A p \in Players : /\ slot'[p] \in SlotType /\ slot'[p].ring = slot[p].ring
                           /\ slot'[p].next = slot[p].next /\ slot'[p].count = slot[p].count
    <3>1. CASE slot' = slot
        BY <3>1, <2>5
    <3>2. CASE /\ to \in connected
               /\ slot' = [slot EXCEPT ![to].building = TRUE, ![to].bytes = 0]
      <4>1. slot' = [slot EXCEPT ![to] = [slot[to] EXCEPT !.building = TRUE, !.bytes = 0]]
          BY <3>2, <2>5
      <4>2. slot[to] \in SlotType /\ to \in Players
          BY <3>2, <2>5
      <4>3. PICK s : s = [slot[to] EXCEPT !.building = TRUE, !.bytes = 0]
          OBVIOUS
      <4>4. s \in SlotType
        <5>1. 0 \in Bytes
            BY ParameterFacts DEF Bytes
        <5> QED BY <4>2, <4>3, <5>1, BuildingFacts
      <4>5. s.ring = slot[to].ring /\ s.next = slot[to].next /\ s.count = slot[to].count
          BY <4>2, <4>3 DEF SlotType
      <4>6. \A p \in Players : slot'[p] = IF p = to THEN s ELSE slot[p]
          BY <4>1, <4>3, <2>5
      <4> QED BY <4>4, <4>5, <4>6, <2>5
    <3> QED BY <2>6, <3>1, <3>2
  <2>8. slot' \in [Players -> SlotType]
    <3>1. slot' = [p \in Players |-> slot'[p]]
        BY <2>5, <2>6
    <3> QED BY <3>1, <2>7
  <2>9. active' # Nobody => /\ active' = to /\ to \in connected
                            /\ slot'[to].building = TRUE /\ slot'[to].bytes = 0
    <3>1. CASE active' = Nobody
        BY <3>1
    <3>2. CASE /\ to \in connected /\ active' = to
               /\ slot' = [slot EXCEPT ![to].building = TRUE, ![to].bytes = 0]
      <4>1. to \in Players /\ slot[to] \in SlotType
          BY <3>2, <2>5
      <4> QED BY <3>2, <4>1, <2>5 DEF SlotType
    <3> QED BY <2>6, <3>1, <3>2
  <2>10. active' = Nobody => to \notin connected
      BY <2>5, <2>6
  <2>11. MsgTypeOK'
    <3>1. hook' \in Copies /\ engine' \in OpenMessages
      <4>1. 0 \in Bytes
          BY ParameterFacts DEF Bytes
      <4> QED BY <2>1, <2>2, <4>1 DEF Copies, OpenMessages, NoHook
    <3>2. active' \in Players \cup {Nobody}
        BY <2>5, <2>6
    <3>3. crashed' \in BOOLEAN
        BY <2>2, Zenon
    <3> QED BY <1>1, <1>2, <1>6, <2>8, <3>1, <3>2, <3>3, MsgTypeParts, MsgTypePartsNext
  <2>12. AllSeeOneMessage'
      BY <1>2, <1>6, <2>3, <2>4, <2>9, <2>10 DEF AllSeeOneMessage
  <2>13. EngineInTurn'
    <3>1. ~careless => ~engine.open
        BY <1>1, <1>2 DEF EngineInTurn
    <3>2. ~careless => ~crashed'
        BY <2>2, <3>1, Zenon
    <3> QED BY <1>2, <1>6, <3>2 DEF EngineInTurn
  <2>14. Broken'
    <3>1. careless => engine.open
        BY <1>1 DEF Broken
    <3>2. careless => crashed'
        BY <2>2, <3>1, Zenon
    <3> QED BY <1>2, <3>2 DEF Broken
  <2>15. Begun'
      BY <1>2, <2>1, <2>3 DEF Begun
  <2>16. Watching'
    <3>1. careless \/ \A p \in Players : ~slot[p].building
        BY <1>1, <1>2 DEF AllSeeOneMessage
    <3>2. \A p \in Players : p # active' => slot'[p] = slot[p]
        BY <2>5, <2>6
    <3>3. careless' \/ \A p \in Players : slot'[p].building => p = active'
        BY <1>2, <3>1, <3>2
    <3> QED BY <1>1, <1>2, <1>6, <2>7, <2>9, <3>3 DEF Watching
  <2>17. Rings'
      BY <1>1, <1>2, <2>5, <2>7, RingsKeep
  <2> QED BY <1>3, <2>11, <2>12, <2>13, <2>14, <2>15, <2>16, <2>17 DEF MsgInv
<1> QED BY <1>4, <1>5, <1>6

LEMMA WriteFieldKeeps ==
    ASSUME Parameters, MsgInv, ~crashed, WriteField
    PROVE  MsgInv'
<1> USE DEF WriteField
<1>1. MsgTypeOK /\ AllSeeOneMessage /\ EngineInTurn /\ PanelsAreComplete /\ Broken /\ Begun
      /\ Watching /\ Rings
    BY DEF MsgInv
<1>2. /\ UNCHANGED <<connected, watched, hides, suppressing, active, game, panel, sent, own, careless>>
      /\ game = "writing" /\ ~suppressing /\ engine.bytes < MaxBytes
    OBVIOUS
<1>3. ~careless
    BY <1>1, <1>2 DEF Broken
<1>4. engine.open = TRUE
    BY <1>1, <1>2, <1>3 DEF Begun
<1>5. ~crashed'
  <2>1. crashed' = (crashed \/ ~engine.open)
      BY DEF EngineWrites
  <2> QED BY <2>1, <1>4, Zenon
<1>6. engine' = [engine EXCEPT !.bytes = engine.bytes + 1]
    BY DEF EngineWrites
<1>7. engine \in OpenMessages /\ hook \in Copies /\ slot \in [Players -> SlotType]
    BY <1>1, MsgTypeParts
<1>8. engine.bytes \in Nat /\ engine.bytes + 1 \in Bytes
    BY <1>1, <1>2, MsgTypeFacts, ParameterFacts DEF Bytes
<1>9. engine' \in OpenMessages /\ engine'.open = TRUE /\ engine'.to = engine.to
      /\ engine'.bytes = engine.bytes + 1
  <2>1. \A b \in Bytes : [engine EXCEPT !.bytes = b] \in OpenMessages
      BY <1>7 DEF OpenMessages
  <2> QED BY <2>1, <1>4, <1>6, <1>7, <1>8 DEF OpenMessages
<1>10. /\ hook.active => hook.bytes = engine.bytes
       /\ active # Nobody => engine.to = active /\ slot[active].building
                             /\ slot[active].bytes = engine.bytes
       /\ active = Nobody => engine.to \notin connected
    BY <1>1, <1>2, <1>3, <1>4 DEF AllSeeOneMessage
<1>11. hook' \in Copies /\ (hook'.active => hook'.bytes = engine.bytes + 1)
  <2>1. CASE hook.active
    <3>1. hook' = [hook EXCEPT !.bytes = engine.bytes + 1]
        BY <2>1, <1>10
    <3>2. \A b \in Bytes : [hook EXCEPT !.bytes = b] \in Copies
        BY <1>7 DEF Copies
    <3>3. hook' \in Copies
        BY <3>1, <3>2, <1>8
    <3>4. hook'.bytes = engine.bytes + 1
        BY <3>1, <1>7 DEF Copies
    <3> QED BY <3>3, <3>4
  <2>2. CASE ~hook.active
      BY <2>2, <1>7
  <2> QED BY <2>1, <2>2
<1>12. \A p \in Players : /\ slot'[p] \in SlotType /\ slot'[p].ring = slot[p].ring
                          /\ slot'[p].next = slot[p].next /\ slot'[p].count = slot[p].count
  <2>1. CASE active # Nobody
    <3>1. active \in Players /\ slot[active] \in SlotType
        BY <2>1, <1>1, <1>7, MsgTypeParts
    <3>2. PICK s : s = [slot[active] EXCEPT !.bytes = engine.bytes + 1]
        OBVIOUS
    <3>3. slot' = [slot EXCEPT ![active] = s]
        BY <2>1, <3>2, <1>10 DEF WatchAdds
    <3>4. s \in SlotType
        BY <3>1, <3>2, <1>8, BuildingFacts
    <3>5. s.ring = slot[active].ring /\ s.next = slot[active].next /\ s.count = slot[active].count
        BY <3>1, <3>2 DEF SlotType
    <3>6. \A p \in Players : slot'[p] = IF p = active THEN s ELSE slot[p]
        BY <3>1, <3>3, <1>7
    <3> QED BY <3>4, <3>5, <3>6, <1>7
  <2>2. CASE active = Nobody
    <3>1. slot' = slot
        BY <2>2 DEF WatchAdds
    <3> QED BY <3>1, <1>7
  <2> QED BY <2>1, <2>2
<1>13. active # Nobody => slot'[active].building /\ slot'[active].bytes = engine.bytes + 1
  <2> SUFFICES ASSUME active # Nobody
               PROVE  slot'[active].building /\ slot'[active].bytes = engine.bytes + 1
      OBVIOUS
  <2>1. active \in Players /\ slot[active] \in SlotType
      BY <1>1, <1>7, MsgTypeParts
  <2>2. slot' = [slot EXCEPT ![active].bytes = engine.bytes + 1]
      BY <1>10 DEF WatchAdds
  <2> QED BY <2>1, <2>2, <1>7, <1>10 DEF SlotType
<1>14. slot' \in [Players -> SlotType]
  <2>1. slot' = [p \in Players |-> slot'[p]]
      BY <1>7 DEF WatchAdds
  <2> QED BY <2>1, <1>12
<1>15. MsgTypeOK'
  <2>1. crashed' \in BOOLEAN
    <3>1. crashed' = (crashed \/ ~engine.open)
        BY DEF EngineWrites
    <3> QED BY <3>1, Zenon
  <2> QED BY <1>1, <1>2, <1>9, <1>11, <1>14, <2>1, MsgTypeParts, MsgTypePartsNext
<1>16. AllSeeOneMessage'
    BY <1>2, <1>9, <1>10, <1>11, <1>13 DEF AllSeeOneMessage
<1>17. EngineInTurn' /\ Broken' /\ Begun'
    BY <1>1, <1>2, <1>3, <1>5, <1>9 DEF EngineInTurn, Broken, Begun
<1>18. Watching'
  <2>1. \A p \in Players : p # active => slot'[p] = slot[p]
      BY <1>7 DEF WatchAdds
  <2>2. \A p \in Players : slot'[p].building => p = active'
      BY <1>1, <1>2, <1>3, <2>1 DEF Watching
  <2> QED BY <1>1, <1>2, <1>12, <2>2 DEF Watching
<1>19. Rings'
  <2>1. connected \subseteq Players
      BY <1>1, MsgTypeFacts
  <2> QED BY <1>1, <1>2, <1>12, <2>1, RingsKeep
<1>20. PanelsAreComplete'
    BY <1>1, <1>2 DEF PanelsAreComplete
<1> QED BY <1>15, <1>16, <1>17, <1>18, <1>19, <1>20 DEF MsgInv

\* The end of a message: the record that the watch makes is of the message that is sent.
LEMMA EndsKeeps ==
    ASSUME Parameters, MsgInv, ~crashed, game # "idle", ~suppressing, Ends
    PROVE  MsgInv'
<1> USE DEF Ends
<1>1. MsgTypeOK /\ AllSeeOneMessage /\ EngineInTurn /\ PanelsAreComplete /\ Broken /\ Begun
      /\ Watching /\ Rings
    BY DEF MsgInv
<1>2. /\ UNCHANGED <<connected, watched, hides, suppressing, panel, own, careless>>
      /\ game' = "idle" /\ active' = Nobody /\ hook' = NoHook /\ engine' = Closed
    BY DEF WatchEnds, EngineEnds
<1>3. ~careless
  <2>1. game \in {"idle", "writing", "handlers"}
      BY <1>1 DEF MsgTypeOK
  <2> QED BY <2>1, <1>1 DEF Broken
<1>4. engine.open = TRUE /\ (engine.to \in connected => Len(sent[engine.to]) < MaxSent)
    BY <1>1, <1>3 DEF Begun
<1>5. ~crashed'
  <2>1. crashed' = (crashed \/ ~engine.open)
      BY DEF EngineEnds
  <2> QED BY <2>1, <1>4, Zenon
<1>6. /\ active # Nobody => engine.to = active /\ slot[active].building
                            /\ slot[active].bytes = engine.bytes
      /\ active = Nobody => engine.to \notin connected
    BY <1>1, <1>3, <1>4 DEF AllSeeOneMessage
<1>7. /\ active # Nobody => active \in connected
      /\ \A p \in Players \ connected : slot[p].count = 0 /\ slot[p].next = 0
    BY <1>1 DEF Watching
<1>8. connected \subseteq Players /\ Nobody \notin connected /\ slot \in [Players -> SlotType]
    BY <1>1, MsgTypeFacts
<1>9. /\ NoHook \in Copies /\ NoHook.active = FALSE
      /\ Closed \in OpenMessages /\ Closed.open = FALSE
    BY ParameterFacts DEF NoHook, Copies, Closed, OpenMessages, Bytes
<1>10. sent \in [Players -> Seq(Record)] /\ \A p \in Players : Len(sent[p]) <= MaxSent
    BY <1>1, MsgTypeParts
<1>11. PanelsAreComplete' /\ EngineInTurn' /\ Broken' /\ Begun'
    BY <1>1, <1>2, <1>3, <1>5, <1>9 DEF PanelsAreComplete, EngineInTurn, Broken, Begun
<1>12. crashed' \in BOOLEAN
  <2>1. crashed' = (crashed \/ ~engine.open)
      BY DEF EngineEnds
  <2> QED BY <2>1, Zenon
<1>13. CASE active = Nobody
  <2>1. slot' = slot /\ sent' = sent
      BY <1>6, <1>13 DEF WatchEnds, EngineEnds
  <2>2. MsgTypeOK'
      BY <1>1, <1>2, <1>9, <1>12, <2>1, MsgTypeParts, MsgTypePartsNext
  <2>3. Rings'
      BY <1>1, <1>2, <2>1, RingsKeep
  <2>4. \A o \in Players : ~slot[o].building
      BY <1>1, <1>3, <1>13, ParameterFacts DEF Watching
  <2>5. Watching'
      BY <1>2, <1>7, <2>1, <2>4 DEF Watching
  <2>6. AllSeeOneMessage'
      BY <1>2, <1>9, <2>1, <2>4 DEF AllSeeOneMessage
  <2> QED BY <2>2, <2>3, <2>5, <2>6, <1>11 DEF MsgInv
<1>14. CASE active # Nobody
  <2>1. PICK p \in connected : p = active /\ p = engine.to /\ p \in Players
      BY <1>6, <1>7, <1>8, <1>14
  <2>2. PICK s \in SlotType : s = slot[p]
      BY <1>8, <2>1
  <2>3. PICK q \in Seq(Record) : q = sent[p]
      BY <1>10, <2>1
  <2>4. PICK r : r = [bytes |-> s.bytes, age |-> 0]
      OBVIOUS
  <2>5. slot' = [slot EXCEPT ![p] = Pushed(s)]
      BY <1>6, <1>14, <2>1, <2>2 DEF WatchEnds
  <2>6. sent' = [sent EXCEPT ![p] = Append(q, r)]
      BY <1>6, <1>14, <2>1, <2>2, <2>3, <2>4 DEF EngineEnds
  <2>7. Pushed(s) \in SlotType /\ Pushed(s).building = FALSE
      BY PushedFields
  <2>8. slot' \in [Players -> SlotType] /\ slot'[p] = Pushed(s)
        /\ \A o \in Players : o # p => slot'[o] = slot[o]
      BY <1>8, <2>1, <2>5, <2>7
  <2>9. r \in Record
      BY <2>4, RecordFacts DEF SlotType
  <2>10. Append(q, r) \in Seq(Record) /\ Len(Append(q, r)) <= MaxSent
    <3>1. Len(q) < MaxSent /\ Len(q) \in Nat /\ MaxSent \in Nat
        BY <1>4, <2>1, <2>3, ParameterFacts
    <3> QED BY <3>1, <2>9, AppendFacts
  <2>11. /\ sent' \in [Players -> Seq(Record)] /\ sent'[p] = Append(q, r)
         /\ \A o \in Players : o # p => sent'[o] = sent[o]
      BY <1>10, <2>1, <2>6, <2>10
  <2>12. MsgTypeOK'
    <3>1. \A o \in Players : Len(sent'[o]) <= MaxSent
        BY <1>10, <2>10, <2>11
    <3> QED BY <1>1, <1>2, <1>9, <1>12, <2>8, <2>11, <3>1, MsgTypeParts, MsgTypePartsNext
  <2>13. AllSeeOneMessage'
    <3>1. \A o \in Players : ~slot'[o].building
      <4>1. \A o \in Players : o # p => ~slot[o].building
          BY <1>1, <1>3, <2>1 DEF Watching
      <4> QED BY <4>1, <2>7, <2>8
    <3> QED BY <1>2, <1>9, <3>1, <2>1 DEF AllSeeOneMessage
  <2>14. Watching'
    <3>1. \A o \in Players : ~slot'[o].building
      <4>1. \A o \in Players : o # p => ~slot[o].building
          BY <1>1, <1>3, <2>1 DEF Watching
      <4> QED BY <4>1, <2>7, <2>8
    <3>2. \A o \in Players \ connected : slot'[o].count = 0 /\ slot'[o].next = 0
        BY <1>7, <2>1, <2>8
    <3> QED BY <1>2, <3>1, <3>2 DEF Watching
  <2>15. Rings'
    <3>1. \A o \in Players : InTime(sent[o])
        BY <1>1 DEF Rings
    <3>2. Follows(s, q) /\ InTime(q) /\ \A o \in connected : Follows(slot[o], sent[o])
        BY <1>1, <2>1, <2>2, <2>3 DEF Rings
    <3>3. Follows(Pushed(s), Append(q, r)) /\ InTime(Append(q, r))
        BY <3>2, <2>4, PushFollows
    <3>4. ASSUME NEW o \in Players PROVE InTime(sent[o])'
        BY <3>1, <3>3, <2>11, InTimeNext
    <3>5. ASSUME NEW o \in connected PROVE Follows(slot[o], sent[o])'
      <4>1. o \in Players
          BY <1>8
      <4>2. CASE o = p
          BY <4>2, <3>3, <2>8, <2>11, FollowsNext
      <4>3. CASE o # p
        <5>1. slot'[o] = slot[o] /\ sent'[o] = sent[o]
            BY <4>1, <4>3, <2>8, <2>11
        <5> QED BY <5>1, <3>2, FollowsNext
      <4> QED BY <4>2, <4>3
    <3> QED BY <1>2, <3>4, <3>5 DEF Rings
  <2> QED BY <2>12, <2>13, <2>14, <2>15, <1>11 DEF MsgInv
<1> QED BY <1>13, <1>14

LEMMA MessageEndKeeps ==
    ASSUME Parameters, MsgInv, ~crashed, MessageEnd
    PROVE  MsgInv'
<1>1. MsgTypeOK /\ AllSeeOneMessage /\ EngineInTurn /\ PanelsAreComplete /\ Broken /\ Begun
      /\ Watching /\ Rings
    BY DEF MsgInv
<1>2. game = "writing"
    BY DEF MessageEnd
<1>3. CASE ~suppressing /\ Ends
    BY <1>2, <1>3, EndsKeeps
<1>4. CASE /\ suppressing
           /\ suppressing' = FALSE /\ game' = "idle"
           /\ UNCHANGED <<hook, active, slot, engine, crashed, connected, watched, hides,
                          panel, sent, own, careless>>
  <2>1. MsgTypeOK'
      BY <1>1, <1>4, MsgTypeParts, MsgTypePartsNext
  <2>2. AllSeeOneMessage'
    <3>1. careless \/ (~hook.active /\ active = Nobody)
        BY <1>1, <1>4 DEF AllSeeOneMessage, Watching
    <3>2. careless \/ \A p \in Players : ~slot[p].building
        BY <1>1, <3>1, ParameterFacts DEF Watching
    <3> QED BY <1>4, <3>1, <3>2 DEF AllSeeOneMessage
  <2>3. EngineInTurn' /\ Broken' /\ Begun'
      BY <1>1, <1>2, <1>4 DEF EngineInTurn, Broken, Begun
  <2>4. Watching' /\ PanelsAreComplete'
      BY <1>1, <1>4 DEF Watching, PanelsAreComplete
  <2>5. Rings'
      BY <1>1, <1>4, RingsKeep
  <2> QED BY <2>1, <2>2, <2>3, <2>4, <2>5 DEF MsgInv
<1>5. CASE /\ ~suppressing /\ hook.active
           /\ game' = "handlers"
           /\ UNCHANGED <<hook, active, slot, engine, crashed, connected, watched, hides,
                          suppressing, panel, sent, own, careless>>
  <2>1. MsgTypeOK'
      BY <1>1, <1>5, MsgTypeParts, MsgTypePartsNext
  <2>2. AllSeeOneMessage'
      BY <1>1, <1>2, <1>5 DEF AllSeeOneMessage
  <2>3. ~careless
      BY <1>1, <1>2, <1>5 DEF Broken
  <2>4. EngineInTurn' /\ Broken' /\ Begun'
      BY <1>1, <1>2, <1>5, <2>3 DEF EngineInTurn, Broken, Begun
  <2>5. Watching' /\ PanelsAreComplete'
      BY <1>1, <1>5 DEF Watching, PanelsAreComplete
  <2>6. Rings'
      BY <1>1, <1>5, RingsKeep
  <2> QED BY <2>1, <2>2, <2>4, <2>5, <2>6 DEF MsgInv
<1> QED BY <1>3, <1>4, <1>5 DEF MessageEnd

LEMMA HandlersReturnKeeps ==
    ASSUME Parameters, MsgInv, ~crashed, HandlersReturn
    PROVE  MsgInv'
<1>1. game = "handlers" /\ Ends
    BY DEF HandlersReturn
<1>2. ~suppressing
  <2>1. AllSeeOneMessage /\ Broken
      BY DEF MsgInv
  <2> QED BY <1>1, <2>1 DEF AllSeeOneMessage, Broken
<1> QED BY <1>1, <1>2, EndsKeeps

LEMMA HandlersCancelKeeps ==
    ASSUME Parameters, MsgInv, ~crashed, HandlersCancel
    PROVE  MsgInv'
<1>1. MsgTypeOK /\ AllSeeOneMessage /\ EngineInTurn /\ PanelsAreComplete /\ Broken /\ Begun
      /\ Watching /\ Rings
    BY DEF MsgInv
<1>2. /\ game = "handlers" /\ game' = "idle" /\ hook' = NoHook /\ careless' = TRUE
      /\ UNCHANGED <<connected, watched, hides, suppressing, active, slot, engine, crashed,
                     panel, sent, own>>
    BY DEF HandlersCancel
<1>3. ~careless /\ ~suppressing
    BY <1>1, <1>2 DEF Broken, AllSeeOneMessage
<1>4. engine.open = TRUE
    BY <1>1, <1>2, <1>3 DEF Begun
<1>5. MsgTypeOK'
  <2>1. NoHook \in Copies
      BY ParameterFacts DEF NoHook, Copies, Bytes
  <2>2. TRUE \in BOOLEAN
      OBVIOUS
  <2> QED BY <1>1, <1>2, <2>1, <2>2, MsgTypeParts, MsgTypePartsNext
<1>6. AllSeeOneMessage' /\ EngineInTurn' /\ Broken' /\ Begun'
    BY <1>2, <1>4 DEF AllSeeOneMessage, EngineInTurn, Broken, Begun
<1>7. Watching' /\ PanelsAreComplete'
    BY <1>1, <1>2 DEF Watching, PanelsAreComplete
<1>8. Rings'
    BY <1>1, <1>2, RingsKeep
<1> QED BY <1>5, <1>6, <1>7, <1>8 DEF MsgInv

\* Lua changes neither a message nor what has become of one.
LEMMA NothingSentKeeps ==
    ASSUME Parameters, MsgInv,
           UNCHANGED <<connected, suppressing, hook, active, slot, engine, game, crashed, panel,
                       sent, own, careless>>,
           watched' \subseteq Types, hides' \in 0..MaxHides
    PROVE  MsgInv'
<1>1. MsgTypeOK /\ AllSeeOneMessage /\ EngineInTurn /\ PanelsAreComplete /\ Broken /\ Begun
      /\ Watching /\ Rings
    BY DEF MsgInv
<1>2. MsgTypeOK'
    BY <1>1, MsgTypeParts, MsgTypePartsNext
<1>3. AllSeeOneMessage' /\ EngineInTurn' /\ Broken' /\ Begun'
    BY <1>1 DEF AllSeeOneMessage, EngineInTurn, Broken, Begun
<1>4. Watching' /\ PanelsAreComplete'
    BY <1>1 DEF Watching, PanelsAreComplete
<1>5. Rings'
    BY <1>1, RingsKeep
<1> QED BY <1>2, <1>3, <1>4, <1>5 DEF MsgInv

LEMMA HideCorpsesKeeps ==
    ASSUME Parameters, MsgInv, NEW hide, HideCorpses(hide)
    PROVE  MsgInv'
<1>1. PICK h \in Nat : h = hides
    BY MsgTypeFacts DEF MsgInv
<1>2. hides' = (IF hide THEN h + 1 ELSE IF h > 0 THEN h - 1 ELSE 0) /\ hides' <= MaxHides
    BY <1>1 DEF HideCorpses
<1>3. hides' \in 0..MaxHides
    BY <1>1, <1>2, ParameterFacts
<1>4. watched' \subseteq Types
    BY MsgTypeParts DEF MsgInv, HideCorpses
<1> QED BY <1>3, <1>4, NothingSentKeeps DEF HideCorpses

LEMMA WatchKeeps ==
    ASSUME Parameters, MsgInv, NEW t \in Types, Watch(t)
    PROVE  MsgInv'
<1>1. watched \subseteq Types /\ hides \in 0..MaxHides
    BY MsgTypeParts DEF MsgInv
<1>2. watched' \subseteq Types /\ hides' \in 0..MaxHides
    BY <1>1 DEF Watch
<1> QED BY <1>2, NothingSentKeeps DEF Watch

\* A message of Lua's own finds the engine free, or a handler has sent it.
LEMMA AtOnceKeeps ==
    ASSUME Parameters, MsgInv, ~crashed, ~careless, LuaRuns, NEW p \in Players, SendsAtOnce(p),
           UNCHANGED <<connected, watched, hides, suppressing, hook, active, slot, engine, game,
                       sent>>,
           panel' \in [Players -> [parts : 0..MaxText, whole : BOOLEAN]], PanelsAreComplete'
    PROVE  MsgInv'
<1>1. MsgTypeOK /\ AllSeeOneMessage /\ EngineInTurn /\ Broken /\ Begun /\ Watching /\ Rings
    BY DEF MsgInv
<1>2. crashed' = (crashed \/ engine.open) /\ careless' = (careless \/ game = "handlers")
      /\ own' = own \cup {p}
    BY DEF SendsAtOnce
<1>3. crashed' \in BOOLEAN /\ careless' \in BOOLEAN
    BY <1>2, Zenon
<1>4. MsgTypeOK'
    BY <1>1, <1>2, <1>3, MsgTypeParts, MsgTypePartsNext
<1>5. Rings'
    BY <1>1, RingsKeep
<1>6. Watching'
    BY <1>1 DEF Watching
<1>7. CASE game = "idle"
  <2>1. ~engine.open
      BY <1>1, <1>7 DEF EngineInTurn
  <2>2. ~crashed'
      BY <2>1, <1>2, Zenon
  <2>3. ~careless'
      BY <1>2, <1>7
  <2>4. AllSeeOneMessage' /\ EngineInTurn' /\ Broken' /\ Begun'
      BY <1>1, <2>1, <2>2, <2>3, <1>7 DEF AllSeeOneMessage, EngineInTurn, Broken, Begun
  <2> QED BY <2>4, <1>4, <1>5, <1>6 DEF MsgInv
<1>8. CASE game = "handlers"
  <2>1. ~suppressing
      BY <1>1, <1>8 DEF AllSeeOneMessage
  <2>2. engine.open
      BY <1>1, <1>8, <2>1 DEF Begun
  <2>3. crashed'
      BY <2>2, <1>2, Zenon
  <2>4. careless'
      BY <1>8, <1>2, Zenon
  <2>5. AllSeeOneMessage' /\ EngineInTurn' /\ Broken' /\ Begun'
      BY <2>3, <2>4 DEF AllSeeOneMessage, EngineInTurn, Broken, Begun
  <2> QED BY <2>5, <1>4, <1>5, <1>6 DEF MsgInv
<1> QED BY <1>7, <1>8 DEF LuaRuns

LEMMA SendKeeps ==
    ASSUME Parameters, MsgInv, ~crashed, ~careless, NEW p \in Players, Send(p)
    PROVE  MsgInv'
<1>1. panel' \in [Players -> [parts : 0..MaxText, whole : BOOLEAN]]
    BY MsgTypeParts DEF MsgInv, Send
<1>2. PanelsAreComplete'
    BY DEF MsgInv, Send, PanelsAreComplete
<1> QED BY <1>1, <1>2, AtOnceKeeps DEF Send

LEMMA SendPanelKeeps ==
    ASSUME Parameters, MsgInv, ~crashed, ~careless, NEW p \in Players, NEW length \in 0..MaxText,
           NEW capped \in BOOLEAN, SendPanel(p, length, capped)
    PROVE  MsgInv'
<1>1. panel \in [Players -> [parts : 0..MaxText, whole : BOOLEAN]] /\ connected \subseteq Players
    BY MsgTypeParts DEF MsgInv
<1>2. p \in connected /\ LuaRuns /\ SendsAtOnce(p)
      /\ UNCHANGED <<connected, watched, hides, suppressing, hook, active, slot, engine, game,
                     sent>>
    BY DEF SendPanel
<1>3. panel[p] = ShownWhole /\ \A o \in connected : panel[o] = ShownWhole
    BY <1>2 DEF MsgInv, PanelsAreComplete
<1>4. PICK shown \in 0..MaxText : shown = IF capped /\ length > Cap THEN Cap ELSE length
  <2>1. Cap \in Nat /\ MaxText \in Nat
      BY ParameterFacts
  <2> QED BY <2>1
<1>5. Screen[0][shown] = [parts |-> 0, shown |-> shown]
    BY ScreenIsWhole
<1>6. panel' = [panel EXCEPT ![p] = [parts |-> Screen[panel[p].parts][shown].parts,
                                     whole |-> Screen[panel[p].parts][shown].shown = shown]]
    BY <1>4 DEF SendPanel
<1>7. panel[p].parts = 0
    BY <1>3 DEF ShownWhole
<1>8. [parts |-> Screen[panel[p].parts][shown].parts,
       whole |-> Screen[panel[p].parts][shown].shown = shown] = ShownWhole
  <2>1. Screen[panel[p].parts][shown].parts = 0
      BY <1>5, <1>7
  <2>2. (Screen[panel[p].parts][shown].shown = shown) = TRUE
      BY <1>5, <1>7
  <2> QED BY <2>1, <2>2, Zenon DEF ShownWhole
<1>9. panel' = [panel EXCEPT ![p] = ShownWhole]
    BY <1>6, <1>8
<1>10. ShownWhole \in [parts : 0..MaxText, whole : BOOLEAN]
    BY ParameterFacts DEF ShownWhole
<1>11. panel' \in [Players -> [parts : 0..MaxText, whole : BOOLEAN]]
    BY <1>1, <1>9, <1>10
<1>12. PanelsAreComplete'
    BY <1>1, <1>2, <1>3, <1>9 DEF PanelsAreComplete
<1> QED BY <1>2, <1>11, <1>12, AtOnceKeeps

LEMMA ConnectKeeps ==
    ASSUME Parameters, MsgInv, ~crashed, NEW p \in Players, Connect(p)
    PROVE  MsgInv'
<1>1. MsgTypeOK /\ AllSeeOneMessage /\ EngineInTurn /\ PanelsAreComplete /\ Broken /\ Begun
      /\ Watching /\ Rings
    BY DEF MsgInv
<1>2. /\ game = "idle" /\ p \notin connected /\ connected' = connected \cup {p}
      /\ sent' = [sent EXCEPT ![p] = <<>>] /\ panel' = [panel EXCEPT ![p] = ShownWhole]
      /\ UNCHANGED <<watched, hides, suppressing, hook, active, slot, engine, game, crashed,
                     own, careless>>
    BY DEF Connect
<1>3. /\ connected \subseteq Players /\ Nobody \notin connected /\ slot \in [Players -> SlotType]
      /\ sent \in [Players -> Seq(Record)] /\ \A o \in Players : Len(sent[o]) <= MaxSent
      /\ panel \in [Players -> [parts : 0..MaxText, whole : BOOLEAN]]
    BY <1>1, MsgTypeFacts, MsgTypeParts
<1>4. /\ sent' \in [Players -> Seq(Record)] /\ sent'[p] = <<>>
      /\ \A o \in Players : o # p => sent'[o] = sent[o]
  <2>1. <<>> \in Seq(Record)
      BY NothingYet
  <2> QED BY <1>2, <1>3, <2>1
<1>5. MsgTypeOK'
  <2>1. \A o \in Players : Len(sent'[o]) <= MaxSent
    <3>1. 0 <= MaxSent
        BY ParameterFacts
    <3> QED BY <1>3, <1>4, <3>1, NothingYet
  <2>2. ShownWhole \in [parts : 0..MaxText, whole : BOOLEAN]
      BY ParameterFacts DEF ShownWhole
  <2>3. panel' \in [Players -> [parts : 0..MaxText, whole : BOOLEAN]]
      BY <1>2, <1>3, <2>2
  <2>4. connected' \subseteq Players
      BY <1>2, <1>3
  <2> QED BY <1>1, <1>2, <1>4, <2>1, <2>3, <2>4, MsgTypeParts, MsgTypePartsNext
<1>6. PanelsAreComplete'
    BY <1>1, <1>2, <1>3 DEF PanelsAreComplete
<1>7. AllSeeOneMessage'
    BY <1>1, <1>2 DEF AllSeeOneMessage
<1>8. EngineInTurn' /\ Broken' /\ Begun'
    BY <1>1, <1>2 DEF EngineInTurn, Broken, Begun
<1>9. Watching'
    BY <1>1, <1>2 DEF Watching
<1>10. Rings'
  <2>1. \A o \in Players : InTime(sent[o])
      BY <1>1 DEF Rings
  <2>2. ASSUME NEW o \in Players PROVE InTime(sent[o])'
      BY <2>1, <1>4, NothingYet, InTimeNext
  <2>3. ASSUME NEW o \in connected' PROVE Follows(slot[o], sent[o])'
    <3>1. CASE o = p
      <4>1. slot[p].count = 0 /\ slot[p].next = 0 /\ slot[p] \in SlotType
          BY <1>1, <1>2, <1>3 DEF Watching
      <4>2. Follows(slot[p], <<>>)
          BY <4>1, NothingYet
      <4>3. slot'[p] = slot[p]
          BY <1>2
      <4> QED BY <3>1, <4>2, <4>3, <1>4, FollowsNext
    <3>2. CASE o # p
      <4>1. o \in connected /\ slot'[o] = slot[o] /\ sent'[o] = sent[o]
          BY <2>3, <3>2, <1>2, <1>3, <1>4
      <4>2. Follows(slot[o], sent[o])
          BY <1>1, <4>1 DEF Rings
      <4> QED BY <4>1, <4>2, FollowsNext
    <3> QED BY <3>1, <3>2
  <2> QED BY <2>2, <2>3 DEF Rings
<1> QED BY <1>5, <1>6, <1>7, <1>8, <1>9, <1>10 DEF MsgInv

LEMMA DisconnectKeeps ==
    ASSUME Parameters, MsgInv, ~crashed, NEW p \in Players, Disconnect(p)
    PROVE  MsgInv'
<1>1. MsgTypeOK /\ AllSeeOneMessage /\ EngineInTurn /\ PanelsAreComplete /\ Broken /\ Begun
      /\ Watching /\ Rings
    BY DEF MsgInv
<1>2. /\ game \in {"idle", "handlers"} /\ p \in connected /\ connected' = connected \ {p}
      /\ active' = IF active = p THEN Nobody ELSE active
      /\ own' = own \ {p}
      /\ UNCHANGED <<watched, hides, suppressing, hook, engine, game, crashed, panel, sent,
                     careless>>
    BY DEF Disconnect, Forget, LuaRuns
<1>3. connected \subseteq Players /\ Nobody \notin connected /\ slot \in [Players -> SlotType]
    BY <1>1, MsgTypeFacts
<1>4. PICK s \in SlotType : s = [slot[p] EXCEPT !.next = 0, !.count = 0, !.building = FALSE]
  <2>1. 0 \in Bytes /\ slot[p] \in SlotType
      BY <1>3, ParameterFacts DEF Bytes
  <2> QED BY <2>1, BuildingFacts
<1>5. s.next = 0 /\ s.count = 0 /\ s.building = FALSE
    BY <1>3, <1>4 DEF SlotType
<1>6. slot' = [slot EXCEPT ![p] = s]
    BY <1>4 DEF Disconnect, Forget
<1>7. slot' \in [Players -> SlotType] /\ slot'[p] = s /\ \A o \in Players : o # p => slot'[o] = slot[o]
    BY <1>3, <1>6
<1>8. MsgTypeOK'
  <2>1. connected' \subseteq Players /\ active' \in Players \cup {Nobody}
      BY <1>1, <1>2, <1>3, MsgTypeParts
  <2> QED BY <1>1, <1>2, <1>7, <2>1, MsgTypeParts, MsgTypePartsNext
<1>9. PanelsAreComplete'
    BY <1>1, <1>2 DEF PanelsAreComplete
<1>10. EngineInTurn' /\ Broken' /\ Begun'
    BY <1>1, <1>2 DEF EngineInTurn, Broken, Begun
<1>11. Watching'
  <2>1. active' # Nobody => active' \in connected'
      BY <1>1, <1>2 DEF Watching
  <2>2. careless' \/ \A o \in Players : slot'[o].building => o = active'
      BY <1>1, <1>2, <1>5, <1>7 DEF Watching
  <2>3. careless' \/ ~suppressing' \/ active' = Nobody
      BY <1>1, <1>2 DEF Watching
  <2>4. \A o \in Players \ connected' : slot'[o].count = 0 /\ slot'[o].next = 0
      BY <1>1, <1>2, <1>5, <1>7 DEF Watching
  <2> QED BY <2>1, <2>2, <2>3, <2>4 DEF Watching
<1>12. AllSeeOneMessage'
  <2> SUFFICES ASSUME ~careless PROVE AllSeeOneMessage'
      BY <1>2 DEF AllSeeOneMessage
  <2>1. CASE game = "idle"
    <3>1. active = Nobody /\ ~hook.active /\ ~suppressing /\ \A o \in Players : ~slot[o].building
        BY <1>1, <2>1 DEF AllSeeOneMessage
    <3>2. \A o \in Players : ~slot'[o].building
        BY <3>1, <1>5, <1>7
    <3> QED BY <1>2, <1>3, <2>1, <3>1, <3>2 DEF AllSeeOneMessage
  <2>2. CASE game = "handlers"
    <3>1. ~suppressing
        BY <1>1, <2>2 DEF AllSeeOneMessage
    <3>2. /\ hook.active => hook.bytes = engine.bytes
          /\ active # Nobody => engine.to = active /\ slot[active].building
                                /\ slot[active].bytes = engine.bytes
          /\ active = Nobody => engine.to \notin connected \/ ~engine.open
        BY <1>1, <2>2, <3>1 DEF AllSeeOneMessage
    <3>3. active' # Nobody => /\ engine.to = active' /\ slot'[active'].building
                              /\ slot'[active'].bytes = engine.bytes
      <4>1. active' # Nobody => active' = active /\ active # p /\ active \in Players
          BY <1>1, <1>2, MsgTypeParts
      <4> QED BY <4>1, <3>2, <1>7
    <3>4. active' = Nobody => engine.to \notin connected' \/ ~engine.open
        BY <3>2, <1>2, <1>3
    <3> QED BY <1>2, <2>2, <3>1, <3>2, <3>3, <3>4 DEF AllSeeOneMessage
  <2> QED BY <1>2, <2>1, <2>2
<1>13. Rings'
  <2>1. \A o \in connected' : slot'[o] = slot[o] /\ sent'[o] = sent[o] /\ o \in connected
      BY <1>2, <1>3, <1>7
  <2> QED BY <1>1, <1>2, <2>1, RingsKeep
<1> QED BY <1>8, <1>9, <1>10, <1>11, <1>12, <1>13 DEF MsgInv

LEMMA TickKeeps ==
    ASSUME Parameters, MsgInv, ~crashed, ~careless, SecondPasses
    PROVE  MsgInv'
<1>1. MsgTypeOK /\ AllSeeOneMessage /\ EngineInTurn /\ PanelsAreComplete /\ Broken /\ Begun
      /\ Watching /\ Rings
    BY DEF MsgInv
<1>2. /\ game = "idle"
      /\ UNCHANGED <<connected, watched, hides, suppressing, hook, active, engine, game, crashed,
                     panel, careless>>
      /\ own' = {}
      /\ slot' = [p \in Players |-> [slot[p] EXCEPT !.ring = Aged(slot[p].ring)]]
      /\ sent' = [p \in Players |-> Recent(AgedSent(sent[p]))]
    BY DEF SecondPasses, Aged, AgedSent
<1>3. connected \subseteq Players /\ slot \in [Players -> SlotType] /\ sent \in [Players -> Seq(Record)]
      /\ \A p \in Players : Len(sent[p]) <= MaxSent
    BY <1>1, MsgTypeFacts, MsgTypeParts
<1>4. \A p \in Players : InTime(sent[p])
    BY <1>1 DEF Rings
<1>5. ASSUME NEW p \in Players
      PROVE  /\ sent'[p] \in Seq(Record) /\ Len(sent'[p]) <= MaxSent /\ InTime(sent'[p])
             /\ slot'[p] \in SlotType /\ slot'[p].ring = Aged(slot[p].ring)
             /\ slot'[p].next = slot[p].next /\ slot'[p].count = slot[p].count
             /\ slot'[p].building = slot[p].building
             /\ p \in connected => Follows(slot'[p], sent'[p])
  <2>1. PICK s \in SlotType : s = slot[p]
      BY <1>3
  <2>2. PICK q \in Seq(Record) : q = sent[p]
      BY <1>3
  <2>3. PICK s2 : s2 = [s EXCEPT !.ring = Aged(s.ring)]
      OBVIOUS
  <2>4. slot'[p] = s2 /\ sent'[p] = Recent(AgedSent(q))
      BY <1>2, <2>1, <2>2, <2>3
  <2>5. Aged(s.ring) \in [0..RingSize - 1 -> Record]
      BY OlderFacts DEF Aged, SlotType
  <2>6. /\ s2 \in SlotType /\ s2.ring = Aged(s.ring) /\ s2.next = s.next /\ s2.count = s.count
        /\ s2.building = s.building
      BY <2>3, <2>5 DEF SlotType
  <2>7. InTime(q)
      BY <1>4, <2>2
  <2>8. /\ Recent(AgedSent(q)) \in Seq(Record) /\ Len(Recent(AgedSent(q))) <= Len(q)
        /\ InTime(Recent(AgedSent(q)))
      BY <2>7, HistoryAges
  <2>9. Len(Recent(AgedSent(q))) <= MaxSent
    <3>1. Len(q) \in Nat /\ Len(Recent(AgedSent(q))) \in Nat /\ MaxSent \in Nat /\ Len(q) <= MaxSent
        BY <1>3, <2>2, <2>8, ParameterFacts
    <3> QED BY <3>1, <2>8
  <2>10. p \in connected => Follows(s2, Recent(AgedSent(q)))
    <3>1. p \in connected => Follows(s, q)
        BY <1>1, <2>1, <2>2 DEF Rings
    <3> QED BY <3>1, <2>6, <2>7, AgeFollows
  <2> QED BY <2>1, <2>4, <2>6, <2>8, <2>9, <2>10
<1>6. slot' \in [Players -> SlotType] /\ sent' \in [Players -> Seq(Record)]
  <2>1. slot' = [p \in Players |-> slot'[p]] /\ sent' = [p \in Players |-> sent'[p]]
      BY <1>2
  <2> QED BY <2>1, <1>5
<1>7. MsgTypeOK'
  <2>1. \A p \in Players : Len(sent'[p]) <= MaxSent
      BY <1>5
  <2> QED BY <1>1, <1>2, <1>6, <2>1, MsgTypeParts, MsgTypePartsNext
<1>8. AllSeeOneMessage'
  <2>1. active = Nobody /\ ~hook.active /\ ~suppressing /\ \A p \in Players : ~slot[p].building
      BY <1>1, <1>2 DEF AllSeeOneMessage
  <2>2. \A p \in Players : ~slot'[p].building
      BY <1>5, <2>1
  <2> QED BY <1>2, <2>1, <2>2 DEF AllSeeOneMessage
<1>9. EngineInTurn' /\ Broken' /\ PanelsAreComplete'
    BY <1>1, <1>2 DEF EngineInTurn, Broken, PanelsAreComplete
<1>10. Begun'
    BY <1>2 DEF Begun
<1>11. Watching'
    BY <1>1, <1>2, <1>3, <1>5 DEF Watching
<1>12. Rings'
  <2>1. ASSUME NEW p \in Players PROVE InTime(sent[p])'
      BY <1>5, InTimeNext
  <2>2. ASSUME NEW p \in connected' PROVE Follows(slot[p], sent[p])'
    <3>1. p \in connected /\ p \in Players
        BY <1>2, <1>3, <2>2
    <3> QED BY <3>1, <1>5, FollowsNext
  <2> QED BY <2>1, <2>2 DEF Rings
<1> QED BY <1>7, <1>8, <1>9, <1>10, <1>11, <1>12 DEF MsgInv

-----------------------------------------------------------------------------
(* Theorems                                                                *)

LEMMA MsgInvKept ==
    ASSUME Parameters, MsgInv, [MsgNext]_msgVars
    PROVE  MsgInv'
<1>1. CASE UNCHANGED msgVars
  <2>1. watched' \subseteq Types /\ hides' \in 0..MaxHides
      BY <1>1, MsgTypeParts DEF MsgInv, msgVars
  <2> QED BY <1>1, <2>1, NothingSentKeeps DEF msgVars
<1>2. CASE ~crashed /\ GameStep
    BY <1>2, MessageBeginKeeps, WriteFieldKeeps, MessageEndKeeps, HandlersReturnKeeps,
       HandlersCancelKeeps DEF GameStep
<1>3. CASE ~crashed /\ ~careless /\ OtherStep
    BY <1>3, HideCorpsesKeeps, WatchKeeps, SendKeeps, ConnectKeeps, DisconnectKeeps,
       SendPanelKeeps, TickKeeps DEF OtherStep
<1> QED BY <1>1, <1>2, <1>3 DEF MsgNext

LEMMA MsgInvAlways == MsgSpec => []MsgInv
<1>1. MsgInit => MsgInv
    BY MsgInvBegins, MessagesConstants
<1>2. MsgInv /\ [MsgNext]_msgVars => MsgInv'
    BY MsgInvKept, MessagesConstants
<1> QED BY <1>1, <1>2, PTL DEF MsgSpec

\* Between any two steps the handlers' copy, the watch of its player and the engine
\* agree on the message that is being written.
THEOREM MessagesConsistentAlways == MsgSpec => []MessagesConsistent
<1>1. MsgInv => MessagesConsistent
    BY DEF MsgInv, MessagesConsistent
<1> QED BY <1>1, MsgInvAlways, PTL

\* As long as handlers only look, what is begun at the engine is ended and nothing is
\* begun out of turn; and a panel of any length, cut at any size, comes whole.
THEOREM MessagesAreWholeAlways == MsgSpec => []MessagesAreWhole
<1>1. MsgInv => MessagesAreWhole
    BY DEF MsgInv, MessagesAreWhole
<1> QED BY <1>1, MsgInvAlways, PTL

\* What the log tells of a player who is dropped are the newest messages of the window,
\* as many as the ring holds, and nothing of who had the slot before.
THEOREM DumpTellsTheWindowAlways == MsgSpec => []DumpTellsTheWindow
<1>1. ASSUME MsgInv PROVE DumpTellsTheWindow
  <2> SUFFICES ASSUME NEW p \in connected
               PROVE  Dump(p) = [messages |-> Len(LastOf(sent[p], RingSize)),
                                 bytes |-> Total([n \in 1..Len(LastOf(sent[p], RingSize)) |->
                                                     LastOf(sent[p], RingSize)[n].bytes])]
      BY DEF DumpTellsTheWindow
  <2>1. p \in Players /\ slot[p] \in SlotType /\ sent[p] \in Seq(Record)
      BY <1>1, MessagesConstants, MsgTypeFacts DEF MsgInv
  <2>2. Follows(slot[p], sent[p]) /\ InTime(sent[p])
      BY <1>1, <2>1 DEF MsgInv, Rings
  <2> QED BY <2>1, <2>2, DumpOfRing, MessagesConstants
<1> QED BY <1>1, MsgInvAlways, PTL
=============================================================================
