----------------------------- MODULE MySqlProofs -----------------------------
(***************************************************************************)
(* Theorems about MySql for every number of workers, plugins, connections, *)
(* requests, migrations, batches and Lua states.                           *)
(*                                                                         *)
(* Consistent needs that a worker which has a request has a connection of  *)
(* s_conns too (SqlHolding), that whoever a use_lock names is at work      *)
(* under it (SqlLocks), and that nobody gets past the look at `closed' of  *)
(* a connection that a close has gone over (SqlBarred). MigratedOnce needs *)
(* that what a batch has left to run is not recorded, and that no other is *)
(* past its look at the rows (SqlRows).  The ledger needs where a request  *)
(* can be (SqlPlaces), that each was given out (SqlHanded), and that only  *)
(* a drain has a batch left (SqlDrain).                                    *)
(***************************************************************************)
EXTENDS MySql, FiniteSetTheorems, WellFoundedInduction, TLAPS

-----------------------------------------------------------------------------
(* Induction over the positions of a queue                                 *)

LEMMA Least == ASSUME NEW T \in SUBSET Nat, T # {}
               PROVE  \E x \in T : \A y \in T : x <= y
<1> DEFINE R == {ss \in Nat \X Nat : ss[1] < ss[2]}
<1>1. IsWellFoundedOn(R, Nat)
  BY NatLessThanWellFounded DEF OpToRel
<1>2. \A x, y \in Nat : x < y => <<x, y>> \in R
  OBVIOUS
<1> HIDE DEF R
<1>3. \E x \in T : \A y \in T : ~(<<y, x>> \in R)
  BY <1>1, WFMin
<1>4. PICK x \in T : \A y \in T : ~(<<y, x>> \in R)
  BY <1>3
<1>5. \A y \in T : ~(y < x) /\ x \in Nat /\ y \in Nat
  BY <1>2, <1>4
<1> QED BY <1>5, <1>4

\* Induction over an interval, in the form that needs no operator parameter.
LEMMA Induction ==
    ASSUME NEW n \in Nat, NEW S, 0 \in S,
           \A k \in 0..n : k + 1 <= n /\ k \in S => k + 1 \in S
    PROVE  0..n \subseteq S
<1> DEFINE T == {k \in 0..n : k \notin S}
<1>1. CASE T = {}
    BY <1>1
<1>2. CASE T # {}
  <2>1. T \in SUBSET Nat
      OBVIOUS
  <2>2. PICK x \in T : \A y \in T : x <= y
      BY <1>2, <2>1, Least
  <2>3. x # 0 /\ x \in 0..n /\ x \notin S
      OBVIOUS
  <2>4. x - 1 \in 0..n /\ x - 1 \notin T /\ (x - 1) + 1 = x
      BY <2>2, <2>3
  <2>5. x - 1 \in S
      BY <2>4
  <2> QED BY <2>3, <2>4, <2>5
<1> QED BY <1>1, <1>2

\* What stays of the first n jobs is a function of n that the recursion describes.
Keeps(seq, doomed, n, f) ==
    /\ f = [k \in 0..n |-> f[k]]
    /\ f[0] = <<>>
    /\ \A k \in 1..n : f[k] = IF seq[k] \in doomed THEN f[k - 1] ELSE Append(f[k - 1], seq[k])

LEMMA KeepsExists ==
    ASSUME NEW seq, Len(seq) \in Nat, NEW doomed
    PROVE  \E f : Keeps(seq, doomed, Len(seq), f)
<1> DEFINE S == {n \in 0..Len(seq) : \E f : Keeps(seq, doomed, n, f)}
<1>1. 0 \in S
  <2>1. Keeps(seq, doomed, 0, [k \in 0..0 |-> <<>>])
      BY DEF Keeps
  <2> QED BY <2>1
<1>2. ASSUME NEW n \in 0..Len(seq), n + 1 <= Len(seq), n \in S
      PROVE  n + 1 \in S
  <2>1. PICK f : Keeps(seq, doomed, n, f)
      BY <1>2
  <2> DEFINE last == IF seq[n + 1] \in doomed THEN f[n] ELSE Append(f[n], seq[n + 1])
             g == [k \in 0..(n + 1) |-> IF k = n + 1 THEN last ELSE f[k]]
  <2>2. g[n + 1] = last /\ \A k \in 0..n : g[k] = f[k]
      OBVIOUS
  <2>3. g = [k \in 0..(n + 1) |-> g[k]]
      OBVIOUS
  <2>4. \A k \in 1..(n + 1) : g[k] = IF seq[k] \in doomed THEN g[k - 1] ELSE Append(g[k - 1], seq[k])
    <3> SUFFICES ASSUME NEW k \in 1..(n + 1)
                 PROVE  g[k] = IF seq[k] \in doomed THEN g[k - 1] ELSE Append(g[k - 1], seq[k])
        OBVIOUS
    <3>1. CASE k = n + 1
      <4>1. g[k - 1] = f[n]
          BY <3>1, <2>2
      <4> QED BY <3>1, <4>1, <2>2
    <3>2. CASE k \in 1..n
      <4>1. g[k - 1] = f[k - 1] /\ g[k] = f[k]
          BY <3>2, <2>2
      <4> QED BY <4>1, <3>2, <2>1 DEF Keeps
    <3> QED BY <3>1, <3>2
  <2>5. g[0] = <<>>
      BY <2>1, <2>2 DEF Keeps
  <2>6. Keeps(seq, doomed, n + 1, g)
    <3> HIDE DEF g
    <3> QED BY <2>3, <2>4, <2>5 DEF Keeps
  <2>7. n + 1 \in 0..Len(seq)
      BY <1>2
  <2> HIDE DEF g
  <2> QED BY <2>6, <2>7
<1>3. 0..Len(seq) \subseteq S
  <2> HIDE DEF S
  <2> QED BY <1>1, <1>2, Induction
<1> QED BY <1>3

LEMMA WithoutKeeps ==
    ASSUME NEW seq, Len(seq) \in Nat, NEW doomed
    PROVE  \E f : Keeps(seq, doomed, Len(seq), f) /\ Without(seq, doomed) = f[Len(seq)]
<1> DEFINE Rule(f) == f = [n \in 0..Len(seq) |->
                             IF n = 0 THEN <<>>
                             ELSE IF seq[n] \in doomed THEN f[n - 1]
                             ELSE Append(f[n - 1], seq[n])]
           kept == CHOOSE f : Rule(f)
<1>1. Without(seq, doomed) = kept[Len(seq)]
    BY DEF Without
<1>2. PICK f : Keeps(seq, doomed, Len(seq), f)
    BY KeepsExists
<1>3. Rule(f)
  <2>1. \A n \in 0..Len(seq) : f[n] = IF n = 0 THEN <<>>
                             ELSE IF seq[n] \in doomed THEN f[n - 1]
                             ELSE Append(f[n - 1], seq[n])
    <3>1. \A n \in 0..Len(seq) : n = 0 \/ n \in 1..Len(seq)
        OBVIOUS
    <3>2. f[0] = <<>> /\ \A n \in 1..Len(seq) : f[n] =
             IF seq[n] \in doomed THEN f[n - 1] ELSE Append(f[n - 1], seq[n])
        BY <1>2 DEF Keeps
    <3>3. \A n \in 1..Len(seq) : n # 0
        OBVIOUS
    <3> QED BY <3>1, <3>2, <3>3
  <2>2. f = [n \in 0..Len(seq) |-> f[n]]
      BY <1>2 DEF Keeps
  <2> QED BY <2>1, <2>2
<1>4. Rule(kept)
  <2> HIDE DEF Rule
  <2> QED BY <1>3
<1>5. Keeps(seq, doomed, Len(seq), kept)
  <2> HIDE DEF kept
  <2>1. \A n \in 0..Len(seq) : kept[n] = IF n = 0 THEN <<>>
                             ELSE IF seq[n] \in doomed THEN kept[n - 1]
                             ELSE Append(kept[n - 1], seq[n])
      BY <1>4
  <2>2. kept = [n \in 0..Len(seq) |-> kept[n]]
      BY <1>4
  <2>3. kept[0] = <<>>
      BY <2>1
  <2>4. \A n \in 1..Len(seq) : n \in 0..Len(seq) /\ n # 0
      OBVIOUS
  <2>5. \A n \in 1..Len(seq) : kept[n] = IF seq[n] \in doomed THEN kept[n - 1]
                                        ELSE Append(kept[n - 1], seq[n])
      BY <2>1, <2>4
  <2> QED BY <2>2, <2>3, <2>5 DEF Keeps
<1> QED BY <1>1, <1>5

\* The n-th stage is a subsequence of the first n jobs, with none of the doomed.
Picks(seq, doomed, n, kept, at) ==
    /\ at \in [1..Len(kept) -> 1..n]
    /\ \A k \in 1..Len(kept) : kept[k] = seq[at[k]] /\ kept[k] \notin doomed /\ k <= at[k]
    /\ \A j, k \in 1..Len(kept) : j < k => at[j] < at[k]
    /\ \A i \in 1..n : seq[i] \notin doomed => \E k \in 1..Len(kept) : at[k] = i
    /\ Len(kept) <= n
    /\ (\E i \in 1..n : seq[i] \in doomed) => Len(kept) < n

LEMMA WithoutPicks ==
    ASSUME NEW T, NEW seq \in Seq(T), NEW doomed
    PROVE  /\ Without(seq, doomed) \in Seq(T)
           /\ \E at : Picks(seq, doomed, Len(seq), Without(seq, doomed), at)
<1>1. PICK f : Keeps(seq, doomed, Len(seq), f) /\ Without(seq, doomed) = f[Len(seq)]
    BY WithoutKeeps
<1> DEFINE S == {n \in 0..Len(seq) : f[n] \in Seq(T) /\ \E at : Picks(seq, doomed, n, f[n], at)}
<1>2. 0 \in S
  <2>1. f[0] = <<>> /\ <<>> \in Seq(T) /\ 0 \in 0..Len(seq)
      BY <1>1 DEF Keeps
  <2>2. Picks(seq, doomed, 0, <<>>, <<>>)
    <3>1. Len(<<>>) = 0 /\ 1..0 = {}
        OBVIOUS
    <3>2. <<>> \in [{} -> {}]
        OBVIOUS
    <3> QED BY <3>1, <3>2 DEF Picks
  <2>3. f[0] \in Seq(T) /\ \E at : Picks(seq, doomed, 0, f[0], at)
      BY <2>1, <2>2
  <2> QED BY <2>1, <2>3
<1>3. ASSUME NEW n \in 0..Len(seq), n + 1 <= Len(seq), n \in S
      PROVE  n + 1 \in S
  <2>1. f[n + 1] = IF seq[n + 1] \in doomed THEN f[n] ELSE Append(f[n], seq[n + 1])
    <3>1. n + 1 \in 1..Len(seq) /\ (n + 1) - 1 = n
        BY <1>3
    <3>2. \A k \in 1..Len(seq) : f[k] =
             IF seq[k] \in doomed THEN f[k - 1] ELSE Append(f[k - 1], seq[k])
        BY <1>1 DEF Keeps
    <3> QED BY <3>1, <3>2
  <2>2. PICK at : Picks(seq, doomed, n, f[n], at)
      BY <1>3
  <2>3. f[n] \in Seq(T) /\ Len(f[n]) \in Nat
      BY <1>3
  <2>4. CASE seq[n + 1] \in doomed
    <3>1. f[n + 1] = f[n]
        BY <2>1, <2>4
    <3>2. Picks(seq, doomed, n + 1, f[n], at)
      <4> DEFINE g == f[n]
      <4> HIDE DEF g
      <4>1. Len(g) \in Nat /\ Picks(seq, doomed, n, g, at)
          BY <2>2, <2>3 DEF g
      <4>2. at \in [1..Len(g) -> 1..(n + 1)] /\ Len(g) <= n + 1 /\ Len(g) < n + 1
          BY <4>1 DEF Picks
      <4>3. \A i \in 1..(n + 1) : seq[i] \notin doomed => \E k \in 1..Len(g) : at[k] = i
        <5>1. \A i \in 1..(n + 1) : seq[i] \notin doomed => i \in 1..n
            BY <2>4
        <5> QED BY <5>1, <4>1 DEF Picks
      <4>4. Picks(seq, doomed, n + 1, g, at)
          BY <4>1, <4>2, <4>3 DEF Picks
      <4> QED BY <4>4 DEF g
    <3> QED BY <3>1, <3>2, <2>3, <1>3
  <2>5. CASE seq[n + 1] \notin doomed
    <3> DEFINE m == Len(f[n])
               at2 == [k \in 1..(m + 1) |-> IF k = m + 1 THEN n + 1 ELSE at[k]]
    <3>1. f[n + 1] = Append(f[n], seq[n + 1]) /\ seq[n + 1] \in T
        BY <2>1, <2>5, <1>3
    <3>2. /\ f[n + 1] \in Seq(T) /\ Len(f[n + 1]) = m + 1
          /\ f[n + 1][m + 1] = seq[n + 1]
          /\ \A k \in 1..m : f[n + 1][k] = f[n][k]
        BY <3>1, <2>3
    <3>3. at2[m + 1] = n + 1 /\ \A k \in 1..m : at2[k] = at[k]
        BY <2>3
    <3>4. at2 \in [1..(m + 1) -> 1..(n + 1)]
      <4>1. \A k \in 1..m : at[k] \in 1..n
          BY <2>2 DEF Picks
      <4> QED BY <4>1, <2>3
    <3>5. \A k \in 1..(m + 1) : f[n + 1][k] = seq[at2[k]] /\ f[n + 1][k] \notin doomed /\ k <= at2[k]
      <4> HIDE DEF at2
      <4>1. \A k \in 1..m : f[n + 1][k] = seq[at2[k]] /\ f[n + 1][k] \notin doomed /\ k <= at2[k]
          BY <3>2, <3>3, <2>2 DEF Picks
      <4>2. m <= n
          BY <2>2 DEF Picks
      <4>3. f[n + 1][m + 1] = seq[at2[m + 1]] /\ f[n + 1][m + 1] \notin doomed /\ m + 1 <= at2[m + 1]
          BY <3>2, <3>3, <2>5, <4>2, <2>3
      <4>4. \A k \in 1..(m + 1) : k \in 1..m \/ k = m + 1
          BY <2>3
      <4> QED BY <4>1, <4>3, <4>4
    <3>6. \A j, k \in 1..(m + 1) : j < k => at2[j] < at2[k]
      <4> HIDE DEF at2
      <4>1. \A k \in 1..m : at[k] \in 1..n
          BY <2>2 DEF Picks
      <4>2. \A j, k \in 1..m : j < k => at2[j] < at2[k]
          BY <3>3, <2>2 DEF Picks
      <4>3. \A j \in 1..m : at2[j] < at2[m + 1]
          BY <4>1, <3>3
      <4> QED BY <4>2, <4>3, <2>3
    <3>7. \A i \in 1..(n + 1) : seq[i] \notin doomed => \E k \in 1..(m + 1) : at2[k] = i
      <4> HIDE DEF at2
      <4>1. \A i \in 1..n : seq[i] \notin doomed => \E k \in 1..m : at2[k] = i
          BY <3>3, <2>2 DEF Picks
      <4>2. m + 1 \in 1..(m + 1) /\ \A k \in 1..m : k \in 1..(m + 1)
          BY <2>3
      <4> QED BY <4>1, <4>2, <3>3
    <3>8. m + 1 <= n + 1 /\ ((\E i \in 1..(n + 1) : seq[i] \in doomed) => m + 1 < n + 1)
      <4>1. m <= n /\ ((\E i \in 1..n : seq[i] \in doomed) => m < n)
          BY <2>2 DEF Picks
      <4> QED BY <4>1, <2>5, <2>3
    <3>9. Picks(seq, doomed, n + 1, f[n + 1], at2)
      <4> HIDE DEF at2
      <4> QED BY <3>2, <3>4, <3>5, <3>6, <3>7, <3>8 DEF Picks
    <3> QED BY <3>9, <3>2, <1>3
  <2> QED BY <2>4, <2>5
<1>4. Len(seq) \in S
  <2> HIDE DEF S
  <2>1. 0..Len(seq) \subseteq S
      BY <1>2, <1>3, Induction
  <2> QED BY <2>1
<1> QED BY <1>1, <1>4

-----------------------------------------------------------------------------
(* Queues                                                                  *)

\* The ids of some requests.
IdsOf(jobs) == {job.id : job \in jobs}

\* No request is in it twice.
NoneTwice(seq) == \A i, j \in 1..Len(seq) : seq[i].id = seq[j].id => i = j

LEMMA ElementsType ==
    ASSUME NEW T, NEW seq \in Seq(T)
    PROVE  /\ Elements(seq) \subseteq T
           /\ Len(seq) \in Nat
           /\ \A k \in 1..Len(seq) : seq[k] \in Elements(seq)
BY DEF Elements

LEMMA NoElements == Elements(<<>>) = {} /\ NoneTwice(<<>>) /\ Len(<<>>) = 0
BY DEF Elements, NoneTwice

LEMMA Pushed ==
    ASSUME NEW T, NEW seq \in Seq(T), NEW x \in T
    PROVE  /\ Append(seq, x) \in Seq(T)
           /\ Len(Append(seq, x)) = Len(seq) + 1
           /\ Append(seq, x)[Len(seq) + 1] = x
           /\ \A k \in 1..Len(seq) : Append(seq, x)[k] = seq[k]
           /\ Elements(Append(seq, x)) = Elements(seq) \cup {x}
<1> DEFINE more == Append(seq, x)
<1>1. /\ more \in Seq(T) /\ Len(more) = Len(seq) + 1
      /\ more[Len(seq) + 1] = x
      /\ \A k \in 1..Len(seq) : more[k] = seq[k]
    OBVIOUS
<1>2. Len(seq) \in Nat
    OBVIOUS
<1> HIDE DEF more
<1>3. Elements(more) = Elements(seq) \cup {x}
    BY <1>1, <1>2 DEF Elements
<1> QED BY <1>1, <1>3 DEF more

LEMMA PushedOnce ==
    ASSUME NEW T, NEW seq \in Seq(T), NEW x \in T,
           NoneTwice(seq), x.id \notin IdsOf(Elements(seq))
    PROVE  NoneTwice(Append(seq, x))
<1> DEFINE more == Append(seq, x)
<1>1. /\ Len(more) = Len(seq) + 1 /\ more[Len(seq) + 1] = x
      /\ \A k \in 1..Len(seq) : more[k] = seq[k]
      /\ Len(seq) \in Nat
    BY Pushed
<1>2. \A k \in 1..Len(seq) : seq[k].id # x.id
    BY DEF Elements, IdsOf
<1> HIDE DEF more
<1>3. \A k \in 1..Len(more) : k \in 1..Len(seq) \/ k = Len(seq) + 1
    BY <1>1
<1>4. NoneTwice(more)
    BY <1>1, <1>2, <1>3 DEF NoneTwice
<1> QED BY <1>4 DEF more

LEMMA Popped ==
    ASSUME NEW T, NEW seq \in Seq(T), seq # <<>>
    PROVE  /\ Head(seq) \in T /\ Tail(seq) \in Seq(T)
           /\ Head(seq) = seq[1]
           /\ Len(seq) \in Nat \ {0} /\ Len(Tail(seq)) = Len(seq) - 1
           /\ \A k \in 1..Len(Tail(seq)) : Tail(seq)[k] = seq[k + 1]
           /\ Elements(seq) = {Head(seq)} \cup Elements(Tail(seq))
<1> DEFINE rest == Tail(seq)
<1>1. /\ Len(seq) \in Nat \ {0} /\ Head(seq) = seq[1] /\ seq[1] \in T
      /\ rest \in Seq(T) /\ Len(rest) = Len(seq) - 1
      /\ \A k \in 1..Len(rest) : rest[k] = seq[k + 1]
    OBVIOUS
<1> HIDE DEF rest
<1>2. \A k \in 1..Len(seq) : k = 1 \/ (k - 1 \in 1..Len(rest) /\ seq[k] = rest[k - 1])
    BY <1>1
<1>3. \A k \in 1..Len(rest) : k + 1 \in 1..Len(seq)
    BY <1>1
<1>4. Elements(seq) = {seq[1]} \cup Elements(rest)
    BY <1>1, <1>2, <1>3 DEF Elements
<1> QED BY <1>1, <1>4 DEF rest

LEMMA PoppedOnce ==
    ASSUME NEW T, NEW seq \in Seq(T), seq # <<>>, NoneTwice(seq)
    PROVE  NoneTwice(Tail(seq)) /\ Head(seq).id \notin IdsOf(Elements(Tail(seq)))
<1> DEFINE rest == Tail(seq)
<1>1. /\ Len(seq) \in Nat \ {0} /\ Head(seq) = seq[1] /\ Len(rest) = Len(seq) - 1
      /\ \A k \in 1..Len(rest) : rest[k] = seq[k + 1]
    BY Popped
<1> HIDE DEF rest
<1>2. \A j, k \in 1..Len(seq) : seq[j].id = seq[k].id => j = k
    BY DEF NoneTwice
<1>3. NoneTwice(rest)
    BY <1>1, <1>2 DEF NoneTwice
<1>4. \A k \in 1..Len(rest) : rest[k].id # seq[1].id
    BY <1>1, <1>2
<1>5. seq[1].id \notin IdsOf(Elements(rest))
    BY <1>4 DEF IdsOf, Elements
<1> QED BY <1>1, <1>3, <1>5 DEF rest

\* A job is known by its id.
LEMMA KnownById ==
    ASSUME NEW seq, NoneTwice(seq), NEW a \in Elements(seq), NEW b \in Elements(seq), a.id = b.id
    PROVE  a = b
BY DEF NoneTwice, Elements

Apart(a, b, c, d, e) ==
    /\ a \cap b = {} /\ a \cap c = {} /\ a \cap d = {} /\ a \cap e = {}
    /\ b \cap c = {} /\ b \cap d = {} /\ b \cap e = {}
    /\ c \cap d = {} /\ c \cap e = {} /\ d \cap e = {}

-----------------------------------------------------------------------------
(* What a ledger shows                                                     *)

\* The status of every id, by the next id to give out, the ids called and the
\* ids that will be.
Shown(next, past, armed) ==
    [id \in Ids |->
        IF id >= next THEN "unasked" ELSE IF id \in past THEN "called"
        ELSE IF id \in armed THEN "waiting" ELSE "dropped"]

LEMMA ShownWaits ==
    ASSUME NEW next \in Nat, NEW past, NEW armed, NEW id \in Ids, id \in armed,
           Ids \subseteq Nat, id < next, id \notin past
    PROVE  Shown(next, past, armed)[id] = "waiting"
<1>1. ~(id >= next)
    OBVIOUS
<1> QED BY <1>1 DEF Shown

LEMMA ShownDrops ==
    ASSUME NEW next \in Nat, NEW past, NEW armed \in SUBSET Ids, NEW less \in SUBSET armed,
           Ids \subseteq Nat, \A id \in armed : id < next /\ id \notin past
    PROVE  /\ \A id \in armed \ less : Shown(next, past, armed)[id] = "waiting"
           /\ Shown(next, past, less) =
                [id \in Ids |-> IF id \in armed \ less THEN "dropped" ELSE Shown(next, past, armed)[id]]
<1> DEFINE old == Shown(next, past, armed)
           new == Shown(next, past, less)
<1>1. \A id \in armed : id \in Ids /\ ~(id >= next)
    OBVIOUS
<1>2. \A id \in armed : old[id] = "waiting"
    BY <1>1 DEF Shown
<1>3. ASSUME NEW id \in Ids PROVE new[id] = IF id \in armed \ less THEN "dropped" ELSE old[id]
  <2>1. CASE id \in armed \ less
    <3>1. id \notin less /\ id \notin past /\ ~(id >= next)
        BY <1>1, <2>1
    <3> QED BY <2>1, <3>1 DEF Shown
  <2>2. CASE id \notin armed \ less
    <3>1. id \in less <=> id \in armed
        BY <2>2
    <3> QED BY <2>2, <3>1 DEF Shown
  <2> QED BY <2>1, <2>2
<1>4. new = [id \in Ids |-> new[id]]
    BY DEF Shown
<1> HIDE DEF old, new
<1>5. new = [id \in Ids |-> IF id \in armed \ less THEN "dropped" ELSE old[id]]
    BY <1>3, <1>4
<1> QED BY <1>2, <1>5 DEF old, new

LEMMA ShownAsks ==
    ASSUME NEW next \in Ids, NEW past, NEW armed, Ids \subseteq Nat, \A id \in past : id < next
    PROVE  /\ Shown(next, past, armed)[next] = "unasked"
           /\ Shown(next + 1, past, armed \cup {next}) = [Shown(next, past, armed) EXCEPT ![next] = "waiting"]
<1> DEFINE old == Shown(next, past, armed)
           new == Shown(next + 1, past, armed \cup {next})
<1>1. next \in Nat /\ next >= next /\ ~(next >= next + 1) /\ next \notin past
    OBVIOUS
<1>2. old[next] = "unasked" /\ new[next] = "waiting"
    BY <1>1 DEF Shown
<1>3. ASSUME NEW id \in Ids, id # next PROVE new[id] = old[id]
  <2>1. id >= next + 1 <=> id >= next
      BY <1>1, <1>3
  <2> QED BY <1>3, <2>1 DEF Shown
<1>4. new = [id \in Ids |-> new[id]] /\ old = [id \in Ids |-> old[id]]
    BY DEF Shown
<1> HIDE DEF old, new
<1>5. new = [old EXCEPT ![next] = "waiting"]
    BY <1>2, <1>3, <1>4
<1> QED BY <1>2, <1>5 DEF old, new

LEMMA ShownCalls ==
    ASSUME NEW next \in Nat, NEW past, NEW armed, NEW id \in Ids, id \in armed,
           Ids \subseteq Nat, id < next, id \notin past
    PROVE  Shown(next, past \cup {id}, armed \ {id}) = [Shown(next, past, armed) EXCEPT ![id] = "called"]
<1> DEFINE old == Shown(next, past, armed)
           new == Shown(next, past \cup {id}, armed \ {id})
<1>1. ~(id >= next)
    OBVIOUS
<1>2. new[id] = "called"
    BY <1>1 DEF Shown
<1>3. \A k \in Ids \ {id} : new[k] = old[k]
    BY DEF Shown
<1>4. new = [k \in Ids |-> new[k]] /\ old = [k \in Ids |-> old[k]]
    BY DEF Shown
<1> HIDE DEF old, new
<1>5. new = [old EXCEPT ![id] = "called"]
    BY <1>2, <1>3, <1>4
<1> QED BY <1>5 DEF old, new

-----------------------------------------------------------------------------
(* The invariant                                                           *)

SqlWorker == [at : WorkerStates, job : Job \cup {None}, todo : Seq(Migrations)]

\* A worker has a request from Take to Post, and its connection is one of s_conns.
SqlHolding ==
    /\ \A w \in Workers :
          /\ worker[w].job # None <=> worker[w].at \in {"locking", "posting"} \cup UnderLock
          /\ worker[w].job # None => ConnOf(w) \in 1..Len(conns)
          /\ worker[w].at \in Migrating => worker[w].job.steps # <<>>
    /\ \A job \in Elements(pending) : job.conn \in 1..Len(conns)
    /\ Len(conns) <= MaxConns

\* Who holds a lock is at work on the connection.
SqlLocks ==
    \A c \in 1..Len(conns) : conns[c].lock # None =>
        /\ conns[c].lock \in Workers
        /\ worker[conns[c].lock].at \in UnderLock /\ ConnOf(conns[c].lock) = c

\* A worker gets past its look at `closed' only where a teardown came later.
SqlBarred ==
    \A c \in 1..Len(conns) : (conns[c].closed /\ c \notin raced) =>
        /\ ~conns[c].open
        /\ \A w \in Workers :
              (worker[w].at \in UnderLock /\ ConnOf(w) = c) => worker[w].at = "locked"

SqlTurns == pc \notin {"joining", "down"} => generation <= MaxGenerations

Applying(w) == worker[w].at \in {"running", "recording"}

\* One batch at a time is past its look at the recorded rows, and what it has
\* left to run is not among them.
SqlRows ==
    ~excused =>
        /\ repeated = {}
        /\ \A v, w \in Workers : Applying(v) /\ Applying(w) => v = w
        /\ \A w \in Workers : Applying(w) =>
              /\ \A k \in 1..Len(worker[w].todo) : worker[w].todo[k] \notin recorded
              /\ \A j, k \in 1..Len(worker[w].todo) :
                    worker[w].todo[j] = worker[w].todo[k] => j = k

SqlInv ==
    /\ Parameters /\ TypeOK /\ HandleIsHeld /\ ClosedStaysShut
    /\ SqlHolding /\ SqlLocks /\ SqlBarred /\ SqlTurns

LEMMA SqlParts ==
    SqlInv <=> /\ Parameters /\ TypeOK /\ HandleIsHeld /\ ClosedStaysShut
               /\ SqlHolding /\ SqlLocks /\ SqlBarred /\ SqlTurns
BY DEF SqlInv

LEMMA SqlPartsNext ==
    SqlInv' <=> /\ Parameters /\ TypeOK' /\ HandleIsHeld' /\ ClosedStaysShut'
                /\ SqlHolding' /\ SqlLocks' /\ SqlBarred' /\ SqlTurns'
<1>1. Parameters' <=> Parameters
    BY DEF Parameters
<1> QED BY <1>1 DEF SqlInv

\* A socket that nobody uses and is not excepted is covered by SqlBarred.
LEMMA SqlShut == SqlBarred => ClosedStaysShut
BY DEF SqlBarred, ClosedStaysShut

LEMMA SqlShutNext == SqlBarred' => ClosedStaysShut'
BY DEF SqlBarred, ClosedStaysShut

LEMMA SqlFacts ==
    ASSUME TypeOK
    PROVE  /\ worker \in [Workers -> SqlWorker]
           /\ \A w \in Workers : /\ worker[w] \in SqlWorker
                                 /\ worker[w].at \in WorkerStates
                                 /\ worker[w].job \in Job \cup {None}
                                 /\ worker[w].todo \in Seq(Migrations)
           /\ \A job \in Job : /\ job.reply \in Reply /\ job.conn \in 1..MaxConns
                               /\ job.steps \in Batches \cup {<<>>}
           /\ conns \in Seq(Conn) /\ Len(conns) \in Nat
           /\ \A c \in 1..Len(conns) : /\ conns[c] \in Conn /\ conns[c].open \in BOOLEAN
                                       /\ conns[c].closed \in BOOLEAN
                                       /\ conns[c].lock \in Workers \cup {None}
<1>1. worker \in [Workers -> SqlWorker] /\ conns \in Seq(Conn)
    BY DEF TypeOK, SqlWorker
<1>2. \A t \in SqlWorker : t.at \in WorkerStates /\ t.job \in Job \cup {None} /\ t.todo \in Seq(Migrations)
    BY DEF SqlWorker
<1>3. \A job \in Job : /\ job.reply \in Reply /\ job.conn \in 1..MaxConns
                       /\ job.steps \in Batches \cup {<<>>}
    BY DEF Job
<1>4. \A c \in 1..Len(conns) : conns[c] \in Conn
    BY <1>1
<1>5. \A c \in Conn : c.open \in BOOLEAN /\ c.closed \in BOOLEAN /\ c.lock \in Workers \cup {None}
    BY DEF Conn
<1> QED BY <1>1, <1>2, <1>3, <1>4, <1>5

-----------------------------------------------------------------------------
(* One worker moves                                                        *)

Moved(w, state, job, todo) ==
    /\ worker' \in [Workers -> SqlWorker]
    /\ worker'[w].at = state /\ worker'[w].job = job /\ worker'[w].todo = todo
    /\ \A v \in Workers : v # w => worker'[v] = worker[v]

LEMMA SqlMoves ==
    ASSUME TypeOK, NEW w \in Workers, NEW state \in WorkerStates, NEW job \in Job \cup {None},
           NEW todo \in Seq(Migrations),
           worker' = [worker EXCEPT ![w] = [at |-> state, job |-> job, todo |-> todo]]
    PROVE  Moved(w, state, job, todo)
<1>1. [at |-> state, job |-> job, todo |-> todo] \in SqlWorker
    BY DEF SqlWorker
<1> QED BY <1>1, SqlFacts DEF Moved

LEMMA SqlGoes ==
    ASSUME TypeOK, NEW w \in Workers, NEW state \in WorkerStates,
           worker' = [worker EXCEPT ![w].at = state]
    PROVE  Moved(w, state, worker[w].job, worker[w].todo)
<1>1. PICK t \in SqlWorker : t = worker[w]
    BY SqlFacts
<1> DEFINE u == [t EXCEPT !.at = state]
<1>2. u \in SqlWorker /\ u.at = state /\ u.job = t.job /\ u.todo = t.todo
    BY DEF SqlWorker
<1>3. worker' = [worker EXCEPT ![w] = u]
    BY <1>1, SqlFacts
<1> HIDE DEF u
<1> QED BY <1>1, <1>2, <1>3, SqlFacts DEF Moved

LEMMA SqlTurnsTo ==
    ASSUME TypeOK, NEW w \in Workers, NEW state \in WorkerStates, NEW todo \in Seq(Migrations),
           worker' = [worker EXCEPT ![w].at = state, ![w].todo = todo]
    PROVE  Moved(w, state, worker[w].job, todo)
<1>1. PICK t \in SqlWorker : t = worker[w]
    BY SqlFacts
<1> DEFINE u == [t EXCEPT !.at = state, !.todo = todo]
<1>2. u \in SqlWorker /\ u.at = state /\ u.job = t.job /\ u.todo = todo
    BY DEF SqlWorker
<1>3. worker' = [worker EXCEPT ![w] = u]
    BY <1>1, SqlFacts
<1> HIDE DEF u
<1> QED BY <1>1, <1>2, <1>3, SqlFacts DEF Moved

\* What a worker does to its connection: the lock it leaves, and the socket.
Left(c, holder, open) ==
    /\ conns' \in Seq(Conn) /\ Len(conns') = Len(conns)
    /\ conns'[c].lock = holder /\ conns'[c].open = open
    /\ conns'[c].closed = conns[c].closed
    /\ \A d \in 1..Len(conns) : d # c => conns'[d] = conns[d]

LEMMA SqlPut ==
    ASSUME NEW c \in 1..Len(conns), conns \in Seq(Conn), NEW e \in Conn,
           conns' = [conns EXCEPT ![c] = e]
    PROVE  /\ conns' \in Seq(Conn) /\ Len(conns') = Len(conns) /\ conns'[c] = e
           /\ \A d \in 1..Len(conns) : d # c => conns'[d] = conns[d]
<1>1. conns \in [1..Len(conns) -> Conn] /\ Len(conns) \in Nat
    OBVIOUS
<1> DEFINE new == [conns EXCEPT ![c] = e]
<1>2. new \in [1..Len(conns) -> Conn] /\ new[c] = e /\ \A d \in 1..Len(conns) : d # c => new[d] = conns[d]
    BY <1>1
<1>3. new \in Seq(Conn) /\ Len(new) = Len(conns)
  <2> HIDE DEF new
  <2> QED BY <1>1, <1>2
<1>4. conns' = new
    OBVIOUS
<1> HIDE DEF new
<1> QED BY <1>2, <1>3, <1>4

\* Nothing but the lock and the socket of a connection is written by a worker.
LEMMA SqlLeaves ==
    ASSUME TypeOK, NEW c \in 1..Len(conns), NEW holder \in Workers \cup {None}, NEW open \in BOOLEAN,
           conns' = [conns EXCEPT ![c].lock = holder, ![c].open = open]
    PROVE  Left(c, holder, open)
<1>1. PICK e \in Conn : e = conns[c]
    BY SqlFacts
<1> DEFINE f == [e EXCEPT !.lock = holder, !.open = open]
<1>2. f \in Conn /\ f.lock = holder /\ f.open = open /\ f.closed = e.closed
    BY DEF Conn
<1>3. conns' = [conns EXCEPT ![c] = f]
    BY <1>1, SqlFacts
<1> HIDE DEF f
<1> QED BY <1>1, <1>2, <1>3, SqlFacts, SqlPut DEF Left

\* The states of a worker in which it is beyond its look at `closed'.
Beyond == {"connecting", "querying", "reading", "running", "recording"}

LEMMA SqlStates ==
    /\ UnderLock \subseteq WorkerStates /\ "locking" \in WorkerStates /\ "posting" \in WorkerStates
    /\ UnderLock = {"locked"} \cup Beyond /\ "locked" \notin Beyond
    /\ "locking" \notin UnderLock /\ "posting" \notin UnderLock
    /\ Migrating \subseteq Beyond /\ "connecting" \notin Migrating /\ "querying" \notin Migrating
BY DEF UnderLock, WorkerStates, Migrating, Beyond

\* A worker gets the lock of its connection, uses it or gives it back.
LEMMA SqlAtConnection ==
    ASSUME SqlInv, NEW w \in Workers, NEW c, c = ConnOf(w), worker[w].at \in {"locking"} \cup UnderLock,
           conns[c].lock \in {None, w},
           NEW state \in {"posting"} \cup UnderLock, NEW todo,
           Moved(w, state, worker[w].job, todo),
           NEW open, Left(c, IF state = "posting" THEN None ELSE w, open),
           state \in {"running", "recording"} <=> todo # <<>>,
           state \in Migrating => worker[w].job.steps # <<>>,
           state \in Beyond \ {"connecting"} => open,
           (conns[c].closed /\ c \notin raced) => ~open /\ state \notin Beyond,
           recorded' \subseteq Migrations, repeated' \subseteq Migrations, excused' \in BOOLEAN,
           UNCHANGED <<nextId, generation, queues, stopping, game, called, raced>>
    PROVE  SqlInv'
<1>1. /\ Parameters /\ TypeOK /\ HandleIsHeld /\ SqlHolding /\ SqlLocks /\ SqlBarred /\ SqlTurns
    BY SqlParts
<1>2. UNCHANGED <<nextId, generation, pending, done, stopping, pc, target, batch, calling, called, raced>>
    BY DEF queues, game
<1>3. /\ worker' \in [Workers -> SqlWorker]
      /\ worker'[w].at = state /\ worker'[w].job = worker[w].job /\ worker'[w].todo = todo
      /\ \A v \in Workers : v # w => worker'[v] = worker[v]
    BY DEF Moved
<1>4. /\ conns' \in Seq(Conn) /\ Len(conns') = Len(conns)
      /\ conns'[c].lock = (IF state = "posting" THEN None ELSE w) /\ conns'[c].open = open
      /\ conns'[c].closed = conns[c].closed
      /\ \A d \in 1..Len(conns) : d # c => conns'[d] = conns[d]
    BY DEF Left
<1>5. worker[w].job # None /\ c \in 1..Len(conns) /\ None \notin Workers
    BY <1>1 DEF SqlHolding, Parameters
\* Nobody else is at work on the connection.
<1>6. \A v \in Workers : v # w /\ worker[v].at \in UnderLock => ConnOf(v) # c
    BY <1>1, <1>5 DEF HandleIsHeld
<1>7. \A v \in Workers : ConnOf(v)' = ConnOf(v)
    BY <1>3 DEF ConnOf
<1>8. TypeOK'
  <2>1. \A v \in Workers : worker'[v].at \in {"running", "recording"} <=> worker'[v].todo # <<>>
      BY <1>1, <1>3 DEF TypeOK
  <2>2. worker' \in [Workers -> [at : WorkerStates, job : Job \cup {None}, todo : Seq(Migrations)]]
      BY <1>3 DEF SqlWorker
  <2> QED BY <1>1, <1>2, <1>4, <2>1, <2>2 DEF TypeOK
<1>9. HandleIsHeld'
  <2> SUFFICES ASSUME NEW v \in Workers, worker'[v].at \in UnderLock
               PROVE  /\ conns'[ConnOf(v)].lock = v
                      /\ worker'[v].at \notin {"locked", "connecting"} => conns'[ConnOf(v)].open
      BY <1>7 DEF HandleIsHeld
  <2>1. CASE v = w
      BY <1>3, <1>4, <2>1, SqlStates
  <2>2. CASE v # w
    <3>1. worker'[v] = worker[v] /\ worker[v].at \in UnderLock
        BY <1>3, <2>2
    <3>2. ConnOf(v) # c /\ ConnOf(v) \in 1..Len(conns)
        BY <1>1, <1>6, <2>2, <3>1 DEF SqlHolding
    <3>3. conns'[ConnOf(v)] = conns[ConnOf(v)]
        BY <1>4, <3>2
    <3> QED BY <1>1, <3>1, <3>3 DEF HandleIsHeld
  <2> QED BY <2>1, <2>2
<1>10. SqlHolding'
  <2>1. ASSUME NEW v \in Workers
        PROVE  /\ worker'[v].job # None <=> worker'[v].at \in {"locking", "posting"} \cup UnderLock
               /\ worker'[v].job # None => ConnOf(v)' \in 1..Len(conns')
               /\ worker'[v].at \in Migrating => worker'[v].job.steps # <<>>
    <3>1. CASE v = w
        BY <1>3, <1>4, <1>5, <1>7, <3>1
    <3>2. CASE v # w
        BY <1>1, <1>3, <1>4, <1>7, <3>2 DEF SqlHolding
    <3> QED BY <3>1, <3>2
  <2> QED BY <1>1, <1>2, <1>4, <2>1 DEF SqlHolding, Elements
<1>11. SqlLocks'
  <2> SUFFICES ASSUME NEW d \in 1..Len(conns), conns'[d].lock # None
               PROVE  /\ conns'[d].lock \in Workers
                      /\ worker'[conns'[d].lock].at \in UnderLock
                      /\ worker'[conns'[d].lock].job.conn = d
      BY <1>4 DEF SqlLocks, ConnOf
  <2>1. CASE d = c
      BY <1>3, <1>4, <2>1 DEF ConnOf
  <2>2. CASE d # c
    <3>1. conns'[d] = conns[d]
        BY <1>4, <2>2
    <3>2. PICK v \in Workers : v = conns[d].lock /\ worker[v].at \in UnderLock /\ ConnOf(v) = d
        BY <1>1, <2>2, <3>1 DEF SqlLocks
    <3>3. v # w
        BY <2>2, <3>2
    <3>4. conns'[d].lock = v /\ worker'[v].at \in UnderLock /\ worker'[v].job.conn = d
        BY <1>3, <3>1, <3>2, <3>3 DEF ConnOf
    <3> QED BY <3>4
  <2> QED BY <2>1, <2>2
<1>12. SqlBarred'
  <2> SUFFICES ASSUME NEW d \in 1..Len(conns), conns'[d].closed, d \notin raced
               PROVE  /\ ~conns'[d].open
                      /\ \A v \in Workers :
                            (worker'[v].at \in UnderLock /\ ConnOf(v) = d) => worker'[v].at = "locked"
      BY <1>2, <1>4, <1>7 DEF SqlBarred
  <2>1. CASE d = c
    <3>1. ~open /\ state \notin Beyond
        BY <1>4, <2>1
    <3>2. \A v \in Workers : (worker'[v].at \in UnderLock /\ ConnOf(v) = d) => v = w
        BY <1>3, <1>6, <2>1
    <3> QED BY <1>3, <1>4, <2>1, <3>1, <3>2, SqlStates
  <2>2. CASE d # c
    <3>1. conns'[d] = conns[d]
        BY <1>4, <2>2
    <3>2. \A v \in Workers : ConnOf(v) = d => worker'[v] = worker[v]
        BY <1>3, <2>2
    <3> QED BY <1>1, <3>1, <3>2 DEF SqlBarred
  <2> QED BY <2>1, <2>2
<1>13. SqlTurns'
    BY <1>1, <1>2 DEF SqlTurns
<1> QED BY <1>1, <1>8, <1>9, <1>10, <1>11, <1>12, <1>13, SqlShutNext, SqlPartsNext

\* ~lock_guard.
LEMMA SqlUnlocks ==
    ASSUME SqlInv, NEW w \in Workers, NEW keep \in BOOLEAN, worker[w].at \in UnderLock,
           Unlock(w, keep),
           recorded' \subseteq Migrations, repeated' \subseteq Migrations, excused' \in BOOLEAN,
           UNCHANGED <<nextId, generation, queues, stopping, game, called, raced>>
    PROVE  SqlInv'
<1>1. /\ Parameters /\ TypeOK /\ HandleIsHeld /\ SqlHolding /\ SqlBarred
    BY SqlParts
<1>2. PICK c : c = ConnOf(w)
    OBVIOUS
<1>3. worker[w].job # None /\ c \in 1..Len(conns) /\ conns[c].lock = w
    BY <1>1, <1>2 DEF SqlHolding, HandleIsHeld
<1>4. PICK open \in BOOLEAN : open = (conns[c].open /\ keep)
    OBVIOUS
<1>5. Left(c, None, open)
  <2>1. PICK e \in Conn : e = conns[c]
      BY <1>1, <1>3, SqlFacts
  <2> DEFINE f == [e EXCEPT !.lock = None, !.open = open]
  <2>2. f \in Conn /\ f.lock = None /\ f.open = open /\ f.closed = e.closed
      BY DEF Conn
  <2>3. conns' = [conns EXCEPT ![c] = f]
      BY <1>1, <1>2, <1>3, <1>4, <2>1, SqlFacts DEF Unlock, Conn
  <2> HIDE DEF f
  <2> QED BY <1>1, <1>3, <2>1, <2>2, <2>3, SqlFacts, SqlPut DEF Left
<1>6. Moved(w, "posting", worker[w].job, <<>>)
  <2>1. <<>> \in Seq(Migrations)
      OBVIOUS
  <2> QED BY <1>1, <2>1, SqlTurnsTo, SqlStates DEF Unlock
<1>7. (conns[c].closed /\ c \notin raced) => ~open
    BY <1>1, <1>3, <1>4 DEF SqlBarred
<1>8. "posting" \notin Beyond /\ "posting" \notin Migrating
    BY DEF Beyond, Migrating
<1> QED BY <1>2, <1>3, <1>5, <1>6, <1>7, <1>8, SqlAtConnection

\* The connection stays as it is, and has a socket.
LEMMA SqlStays ==
    ASSUME SqlInv, NEW w \in Workers, worker[w].at \in Beyond \ {"connecting"},
           NEW state \in Beyond \ {"connecting"}, NEW todo,
           Moved(w, state, worker[w].job, todo), UNCHANGED conns,
           state \in {"running", "recording"} <=> todo # <<>>,
           state \in Migrating => worker[w].job.steps # <<>>,
           recorded' \subseteq Migrations, repeated' \subseteq Migrations, excused' \in BOOLEAN,
           UNCHANGED <<nextId, generation, queues, stopping, game, called, raced>>
    PROVE  SqlInv'
<1>1. /\ Parameters /\ TypeOK /\ HandleIsHeld /\ SqlHolding /\ SqlBarred
    BY SqlParts
<1>2. PICK c : c = ConnOf(w)
    OBVIOUS
<1>3. worker[w].at \in UnderLock /\ worker[w].at # "locked" /\ state \in UnderLock /\ state # "posting"
    BY SqlStates
<1>4. c \in 1..Len(conns) /\ conns[c].lock = w /\ conns[c].open /\ conns[c] \in Conn
    BY <1>1, <1>2, <1>3, SqlFacts DEF SqlHolding, HandleIsHeld
<1>5. Left(c, w, TRUE)
    BY <1>1, <1>4, SqlFacts DEF Left, Conn
<1>6. ~(conns[c].closed /\ c \notin raced)
    BY <1>1, <1>2, <1>3, <1>4 DEF SqlBarred
<1> QED BY <1>2, <1>3, <1>4, <1>5, <1>6, SqlAtConnection

LEMMA SqlLock ==
    ASSUME SqlInv, NEW w \in Workers, Lock(w) PROVE SqlInv'
<1>1. /\ Parameters /\ TypeOK /\ SqlHolding /\ SqlBarred
    BY SqlParts
<1>2. PICK c : c = ConnOf(w)
    OBVIOUS
<1>3. worker[w].at = "locking" /\ worker[w].job # None /\ c \in 1..Len(conns) /\ conns[c].lock = None
    BY <1>1, <1>2 DEF SqlHolding, Lock
<1>4. PICK open \in BOOLEAN : open = conns[c].open
    BY <1>1, <1>3, SqlFacts
<1>5. Left(c, w, open)
  <2>1. PICK e \in Conn : e = conns[c]
      BY <1>1, <1>3, SqlFacts
  <2> DEFINE f == [e EXCEPT !.lock = w]
  <2>2. f \in Conn /\ f.lock = w /\ f.open = open /\ f.closed = e.closed
      BY <1>4, <2>1 DEF Conn
  <2>3. conns' = [conns EXCEPT ![c] = f]
      BY <1>1, <1>2, <1>3, <2>1, SqlFacts DEF Lock
  <2> HIDE DEF f
  <2> QED BY <1>1, <1>3, <2>1, <2>2, <2>3, SqlFacts, SqlPut DEF Left
<1>6. Moved(w, "locked", worker[w].job, worker[w].todo)
  <2>1. "locked" \in WorkerStates
      BY SqlStates
  <2> QED BY <1>1, <2>1, SqlGoes DEF Lock, Goto
<1>7. (conns[c].closed /\ c \notin raced) => ~open
    BY <1>1, <1>3, <1>4 DEF SqlBarred
<1>8. worker[w].todo = <<>>
    BY <1>1, <1>3 DEF TypeOK
<1>9. "locked" \in UnderLock /\ "locked" \notin Beyond /\ "locked" \notin Migrating
    BY SqlStates
<1>10. /\ recorded' \subseteq Migrations /\ repeated' \subseteq Migrations /\ excused' \in BOOLEAN
       /\ UNCHANGED <<nextId, generation, queues, stopping, game, called, raced>>
    BY <1>1 DEF TypeOK, Lock, database
<1> QED BY <1>2, <1>3, <1>5, <1>6, <1>7, <1>8, <1>9, <1>10, SqlAtConnection

LEMMA SqlFirstCall ==
    ASSUME NEW w
    PROVE  /\ FirstCall(w) \in Beyond \ {"connecting"} /\ FirstCall(w) \notin {"running", "recording"}
           /\ FirstCall(w) \in Migrating => worker[w].job.steps # <<>>
BY DEF FirstCall, Beyond, Migrating

LEMMA SqlCheck ==
    ASSUME SqlInv, NEW w \in Workers, Check(w) PROVE SqlInv'
<1>1. /\ Parameters /\ TypeOK /\ HandleIsHeld /\ SqlHolding
    BY SqlParts
<1>2. PICK c : c = ConnOf(w)
    OBVIOUS
<1>3. worker[w].at = "locked" /\ worker[w].at \in UnderLock
    BY SqlStates DEF Check
<1>4. /\ worker[w].job # None /\ c \in 1..Len(conns) /\ conns[c].lock = w
      /\ conns[c] \in Conn /\ conns[c].open \in BOOLEAN
    BY <1>1, <1>2, <1>3, SqlFacts DEF SqlHolding, HandleIsHeld
<1>5. /\ recorded' \subseteq Migrations /\ repeated' \subseteq Migrations /\ excused' \in BOOLEAN
      /\ UNCHANGED <<nextId, generation, queues, stopping, game, called, raced>>
    BY <1>1 DEF TypeOK, Check, database
<1>6. CASE conns[c].closed
  <2>1. Unlock(w, TRUE)
      BY <1>2, <1>6 DEF Check
  <2> QED BY <1>3, <1>5, <2>1, SqlUnlocks
<1>7. CASE ~conns[c].closed
  <2>1. PICK state \in Beyond : state = IF conns[c].open THEN FirstCall(w) ELSE "connecting"
      BY SqlFirstCall DEF Beyond
  <2>2. Goto(w, state) /\ UNCHANGED conns
      BY <1>2, <1>7, <2>1 DEF Check
  <2>3. Moved(w, state, worker[w].job, worker[w].todo)
      BY <1>1, <2>2, SqlGoes, SqlStates DEF Goto
  <2>4. PICK open \in BOOLEAN : open = conns[c].open
      BY <1>4
  <2>5. Left(c, w, open)
      BY <1>1, <1>4, <2>2, <2>4, SqlFacts DEF Left, Conn
  <2>6. worker[w].todo = <<>>
      BY <1>1, <1>3 DEF TypeOK
  <2>7. /\ state \in UnderLock /\ state # "posting" /\ state \notin {"running", "recording"}
        /\ state \in Migrating => worker[w].job.steps # <<>>
        /\ state # "connecting" => open
      BY <2>1, <2>4, SqlFirstCall, SqlStates DEF Beyond
  <2> QED BY <1>2, <1>3, <1>4, <1>5, <1>7, <2>1, <2>3, <2>5, <2>6, <2>7, SqlAtConnection
<1> QED BY <1>6, <1>7

LEMMA SqlConnected ==
    ASSUME SqlInv, NEW w \in Workers, Connected(w) PROVE SqlInv'
<1>1. /\ Parameters /\ TypeOK /\ HandleIsHeld /\ SqlHolding /\ SqlBarred
    BY SqlParts
<1>2. PICK c : c = ConnOf(w)
    OBVIOUS
<1>3. worker[w].at = "connecting" /\ worker[w].at \in UnderLock
    BY SqlStates DEF Connected, Beyond
<1>4. /\ worker[w].job # None /\ c \in 1..Len(conns) /\ conns[c].lock = w
    BY <1>1, <1>2, <1>3 DEF SqlHolding, HandleIsHeld
<1>5. /\ recorded' \subseteq Migrations /\ repeated' \subseteq Migrations /\ excused' \in BOOLEAN
      /\ UNCHANGED <<nextId, generation, queues, stopping, game, called, raced>>
    BY <1>1 DEF TypeOK, Connected, database
<1>6. Left(c, w, TRUE)
  <2>1. PICK e \in Conn : e = conns[c]
      BY <1>1, <1>4, SqlFacts
  <2> DEFINE f == [e EXCEPT !.open = TRUE]
  <2>2. f \in Conn /\ f.lock = w /\ f.open = TRUE /\ f.closed = e.closed
      BY <1>4, <2>1 DEF Conn
  <2>3. conns' = [conns EXCEPT ![c] = f]
      BY <1>1, <1>2, <1>4, <2>1, SqlFacts DEF Connected
  <2> HIDE DEF f
  <2> QED BY <1>1, <1>4, <2>1, <2>2, <2>3, SqlFacts, SqlPut DEF Left
<1>7. PICK state \in Beyond \ {"connecting"} : state = FirstCall(w)
    BY SqlFirstCall
<1>8. Moved(w, state, worker[w].job, worker[w].todo)
    BY <1>1, <1>7, SqlGoes, SqlStates DEF Connected, Goto
<1>9. worker[w].todo = <<>>
    BY <1>1, <1>3 DEF TypeOK
<1>10. /\ state \in UnderLock /\ state # "posting" /\ state \notin {"running", "recording"}
       /\ state \in Migrating => worker[w].job.steps # <<>>
    BY <1>7, SqlFirstCall, SqlStates DEF Beyond
<1>11. ~(conns[c].closed /\ c \notin raced)
    BY <1>1, <1>2, <1>3, <1>4 DEF SqlBarred
<1> QED BY <1>2, <1>3, <1>4, <1>5, <1>6, <1>8, <1>9, <1>10, <1>11, SqlAtConnection

LEMMA SqlConnectFails ==
    ASSUME SqlInv, NEW w \in Workers, ConnectFails(w) PROVE SqlInv'
<1>1. worker[w].at \in UnderLock
    BY DEF ConnectFails, UnderLock
<1>2. /\ recorded' \subseteq Migrations /\ repeated' \subseteq Migrations /\ excused' \in BOOLEAN
      /\ UNCHANGED <<nextId, generation, queues, stopping, game, called, raced>>
    BY SqlParts DEF TypeOK, ConnectFails, database
<1> QED BY <1>1, <1>2, SqlUnlocks DEF ConnectFails

LEMMA SqlQuery ==
    ASSUME SqlInv, NEW w \in Workers, Query(w) PROVE SqlInv'
<1>1. worker[w].at \in UnderLock
    BY DEF Query, UnderLock
<1>2. /\ recorded' \subseteq Migrations /\ repeated' \subseteq Migrations /\ excused' \in BOOLEAN
      /\ UNCHANGED <<nextId, generation, queues, stopping, game, called, raced>>
    BY SqlParts DEF TypeOK, Query, database
<1>3. PICK ok \in BOOLEAN : Unlock(w, ok)
    BY DEF Query
<1> QED BY <1>1, <1>2, <1>3, SqlUnlocks

LEMMA SqlReadFails ==
    ASSUME SqlInv, NEW w \in Workers, ReadFails(w) PROVE SqlInv'
<1>1. worker[w].at \in UnderLock
    BY DEF ReadFails, UnderLock
<1>2. /\ recorded' \subseteq Migrations /\ repeated' \subseteq Migrations /\ excused' \in BOOLEAN
      /\ UNCHANGED <<nextId, generation, queues, stopping, game, called, raced>>
    BY SqlParts DEF TypeOK, ReadFails, database
<1> QED BY <1>1, <1>2, SqlUnlocks DEF ReadFails

LEMMA SqlStepFails ==
    ASSUME SqlInv, NEW w \in Workers, StepFails(w) PROVE SqlInv'
<1>1. worker[w].at \in UnderLock
    BY DEF StepFails, UnderLock
<1>2. /\ recorded' \subseteq Migrations /\ repeated' \subseteq Migrations /\ excused' \in BOOLEAN
      /\ UNCHANGED <<nextId, generation, queues, stopping, game, called, raced>>
    BY SqlParts DEF TypeOK, StepFails, database
<1> QED BY <1>1, <1>2, SqlUnlocks DEF StepFails

\* What a batch still has to run is part of what it was given.
LEMMA SqlSteps ==
    ASSUME SqlInv, NEW w \in Workers, worker[w].at \in Migrating
    PROVE  worker[w].job.steps \in Seq(Migrations)
<1>1. worker[w].job \in Job
    BY SqlParts, SqlFacts, SqlStates DEF SqlHolding
<1>2. worker[w].job.steps \in Batches \cup {<<>>}
    BY <1>1, SqlParts, SqlFacts
<1>3. Batches \subseteq Seq(Migrations) /\ <<>> \in Seq(Migrations)
    BY SqlParts DEF Parameters
<1> QED BY <1>2, <1>3

LEMMA SqlReadApplied ==
    ASSUME SqlInv, NEW w \in Workers, ReadApplied(w) PROVE SqlInv'
<1>1. /\ Parameters /\ TypeOK /\ HandleIsHeld /\ SqlHolding
    BY SqlParts
<1>2. worker[w].at = "reading"
    BY DEF ReadApplied
<1>3. worker[w].at \in UnderLock /\ worker[w].at \in Migrating /\ worker[w].at \in Beyond \ {"connecting"}
    BY <1>2 DEF UnderLock, Migrating, Beyond
<1>4. PICK rows \in {recorded, {}} :
          /\ excused' = (excused \/ Crossing(w) \/ Repeating(worker[w].job.steps) \/ rows # recorded)
          /\ IF Without(worker[w].job.steps, rows) = <<>> THEN Unlock(w, TRUE)
             ELSE /\ worker' = [worker EXCEPT ![w].at = "running",
                                              ![w].todo = Without(worker[w].job.steps, rows)]
                  /\ UNCHANGED conns
    BY DEF ReadApplied
<1>5. PICK todo : todo = Without(worker[w].job.steps, rows)
    OBVIOUS
<1>6. todo \in Seq(Migrations)
    BY <1>3, <1>5, SqlSteps, WithoutPicks
<1>7. excused' \in BOOLEAN
  <2>1. Crossing(w) \in BOOLEAN /\ Repeating(worker[w].job.steps) \in BOOLEAN
      BY DEF Crossing, Repeating
  <2> QED BY <1>1, <1>4, <2>1 DEF TypeOK
<1>8. /\ recorded' \subseteq Migrations /\ repeated' \subseteq Migrations
      /\ UNCHANGED <<nextId, generation, queues, stopping, game, called, raced>>
    BY <1>1 DEF TypeOK, ReadApplied
<1>9. CASE todo = <<>>
  <2>1. Unlock(w, TRUE)
      BY <1>4, <1>5, <1>9
  <2> QED BY <1>3, <1>7, <1>8, <2>1, SqlUnlocks
<1>10. CASE todo # <<>>
  <2>1. worker' = [worker EXCEPT ![w].at = "running", ![w].todo = todo] /\ UNCHANGED conns
      BY <1>4, <1>5, <1>10
  <2>2. "running" \in WorkerStates /\ "running" \in Beyond \ {"connecting"}
      BY DEF WorkerStates, UnderLock, Beyond
  <2>3. Moved(w, "running", worker[w].job, todo)
      BY <1>1, <1>6, <2>1, <2>2, SqlTurnsTo
  <2>4. worker[w].job.steps # <<>>
      BY <1>1, <1>3 DEF SqlHolding
  <2> QED BY <1>3, <1>7, <1>8, <1>10, <2>1, <2>2, <2>3, <2>4, SqlStays
<1> QED BY <1>9, <1>10

LEMMA SqlTodo ==
    ASSUME SqlInv, NEW w \in Workers, worker[w].at \in {"running", "recording"}
    PROVE  /\ worker[w].todo \in Seq(Migrations) /\ worker[w].todo # <<>>
           /\ Head(worker[w].todo) \in Migrations /\ Tail(worker[w].todo) \in Seq(Migrations)
           /\ worker[w].at \in UnderLock /\ worker[w].at \in Migrating
           /\ worker[w].at \in Beyond \ {"connecting"}
           /\ worker[w].job.steps # <<>>
<1>1. TypeOK /\ SqlHolding
    BY SqlParts
<1>2. worker[w].at \in UnderLock /\ worker[w].at \in Migrating /\ worker[w].at \in Beyond \ {"connecting"}
    BY DEF UnderLock, Migrating, Beyond
<1>3. worker[w].todo \in Seq(Migrations) /\ worker[w].todo # <<>>
    BY <1>1, SqlFacts DEF TypeOK
<1>4. worker[w].job.steps # <<>>
    BY <1>1, <1>2 DEF SqlHolding
<1> QED BY <1>2, <1>3, <1>4

LEMMA SqlRunStep ==
    ASSUME SqlInv, NEW w \in Workers, RunStep(w) PROVE SqlInv'
<1>1. TypeOK
    BY SqlParts
<1>2. worker[w].at \in {"running", "recording"}
    BY DEF RunStep
<1>3. Moved(w, "recording", worker[w].job, worker[w].todo)
  <2>1. "recording" \in WorkerStates
      BY DEF WorkerStates, UnderLock
  <2> QED BY <1>1, <2>1, SqlGoes DEF RunStep, Goto
<1>4. "recording" \in Beyond \ {"connecting"}
    BY DEF Beyond
<1>5. repeated' \subseteq Migrations /\ recorded' \subseteq Migrations /\ excused' \in BOOLEAN
    BY <1>1 DEF TypeOK, RunStep
<1>6. UNCHANGED conns /\ UNCHANGED <<nextId, generation, queues, stopping, game, called, raced>>
    BY DEF RunStep
<1> QED BY <1>2, <1>3, <1>4, <1>5, <1>6, SqlTodo, SqlStays

LEMMA SqlRecordStep ==
    ASSUME SqlInv, NEW w \in Workers, RecordStep(w) PROVE SqlInv'
<1>1. TypeOK
    BY SqlParts
<1>2. worker[w].at \in {"running", "recording"}
    BY DEF RecordStep
<1>3. recorded' \subseteq Migrations /\ repeated' \subseteq Migrations /\ excused' \in BOOLEAN
    BY <1>1, <1>2, SqlTodo DEF TypeOK, RecordStep
<1>4. UNCHANGED <<nextId, generation, queues, stopping, game, called, raced>>
    BY DEF RecordStep
<1>5. PICK todo \in Seq(Migrations) : todo = Tail(worker[w].todo)
    BY <1>2, SqlTodo
<1>6. CASE todo = <<>>
  <2>1. Unlock(w, TRUE)
      BY <1>5, <1>6 DEF RecordStep
  <2> QED BY <1>2, <1>3, <1>4, <2>1, SqlTodo, SqlUnlocks
<1>7. CASE todo # <<>>
  <2>1. UNCHANGED conns
      BY <1>5, <1>7 DEF RecordStep
  <2>2. worker' = [worker EXCEPT ![w].at = "running", ![w].todo = todo]
    <3>1. worker' = [worker EXCEPT ![w].at = "running", ![w].todo = Tail(@)]
        BY <1>5, <1>7 DEF RecordStep
    <3>2. PICK t \in SqlWorker : t = worker[w]
        BY <1>1, SqlFacts
    <3> QED BY <1>1, <1>5, <3>1, <3>2, SqlFacts DEF SqlWorker
  <2>3. "running" \in WorkerStates /\ "running" \in Beyond \ {"connecting"}
      BY DEF WorkerStates, UnderLock, Beyond
  <2>4. Moved(w, "running", worker[w].job, todo)
      BY <1>1, <2>2, <2>3, SqlTurnsTo
  <2> QED BY <1>2, <1>3, <1>4, <1>7, <2>1, <2>3, <2>4, SqlTodo, SqlStays
<1> QED BY <1>6, <1>7

-----------------------------------------------------------------------------
(* Away from the connections                                               *)

\* A worker without a connection.
Fits(t, n) ==
    /\ t \in SqlWorker
    /\ t.at \notin UnderLock /\ t.todo = <<>>
    /\ t.job # None <=> t.at \in {"locking", "posting"}
    /\ t.job # None => t.job.conn \in 1..n

LEMMA SqlIdle ==
    ASSUME NEW n
    PROVE  Idle \in SqlWorker /\ Fits(Idle, n) /\ Fits([Idle EXCEPT !.at = "absent"], n)
<1>1. PICK t : t = [Idle EXCEPT !.at = "absent"]
    OBVIOUS
<1>2. t.at = "absent" /\ t.job = None /\ t.todo = <<>>
    BY <1>1 DEF Idle
<1>3. <<>> \in Seq(Migrations)
    OBVIOUS
<1>4. Idle \in SqlWorker
    BY <1>3 DEF Idle, SqlWorker, WorkerStates
<1>5. t \in SqlWorker
    BY <1>1, <1>3 DEF Idle, SqlWorker, WorkerStates
<1>6. Fits(Idle, n)
    BY <1>4 DEF Fits, Idle, UnderLock
<1>7. Fits(t, n)
    BY <1>2, <1>5 DEF Fits, UnderLock
<1> QED BY <1>1, <1>4, <1>6, <1>7

\* Whatever workers do away from connections, whatever becomes of the queues,
\* and whatever connections are new.
LEMMA SqlAway ==
    ASSUME SqlInv,
           worker' \in [Workers -> SqlWorker],
           \A w \in Workers : worker'[w] = worker[w]
                \/ (worker[w].at \notin UnderLock /\ Fits(worker'[w], Len(conns))),
           conns' \in Seq(Conn), Len(conns) <= Len(conns'), Len(conns') <= MaxConns,
           \A c \in 1..Len(conns) : conns'[c] = conns[c],
           \A c \in 1..Len(conns') : c \notin 1..Len(conns) =>
                ~conns'[c].open /\ ~conns'[c].closed /\ conns'[c].lock = None,
           pending' \in Seq(Job),
           \A job \in Elements(pending') : job.conn \in 1..Len(conns'),
           nextId' \in 1..MaxRequests + 1, generation' \in 1..MaxGenerations + 1,
           done' \in Seq(Reply), batch' \in Seq(Reply), stopping' \in BOOLEAN,
           pc' \in GameStates, target' \in 1..MaxConns \cup Plugins \cup {None},
           calling' \in Reply \cup {None}, called' \subseteq Ids,
           UNCHANGED <<recorded, repeated, excused, raced>>,
           SqlTurns'
    PROVE  SqlInv'
<1>1. /\ Parameters /\ TypeOK /\ HandleIsHeld /\ SqlHolding /\ SqlLocks /\ SqlBarred
    BY SqlParts
<1>2. \A w \in Workers : worker[w].at \in UnderLock \/ worker'[w].at \in UnderLock
          => worker'[w] = worker[w]
    BY DEF Fits
<1>3. \A w \in Workers : ConnOf(w)' = worker'[w].job.conn
    BY DEF ConnOf
<1>4. TypeOK'
  <2>1. worker' \in [Workers -> [at : WorkerStates, job : Job \cup {None}, todo : Seq(Migrations)]]
      BY DEF SqlWorker
  <2>2. \A w \in Workers : worker'[w].at \in {"running", "recording"} <=> worker'[w].todo # <<>>
    <3> SUFFICES ASSUME NEW w \in Workers
                 PROVE  worker'[w].at \in {"running", "recording"} <=> worker'[w].todo # <<>>
        OBVIOUS
    <3>1. CASE worker'[w] = worker[w]
        BY <1>1, <3>1 DEF TypeOK
    <3>2. CASE Fits(worker'[w], Len(conns))
        BY <3>2 DEF Fits, UnderLock
    <3> QED BY <3>1, <3>2
  <2> QED BY <1>1, <2>1, <2>2 DEF TypeOK
<1>5. \A w \in Workers : worker[w].at \in UnderLock => ConnOf(w) \in 1..Len(conns)
    BY <1>1 DEF SqlHolding
<1>6. HandleIsHeld'
  <2> SUFFICES ASSUME NEW w \in Workers, worker'[w].at \in UnderLock
               PROVE  /\ conns'[worker'[w].job.conn].lock = w
                      /\ worker'[w].at \notin {"locked", "connecting"} => conns'[worker'[w].job.conn].open
      BY <1>3 DEF HandleIsHeld
  <2>1. worker'[w] = worker[w] /\ conns'[ConnOf(w)] = conns[ConnOf(w)]
      BY <1>2, <1>5
  <2> QED BY <1>1, <2>1 DEF HandleIsHeld, ConnOf
<1>7. SqlHolding'
  <2>1. Len(conns) \in Nat /\ Len(conns') \in Nat
      BY <1>1, SqlFacts
  <2>2. ASSUME NEW w \in Workers
        PROVE  /\ worker'[w].job # None <=> worker'[w].at \in {"locking", "posting"} \cup UnderLock
               /\ worker'[w].job # None => worker'[w].job.conn \in 1..Len(conns')
               /\ worker'[w].at \in Migrating => worker'[w].job.steps # <<>>
    <3>1. CASE worker'[w] = worker[w]
      <4>1. worker[w].job # None => worker[w].job.conn \in 1..Len(conns)
          BY <1>1 DEF SqlHolding, ConnOf
      <4> QED BY <1>1, <2>1, <3>1, <4>1 DEF SqlHolding
    <3>2. CASE Fits(worker'[w], Len(conns))
      <4>1. worker'[w].at \notin Migrating
          BY <3>2, SqlStates DEF Fits
      <4> QED BY <2>1, <3>2, <4>1 DEF Fits
    <3> QED BY <3>1, <3>2
  <2> QED BY <1>3, <2>2 DEF SqlHolding, Elements
<1>8. SqlLocks'
  <2> SUFFICES ASSUME NEW c \in 1..Len(conns'), conns'[c].lock # None
               PROVE  /\ conns'[c].lock \in Workers
                      /\ worker'[conns'[c].lock].at \in UnderLock
                      /\ worker'[conns'[c].lock].job.conn = c
      BY DEF SqlLocks, ConnOf
  <2>1. c \in 1..Len(conns) /\ conns'[c] = conns[c]
      OBVIOUS
  <2>2. PICK v \in Workers : v = conns[c].lock /\ worker[v].at \in UnderLock /\ ConnOf(v) = c
      BY <1>1, <2>1 DEF SqlLocks
  <2>3. worker'[v] = worker[v] /\ conns'[c].lock = v
      BY <1>2, <2>1, <2>2
  <2> QED BY <2>2, <2>3 DEF ConnOf
<1>9. SqlBarred'
  <2> SUFFICES ASSUME NEW c \in 1..Len(conns'), conns'[c].closed, c \notin raced
               PROVE  /\ ~conns'[c].open
                      /\ \A w \in Workers :
                            (worker'[w].at \in UnderLock /\ worker'[w].job.conn = c) => worker'[w].at = "locked"
      BY DEF SqlBarred, ConnOf
  <2>1. c \in 1..Len(conns) /\ conns'[c] = conns[c]
      OBVIOUS
  <2> QED BY <1>1, <1>2, <2>1 DEF SqlBarred, ConnOf
<1> QED BY <1>1, <1>4, <1>6, <1>7, <1>8, <1>9, SqlShutNext, SqlPartsNext

\* A step of the game thread that moves nothing but itself and the queues.
LEMMA SqlAside ==
    ASSUME SqlInv, UNCHANGED <<worker, conns, recorded, repeated, excused, raced>>,
           pending' \in Seq(Job),
           \A job \in Elements(pending') : job.conn \in 1..Len(conns),
           nextId' \in 1..MaxRequests + 1, generation' \in 1..MaxGenerations + 1,
           done' \in Seq(Reply), batch' \in Seq(Reply), stopping' \in BOOLEAN,
           pc' \in GameStates, target' \in 1..MaxConns \cup Plugins \cup {None},
           calling' \in Reply \cup {None}, called' \subseteq Ids,
           SqlTurns'
    PROVE  SqlInv'
<1>1. /\ TypeOK /\ SqlHolding
    BY SqlParts
<1>2. conns' = conns /\ worker' = worker /\ Len(conns) \in Nat /\ worker \in [Workers -> SqlWorker]
    BY <1>1, SqlFacts
<1>3. conns' \in Seq(Conn) /\ Len(conns) <= Len(conns') /\ Len(conns') <= MaxConns
    BY <1>1, <1>2, SqlFacts DEF SqlHolding
<1> QED BY <1>1, <1>2, <1>3, SqlAway

\* What the game thread does to connections that nobody holds, and what it
\* marks of those somebody does.
LEMMA SqlTaken ==
    ASSUME SqlInv, UNCHANGED <<worker, pending, recorded, repeated, excused>>,
           conns' \in Seq(Conn), Len(conns') = Len(conns),
           \A c \in 1..Len(conns) :
                /\ conns'[c].lock = conns[c].lock
                /\ conns[c].lock # None => conns'[c].open = conns[c].open
                /\ (conns'[c].closed /\ c \notin raced') =>
                      \/ conns'[c] = conns[c] /\ c \notin raced
                      \/ conns[c].lock = None /\ ~conns'[c].open,
           nextId' \in 1..MaxRequests + 1, generation' \in 1..MaxGenerations + 1,
           done' \in Seq(Reply), batch' \in Seq(Reply), stopping' \in BOOLEAN,
           pc' \in GameStates, target' \in 1..MaxConns \cup Plugins \cup {None},
           calling' \in Reply \cup {None}, called' \subseteq Ids,
           raced' \subseteq 1..MaxConns,
           SqlTurns'
    PROVE  SqlInv'
<1>1. /\ Parameters /\ TypeOK /\ HandleIsHeld /\ SqlHolding /\ SqlLocks /\ SqlBarred
    BY SqlParts
<1>2. \A w \in Workers : worker[w].at \in UnderLock =>
          ConnOf(w) \in 1..Len(conns) /\ conns[ConnOf(w)].lock = w /\ w # None
    BY <1>1 DEF SqlHolding, HandleIsHeld, Parameters
<1>3. \A w \in Workers : ConnOf(w)' = ConnOf(w)
    BY DEF ConnOf
<1>4. TypeOK'
    BY <1>1 DEF TypeOK
<1>5. HandleIsHeld'
  <2> SUFFICES ASSUME NEW w \in Workers, worker[w].at \in UnderLock
               PROVE  /\ conns'[ConnOf(w)].lock = w
                      /\ worker[w].at \notin {"locked", "connecting"} => conns'[ConnOf(w)].open
      BY <1>3 DEF HandleIsHeld
  <2> QED BY <1>1, <1>2 DEF HandleIsHeld
<1>6. SqlHolding'
    BY <1>1, <1>3 DEF SqlHolding
<1>7. SqlLocks'
  <2> SUFFICES ASSUME NEW c \in 1..Len(conns), conns'[c].lock # None
               PROVE  /\ conns'[c].lock \in Workers
                      /\ worker[conns'[c].lock].at \in UnderLock
                      /\ worker[conns'[c].lock].job.conn = c
      BY DEF SqlLocks, ConnOf
  <2> QED BY <1>1 DEF SqlLocks, ConnOf
<1>8. SqlBarred'
  <2> SUFFICES ASSUME NEW c \in 1..Len(conns), conns'[c].closed, c \notin raced'
               PROVE  /\ ~conns'[c].open
                      /\ \A w \in Workers :
                            (worker[w].at \in UnderLock /\ ConnOf(w) = c) => worker[w].at = "locked"
      BY <1>3 DEF SqlBarred
  <2>1. CASE conns'[c] = conns[c] /\ c \notin raced
      BY <1>1, <2>1 DEF SqlBarred
  <2>2. CASE conns[c].lock = None /\ ~conns'[c].open
      BY <1>2, <2>2
  <2> QED BY <2>1, <2>2
<1> QED BY <1>1, <1>4, <1>5, <1>6, <1>7, <1>8, SqlShutNext, SqlPartsNext

LEMMA SqlKept ==
    ASSUME SqlInv
    PROVE  /\ pending \in Seq(Job) /\ \A job \in Elements(pending) : job \in Job /\ job.conn \in 1..Len(conns)
           /\ nextId \in 1..MaxRequests + 1 /\ generation \in 1..MaxGenerations + 1
           /\ done \in Seq(Reply) /\ batch \in Seq(Reply) /\ stopping \in BOOLEAN
           /\ pc \in GameStates /\ target \in 1..MaxConns \cup Plugins \cup {None}
           /\ calling \in Reply \cup {None} /\ called \subseteq Ids
           /\ conns \in Seq(Conn) /\ Len(conns) \in Nat /\ Len(conns) <= MaxConns
           /\ raced \subseteq 1..MaxConns
           /\ worker \in [Workers -> SqlWorker] /\ SqlTurns
           /\ MaxConns \in Nat /\ MaxRequests \in Nat /\ MaxGenerations \in Nat \ {0}
<1>1. Parameters /\ TypeOK /\ SqlHolding /\ SqlTurns
    BY SqlParts
<1>2. \A job \in Elements(pending) : job \in Job
    BY <1>1 DEF TypeOK, Elements
<1> QED BY <1>1, <1>2, SqlFacts DEF TypeOK, SqlHolding, Parameters

LEMMA SqlNotNone ==
    ASSUME SqlInv
    PROVE  (\A job \in Job : job # None) /\ \A reply \in Reply : reply # None
BY SqlParts DEF Parameters

LEMMA SqlAtReady ==
    ASSUME SqlInv, NEW w \in Workers, worker[w].at \in {"ready", "waiting", "absent", "locking", "posting", "exited"}
    PROVE  worker[w].at \notin UnderLock /\ Fits(worker[w], Len(conns))
<1>1. TypeOK /\ SqlHolding
    BY SqlParts
<1>2. worker[w] \in SqlWorker /\ worker[w].at \notin UnderLock
    BY <1>1, SqlFacts DEF UnderLock
<1>3. worker[w].todo = <<>>
    BY <1>1 DEF TypeOK
<1>4. ConnOf(w) = worker[w].job.conn
    BY DEF ConnOf
<1> QED BY <1>1, <1>2, <1>3, <1>4 DEF Fits, SqlHolding

\* A worker between two requests turns from one to the other.
LEMMA SqlRests ==
    ASSUME SqlInv, NEW w \in Workers, worker[w].at \in {"ready", "waiting"},
           NEW state \in {"ready", "waiting", "exited"},
           NEW t, t = [worker[w] EXCEPT !.at = state]
    PROVE  Fits(t, Len(conns))
<1>1. PICK u \in SqlWorker : u = worker[w]
    BY SqlKept
<1>2. Fits(u, Len(conns))
    BY <1>1, SqlAtReady
<1>3. t = [u EXCEPT !.at = state]
    BY <1>1
<1>4. t \in SqlWorker /\ t.at = state /\ t.job = u.job /\ t.todo = u.todo
    BY <1>3 DEF SqlWorker, WorkerStates
<1>5. state \notin UnderLock /\ state \notin {"locking", "posting"} /\ u.at \notin {"locking", "posting"}
    BY <1>1 DEF UnderLock
<1> QED BY <1>2, <1>4, <1>5 DEF Fits

LEMMA SqlTake ==
    ASSUME SqlInv, NEW w \in Workers, Take(w) PROVE SqlInv'
<1>1. PICK job : job = Head(pending)
    OBVIOUS
<1>2. job \in Elements(pending)
    BY <1>1, SqlKept DEF Take, Elements
<1>3. job \in Job /\ job.conn \in 1..Len(conns) /\ job # None
  <2>1. job \in Job /\ job.conn \in 1..Len(conns)
      BY <1>2, SqlKept
  <2> QED BY <2>1, SqlNotNone
<1>4. PICK t : t = [at |-> "locking", job |-> job, todo |-> <<>>]
    OBVIOUS
<1>5. Fits(t, Len(conns))
  <2>1. <<>> \in Seq(Migrations)
      OBVIOUS
  <2>2. t \in SqlWorker
      BY <1>3, <1>4, <2>1 DEF SqlWorker, WorkerStates
  <2> QED BY <1>3, <1>4, <2>2 DEF Fits, UnderLock
<1>6. worker' = [worker EXCEPT ![w] = t]
    BY <1>1, <1>4 DEF Take
<1>7. worker' \in [Workers -> SqlWorker]
    BY <1>5, <1>6, SqlKept DEF Fits
<1>8. \A v \in Workers : worker'[v] = worker[v]
           \/ (worker[v].at \notin UnderLock /\ Fits(worker'[v], Len(conns)))
  <2>1. worker[w].at \notin UnderLock
      BY DEF Take, UnderLock
  <2> QED BY <1>5, <1>6, <2>1, SqlKept
<1>9. pending' \in Seq(Job) /\ \A j \in Elements(pending') : j.conn \in 1..Len(conns)
  <2>1. pending \in Seq(Job) /\ pending # <<>> /\ pending' = Tail(pending)
      BY SqlKept DEF Take
  <2>2. Elements(pending') \subseteq Elements(pending)
    <3>1. \A k \in 1..Len(pending') : pending'[k] = pending[k + 1] /\ k + 1 \in 1..Len(pending)
        BY <2>1
    <3> QED BY <3>1 DEF Elements
  <2> QED BY <2>1, <2>2, SqlKept
<1>10. UNCHANGED <<nextId, generation, done, stopping, conns, recorded, repeated, excused,
                   pc, target, batch, calling, called, raced>>
    BY DEF Take, database, game
<1>11. SqlTurns'
    BY <1>10, SqlKept DEF SqlTurns
<1> QED BY <1>7, <1>8, <1>9, <1>10, <1>11, SqlKept, SqlAway

LEMMA SqlWait ==
    ASSUME SqlInv, NEW w \in Workers, Wait(w) PROVE SqlInv'
<1>1. PICK t : t = [worker[w] EXCEPT !.at = "waiting"]
    OBVIOUS
<1>2. worker[w].at = "ready" /\ worker[w].at \notin UnderLock
    BY DEF Wait, UnderLock
<1>3. Fits(t, Len(conns))
    BY <1>1, <1>2, SqlRests
<1>4. worker' = [worker EXCEPT ![w] = t]
    BY <1>1 DEF Wait
<1>5. /\ worker' \in [Workers -> SqlWorker]
      /\ \A v \in Workers : worker'[v] = worker[v]
              \/ (worker[v].at \notin UnderLock /\ Fits(worker'[v], Len(conns)))
    BY <1>2, <1>3, <1>4, SqlKept DEF Fits
<1>6. UNCHANGED <<nextId, generation, pending, done, stopping, conns, recorded, repeated, excused,
                  pc, target, batch, calling, called, raced>>
    BY DEF Wait, database, game, queues
<1>7. SqlTurns'
    BY <1>6, SqlKept DEF SqlTurns
<1> QED BY <1>5, <1>6, <1>7, SqlKept, SqlAway

LEMMA SqlExit ==
    ASSUME SqlInv, NEW w \in Workers, Exit(w) PROVE SqlInv'
<1>1. PICK t : t = [worker[w] EXCEPT !.at = "exited"]
    OBVIOUS
<1>2. worker[w].at = "ready" /\ worker[w].at \notin UnderLock
    BY DEF Exit, UnderLock
<1>3. Fits(t, Len(conns))
    BY <1>1, <1>2, SqlRests
<1>4. worker' = [worker EXCEPT ![w] = t]
    BY <1>1 DEF Exit
<1>5. /\ worker' \in [Workers -> SqlWorker]
      /\ \A v \in Workers : worker'[v] = worker[v]
              \/ (worker[v].at \notin UnderLock /\ Fits(worker'[v], Len(conns)))
    BY <1>2, <1>3, <1>4, SqlKept DEF Fits
<1>6. UNCHANGED <<nextId, generation, pending, done, stopping, conns, recorded, repeated, excused,
                  pc, target, batch, calling, called, raced>>
    BY DEF Exit, database, game, queues
<1>7. SqlTurns'
    BY <1>6, SqlKept DEF SqlTurns
<1> QED BY <1>5, <1>6, <1>7, SqlKept, SqlAway

LEMMA SqlPost ==
    ASSUME SqlInv, NEW w \in Workers, Post(w) PROVE SqlInv'
<1>1. worker[w].at = "posting" /\ worker[w].at \notin UnderLock
    BY DEF Post, UnderLock
<1>2. worker[w].job \in Job
    BY <1>1, SqlParts, SqlFacts DEF SqlHolding
<1>3. /\ worker' \in [Workers -> SqlWorker]
      /\ \A v \in Workers : worker'[v] = worker[v]
              \/ (worker[v].at \notin UnderLock /\ Fits(worker'[v], Len(conns)))
    BY <1>1, SqlKept, SqlIdle DEF Post
<1>4. done' \in Seq(Reply)
  <2>1. worker[w].job.reply \in Reply
      BY <1>2 DEF Job
  <2> QED BY <2>1, SqlKept DEF Post
<1>5. UNCHANGED <<nextId, generation, pending, stopping, conns, recorded, repeated, excused,
                  pc, target, batch, calling, called, raced>>
    BY DEF Post, database, game
<1>6. SqlTurns'
    BY <1>5, SqlKept DEF SqlTurns
<1> QED BY <1>3, <1>4, <1>5, <1>6, SqlKept, SqlAway

LEMMA SqlShutdown ==
    ASSUME SqlInv, Shutdown PROVE SqlInv'
<1>1. worker' = [w \in Workers |->
          IF worker[w].at = "waiting" THEN [worker[w] EXCEPT !.at = "ready"] ELSE worker[w]]
    BY DEF Shutdown
<1>2. ASSUME NEW w \in Workers
      PROVE  /\ worker'[w] \in SqlWorker
             /\ worker'[w] = worker[w]
                \/ (worker[w].at \notin UnderLock /\ Fits(worker'[w], Len(conns)))
  <2>1. CASE worker[w].at = "waiting"
    <3>1. PICK t : t = [worker[w] EXCEPT !.at = "ready"]
        OBVIOUS
    <3>2. Fits(t, Len(conns)) /\ worker[w].at \notin UnderLock
        BY <2>1, <3>1, SqlRests, SqlAtReady
    <3>3. worker'[w] = t
        BY <1>1, <2>1, <3>1
    <3> QED BY <3>2, <3>3 DEF Fits
  <2>2. CASE worker[w].at # "waiting"
      BY <1>1, <2>2, SqlKept
  <2> QED BY <2>1, <2>2
<1>3. worker' \in [Workers -> SqlWorker]
    BY <1>1, <1>2
<1>4. /\ generation' \in 1..MaxGenerations + 1
      /\ pending' = <<>> /\ done' = <<>> /\ stopping' = TRUE /\ pc' = "joining"
  <2>1. generation <= MaxGenerations
      BY SqlKept DEF Shutdown, BetweenFrames, InLua, SqlTurns
  <2>2. generation' = generation + 1
      BY DEF Shutdown, Disown
  <2> QED BY <2>1, <2>2, SqlKept DEF Shutdown, Disown
<1>5. UNCHANGED <<nextId, conns, recorded, repeated, excused, target, batch, calling, called, raced>>
    BY DEF Shutdown, database
<1>6. /\ pending' \in Seq(Job) /\ done' \in Seq(Reply) /\ stopping' \in BOOLEAN
      /\ \A job \in Elements(pending') : job.conn \in 1..Len(conns')
      /\ pc' \in GameStates /\ SqlTurns'
    BY <1>4 DEF Elements, GameStates, SqlTurns
<1> QED BY <1>2, <1>3, <1>4, <1>5, <1>6, SqlKept, SqlAway

\* start_workers leaves threads that are at a request alone.
LEMMA SqlStarted ==
    ASSUME SqlInv
    PROVE  /\ Started \in [Workers -> SqlWorker]
           /\ \A w \in Workers : Started[w] = worker[w]
                  \/ (worker[w].at \notin UnderLock /\ Fits(Started[w], Len(conns)))
<1>1. CASE \A w \in Workers : worker[w].at = "absent"
  <2>1. \A w \in Workers : worker[w].at \notin UnderLock
      BY <1>1 DEF UnderLock
  <2> QED BY <1>1, <2>1, SqlIdle DEF Started
<1>2. CASE ~(\A w \in Workers : worker[w].at = "absent")
    BY <1>2, SqlKept DEF Started
<1> QED BY <1>1, <1>2

LEMMA SqlNotified ==
    ASSUME SqlInv, NEW pool \in NotifyOne(Started)
    PROVE  /\ pool \in [Workers -> SqlWorker]
           /\ \A w \in Workers : pool[w] = worker[w]
                  \/ (worker[w].at \notin UnderLock /\ Fits(pool[w], Len(conns)))
<1>1. PICK begun : begun = Started
    OBVIOUS
<1>2. /\ begun \in [Workers -> SqlWorker]
      /\ \A w \in Workers : begun[w] = worker[w]
             \/ (worker[w].at \notin UnderLock /\ Fits(begun[w], Len(conns)))
    BY <1>1, SqlStarted
<1>3. CASE pool = begun
    BY <1>2, <1>3
<1>4. CASE \E w \in Workers : begun[w].at = "waiting" /\ pool = [begun EXCEPT ![w].at = "ready"]
  <2>1. PICK w \in Workers : begun[w].at = "waiting" /\ pool = [begun EXCEPT ![w].at = "ready"]
      BY <1>4
  <2>2. begun[w] = worker[w]
    <3>1. CASE \A v \in Workers : worker[v].at = "absent"
        BY <1>1, <2>1, <3>1 DEF Started, Idle
    <3>2. CASE ~(\A v \in Workers : worker[v].at = "absent")
        BY <1>1, <3>2 DEF Started
    <3> QED BY <3>1, <3>2
  <2>3. PICK t : t = [worker[w] EXCEPT !.at = "ready"]
      OBVIOUS
  <2>4. Fits(t, Len(conns)) /\ worker[w].at \notin UnderLock
      BY <2>1, <2>2, <2>3, SqlRests, SqlAtReady
  <2>5. pool = [begun EXCEPT ![w] = t]
      BY <2>1, <2>2, <2>3
  <2> QED BY <1>2, <2>4, <2>5 DEF Fits
<1> QED BY <1>1, <1>3, <1>4 DEF NotifyOne

LEMMA SqlAsk ==
    ASSUME SqlInv, NEW p \in Plugins, NEW c \in 1..MaxConns, NEW steps \in Batches \cup {<<>>},
           Ask(p, c, steps)
    PROVE  SqlInv'
<1>1. PICK reply : reply = [id |-> nextId, plugin |-> p, generation |-> generation, callback |-> TRUE]
    OBVIOUS
<1>2. PICK job : job = [conn |-> c, steps |-> steps, reply |-> reply]
    OBVIOUS
<1>3. nextId \in Ids /\ c \in 1..Len(conns) /\ UNCHANGED <<generation, done, conns, database, game, called, raced>>
    BY DEF Ask, Usable
<1>4. reply \in Reply
    BY <1>1, <1>3, SqlKept DEF Reply
<1>5. job \in Job /\ job.conn = c
    BY <1>2, <1>4 DEF Job
<1>6. pending' = Append(pending, job) /\ nextId' = nextId + 1
    BY <1>1, <1>2 DEF Ask
<1>7. pending' \in Seq(Job) /\ \A j \in Elements(pending') : j.conn \in 1..Len(conns)
  <2>1. pending \in Seq(Job)
      BY SqlKept
  <2>2. pending' \in Seq(Job) /\ Elements(pending') \subseteq Elements(pending) \cup {job}
    <3>1. \A k \in 1..Len(pending') : pending'[k] = job \/ (k \in 1..Len(pending) /\ pending'[k] = pending[k])
        BY <1>5, <1>6, <2>1
    <3> QED BY <1>5, <1>6, <2>1, <3>1 DEF Elements
  <2> QED BY <1>3, <1>5, <2>2, SqlKept
<1>8. nextId' \in 1..MaxRequests + 1
    BY <1>3, <1>6, SqlKept DEF Ids
<1>9. stopping' \in BOOLEAN
  <2>1. stopping' = (stopping /\ Started = worker)
      BY DEF Ask
  <2> QED BY <2>1, SqlKept
<1>10. PICK pool \in NotifyOne(Started) : worker' = pool
    BY DEF Ask
<1>11. /\ worker' \in [Workers -> SqlWorker]
       /\ \A w \in Workers : worker'[w] = worker[w]
               \/ (worker[w].at \notin UnderLock /\ Fits(worker'[w], Len(conns)))
    BY <1>10, SqlNotified
<1>12. UNCHANGED <<generation, done, conns, recorded, repeated, excused,
                   pc, target, batch, calling, called, raced>>
    BY <1>3 DEF database, game
<1>13. SqlTurns'
    BY <1>12, SqlKept DEF SqlTurns
<1> QED BY <1>7, <1>8, <1>9, <1>11, <1>12, <1>13, SqlKept, SqlAway

-----------------------------------------------------------------------------
(* The game thread                                                         *)

LEMMA SqlConnect ==
    ASSUME SqlInv, NEW p \in Plugins, Connect(p) PROVE SqlInv'
<1>1. PICK e : e = [plugin |-> p, generation |-> generation, open |-> FALSE,
                    closed |-> FALSE, lock |-> None]
    OBVIOUS
<1>2. InLua /\ Len(conns) < MaxConns /\ conns' = Append(conns, e)
    BY <1>1 DEF Connect
<1>3. generation <= MaxGenerations
    BY <1>2, SqlKept DEF InLua, SqlTurns
<1>4. e \in Conn /\ ~e.open /\ ~e.closed /\ e.lock = None
    BY <1>1, <1>3, SqlKept DEF Conn
<1>5. /\ conns' \in Seq(Conn) /\ Len(conns') = Len(conns) + 1 /\ Len(conns) \in Nat
      /\ Len(conns') <= MaxConns
      /\ \A c \in 1..Len(conns) : conns'[c] = conns[c]
      /\ conns'[Len(conns) + 1] = e
    BY <1>2, <1>4, SqlKept
<1>6. \A c \in 1..Len(conns') : c \notin 1..Len(conns) =>
          ~conns'[c].open /\ ~conns'[c].closed /\ conns'[c].lock = None
    BY <1>4, <1>5
<1>7. UNCHANGED <<nextId, generation, pending, done, stopping, worker, recorded, repeated, excused,
                  pc, target, batch, calling, called, raced>>
    BY DEF Connect, queues, database, game
<1>8. SqlTurns'
    BY <1>7, SqlKept DEF SqlTurns
<1>9. \A job \in Elements(pending') : job.conn \in 1..Len(conns')
    BY <1>5, <1>7, SqlKept
<1> QED BY <1>5, <1>6, <1>7, <1>8, <1>9, SqlKept, SqlAway

LEMMA SqlClose ==
    ASSUME SqlInv, NEW c \in 1..MaxConns, Close(c) PROVE SqlInv'
<1>1. UNCHANGED <<nextId, generation, pending, done, stopping, worker, conns, recorded, repeated, excused,
                  batch, calling, called, raced>>
    BY DEF Close, queues, database
<1>2. pc' \in GameStates /\ target' \in 1..MaxConns \cup Plugins \cup {None} /\ SqlTurns'
    BY <1>1, SqlKept DEF Close, GameStates, SqlTurns, InLua
<1> QED BY <1>1, <1>2, SqlKept, SqlAside

LEMMA SqlRemovePlugin ==
    ASSUME SqlInv, NEW p \in Plugins, RemovePlugin(p) PROVE SqlInv'
<1>1. UNCHANGED <<nextId, generation, done, stopping, worker, conns, recorded, repeated, excused,
                  batch, calling, called, raced>>
    BY DEF RemovePlugin, database
<1>2. pc' \in GameStates /\ target' \in 1..MaxConns \cup Plugins \cup {None} /\ SqlTurns'
    BY <1>1, SqlKept DEF RemovePlugin, GameStates, SqlTurns, InLua
<1>3. PICK doomed : pending' = Without(pending, doomed)
    BY DEF RemovePlugin
<1>4. /\ pending' \in Seq(Job)
      /\ \E at : Picks(pending, doomed, Len(pending), pending', at)
    BY <1>3, SqlKept, WithoutPicks
<1>5. Elements(pending') \subseteq Elements(pending)
    BY <1>4 DEF Picks, Elements
<1> QED BY <1>1, <1>2, <1>4, <1>5, SqlKept, SqlAside

LEMMA SqlStartDrain ==
    ASSUME SqlInv, StartDrain PROVE SqlInv'
<1>1. UNCHANGED <<nextId, generation, pending, stopping, worker, conns, recorded, repeated, excused,
                  target, calling, called, raced>>
    BY DEF StartDrain, database
<1>2. /\ pc' \in GameStates /\ SqlTurns'
      /\ batch' \in Seq(Reply) /\ done' \in Seq(Reply)
    BY <1>1, SqlKept DEF StartDrain, GameStates, SqlTurns, BetweenFrames, InLua
<1> QED BY <1>1, <1>2, SqlKept, SqlAside

LEMMA SqlSkipReply ==
    ASSUME SqlInv, SkipReply PROVE SqlInv'
<1>1. UNCHANGED <<nextId, generation, pending, done, stopping, worker, conns, recorded, repeated, excused,
                  pc, target, calling, called, raced>>
    BY DEF SkipReply, queues, database
<1>2. batch' \in Seq(Reply)
    BY SqlKept DEF SkipReply
<1>3. SqlTurns'
    BY <1>1, SqlKept DEF SqlTurns
<1> QED BY <1>1, <1>2, <1>3, SqlKept, SqlAside

LEMMA SqlCallBack ==
    ASSUME SqlInv, CallBack PROVE SqlInv'
<1>1. UNCHANGED <<nextId, generation, pending, done, stopping, worker, conns, recorded, repeated, excused,
                  target, raced>>
    BY DEF CallBack, queues, database
<1>2. batch \in Seq(Reply) /\ batch # <<>> /\ called \subseteq Ids
    BY SqlKept DEF CallBack
<1>3. PICK reply \in Reply : reply = Head(batch)
    BY <1>2
<1>4. reply.id \in Ids
    BY DEF Reply
<1>5. /\ batch' \in Seq(Reply) /\ calling' \in Reply \cup {None} /\ called' \subseteq Ids
    BY <1>2, <1>3, <1>4 DEF CallBack
<1>6. pc' \in GameStates /\ SqlTurns'
    BY <1>1, SqlKept DEF CallBack, GameStates, SqlTurns
<1> QED BY <1>1, <1>5, <1>6, SqlKept, SqlAside

LEMMA SqlReturned ==
    ASSUME SqlInv, Returned PROVE SqlInv'
<1>1. UNCHANGED <<nextId, generation, pending, done, stopping, worker, conns, recorded, repeated, excused,
                  target, batch, called, raced>>
    BY DEF Returned, queues, database
<1>2. pc' \in GameStates /\ calling' \in Reply \cup {None} /\ SqlTurns'
    BY <1>1, SqlKept DEF Returned, GameStates, SqlTurns, InLua
<1> QED BY <1>1, <1>2, SqlKept, SqlAside

LEMMA SqlEndDrain ==
    ASSUME SqlInv, EndDrain PROVE SqlInv'
<1>1. UNCHANGED <<nextId, generation, pending, done, stopping, worker, conns, recorded, repeated, excused,
                  target, batch, calling, called, raced>>
    BY DEF EndDrain, queues, database
<1>2. pc' \in GameStates /\ SqlTurns'
    BY <1>1, SqlKept DEF EndDrain, GameStates, SqlTurns
<1> QED BY <1>1, <1>2, SqlKept, SqlAside

LEMMA SqlReset ==
    ASSUME SqlInv, Reset PROVE SqlInv'
<1>1. UNCHANGED <<nextId, stopping, worker, conns, recorded, repeated, excused,
                  pc, target, batch, calling, called, raced>>
    BY DEF Reset, database, game
<1>2. generation < MaxGenerations /\ generation' = generation + 1 /\ pending' = <<>> /\ done' = <<>>
    BY DEF Reset, Disown
<1>3. /\ generation' \in 1..MaxGenerations + 1 /\ SqlTurns'
      /\ pending' \in Seq(Job) /\ done' \in Seq(Reply)
      /\ \A job \in Elements(pending') : job.conn \in 1..Len(conns)
    BY <1>1, <1>2, SqlKept DEF SqlTurns, Elements
<1> QED BY <1>1, <1>3, SqlKept, SqlAside

LEMMA SqlCloseLocked ==
    ASSUME SqlInv, CloseLocked PROVE SqlInv'
<1>1. UNCHANGED <<nextId, generation, pending, done, stopping, worker, recorded, repeated, excused,
                  batch, calling, called, raced>>
    BY DEF CloseLocked, queues, database
<1>2. /\ pc' \in GameStates /\ target' \in 1..MaxConns \cup Plugins \cup {None} /\ SqlTurns'
    BY <1>1, SqlKept DEF CloseLocked, GameStates, SqlTurns
<1>3. PICK c : c = target
    OBVIOUS
<1>4. conns[c].lock = None
      /\ conns' = [conns EXCEPT ![c].closed = TRUE, ![c].open = FALSE]
    BY <1>3 DEF CloseLocked
<1>5. CASE c \in 1..Len(conns)
  <2>1. PICK e \in Conn : e = conns[c]
      BY <1>5, SqlKept
  <2> DEFINE f == [e EXCEPT !.closed = TRUE, !.open = FALSE]
  <2>2. f \in Conn /\ f.lock = e.lock /\ ~f.open
      BY DEF Conn
  <2>3. conns' = [conns EXCEPT ![c] = f]
      BY <1>4, <1>5, <2>1, SqlKept DEF Conn
  <2> HIDE DEF f
  <2>4. /\ conns' \in Seq(Conn) /\ Len(conns') = Len(conns) /\ conns'[c] = f
        /\ \A d \in 1..Len(conns) : d # c => conns'[d] = conns[d]
      BY <1>5, <2>2, <2>3, SqlKept, SqlPut
  <2>5. \A d \in 1..Len(conns) :
            /\ conns'[d].lock = conns[d].lock
            /\ conns[d].lock # None => conns'[d].open = conns[d].open
            /\ (conns'[d].closed /\ d \notin raced') =>
                  \/ conns'[d] = conns[d] /\ d \notin raced
                  \/ conns[d].lock = None /\ ~conns'[d].open
      BY <1>1, <1>4, <2>1, <2>2, <2>4
  <2> QED BY <1>1, <1>2, <2>4, <2>5, SqlKept, SqlTaken
<1>6. CASE c \notin 1..Len(conns)
  <2>1. conns' = conns
      BY <1>4, <1>6, SqlKept
  <2> QED BY <1>1, <1>2, <2>1, SqlKept, SqlAside
<1> QED BY <1>5, <1>6

LEMMA SqlRemoveReplies ==
    ASSUME SqlInv, RemoveReplies PROVE SqlInv'
<1>1. UNCHANGED <<nextId, generation, pending, stopping, worker, recorded, repeated, excused,
                  batch, calling, called>>
    BY DEF RemoveReplies, database
<1>2. /\ pc' \in GameStates /\ target' \in 1..MaxConns \cup Plugins \cup {None} /\ SqlTurns'
    BY <1>1, SqlKept DEF RemoveReplies, GameStates, SqlTurns
<1>3. PICK p : p = target
    OBVIOUS
<1>4. done' \in Seq(Reply)
  <2>1. done' = [k \in 1..Len(done) |->
                   IF done[k].plugin = p THEN [done[k] EXCEPT !.callback = FALSE] ELSE done[k]]
      BY <1>3 DEF RemoveReplies
  <2>2. Len(done) \in Nat /\ \A k \in 1..Len(done) : done[k] \in Reply
      BY SqlKept
  <2>3. \A reply \in Reply : [reply EXCEPT !.callback = FALSE] \in Reply
      BY DEF Reply
  <2>4. done' \in [1..Len(done) -> Reply]
      BY <2>1, <2>2, <2>3
  <2> QED BY <2>2, <2>4
<1> DEFINE Taken(c) == [conns[c] EXCEPT !.closed = TRUE, !.open = @ /\ conns[c].lock # None]
           held == {c \in OwnedBy(p) : conns[c].lock # None}
<1>5. /\ conns' = [c \in 1..Len(conns) |-> IF c \in OwnedBy(p) THEN Taken(c) ELSE conns[c]]
      /\ raced' = raced \cup held
    BY <1>3 DEF RemoveReplies, TakeAway
<1>6. ASSUME NEW c \in 1..Len(conns)
      PROVE  /\ Taken(c) \in Conn /\ Taken(c).lock = conns[c].lock
             /\ Taken(c).open = (conns[c].open /\ conns[c].lock # None)
             /\ conns[c] \in Conn /\ conns[c].open \in BOOLEAN
             /\ c \in OwnedBy(p) /\ conns[c].lock # None => c \in held
  <2>1. PICK e \in Conn : e = conns[c]
      BY SqlKept
  <2>2. PICK open \in BOOLEAN : open = (e.open /\ e.lock # None)
      OBVIOUS
  <2> DEFINE f == [e EXCEPT !.closed = TRUE, !.open = open]
  <2>3. f \in Conn /\ f.lock = e.lock /\ f.open = open /\ e.open \in BOOLEAN
      BY DEF Conn
  <2>4. Taken(c) = f
      BY <2>1, <2>2
  <2> HIDE DEF f, Taken
  <2> QED BY <2>1, <2>2, <2>3, <2>4
<1>7. held \subseteq 1..MaxConns
  <2>1. OwnedBy(p) \subseteq 1..Len(conns)
      BY DEF OwnedBy
  <2> QED BY <2>1, SqlKept
<1> HIDE DEF Taken, held
<1>8. \A c \in 1..Len(conns) : conns'[c] = IF c \in OwnedBy(p) THEN Taken(c) ELSE conns[c]
    BY <1>5
<1>9. conns' \in Seq(Conn) /\ Len(conns') = Len(conns)
  <2>1. conns' \in [1..Len(conns) -> Conn] /\ Len(conns) \in Nat
      BY <1>5, <1>6, SqlKept
  <2> QED BY <2>1
<1>10. ASSUME NEW c \in 1..Len(conns)
       PROVE  /\ conns'[c].lock = conns[c].lock
              /\ conns[c].lock # None => conns'[c].open = conns[c].open
              /\ (conns'[c].closed /\ c \notin raced') =>
                    \/ conns'[c] = conns[c] /\ c \notin raced
                    \/ conns[c].lock = None /\ ~conns'[c].open
  <2>1. CASE c \in OwnedBy(p)
    <3>1. conns'[c] = Taken(c)
        BY <1>8, <2>1
    <3>2. conns[c].lock # None => c \in raced'
        BY <1>5, <1>6, <2>1
    <3> QED BY <1>6, <3>1, <3>2
  <2>2. CASE c \notin OwnedBy(p)
      BY <1>5, <1>8, <2>2
  <2> QED BY <2>1, <2>2
<1>11. raced' \subseteq 1..MaxConns
    BY <1>5, <1>7, SqlKept
<1> QED BY <1>1, <1>2, <1>4, <1>9, <1>10, <1>11, SqlKept, SqlTaken

LEMMA SqlJoined ==
    ASSUME SqlInv, Joined PROVE SqlInv'
<1>1. /\ Parameters /\ TypeOK /\ SqlHolding /\ SqlLocks /\ SqlBarred
    BY SqlParts
<1>2. PICK t : t = [Idle EXCEPT !.at = "absent"]
    OBVIOUS
<1>3. Fits(t, Len(conns)) /\ t.at = "absent" /\ t.job = None
    BY <1>2, SqlIdle DEF Idle
<1>4. worker' = [w \in Workers |-> t]
    BY <1>2 DEF Joined
<1>5. /\ worker' \in [Workers -> SqlWorker]
      /\ \A w \in Workers : Fits(worker'[w], Len(conns)) /\ worker'[w] = t
    BY <1>3, <1>4 DEF Fits
\* Nobody is left to hold a lock.
<1>6. \A w \in Workers : worker[w].at \notin UnderLock
    BY DEF Joined, UnderLock
<1>7. \A c \in 1..Len(conns) : conns[c].lock = None
    BY <1>1, <1>6 DEF SqlLocks
<1> DEFINE Emptied(c) == [conns[c] EXCEPT !.open = FALSE]
<1>8. conns' = [c \in 1..Len(conns) |-> Emptied(c)]
    BY DEF Joined
<1>9. ASSUME NEW c \in 1..Len(conns)
      PROVE  Emptied(c) \in Conn /\ Emptied(c).lock = conns[c].lock /\ ~Emptied(c).open
  <2>1. PICK e \in Conn : e = conns[c]
      BY SqlKept
  <2>2. [e EXCEPT !.open = FALSE] \in Conn /\ [e EXCEPT !.open = FALSE].lock = e.lock
        /\ ~[e EXCEPT !.open = FALSE].open
      BY DEF Conn
  <2> QED BY <2>1, <2>2
<1> HIDE DEF Emptied
<1>10. /\ conns' \in Seq(Conn) /\ Len(conns') = Len(conns)
       /\ \A c \in 1..Len(conns) : conns'[c].lock = None /\ ~conns'[c].open
  <2>1. conns' \in [1..Len(conns) -> Conn] /\ Len(conns) \in Nat
      BY <1>8, <1>9, SqlKept
  <2> QED BY <1>7, <1>8, <1>9, <2>1
<1>11. UNCHANGED <<nextId, generation, pending, done, stopping, recorded, repeated, excused,
                   target, batch, calling, called, raced>> /\ pc' = "down"
    BY DEF Joined, queues, database
<1>12. TypeOK'
  <2>1. worker' \in [Workers -> [at : WorkerStates, job : Job \cup {None}, todo : Seq(Migrations)]]
      BY <1>5 DEF SqlWorker
  <2>2. \A w \in Workers : worker'[w].at \in {"running", "recording"} <=> worker'[w].todo # <<>>
      BY <1>3, <1>5 DEF Fits
  <2>3. pc' \in GameStates
      BY <1>11 DEF GameStates
  <2> QED BY <1>1, <1>10, <1>11, <2>1, <2>2, <2>3 DEF TypeOK
<1>13. \A w \in Workers : worker'[w].at \notin UnderLock /\ worker'[w].at \notin Migrating
    BY <1>3, <1>5 DEF UnderLock, Migrating
<1>14. HandleIsHeld'
    BY <1>13 DEF HandleIsHeld
<1>15. SqlHolding'
  <2>1. \A w \in Workers : worker'[w].job = None /\ worker'[w].at = "absent"
      BY <1>3, <1>5
  <2> QED BY <1>1, <1>10, <1>11, <1>13, <2>1 DEF SqlHolding, Elements
<1>16. SqlLocks'
    BY <1>10 DEF SqlLocks
<1>17. SqlBarred'
    BY <1>10, <1>13 DEF SqlBarred
<1>18. SqlTurns'
    BY <1>11 DEF SqlTurns
<1> QED BY <1>1, <1>12, <1>14, <1>15, <1>16, <1>17, <1>18, SqlShutNext, SqlPartsNext

LEMMA SqlInit ==
    ASSUME Parameters, Init PROVE SqlInv
<1>1. PICK t : t = [Idle EXCEPT !.at = "absent"]
    OBVIOUS
<1>2. Fits(t, 0) /\ t.at = "absent" /\ t.job = None
    BY <1>1, SqlIdle DEF Idle
<1>3. worker = [w \in Workers |-> t]
    BY <1>1 DEF Init
<1>4. /\ nextId = 1 /\ generation = 1 /\ pending = <<>> /\ done = <<>> /\ stopping = FALSE
      /\ conns = <<>> /\ recorded = {} /\ pc = "lua" /\ target = None /\ batch = <<>>
      /\ calling = None /\ called = {} /\ raced = {} /\ repeated = {} /\ excused = FALSE
    BY DEF Init
<1>5. \A w \in Workers : worker[w] = t /\ worker[w].at \notin UnderLock /\ worker[w].at \notin Migrating
    BY <1>2, <1>3 DEF UnderLock, Migrating
<1>6. TypeOK
  <2>1. worker \in [Workers -> [at : WorkerStates, job : Job \cup {None}, todo : Seq(Migrations)]]
      BY <1>2, <1>3 DEF Fits, SqlWorker
  <2>2. \A w \in Workers : worker[w].at \in {"running", "recording"} <=> worker[w].todo # <<>>
      BY <1>2, <1>5 DEF Fits
  <2>3. 1 \in 1..MaxRequests + 1 /\ 1 \in 1..MaxGenerations + 1
      BY DEF Parameters
  <2>4. pc \in GameStates
      BY <1>4 DEF GameStates
  <2>5. pending \in Seq(Job) /\ done \in Seq(Reply) /\ batch \in Seq(Reply) /\ conns \in Seq(Conn)
    <3>1. \A T : <<>> \in Seq(T)
        OBVIOUS
    <3> QED BY <1>4, <3>1
  <2>6. nextId \in 1..MaxRequests + 1 /\ generation \in 1..MaxGenerations + 1
      BY <1>4, <2>3
  <2> QED BY <1>4, <2>1, <2>2, <2>4, <2>5, <2>6 DEF TypeOK
<1>7. HandleIsHeld
    BY <1>5 DEF HandleIsHeld
<1>8. Len(conns) = 0 /\ Elements(pending) = {}
    BY <1>4 DEF Elements
<1>9. SqlHolding
  <2>1. \A w \in Workers : worker[w].job = None /\ worker[w].at = "absent"
      BY <1>2, <1>5
  <2> QED BY <1>5, <1>8, <2>1 DEF SqlHolding, Parameters
<1>10. SqlLocks /\ SqlBarred
    BY <1>8 DEF SqlLocks, SqlBarred
<1>11. SqlTurns
    BY <1>4 DEF SqlTurns, Parameters
<1> QED BY <1>6, <1>7, <1>9, <1>10, <1>11, SqlShut, SqlParts

LEMMA SqlStutter ==
    ASSUME SqlInv, UNCHANGED vars PROVE SqlInv'
<1>1. UNCHANGED <<nextId, generation, pending, done, stopping, worker, conns, recorded, repeated, excused,
                  pc, target, batch, calling, called, raced>>
    BY DEF vars, queues, database, game
<1>2. SqlTurns'
    BY <1>1, SqlKept DEF SqlTurns
<1> QED BY <1>1, <1>2, SqlKept, SqlAside

LEMMA SqlNext ==
    ASSUME SqlInv, [Next]_vars PROVE SqlInv'
<1>1. ASSUME NEW w \in Workers, WorkerStep(w) PROVE SqlInv'
    BY <1>1, SqlTake, SqlWait, SqlExit, SqlPost, SqlLock, SqlCheck, SqlConnected, SqlConnectFails,
       SqlQuery, SqlReadApplied, SqlReadFails, SqlRunStep, SqlRecordStep, SqlStepFails DEF WorkerStep
<1>2. CASE LuaStep
  <2>1. ASSUME NEW p \in Plugins, Connect(p) \/ RemovePlugin(p) PROVE SqlInv'
      BY <2>1, SqlConnect, SqlRemovePlugin
  <2>2. ASSUME NEW p \in Plugins, NEW c \in 1..MaxConns, NEW steps \in Batches \cup {<<>>},
               Ask(p, c, steps)
        PROVE  SqlInv'
      BY <2>2, SqlAsk
  <2>3. ASSUME NEW c \in 1..MaxConns, Close(c) PROVE SqlInv'
      BY <2>3, SqlClose
  <2> QED BY <1>2, <2>1, <2>2, <2>3 DEF LuaStep
<1>3. CASE GameStep
    BY <1>3, SqlCloseLocked, SqlRemoveReplies, SqlSkipReply, SqlCallBack, SqlEndDrain, SqlJoined DEF GameStep
<1> QED BY <1>1, <1>2, <1>3, SqlStartDrain, SqlReturned, SqlReset, SqlShutdown, SqlStutter DEF Next

-----------------------------------------------------------------------------
(* Migrations run once                                                     *)

SqlOnce == SqlInv /\ SqlRows

\* No worker begins to apply a batch, or goes on to another migration.
Undisturbed ==
    \A v \in Workers : worker'[v].at \in {"running", "recording"} => worker'[v] = worker[v]

LEMMA SqlRowsKept ==
    ASSUME SqlRows, Undisturbed, UNCHANGED <<recorded, repeated>>, excused => excused'
    PROVE  SqlRows'
<1>1. \A v \in Workers : Applying(v)' => Applying(v) /\ worker'[v] = worker[v]
    BY DEF Applying, Undisturbed
<1> QED BY <1>1 DEF SqlRows

LEMMA SqlMovesOn ==
    ASSUME NEW w \in Workers, NEW state, state \notin {"running", "recording"}, NEW job, NEW todo,
           Moved(w, state, job, todo)
    PROVE  Undisturbed
BY DEF Moved, Undisturbed

LEMMA SqlFitsOn ==
    ASSUME \A v \in Workers : worker'[v] = worker[v] \/ Fits(worker'[v], Len(conns))
    PROVE  Undisturbed
BY DEF Fits, Undisturbed, UnderLock

LEMMA SqlUnlocksOn ==
    ASSUME SqlInv, NEW w \in Workers, NEW keep, Unlock(w, keep) PROVE Undisturbed
<1>1. <<>> \in Seq(Migrations) /\ "posting" \in WorkerStates
    BY SqlStates
<1>2. Moved(w, "posting", worker[w].job, <<>>)
    BY <1>1, SqlParts, SqlTurnsTo DEF Unlock
<1> QED BY <1>2, SqlMovesOn

LEMMA SqlGoesOn ==
    ASSUME SqlInv, NEW w \in Workers, NEW state \in WorkerStates \ {"running", "recording"},
           Goto(w, state)
    PROVE  Undisturbed
<1>1. Moved(w, state, worker[w].job, worker[w].todo)
    BY SqlParts, SqlGoes DEF Goto
<1> QED BY <1>1, SqlMovesOn

\* What a worker does short of applying a batch.
LEMMA SqlWorkerOn ==
    ASSUME SqlInv, NEW w \in Workers,
           \/ Take(w) \/ Wait(w) \/ Exit(w) \/ Post(w)
           \/ Lock(w) \/ Check(w) \/ Connected(w) \/ ConnectFails(w) \/ Query(w)
           \/ ReadFails(w) \/ StepFails(w)
    PROVE  Undisturbed /\ UNCHANGED <<recorded, repeated, excused>>
<1>1. UNCHANGED <<recorded, repeated, excused>>
    BY DEF Take, Wait, Exit, Post, Lock, Check, Connected, ConnectFails, Query, ReadFails, StepFails, database
<1>2. \A v \in Workers : worker[v] \in SqlWorker
    BY SqlKept
<1>3. {"waiting", "exited", "locking", "ready", "locked", "connecting", "querying", "reading"}
          \subseteq WorkerStates \ {"running", "recording"}
    BY DEF WorkerStates, UnderLock
<1>4. CASE Take(w)
  <2>1. worker' = [worker EXCEPT ![w] = [at |-> "locking", job |-> Head(pending), todo |-> <<>>]]
      BY <1>4 DEF Take
  <2>2. worker'[w].at = "locking" /\ \A v \in Workers : v # w => worker'[v] = worker[v]
      BY <2>1, SqlKept
  <2> QED BY <1>1, <2>2 DEF Undisturbed
<1>5. CASE Post(w)
  <2>1. worker'[w] = Idle /\ \A v \in Workers : v # w => worker'[v] = worker[v]
      BY <1>5, SqlKept DEF Post
  <2> QED BY <1>1, <2>1 DEF Undisturbed, Idle
<1>6. CASE Wait(w) \/ Exit(w) \/ Lock(w)
  <2>1. \E state \in {"waiting", "exited", "locked"} : Goto(w, state)
      BY <1>6 DEF Wait, Exit, Lock, Goto
  <2> QED BY <1>1, <1>3, <2>1, SqlGoesOn
<1>7. CASE Check(w)
  <2>1. CASE conns[ConnOf(w)].closed
      BY <1>1, <1>7, <2>1, SqlUnlocksOn DEF Check
  <2>2. CASE ~conns[ConnOf(w)].closed
    <3>1. PICK state \in {"connecting", "querying", "reading"} :
              state = IF conns[ConnOf(w)].open THEN FirstCall(w) ELSE "connecting"
        BY DEF FirstCall
    <3>2. Goto(w, state)
        BY <1>7, <2>2, <3>1 DEF Check
    <3> QED BY <1>1, <1>3, <3>2, SqlGoesOn
  <2> QED BY <2>1, <2>2
<1>8. CASE Connected(w)
  <2>1. PICK state \in {"querying", "reading"} : state = FirstCall(w)
      BY DEF FirstCall
  <2>2. Goto(w, state)
      BY <1>8, <2>1 DEF Connected
  <2> QED BY <1>1, <1>3, <2>2, SqlGoesOn
<1>9. CASE ConnectFails(w) \/ Query(w) \/ ReadFails(w) \/ StepFails(w)
  <2>1. \E keep \in BOOLEAN : Unlock(w, keep)
      BY <1>9 DEF ConnectFails, Query, ReadFails, StepFails
  <2> QED BY <1>1, <2>1, SqlUnlocksOn
<1> QED BY <1>4, <1>5, <1>6, <1>7, <1>8, <1>9

\* The game thread applies nothing.
LEMMA SqlGameOn ==
    ASSUME SqlInv, LuaStep \/ GameStep \/ StartDrain \/ Returned \/ Reset \/ Shutdown \/ UNCHANGED vars
    PROVE  Undisturbed /\ UNCHANGED <<recorded, repeated, excused>>
<1>1. ASSUME UNCHANGED worker PROVE Undisturbed
    BY <1>1 DEF Undisturbed
<1>2. CASE LuaStep
  <2>1. ASSUME NEW p \in Plugins, NEW c \in 1..MaxConns, NEW steps \in Batches \cup {<<>>},
               Ask(p, c, steps)
        PROVE  Undisturbed /\ UNCHANGED <<recorded, repeated, excused>>
    <3>1. PICK pool \in NotifyOne(Started) : worker' = pool
        BY <2>1 DEF Ask
    <3>2. \A v \in Workers : worker'[v] = worker[v] \/ Fits(worker'[v], Len(conns))
        BY <3>1, SqlNotified
    <3> QED BY <2>1, <3>2, SqlFitsOn DEF Ask, database
  <2>2. ASSUME NEW p \in Plugins, Connect(p) \/ RemovePlugin(p)
        PROVE  Undisturbed /\ UNCHANGED <<recorded, repeated, excused>>
      BY <1>1, <2>2 DEF Connect, RemovePlugin, database
  <2>3. ASSUME NEW c \in 1..MaxConns, Close(c)
        PROVE  Undisturbed /\ UNCHANGED <<recorded, repeated, excused>>
      BY <1>1, <2>3 DEF Close, database
  <2> QED BY <1>2, <2>1, <2>2, <2>3 DEF LuaStep
<1>3. CASE CloseLocked \/ RemoveReplies \/ SkipReply \/ CallBack \/ EndDrain
           \/ StartDrain \/ Returned \/ Reset
    BY <1>1, <1>3 DEF CloseLocked, RemoveReplies, SkipReply, CallBack, EndDrain,
       StartDrain, Returned, Reset, database
<1>4. CASE Joined
  <2>1. worker' = [w \in Workers |-> [Idle EXCEPT !.at = "absent"]]
      BY <1>4 DEF Joined
  <2>2. \A v \in Workers : worker'[v].at = "absent"
      BY <2>1 DEF Idle
  <2> QED BY <1>4, <2>2 DEF Joined, Undisturbed, database
<1>5. CASE Shutdown
  <2>1. worker' = [w \in Workers |->
          IF worker[w].at = "waiting" THEN [worker[w] EXCEPT !.at = "ready"] ELSE worker[w]]
      BY <1>5 DEF Shutdown
  <2>2. ASSUME NEW v \in Workers, worker'[v].at \in {"running", "recording"} PROVE worker'[v] = worker[v]
    <3>1. PICK t \in SqlWorker : t = worker[v]
        BY SqlKept
    <3>2. [t EXCEPT !.at = "ready"].at = "ready"
        BY DEF SqlWorker
    <3> QED BY <2>1, <2>2, <3>1, <3>2
  <2> QED BY <1>5, <2>2 DEF Shutdown, Undisturbed, database
<1>6. CASE UNCHANGED vars
    BY <1>1, <1>6 DEF vars, database
<1> QED BY <1>2, <1>3, <1>4, <1>5, <1>6 DEF GameStep

\* Two batches that are being applied, or read for, on one connection are one.
LEMMA SqlOneReader ==
    ASSUME SqlInv, NEW v \in Workers, NEW w \in Workers, worker[v].at \in Migrating,
           worker[w].at \in Migrating, ConnOf(v) = ConnOf(w)
    PROVE  v = w
<1>1. worker[v].at \in UnderLock /\ worker[w].at \in UnderLock
    BY DEF Migrating, UnderLock
<1> QED BY <1>1, SqlParts DEF HandleIsHeld

LEMMA SqlRowsRead ==
    ASSUME SqlInv, SqlRows, NEW w \in Workers, ReadApplied(w) PROVE SqlRows'
<1>1. PICK rows \in {recorded, {}} :
          /\ excused' = (excused \/ Crossing(w) \/ Repeating(worker[w].job.steps) \/ rows # recorded)
          /\ IF Without(worker[w].job.steps, rows) = <<>> THEN Unlock(w, TRUE)
             ELSE /\ worker' = [worker EXCEPT ![w].at = "running",
                                              ![w].todo = Without(worker[w].job.steps, rows)]
                  /\ UNCHANGED conns
    BY DEF ReadApplied
<1>2. worker[w].at = "reading" /\ worker[w].at \in Migrating /\ UNCHANGED <<recorded, repeated>>
    BY DEF ReadApplied, Migrating
<1>3. PICK todo, steps : steps = worker[w].job.steps /\ todo = Without(steps, rows)
    OBVIOUS
<1>4. steps \in Seq(Migrations)
    BY <1>2, <1>3, SqlSteps
<1>5. todo \in Seq(Migrations) /\ \E at : Picks(steps, rows, Len(steps), todo, at)
    BY <1>3, <1>4, WithoutPicks
<1>6. CASE todo = <<>>
  <2>1. Undisturbed
      BY <1>1, <1>3, <1>6, SqlUnlocksOn
  <2>2. excused => excused'
      BY <1>1
  <2> QED BY <1>2, <2>1, <2>2, SqlRowsKept
<1>7. CASE todo # <<>> /\ ~excused'
  <2>1. ~excused /\ ~Crossing(w) /\ ~Repeating(steps) /\ rows = recorded
      BY <1>1, <1>3, <1>7
  <2>2. Moved(w, "running", worker[w].job, todo)
    <3>1. "running" \in WorkerStates
        BY DEF WorkerStates, UnderLock
    <3>2. worker' = [worker EXCEPT ![w].at = "running", ![w].todo = todo]
        BY <1>1, <1>3, <1>7
    <3> QED BY <1>5, <3>1, <3>2, SqlParts, SqlTurnsTo
  <2>3. ASSUME NEW v \in Workers, worker'[v].at \in {"running", "recording"} PROVE v = w
    <3>1. CASE v # w
      <4>1. worker[v].at \in Migrating
          BY <2>2, <2>3, <3>1 DEF Moved, Migrating
      <4>2. ConnOf(v) = ConnOf(w)
          BY <2>1, <4>1 DEF Crossing
      <4> QED BY <1>2, <4>1, <4>2, SqlOneReader
    <3> QED BY <3>1
  <2>4. worker'[w].todo = todo
      BY <2>2 DEF Moved
  <2>5. /\ \A k \in 1..Len(todo) : todo[k] \notin recorded
        /\ \A j, k \in 1..Len(todo) : todo[j] = todo[k] => j = k
    <3>1. PICK at : Picks(steps, rows, Len(steps), todo, at)
        BY <1>5
    <3>2. /\ at \in [1..Len(todo) -> 1..Len(steps)]
          /\ \A k \in 1..Len(todo) : todo[k] = steps[at[k]] /\ todo[k] \notin rows
          /\ \A j, k \in 1..Len(todo) : j < k => at[j] < at[k]
        BY <3>1 DEF Picks
    <3>3. ASSUME NEW j \in 1..Len(todo), NEW k \in 1..Len(todo), todo[j] = todo[k] PROVE j = k
      <4>1. at[j] = at[k]
          BY <2>1, <3>2, <3>3 DEF Repeating
      <4>2. at[j] \in 1..Len(steps) /\ at[k] \in 1..Len(steps) /\ Len(steps) \in Nat /\ Len(todo) \in Nat
          BY <1>4, <1>5, <3>2
      <4>3. ~(j < k) /\ ~(k < j)
          BY <3>2, <4>1, <4>2
      <4> QED BY <4>2, <4>3
    <3> QED BY <2>1, <3>2, <3>3
  <2>6. repeated = {}
      BY <2>1 DEF SqlRows
  <2> QED BY <1>2, <2>3, <2>4, <2>5, <2>6 DEF SqlRows, Applying
<1>8. CASE excused'
    BY <1>8 DEF SqlRows
<1> QED BY <1>6, <1>7, <1>8

LEMMA SqlRowsRun ==
    ASSUME SqlInv, SqlRows, NEW w \in Workers, RunStep(w) PROVE SqlRows'
<1>1. /\ worker[w].at = "running" /\ excused' = excused /\ recorded' = recorded
      /\ repeated' = repeated \cup ({Head(worker[w].todo)} \cap recorded)
    BY DEF RunStep
<1>2. worker[w].todo \in Seq(Migrations) /\ worker[w].todo # <<>>
    BY <1>1, SqlTodo
<1>3. Moved(w, "recording", worker[w].job, worker[w].todo)
  <2>1. "recording" \in WorkerStates
      BY DEF WorkerStates, UnderLock
  <2> QED BY <2>1, SqlParts, SqlGoes DEF RunStep, Goto
<1>4. \A v \in Workers : (Applying(v)' <=> Applying(v)) /\ worker'[v].todo = worker[v].todo
    BY <1>1, <1>3 DEF Moved, Applying
<1>5. SUFFICES ASSUME ~excused PROVE SqlRows'
    BY <1>1 DEF SqlRows
<1>6. Head(worker[w].todo) \notin recorded
  <2>1. Head(worker[w].todo) = worker[w].todo[1] /\ 1 \in 1..Len(worker[w].todo)
      BY <1>2
  <2> QED BY <1>1, <1>5, <2>1 DEF SqlRows, Applying
<1>7. repeated' = {}
    BY <1>1, <1>5, <1>6 DEF SqlRows
<1> QED BY <1>1, <1>4, <1>5, <1>7 DEF SqlRows

LEMMA SqlRowsRecord ==
    ASSUME SqlInv, SqlRows, NEW w \in Workers, RecordStep(w) PROVE SqlRows'
<1>1. /\ worker[w].at = "recording" /\ UNCHANGED <<repeated, excused>>
      /\ recorded' = recorded \cup {Head(worker[w].todo)}
    BY DEF RecordStep
<1>2. PICK old \in Seq(Migrations) : old = worker[w].todo /\ old # <<>>
    BY <1>1, SqlTodo
<1>3. PICK todo \in Seq(Migrations) : todo = Tail(old)
  <2>1. Tail(old) \in Seq(Migrations)
      BY <1>2
  <2> QED BY <2>1
<1>4. SUFFICES ASSUME ~excused PROVE SqlRows'
    BY <1>1 DEF SqlRows
<1>5. /\ \A k \in 1..Len(old) : old[k] \notin recorded
      /\ \A j, k \in 1..Len(old) : old[j] = old[k] => j = k
      /\ \A v \in Workers : Applying(v) => v = w
      /\ repeated = {}
    BY <1>1, <1>2, <1>4 DEF SqlRows, Applying
<1>6. \E state \in {"posting", "running"}, left \in {<<>>, todo} :
          /\ state = "running" => left = todo
          /\ worker' = [worker EXCEPT ![w].at = state, ![w].todo = left]
  <2>1. CASE todo = <<>>
      BY <1>2, <1>3, <2>1 DEF RecordStep, Unlock
  <2>2. CASE todo # <<>>
    <3>1. worker' = [worker EXCEPT ![w].at = "running", ![w].todo = Tail(@)]
        BY <1>2, <1>3, <2>2 DEF RecordStep
    <3>2. PICK t \in SqlWorker : t = worker[w]
        BY SqlKept
    <3>3. worker' = [worker EXCEPT ![w].at = "running", ![w].todo = todo]
        BY <1>2, <1>3, <3>1, <3>2, SqlKept DEF SqlWorker
    <3> QED BY <3>3
  <2> QED BY <2>1, <2>2
<1>7. PICK state \in {"posting", "running"}, left \in {<<>>, todo} :
          /\ state = "running" => left = todo
          /\ worker' = [worker EXCEPT ![w].at = state, ![w].todo = left]
    BY <1>6
<1>8. Moved(w, state, worker[w].job, left)
  <2>1. state \in WorkerStates
      BY DEF WorkerStates, UnderLock
  <2>2. left \in Seq(Migrations)
    <3>1. <<>> \in Seq(Migrations)
        OBVIOUS
    <3> QED BY <3>1
  <2> QED BY <1>7, <2>1, <2>2, SqlParts, SqlTurnsTo
<1>9. \A v \in Workers : Applying(v)' => v = w /\ worker'[v].todo = todo
    BY <1>5, <1>7, <1>8 DEF Moved, Applying
<1>10. /\ \A k \in 1..Len(todo) : todo[k] \notin recorded'
       /\ \A j, k \in 1..Len(todo) : todo[j] = todo[k] => j = k
  <2>1. \A k \in 1..Len(todo) : k + 1 \in 1..Len(old) /\ todo[k] = old[k + 1]
      BY <1>2, <1>3
  <2>2. Head(old) = old[1] /\ 1 \in 1..Len(old) /\ Len(todo) \in Nat
      BY <1>2, <1>3
  <2>3. \A k \in 1..Len(todo) : todo[k] # old[1]
      BY <1>5, <2>1, <2>2
  <2>4. \A j, k \in 1..Len(todo) : todo[j] = todo[k] => j = k
    <3> SUFFICES ASSUME NEW j \in 1..Len(todo), NEW k \in 1..Len(todo), todo[j] = todo[k] PROVE j = k
        OBVIOUS
    <3>1. j + 1 = k + 1
        BY <1>5, <2>1
    <3> QED BY <2>2, <3>1
  <2> QED BY <1>1, <1>2, <1>5, <2>1, <2>2, <2>3, <2>4
<1> QED BY <1>1, <1>5, <1>9, <1>10 DEF SqlRows

LEMMA SqlOnceNext ==
    ASSUME SqlOnce, [Next]_vars PROVE SqlOnce'
<1>1. SqlInv /\ SqlRows
    BY DEF SqlOnce
<1>2. SqlInv'
    BY <1>1, SqlNext
<1>3. ASSUME NEW w \in Workers, WorkerStep(w) PROVE SqlRows'
    BY <1>1, <1>3, SqlWorkerOn, SqlRowsKept, SqlRowsRead, SqlRowsRun, SqlRowsRecord DEF WorkerStep
<1>4. ASSUME LuaStep \/ GameStep \/ StartDrain \/ Returned \/ Reset \/ Shutdown \/ UNCHANGED vars
      PROVE  SqlRows'
    BY <1>1, <1>4, SqlGameOn, SqlRowsKept
<1>5. SqlRows'
    BY <1>3, <1>4 DEF Next
<1> QED BY <1>2, <1>5 DEF SqlOnce

LEMMA SqlOnceInit ==
    ASSUME Parameters, Init PROVE SqlOnce
<1>1. SqlInv
    BY SqlInit, MySqlConstants
<1>2. \A v \in Workers : ~Applying(v)
    BY DEF Init, Idle, Applying
<1> QED BY <1>1, <1>2 DEF SqlOnce, SqlRows, Init

\* A worker between two calls of the client library has its connection to itself
\* and a socket under it, and a closed connection that nobody uses has none, by
\* whatever requests, closes, teardowns, failures and reloads.
THEOREM MySqlConsistentAlways == Spec => []Consistent
<1>1. Init => SqlInv
    BY SqlInit, MySqlConstants
<1>2. SqlInv /\ [Next]_vars => SqlInv'
    BY SqlNext
<1>3. SqlInv => Consistent
    BY SqlParts DEF Consistent
<1> QED BY <1>1, <1>2, <1>3, PTL DEF Spec

\* What is recorded is not run again, over any number of batches, workers and
\* connections, unless batches ran beside each other, rows were lost on their
\* way, or a batch named a migration twice.
THEOREM MigratedOnceAlways == Spec => []MigratedOnce
<1>1. Init => SqlOnce
    BY SqlOnceInit, MySqlConstants
<1>2. SqlOnce /\ [Next]_vars => SqlOnce'
    BY SqlOnceNext
<1>3. SqlOnce => MigratedOnce
    BY DEF SqlOnce, SqlRows, MigratedOnce
<1> QED BY <1>1, <1>2, <1>3, PTL DEF Spec

-----------------------------------------------------------------------------
(* The places of a request                                                 *)

\* The replies of the requests in a queue.
Asked(seq) == [k \in 1..Len(seq) |-> seq[k].reply]

Carried(pool) == {pool[w].job.reply : w \in {v \in Workers : pool[v].job # None}}

CarriedOnce(pool) ==
    \A v, w \in Workers :
        /\ pool[v].job # None /\ pool[w].job # None
        /\ pool[v].job.reply.id = pool[w].job.reply.id
        => v = w

\* A request is in one place, as OnePlace says of HttpClient.
SqlPlaces ==
    /\ NoneTwice(Asked(pending)) /\ NoneTwice(done) /\ NoneTwice(batch) /\ CarriedOnce(worker)
    /\ Apart(IdsOf(Elements(Asked(pending))), IdsOf(Carried(worker)), IdsOf(Elements(done)),
             IdsOf(Elements(batch)), called)

\* Every id was given out, and nothing is of a Lua state that has not begun.
SqlHanded ==
    /\ \A reply \in InTransit : reply.id < nextId /\ reply.generation <= generation
    /\ \A id \in called : id < nextId

\* Where the game thread is, with the replies it has swapped out.
SqlDrain ==
    /\ pc \in {"drain", "joining", "down"} => calling = None
    /\ pc # "drain" /\ calling = None => batch = <<>>

SqlLedger == SqlInv /\ SqlPlaces /\ SqlHanded /\ SqlDrain

\* A step that arms nobody.
SqlSettled == SqlPlaces' /\ SqlHanded' /\ SqlDrain' /\ Armed' \subseteq Armed

LEMMA AskedFacts ==
    ASSUME NEW seq \in Seq(Job)
    PROVE  /\ Asked(seq) \in Seq(Reply) /\ Len(Asked(seq)) = Len(seq)
           /\ \A k \in 1..Len(seq) : Asked(seq)[k] = seq[k].reply
           /\ Elements(Asked(seq)) = {job.reply : job \in Elements(seq)}
<1>1. \A k \in 1..Len(seq) : seq[k].reply \in Reply
  <2>1. \A job \in Job : job.reply \in Reply
      BY DEF Job
  <2>2. \A k \in 1..Len(seq) : seq[k] \in Job
      OBVIOUS
  <2> QED BY <2>1, <2>2
<1> DEFINE asked == Asked(seq)
<1>2. /\ asked \in [1..Len(seq) -> Reply] /\ Len(seq) \in Nat
      /\ \A k \in 1..Len(seq) : asked[k] = seq[k].reply
    BY <1>1 DEF Asked
<1> HIDE DEF asked
<1>3. asked \in Seq(Reply) /\ Len(asked) = Len(seq)
    BY <1>2
<1>4. Elements(asked) = {job.reply : job \in Elements(seq)}
    BY <1>2, <1>3 DEF Elements
<1> QED BY <1>2, <1>3, <1>4 DEF asked

LEMMA AskedMore ==
    ASSUME NEW seq \in Seq(Job), NEW job \in Job, NoneTwice(Asked(seq)),
           job.reply.id \notin IdsOf(Elements(Asked(seq)))
    PROVE  /\ Elements(Asked(Append(seq, job))) = Elements(Asked(seq)) \cup {job.reply}
           /\ NoneTwice(Asked(Append(seq, job)))
<1>1. PICK more : more = Append(seq, job)
    OBVIOUS
<1>2. /\ more \in Seq(Job) /\ Len(more) = Len(seq) + 1 /\ more[Len(seq) + 1] = job /\ Len(seq) \in Nat
      /\ \A k \in 1..Len(seq) : more[k] = seq[k]
      /\ Elements(more) = Elements(seq) \cup {job}
    BY <1>1, Pushed
<1>3. Elements(Asked(more)) = Elements(Asked(seq)) \cup {job.reply}
    BY <1>2, AskedFacts
<1>4. \A k \in 1..Len(seq) : seq[k].reply.id # job.reply.id
  <2> SUFFICES ASSUME NEW k \in 1..Len(seq) PROVE seq[k].reply \in Elements(Asked(seq))
      BY DEF IdsOf
  <2> QED BY AskedFacts DEF Elements
<1>5. \A j, k \in 1..Len(seq) : seq[j].reply.id = seq[k].reply.id => j = k
    BY AskedFacts DEF NoneTwice
<1>6. \A k \in 1..Len(more) : \/ k \in 1..Len(seq) /\ Asked(more)[k] = seq[k].reply
                              \/ k = Len(seq) + 1 /\ Asked(more)[k] = job.reply
    BY <1>2, AskedFacts
<1>7. NoneTwice(Asked(more))
    BY <1>2, <1>4, <1>5, <1>6, AskedFacts DEF NoneTwice
<1> QED BY <1>1, <1>3, <1>7

LEMMA AskedLess ==
    ASSUME NEW seq \in Seq(Job), seq # <<>>, NoneTwice(Asked(seq))
    PROVE  /\ NoneTwice(Asked(Tail(seq)))
           /\ Elements(Asked(seq)) = Elements(Asked(Tail(seq))) \cup {Head(seq).reply}
           /\ Head(seq).reply.id \notin IdsOf(Elements(Asked(Tail(seq))))
<1>1. PICK rest, first : rest = Tail(seq) /\ first = Head(seq)
    OBVIOUS
<1>2. /\ rest \in Seq(Job) /\ first = seq[1] /\ Len(seq) \in Nat \ {0} /\ Len(rest) = Len(seq) - 1
      /\ \A k \in 1..Len(rest) : rest[k] = seq[k + 1]
      /\ Elements(seq) = {first} \cup Elements(rest)
    BY <1>1, Popped
<1>3. Elements(Asked(seq)) = Elements(Asked(rest)) \cup {first.reply}
    BY <1>2, AskedFacts
<1>4. \A j, k \in 1..Len(seq) : seq[j].reply.id = seq[k].reply.id => j = k
    BY AskedFacts DEF NoneTwice
<1>5. \A k \in 1..Len(rest) : Asked(rest)[k] = seq[k + 1].reply /\ k + 1 \in 1..Len(seq)
    BY <1>2, AskedFacts
<1>6. Len(Asked(rest)) = Len(rest) /\ 1 \in 1..Len(seq)
    BY <1>2, AskedFacts
<1>7. NoneTwice(Asked(rest))
  <2> SUFFICES ASSUME NEW j \in 1..Len(rest), NEW k \in 1..Len(rest),
                      Asked(rest)[j].id = Asked(rest)[k].id
               PROVE  j = k
      BY <1>6 DEF NoneTwice
  <2>1. j + 1 = k + 1
      BY <1>4, <1>5
  <2> QED BY <2>1
<1>8. \A k \in 1..Len(rest) : Asked(rest)[k].id # first.reply.id
  <2> SUFFICES ASSUME NEW k \in 1..Len(rest), Asked(rest)[k].id = first.reply.id PROVE FALSE
      OBVIOUS
  <2>1. k + 1 = 1
      BY <1>2, <1>4, <1>5, <1>6
  <2> QED BY <2>1
<1>9. first.reply.id \notin IdsOf(Elements(Asked(rest)))
    BY <1>6, <1>8 DEF IdsOf, Elements
<1> QED BY <1>1, <1>3, <1>7, <1>9

LEMMA AskedKept ==
    ASSUME NEW seq \in Seq(Job), NEW doomed, NEW kept \in Seq(Job),
           \E at : Picks(seq, doomed, Len(seq), kept, at), NoneTwice(Asked(seq))
    PROVE  NoneTwice(Asked(kept)) /\ Elements(Asked(kept)) \subseteq Elements(Asked(seq))
<1>1. PICK at : Picks(seq, doomed, Len(seq), kept, at)
    OBVIOUS
<1>2. /\ at \in [1..Len(kept) -> 1..Len(seq)] /\ Len(kept) \in Nat /\ Len(seq) \in Nat
      /\ \A k \in 1..Len(kept) : kept[k] = seq[at[k]]
      /\ \A j, k \in 1..Len(kept) : j < k => at[j] < at[k]
    BY <1>1 DEF Picks
<1>3. Elements(kept) \subseteq Elements(seq)
    BY <1>2 DEF Elements
<1>4. Elements(Asked(kept)) \subseteq Elements(Asked(seq))
    BY <1>3, AskedFacts
<1>5. \A j, k \in 1..Len(seq) : seq[j].reply.id = seq[k].reply.id => j = k
    BY AskedFacts DEF NoneTwice
<1>6. NoneTwice(Asked(kept))
  <2> SUFFICES ASSUME NEW j \in 1..Len(kept), NEW k \in 1..Len(kept),
                      kept[j].reply.id = kept[k].reply.id
               PROVE  j = k
      BY AskedFacts DEF NoneTwice
  <2>1. at[j] \in 1..Len(seq) /\ at[k] \in 1..Len(seq)
      BY <1>2
  <2>2. seq[at[j]].reply.id = seq[at[k]].reply.id
      BY <1>2
  <2>3. at[j] = at[k]
      BY <1>5, <2>1, <2>2
  <2>4. at[j] \in Nat /\ at[k] \in Nat
      BY <1>2, <2>1
  <2>5. (j < k => at[j] < at[k]) /\ (k < j => at[k] < at[j])
      BY <1>2
  <2>6. j \in Nat /\ k \in Nat
      BY <1>2
  <2> QED BY <2>3, <2>4, <2>5, <2>6
<1> QED BY <1>4, <1>6

\* Workers that keep their requests carry the same.
LEMMA CarriedSame ==
    ASSUME NEW pool, NEW new, \A w \in Workers : new[w].job = pool[w].job
    PROVE  Carried(new) = Carried(pool) /\ (CarriedOnce(pool) => CarriedOnce(new))
<1>1. {v \in Workers : new[v].job # None} = {v \in Workers : pool[v].job # None}
    OBVIOUS
<1>2. Carried(new) = Carried(pool)
    BY <1>1 DEF Carried
<1>3. ASSUME CarriedOnce(pool) PROVE CarriedOnce(new)
    BY <1>3 DEF CarriedOnce
<1> QED BY <1>2, <1>3

LEMMA CarriedMore ==
    ASSUME NEW pool, NEW new, NEW w \in Workers, pool[w].job = None, new[w].job # None,
           \A v \in Workers : v # w => new[v].job = pool[v].job
    PROVE  /\ Carried(new) = Carried(pool) \cup {new[w].job.reply}
           /\ (CarriedOnce(pool) /\ new[w].job.reply.id \notin IdsOf(Carried(pool))) => CarriedOnce(new)
<1>1. Carried(new) = Carried(pool) \cup {new[w].job.reply}
  <2>1. ASSUME NEW v \in Workers, new[v].job # None
        PROVE  new[v].job.reply \in Carried(pool) \cup {new[w].job.reply}
    <3>1. CASE v = w
        BY <3>1
    <3>2. CASE v # w
        BY <2>1, <3>2 DEF Carried
    <3> QED BY <3>1, <3>2
  <2>2. ASSUME NEW v \in Workers, pool[v].job # None PROVE pool[v].job.reply \in Carried(new)
    <3>1. v # w /\ new[v].job = pool[v].job
        BY <2>2
    <3> QED BY <2>2, <3>1 DEF Carried
  <2>3. new[w].job.reply \in Carried(new)
      BY DEF Carried
  <2> QED BY <2>1, <2>2, <2>3 DEF Carried
<1>2. ASSUME CarriedOnce(pool), new[w].job.reply.id \notin IdsOf(Carried(pool)) PROVE CarriedOnce(new)
  <2>1. \A v \in Workers : pool[v].job # None => pool[v].job.reply.id # new[w].job.reply.id
      BY <1>2 DEF IdsOf, Carried
  <2> QED BY <1>2, <2>1 DEF CarriedOnce
<1> QED BY <1>1, <1>2

LEMMA CarriedLess ==
    ASSUME NEW pool, NEW new, NEW w \in Workers, pool[w].job # None, new[w].job = None,
           \A v \in Workers : v # w => new[v].job = pool[v].job, CarriedOnce(pool)
    PROVE  /\ Carried(pool) = Carried(new) \cup {pool[w].job.reply}
           /\ CarriedOnce(new) /\ pool[w].job.reply.id \notin IdsOf(Carried(new))
<1>1. Carried(pool) = Carried(new) \cup {pool[w].job.reply}
    BY CarriedMore
<1>2. CarriedOnce(new)
    BY DEF CarriedOnce
<1>3. \A v \in Workers : new[v].job # None => new[v].job.reply.id # pool[w].job.reply.id
    BY DEF CarriedOnce
<1>4. pool[w].job.reply.id \notin IdsOf(Carried(new))
    BY <1>3 DEF IdsOf, Carried
<1> QED BY <1>1, <1>2, <1>4

-----------------------------------------------------------------------------
(* Steps that arm nobody                                                   *)

LEMMA SqlLedgerParts ==
    SqlLedger <=> SqlInv /\ SqlPlaces /\ SqlHanded /\ SqlDrain
BY DEF SqlLedger

LEMMA SqlTransit ==
    ASSUME SqlInv, pending' \in Seq(Job)
    PROVE  /\ InTransit = Elements(Asked(pending)) \cup Carried(worker) \cup Elements(done) \cup Elements(batch)
           /\ InTransit' = Elements(Asked(pending')) \cup Carried(worker') \cup Elements(done') \cup Elements(batch')
<1>1. /\ Elements(Asked(pending)) = {job.reply : job \in Elements(pending)}
      /\ Elements(Asked(pending')) = {job.reply : job \in Elements(pending')}
    BY SqlKept, AskedFacts
<1>2. InTransit = {job.reply : job \in Elements(pending)} \cup {worker[w].job.reply : w \in Working}
                  \cup Elements(done) \cup Elements(batch)
    BY DEF InTransit
<1>3. InTransit' = {job.reply : job \in Elements(pending')}
                   \cup {worker'[w].job.reply : w \in {v \in Workers : worker'[v].job # None}}
                   \cup Elements(done') \cup Elements(batch')
    BY DEF InTransit, Working
<1> QED BY <1>1, <1>2, <1>3 DEF Working, Carried

\* A request that is on its way may be lost or muted; none is new.
LEMMA SqlCarries ==
    ASSUME SqlLedger, UNCHANGED <<nextId, called>>, generation <= generation', generation' \in Nat,
           pending' \in Seq(Job),
           NoneTwice(Asked(pending')), NoneTwice(done'), NoneTwice(batch'), CarriedOnce(worker'),
           Apart(IdsOf(Elements(Asked(pending'))), IdsOf(Carried(worker')), IdsOf(Elements(done')),
                 IdsOf(Elements(batch')), called),
           \A r \in Elements(Asked(pending')) \cup Carried(worker') \cup Elements(done') \cup Elements(batch') :
               \E q \in InTransit : q.id = r.id /\ q.generation = r.generation /\ (r.callback => r = q),
           \A q \in InTransit : q.generation \in Nat,
           SqlDrain'
    PROVE  SqlSettled
<1>1. SqlInv /\ SqlHanded /\ generation \in Nat
    BY SqlLedgerParts, SqlKept
<1>2. \A r \in InTransit' :
          \E q \in InTransit : q.id = r.id /\ q.generation = r.generation /\ (r.callback => r = q)
    BY <1>1, SqlTransit
<1>3. SqlPlaces'
    BY DEF SqlPlaces
<1>4. SqlHanded'
  <2>1. ASSUME NEW r \in InTransit' PROVE r.id < nextId /\ r.generation <= generation'
    <3>1. PICK q \in InTransit : q.id = r.id /\ q.generation = r.generation
        BY <1>2
    <3>2. q.id < nextId /\ q.generation <= generation /\ q.generation \in Nat
        BY <1>1 DEF SqlHanded
    <3> QED BY <1>1, <3>1, <3>2
  <2> QED BY <1>1, <2>1 DEF SqlHanded
<1>5. Armed' \subseteq Armed
  <2> SUFFICES ASSUME NEW r \in InTransit', r.callback, r.generation = generation' PROVE r \in Armed
      BY DEF Armed
  <2>1. PICK q \in InTransit : q.generation = r.generation /\ (r.callback => r = q)
      BY <1>2
  <2>2. q.generation <= generation /\ q.generation \in Nat
      BY <1>1 DEF SqlHanded
  <2>3. generation' = generation
      BY <1>1, <2>1, <2>2
  <2> QED BY <2>1, <2>3 DEF Armed
<1> QED BY <1>3, <1>4, <1>5 DEF SqlSettled

LEMMA SqlReplies ==
    ASSUME SqlInv
    PROVE  /\ InTransit \subseteq Reply
           /\ \A r \in Reply : r.id \in Ids /\ r.generation \in Nat /\ r.callback \in BOOLEAN
           /\ Asked(pending) \in Seq(Reply) /\ Carried(worker) \subseteq Reply
           /\ Elements(Asked(pending)) \subseteq Reply /\ Elements(done) \subseteq Reply /\ Elements(batch) \subseteq Reply
<1>1. \A r \in Reply : r.id \in Ids /\ r.generation \in Nat /\ r.callback \in BOOLEAN
    BY DEF Reply
<1>2. Asked(pending) \in Seq(Reply) /\ done \in Seq(Reply) /\ batch \in Seq(Reply)
    BY SqlKept, AskedFacts
<1>3. Carried(worker) \subseteq Reply
  <2>1. \A w \in Workers : worker[w].job # None => worker[w].job \in Job
      BY SqlKept DEF SqlWorker
  <2>2. \A job \in Job : job.reply \in Reply
      BY DEF Job
  <2> QED BY <2>1, <2>2 DEF Carried
<1>4. Elements(Asked(pending)) \subseteq Reply /\ Elements(done) \subseteq Reply /\ Elements(batch) \subseteq Reply
    BY <1>2, ElementsType
<1>5. InTransit = Elements(Asked(pending)) \cup Carried(worker) \cup Elements(done) \cup Elements(batch)
  <2>1. Elements(Asked(pending)) = {job.reply : job \in Elements(pending)}
      BY SqlKept, AskedFacts
  <2> QED BY <2>1 DEF InTransit, Working, Carried
<1> QED BY <1>1, <1>2, <1>3, <1>4, <1>5

\* Apart stays apart when the places give requests up.
LEMMA Narrower ==
    ASSUME NEW a, NEW b, NEW c, NEW d, NEW e, Apart(a, b, c, d, e),
           NEW a2 \in SUBSET a, NEW b2 \in SUBSET b, NEW c2 \in SUBSET c, NEW d2 \in SUBSET d
    PROVE  Apart(a2, b2, c2, d2, e)
BY DEF Apart

LEMMA SqlQuiet ==
    ASSUME SqlLedger, \A w \in Workers : worker'[w].job = worker[w].job,
           UNCHANGED <<pending, done, batch, called, nextId, generation>>, SqlDrain'
    PROVE  SqlSettled
<1>1. SqlInv /\ SqlPlaces
    BY SqlLedgerParts
<1>2. Carried(worker') = Carried(worker) /\ CarriedOnce(worker')
    BY <1>1, CarriedSame DEF SqlPlaces
<1>3. pending' \in Seq(Job) /\ generation \in Nat
    BY <1>1, SqlKept
<1>4. \A q \in InTransit : q.generation \in Nat
    BY <1>1, SqlReplies
<1>5. InTransit = Elements(Asked(pending)) \cup Carried(worker) \cup Elements(done) \cup Elements(batch)
    BY <1>1, <1>3, SqlTransit
<1> QED BY <1>1, <1>2, <1>3, <1>4, <1>5, SqlCarries DEF SqlPlaces

LEMMA SqlTakeSettles ==
    ASSUME SqlLedger, NEW w \in Workers, Take(w) PROVE SqlSettled
<1>1. SqlInv /\ SqlPlaces /\ SqlDrain /\ SqlHolding
    BY SqlLedgerParts, SqlParts
<1>2. /\ pending \in Seq(Job) /\ pending # <<>> /\ pending' = Tail(pending)
      /\ UNCHANGED <<nextId, generation, done, pc, batch, calling, called>> /\ worker[w].at = "ready"
    BY <1>1, SqlKept DEF Take, game
<1>3. PICK job : job = Head(pending)
    OBVIOUS
<1>4. job \in Job /\ pending' \in Seq(Job) /\ job # None
    BY <1>1, <1>2, <1>3, Popped, SqlNotNone
<1>5. /\ NoneTwice(Asked(pending'))
      /\ Elements(Asked(pending)) = Elements(Asked(pending')) \cup {job.reply}
      /\ job.reply.id \notin IdsOf(Elements(Asked(pending')))
    BY <1>1, <1>2, <1>3, AskedLess DEF SqlPlaces
<1>6. worker[w].job = None
    BY <1>1, <1>2 DEF SqlHolding, UnderLock
<1>7. /\ worker'[w].job = job /\ \A v \in Workers : v # w => worker'[v].job = worker[v].job
  <2>1. worker' = [worker EXCEPT ![w] = [at |-> "locking", job |-> job, todo |-> <<>>]]
      BY <1>3 DEF Take
  <2> QED BY <1>1, <2>1, SqlKept
<1>8. job.reply.id \notin IdsOf(Carried(worker))
  <2>1. job.reply.id \in IdsOf(Elements(Asked(pending)))
      BY <1>5 DEF IdsOf
  <2> QED BY <1>1, <2>1 DEF SqlPlaces, Apart
<1>9. Carried(worker') = Carried(worker) \cup {job.reply} /\ CarriedOnce(worker')
    BY <1>1, <1>4, <1>6, <1>7, <1>8, CarriedMore DEF SqlPlaces
<1>10. Apart(IdsOf(Elements(Asked(pending'))), IdsOf(Carried(worker')), IdsOf(Elements(done)),
             IdsOf(Elements(batch)), called)
  <2>1. IdsOf(Elements(Asked(pending))) = IdsOf(Elements(Asked(pending'))) \cup {job.reply.id}
      BY <1>5 DEF IdsOf
  <2>2. IdsOf(Carried(worker')) = IdsOf(Carried(worker)) \cup {job.reply.id}
      BY <1>9 DEF IdsOf
  <2> QED BY <1>1, <1>5, <2>1, <2>2 DEF SqlPlaces, Apart
<1>11. InTransit = Elements(Asked(pending)) \cup Carried(worker) \cup Elements(done) \cup Elements(batch)
    BY <1>1, <1>4, SqlTransit
<1>12. SqlDrain'
    BY <1>1, <1>2 DEF SqlDrain
<1> QED BY <1>1, <1>2, <1>4, <1>5, <1>9, <1>10, <1>11, <1>12, SqlReplies, SqlKept, SqlCarries DEF SqlPlaces

LEMMA SqlPostSettles ==
    ASSUME SqlLedger, NEW w \in Workers, Post(w) PROVE SqlSettled
<1>1. SqlInv /\ SqlPlaces /\ SqlDrain /\ SqlHolding
    BY SqlLedgerParts, SqlParts
<1>2. PICK reply : reply = worker[w].job.reply
    OBVIOUS
<1>3. /\ done' = Append(done, reply)
      /\ UNCHANGED <<nextId, generation, pending, pc, batch, calling, called>> /\ worker[w].at = "posting"
    BY <1>2 DEF Post, game
<1>4. worker[w].job # None
    BY <1>1, <1>3 DEF SqlHolding
<1>5. worker'[w].job = None /\ \A v \in Workers : v # w => worker'[v].job = worker[v].job
    BY <1>1, SqlKept DEF Post, Idle
<1>6. /\ Carried(worker) = Carried(worker') \cup {reply} /\ CarriedOnce(worker')
      /\ reply.id \notin IdsOf(Carried(worker'))
    BY <1>1, <1>2, <1>4, <1>5, CarriedLess DEF SqlPlaces
<1>7. reply \in Reply /\ done \in Seq(Reply)
    BY <1>1, <1>6, SqlReplies, SqlKept
<1>8. reply.id \notin IdsOf(Elements(done))
  <2>1. reply.id \in IdsOf(Carried(worker))
      BY <1>6 DEF IdsOf
  <2> QED BY <1>1, <2>1 DEF SqlPlaces, Apart
<1>9. Elements(done') = Elements(done) \cup {reply} /\ NoneTwice(done')
    BY <1>1, <1>3, <1>7, <1>8, Pushed, PushedOnce DEF SqlPlaces
<1>10. Apart(IdsOf(Elements(Asked(pending))), IdsOf(Carried(worker')), IdsOf(Elements(done')),
             IdsOf(Elements(batch)), called)
  <2>1. IdsOf(Elements(done')) = IdsOf(Elements(done)) \cup {reply.id}
      BY <1>9 DEF IdsOf
  <2>2. IdsOf(Carried(worker)) = IdsOf(Carried(worker')) \cup {reply.id}
      BY <1>6 DEF IdsOf
  <2> QED BY <1>1, <1>6, <2>1, <2>2 DEF SqlPlaces, Apart
<1>11. InTransit = Elements(Asked(pending)) \cup Carried(worker) \cup Elements(done) \cup Elements(batch)
       /\ pending' \in Seq(Job) /\ generation \in Nat
    BY <1>1, <1>3, SqlKept, SqlTransit
<1>12. SqlDrain'
    BY <1>1, <1>3 DEF SqlDrain
<1> QED BY <1>1, <1>3, <1>6, <1>9, <1>10, <1>11, <1>12, SqlReplies, SqlCarries DEF SqlPlaces

LEMMA SqlWorkerSettles ==
    ASSUME SqlLedger, NEW w \in Workers, WorkerStep(w) PROVE SqlSettled /\ UNCHANGED <<nextId, called>>
<1>1. UNCHANGED <<nextId, called>>
    BY DEF WorkerStep, Take, Wait, Exit, Post, Lock, Check, Connected, ConnectFails, Query,
       ReadApplied, ReadFails, RunStep, RecordStep, StepFails
<1>2. CASE Take(w) \/ Post(w)
    BY <1>1, <1>2, SqlTakeSettles, SqlPostSettles
<1>3. CASE ~Take(w) /\ ~Post(w)
  <2>1. /\ UNCHANGED <<pending, done, batch, called, nextId, generation, pc, calling>>
      BY <1>3 DEF WorkerStep, Wait, Exit, Lock, Check, Connected, ConnectFails, Query,
         ReadApplied, ReadFails, RunStep, RecordStep, StepFails, queues, game
  <2>2. \A v \in Workers : worker'[v].job = worker[v].job
    <3>1. \/ \E at : worker' = [worker EXCEPT ![w].at = at]
          \/ \E at, todo : worker' = [worker EXCEPT ![w].at = at, ![w].todo = todo]
      <4>1. CASE Wait(w) \/ Exit(w)
          BY <4>1 DEF Wait, Exit
      <4>2. CASE Lock(w) \/ Connected(w) \/ RunStep(w)
          BY <4>2 DEF Lock, Connected, RunStep, Goto
      <4>3. CASE Check(w)
          BY <4>3 DEF Check, Goto, Unlock
      <4>4. CASE ConnectFails(w) \/ Query(w) \/ ReadFails(w) \/ StepFails(w)
          BY <4>4 DEF ConnectFails, Query, ReadFails, StepFails, Unlock
      <4>5. CASE ReadApplied(w)
          BY <4>5 DEF ReadApplied, Unlock
      <4>6. CASE RecordStep(w)
        <5>1. PICK t \in SqlWorker : t = worker[w]
            BY SqlLedgerParts, SqlKept
        <5>2. CASE Tail(worker[w].todo) = <<>>
            BY <4>6, <5>2 DEF RecordStep, Unlock
        <5>3. CASE Tail(worker[w].todo) # <<>>
          <6>1. worker' = [worker EXCEPT ![w].at = "running", ![w].todo = Tail(@)]
              BY <4>6, <5>3 DEF RecordStep
          <6>2. worker' = [worker EXCEPT ![w].at = "running", ![w].todo = Tail(t.todo)]
              BY <5>1, <6>1, SqlLedgerParts, SqlKept DEF SqlWorker
          <6> QED BY <6>2
        <5> QED BY <5>2, <5>3
      <4> QED BY <1>3, <4>1, <4>2, <4>3, <4>4, <4>5, <4>6 DEF WorkerStep
    <3>2. PICK t \in SqlWorker : t = worker[w]
        BY SqlLedgerParts, SqlKept
    <3>3. worker \in [Workers -> SqlWorker]
        BY SqlLedgerParts, SqlKept
    <3>4. ASSUME NEW at, worker' = [worker EXCEPT ![w].at = at]
          PROVE  \A v \in Workers : worker'[v].job = worker[v].job
      <4>1. [t EXCEPT !.at = at].job = t.job
          BY DEF SqlWorker
      <4>2. worker'[w] = [t EXCEPT !.at = at] /\ \A v \in Workers : v # w => worker'[v] = worker[v]
          BY <3>2, <3>3, <3>4
      <4> QED BY <3>2, <4>1, <4>2
    <3>5. ASSUME NEW at, NEW todo, worker' = [worker EXCEPT ![w].at = at, ![w].todo = todo]
          PROVE  \A v \in Workers : worker'[v].job = worker[v].job
      <4>1. [t EXCEPT !.at = at, !.todo = todo].job = t.job
          BY DEF SqlWorker
      <4>2. worker'[w] = [t EXCEPT !.at = at, !.todo = todo] /\ \A v \in Workers : v # w => worker'[v] = worker[v]
          BY <3>2, <3>3, <3>5
      <4> QED BY <3>2, <4>1, <4>2
    <3> QED BY <3>1, <3>4, <3>5
  <2>3. SqlDrain'
      BY <2>1, SqlLedgerParts DEF SqlDrain
  <2> QED BY <1>1, <2>1, <2>2, <2>3, SqlQuiet
<1> QED BY <1>2, <1>3

LEMMA SqlRemovePluginSettles ==
    ASSUME SqlLedger, NEW p \in Plugins, RemovePlugin(p) PROVE SqlSettled
<1>1. SqlInv /\ SqlPlaces /\ SqlDrain
    BY SqlLedgerParts
<1>2. /\ UNCHANGED <<nextId, generation, done, worker, batch, calling, called>>
      /\ pc = "lua" /\ pc' = "remove"
    BY DEF RemovePlugin, InLua
<1>3. PICK doomed : pending' = Without(pending, doomed)
    BY DEF RemovePlugin
<1>4. /\ pending' \in Seq(Job) /\ \E at : Picks(pending, doomed, Len(pending), pending', at)
    BY <1>1, <1>3, SqlKept, WithoutPicks
<1>5. NoneTwice(Asked(pending')) /\ Elements(Asked(pending')) \subseteq Elements(Asked(pending))
    BY <1>1, <1>4, SqlKept, AskedKept DEF SqlPlaces
<1>6. Apart(IdsOf(Elements(Asked(pending'))), IdsOf(Carried(worker)), IdsOf(Elements(done)),
            IdsOf(Elements(batch)), called)
  <2>1. IdsOf(Elements(Asked(pending'))) \subseteq IdsOf(Elements(Asked(pending)))
      BY <1>5 DEF IdsOf
  <2> QED BY <1>1, <2>1, Narrower DEF SqlPlaces
<1>7. InTransit = Elements(Asked(pending)) \cup Carried(worker) \cup Elements(done) \cup Elements(batch)
    BY <1>1, <1>4, SqlTransit
<1>8. SqlDrain' /\ generation \in Nat
    BY <1>1, <1>2, SqlKept DEF SqlDrain
<1> QED BY <1>1, <1>2, <1>4, <1>5, <1>6, <1>7, <1>8, SqlReplies, SqlCarries DEF SqlPlaces

LEMMA SqlRemoveRepliesSettles ==
    ASSUME SqlLedger, RemoveReplies PROVE SqlSettled
<1>1. SqlInv /\ SqlPlaces /\ SqlDrain
    BY SqlLedgerParts
<1>2. /\ UNCHANGED <<nextId, generation, pending, worker, batch, calling, called>>
      /\ pc = "remove" /\ pc' = "lua"
    BY DEF RemoveReplies
<1>3. \A r \in Reply : /\ [r EXCEPT !.callback = FALSE].id = r.id
                       /\ [r EXCEPT !.callback = FALSE].generation = r.generation
                       /\ ~[r EXCEPT !.callback = FALSE].callback
    BY DEF Reply
<1>4. done \in Seq(Reply) /\ Len(done) \in Nat /\ \A k \in 1..Len(done) : done[k] \in Reply
    BY <1>1, SqlKept
<1>5. done' = [k \in 1..Len(done) |->
                 IF done[k].plugin = target THEN [done[k] EXCEPT !.callback = FALSE] ELSE done[k]]
    BY DEF RemoveReplies
<1>6. /\ Len(done') = Len(done)
      /\ \A k \in 1..Len(done) : /\ done'[k].id = done[k].id /\ done'[k].generation = done[k].generation
                                 /\ done'[k].callback => done'[k] = done[k]
    BY <1>3, <1>4, <1>5
<1>7. /\ NoneTwice(done')
      /\ \A r \in Elements(done') : \E q \in Elements(done) :
             q.id = r.id /\ q.generation = r.generation /\ (r.callback => r = q)
    BY <1>1, <1>6 DEF NoneTwice, SqlPlaces, Elements
<1>8. IdsOf(Elements(done')) \subseteq IdsOf(Elements(done))
    BY <1>7 DEF IdsOf
<1>9. Apart(IdsOf(Elements(Asked(pending))), IdsOf(Carried(worker)), IdsOf(Elements(done')),
            IdsOf(Elements(batch)), called)
    BY <1>1, <1>8, Narrower DEF SqlPlaces
<1>10. InTransit = Elements(Asked(pending)) \cup Carried(worker) \cup Elements(done) \cup Elements(batch)
       /\ pending' \in Seq(Job) /\ generation \in Nat
    BY <1>1, <1>2, SqlKept, SqlTransit
<1>11. SqlDrain'
    BY <1>1, <1>2 DEF SqlDrain
<1> QED BY <1>1, <1>2, <1>7, <1>9, <1>10, <1>11, SqlReplies, SqlCarries DEF SqlPlaces

LEMMA SqlStartDrainSettles ==
    ASSUME SqlLedger, StartDrain PROVE SqlSettled
<1>1. SqlInv /\ SqlPlaces /\ SqlDrain
    BY SqlLedgerParts
<1>2. /\ UNCHANGED <<nextId, generation, pending, worker, calling, called>>
      /\ batch' = done /\ done' = <<>> /\ calling = None /\ pc' = "drain" /\ pc = "lua"
    BY DEF StartDrain, BetweenFrames, InLua
<1>3. NoneTwice(done') /\ Elements(done') = {} /\ IdsOf(Elements(done')) = {}
    BY <1>2, NoElements DEF IdsOf
<1>4. Apart(IdsOf(Elements(Asked(pending))), IdsOf(Carried(worker)), IdsOf(Elements(done')),
            IdsOf(Elements(batch')), called)
    BY <1>1, <1>2, <1>3 DEF SqlPlaces, Apart
<1>5. InTransit = Elements(Asked(pending)) \cup Carried(worker) \cup Elements(done) \cup Elements(batch)
       /\ pending' \in Seq(Job) /\ generation \in Nat
    BY <1>1, <1>2, SqlKept, SqlTransit
<1>6. SqlDrain'
    BY <1>2 DEF SqlDrain
<1> QED BY <1>1, <1>2, <1>3, <1>4, <1>5, <1>6, SqlReplies, SqlCarries DEF SqlPlaces

\* The drain looks at a reply, whatever it does with it.
LEMMA SqlBatch ==
    ASSUME SqlLedger, batch # <<>>, batch' = Tail(batch)
    PROVE  /\ NoneTwice(batch') /\ Head(batch) \in Reply
           /\ Elements(batch) = Elements(batch') \cup {Head(batch)}
           /\ Head(batch).id \notin IdsOf(Elements(batch'))
           /\ Head(batch) \in InTransit
<1>1. SqlInv /\ SqlPlaces
    BY SqlLedgerParts
<1>2. batch \in Seq(Reply)
    BY <1>1, SqlKept
<1>3. NoneTwice(batch') /\ Head(batch).id \notin IdsOf(Elements(batch'))
    BY <1>1, <1>2, PoppedOnce DEF SqlPlaces
<1>4. Head(batch) \in Reply /\ Elements(batch) = Elements(batch') \cup {Head(batch)}
    BY <1>2, Popped
<1> QED BY <1>3, <1>4 DEF InTransit

LEMMA SqlSkipReplySettles ==
    ASSUME SqlLedger, SkipReply PROVE SqlSettled
<1>1. SqlInv /\ SqlPlaces /\ SqlDrain
    BY SqlLedgerParts
<1>2. /\ UNCHANGED <<nextId, generation, pending, done, worker, pc, calling, called>>
      /\ batch # <<>> /\ batch' = Tail(batch) /\ pc = "drain"
    BY DEF SkipReply, queues
<1>3. NoneTwice(batch') /\ Elements(batch') \subseteq Elements(batch)
    BY <1>2, SqlBatch
<1>4. Apart(IdsOf(Elements(Asked(pending))), IdsOf(Carried(worker)), IdsOf(Elements(done)),
            IdsOf(Elements(batch')), called)
  <2>1. IdsOf(Elements(batch')) \subseteq IdsOf(Elements(batch))
      BY <1>3 DEF IdsOf
  <2> QED BY <1>1, <2>1, Narrower DEF SqlPlaces
<1>5. InTransit = Elements(Asked(pending)) \cup Carried(worker) \cup Elements(done) \cup Elements(batch)
       /\ pending' \in Seq(Job) /\ generation \in Nat
    BY <1>1, <1>2, SqlKept, SqlTransit
<1>6. SqlDrain'
    BY <1>1, <1>2 DEF SqlDrain
<1> QED BY <1>1, <1>2, <1>3, <1>4, <1>5, <1>6, SqlReplies, SqlCarries DEF SqlPlaces

\* The queues of a dead Lua state are emptied.
LEMMA SqlDisownSettles ==
    ASSUME SqlLedger, Disown, BetweenFrames, UNCHANGED <<nextId, batch, calling, called>>,
           \A w \in Workers : worker'[w].job = worker[w].job
    PROVE  SqlSettled /\ UNCHANGED <<nextId, called>>
<1>1. SqlInv /\ SqlPlaces /\ SqlDrain
    BY SqlLedgerParts
<1>2. generation' = generation + 1 /\ pending' = <<>> /\ done' = <<>>
    BY DEF Disown
<1>3. generation \in Nat /\ generation <= generation' /\ generation' \in Nat
    BY <1>1, <1>2, SqlKept
<1>4. /\ NoneTwice(done') /\ Elements(done') = {} /\ IdsOf(Elements(done')) = {}
      /\ pending' \in Seq(Job)
      /\ Elements(pending') = {}
    BY <1>2, NoElements DEF IdsOf
<1>5. /\ Elements(Asked(pending')) = {} /\ IdsOf(Elements(Asked(pending'))) = {}
      /\ NoneTwice(Asked(pending'))
  <2>1. Elements(Asked(pending')) = {}
      BY <1>4, AskedFacts
  <2>2. Len(Asked(pending')) = 0
      BY <1>2, <1>4, AskedFacts, NoElements
  <2> QED BY <2>1, <2>2 DEF IdsOf, NoneTwice
<1>6. Carried(worker') = Carried(worker) /\ CarriedOnce(worker')
    BY <1>1, CarriedSame DEF SqlPlaces
<1>7. batch = <<>> /\ calling = None
    BY <1>1 DEF SqlDrain, BetweenFrames, InLua
<1>8. Apart(IdsOf(Elements(Asked(pending'))), IdsOf(Carried(worker')), IdsOf(Elements(done')),
            IdsOf(Elements(batch')), called)
    BY <1>1, <1>4, <1>5, <1>6 DEF SqlPlaces, Apart
<1>9. InTransit = Elements(Asked(pending)) \cup Carried(worker) \cup Elements(done) \cup Elements(batch)
    BY <1>1, <1>4, SqlTransit
<1>10. SqlDrain'
    BY <1>7 DEF SqlDrain
<1>11. NoneTwice(batch') /\ Elements(batch') = Elements(batch)
    BY <1>1 DEF SqlPlaces
<1> QED BY <1>1, <1>3, <1>4, <1>5, <1>6, <1>8, <1>9, <1>10, <1>11, SqlReplies, SqlCarries

\* What the game thread does besides, asking and calling back excepted.
LEMMA SqlGameSettles ==
    ASSUME SqlLedger,
           \/ \E p \in Plugins : Connect(p) \/ RemovePlugin(p)
           \/ \E c \in 1..MaxConns : Close(c)
           \/ GameStep /\ ~CallBack
           \/ StartDrain \/ Returned \/ Reset \/ Shutdown
           \/ UNCHANGED vars
    PROVE  SqlSettled /\ UNCHANGED <<nextId, called>>
<1>1. SqlInv /\ SqlDrain
    BY SqlLedgerParts
<1>2. CASE UNCHANGED vars \/ \E p \in Plugins : Connect(p)
  <2>1. UNCHANGED <<nextId, generation, pending, done, worker, pc, batch, calling, called>>
      BY <1>2 DEF vars, Connect, queues, game
  <2> QED BY <1>1, <2>1, SqlQuiet DEF SqlDrain
<1>3. CASE \E c \in 1..MaxConns : Close(c)
  <2>1. UNCHANGED <<nextId, generation, pending, done, worker, batch, calling, called>>
        /\ pc = "lua" /\ pc' = "closing"
      BY <1>3 DEF Close, queues, InLua
  <2> QED BY <1>1, <2>1, SqlQuiet DEF SqlDrain
<1>4. CASE CloseLocked
  <2>1. UNCHANGED <<nextId, generation, pending, done, worker, batch, calling, called>>
        /\ pc = "closing" /\ pc' = "lua"
      BY <1>4 DEF CloseLocked, queues
  <2> QED BY <1>1, <2>1, SqlQuiet DEF SqlDrain
<1>5. CASE Returned \/ EndDrain
  <2>1. UNCHANGED <<nextId, generation, pending, done, worker, batch, called>>
      BY <1>5 DEF Returned, EndDrain, queues
  <2>2. SqlDrain'
      BY <1>1, <1>5 DEF Returned, EndDrain, SqlDrain
  <2> QED BY <2>1, <2>2, SqlQuiet
<1>6. CASE Joined
  <2>1. UNCHANGED <<nextId, generation, pending, done, batch, calling, called>>
        /\ pc = "joining" /\ pc' = "down"
      BY <1>6 DEF Joined, queues
  <2>2. \A w \in Workers : worker'[w].job = None
      BY <1>6 DEF Joined, Idle
  <2>3. \A w \in Workers : worker[w].job = None
      BY <1>1, <1>6, SqlParts DEF SqlHolding, Joined, UnderLock
  <2>4. SqlDrain'
      BY <1>1, <2>1 DEF SqlDrain
  <2> QED BY <2>1, <2>2, <2>3, <2>4, SqlQuiet
<1>7. CASE Reset
    BY <1>7, SqlDisownSettles DEF Reset, game
<1>8. CASE Shutdown
  <2>1. worker' = [w \in Workers |->
          IF worker[w].at = "waiting" THEN [worker[w] EXCEPT !.at = "ready"] ELSE worker[w]]
      BY <1>8 DEF Shutdown
  <2>2. ASSUME NEW w \in Workers PROVE worker'[w].job = worker[w].job
    <3>1. PICK t \in SqlWorker : t = worker[w]
        BY <1>1, SqlKept
    <3>2. [t EXCEPT !.at = "ready"].job = t.job
        BY DEF SqlWorker
    <3> QED BY <2>1, <3>1, <3>2
  <2> QED BY <1>8, <2>2, SqlDisownSettles, SqlLedgerParts DEF Shutdown
<1>9. CASE \E p \in Plugins : RemovePlugin(p)
    BY <1>9, SqlRemovePluginSettles DEF RemovePlugin
<1>10. CASE RemoveReplies
    BY <1>10, SqlRemoveRepliesSettles DEF RemoveReplies
<1>11. CASE StartDrain
    BY <1>11, SqlStartDrainSettles DEF StartDrain
<1>12. CASE SkipReply
    BY <1>12, SqlSkipReplySettles DEF SkipReply
<1> QED BY <1>2, <1>3, <1>4, <1>5, <1>6, <1>7, <1>8, <1>9, <1>10, <1>11, <1>12 DEF GameStep

-----------------------------------------------------------------------------
(* Asking and calling back, and the ledger                                 *)

LEMMA SqlAskSettles ==
    ASSUME SqlLedger, NEW p \in Plugins, NEW c \in 1..MaxConns, NEW steps \in Batches \cup {<<>>},
           Ask(p, c, steps)
    PROVE  /\ SqlPlaces' /\ SqlHanded' /\ SqlDrain'
           /\ nextId \in Ids /\ nextId' = nextId + 1 /\ called' = called
           /\ IdsOf(Armed') = IdsOf(Armed) \cup {nextId}
<1>1. SqlInv /\ SqlPlaces /\ SqlHanded /\ SqlDrain
    BY SqlLedgerParts
<1>2. PICK reply : reply = [id |-> nextId, plugin |-> p, generation |-> generation, callback |-> TRUE]
    OBVIOUS
<1>3. PICK job : job = [conn |-> c, steps |-> steps, reply |-> reply]
    OBVIOUS
<1>4. /\ nextId \in Ids /\ nextId' = nextId + 1 /\ pending' = Append(pending, job)
      /\ UNCHANGED <<generation, done, pc, batch, calling, called>>
    BY <1>2, <1>3 DEF Ask, game
<1>5. /\ reply \in Reply /\ reply.id = nextId /\ reply.generation = generation /\ reply.callback
      /\ job \in Job /\ job.reply = reply
  <2>1. reply \in Reply
      BY <1>1, <1>2, <1>4, SqlKept DEF Reply
  <2>2. job \in Job
      BY <1>3, <2>1 DEF Job
  <2> QED BY <1>2, <1>3, <2>1, <2>2
<1>6. nextId \in Nat /\ generation \in Nat
    BY <1>1, <1>4, SqlKept
<1>7. pending' \in Seq(Job)
    BY <1>1, <1>4, <1>5, SqlKept, Pushed
<1>8. InTransit = Elements(Asked(pending)) \cup Carried(worker) \cup Elements(done) \cup Elements(batch)
      /\ InTransit' = Elements(Asked(pending')) \cup Carried(worker') \cup Elements(done') \cup Elements(batch')
    BY <1>1, <1>7, SqlTransit
\* The id is new.
<1>9. ASSUME NEW ids \in {IdsOf(Elements(Asked(pending))), IdsOf(Carried(worker)),
                          IdsOf(Elements(done)), IdsOf(Elements(batch)), called}
      PROVE  nextId \notin ids
  <2>1. \A r \in InTransit : r.id \in Nat /\ r.id < nextId
    <3>1. \A r \in Reply : r.id \in Nat
        BY SqlReplies, <1>1, SqlKept DEF Ids
    <3> QED BY <1>1, <3>1, SqlReplies DEF SqlHanded
  <2>2. \A id \in called : id \in Nat /\ id < nextId
      BY <1>1, SqlKept DEF SqlHanded, Ids
  <2>3. ~(nextId < nextId)
      BY <1>6
  <2> QED BY <1>8, <1>9, <2>1, <2>2, <2>3 DEF IdsOf
<1>10. /\ Elements(Asked(pending')) = Elements(Asked(pending)) \cup {reply}
       /\ NoneTwice(Asked(pending'))
    BY <1>1, <1>4, <1>5, <1>9, SqlKept, AskedMore DEF SqlPlaces
<1>11. PICK pool \in NotifyOne(Started) : worker' = pool
    BY DEF Ask
<1>12. \A w \in Workers : pool[w].job = worker[w].job
  <2>1. \A w \in Workers : Started[w].job = worker[w].job
    <3>1. CASE \A w \in Workers : worker[w].at = "absent"
      <4>1. \A w \in Workers : worker[w].job = None
          BY <1>1, <3>1, SqlParts DEF SqlHolding, UnderLock
      <4> QED BY <3>1, <4>1 DEF Started, Idle
    <3>2. CASE ~(\A w \in Workers : worker[w].at = "absent")
        BY <3>2 DEF Started
    <3> QED BY <3>1, <3>2
  <2>2. PICK begun \in [Workers -> SqlWorker] : begun = Started
      BY <1>1, SqlStarted
  <2>3. CASE pool = begun
      BY <2>1, <2>2, <2>3
  <2>4. CASE \E w \in Workers : pool = [begun EXCEPT ![w].at = "ready"]
    <3>1. PICK w \in Workers : pool = [begun EXCEPT ![w].at = "ready"]
        BY <2>4
    <3>2. PICK t \in SqlWorker : t = begun[w]
        BY <2>2
    <3>3. [t EXCEPT !.at = "ready"].job = t.job
        BY DEF SqlWorker
    <3>4. pool[w] = [t EXCEPT !.at = "ready"] /\ \A v \in Workers : v # w => pool[v] = begun[v]
        BY <2>2, <3>1, <3>2
    <3> QED BY <2>1, <2>2, <3>2, <3>3, <3>4
  <2> QED BY <2>2, <2>3, <2>4 DEF NotifyOne
<1>13. Carried(worker') = Carried(worker) /\ CarriedOnce(worker')
    BY <1>1, <1>11, <1>12, CarriedSame DEF SqlPlaces
<1>14. SqlPlaces'
  <2>1. IdsOf(Elements(Asked(pending'))) = IdsOf(Elements(Asked(pending))) \cup {nextId}
      BY <1>5, <1>10 DEF IdsOf
  <2>2. /\ nextId \notin IdsOf(Carried(worker)) /\ nextId \notin IdsOf(Elements(done))
        /\ nextId \notin IdsOf(Elements(batch)) /\ nextId \notin called
      BY <1>9
  <2>3. Apart(IdsOf(Elements(Asked(pending'))), IdsOf(Carried(worker')), IdsOf(Elements(done')),
              IdsOf(Elements(batch')), called')
      BY <1>1, <1>4, <1>13, <2>1, <2>2 DEF SqlPlaces, Apart
  <2> QED BY <1>1, <1>4, <1>10, <1>13, <2>3 DEF SqlPlaces
<1>15. InTransit' = InTransit \cup {reply}
    BY <1>4, <1>8, <1>10, <1>13
<1>16. SqlHanded'
  <2>1. ASSUME NEW r \in InTransit' PROVE r.id < nextId + 1 /\ r.generation <= generation
    <3>1. CASE r = reply
        BY <1>5, <1>6, <3>1
    <3>2. CASE r \in InTransit
      <4>1. r.id \in Nat
          BY <1>1, <3>2, SqlReplies, SqlKept DEF Ids
      <4> QED BY <1>1, <1>6, <3>2, <4>1 DEF SqlHanded
    <3> QED BY <1>15, <3>1, <3>2
  <2>2. ASSUME NEW id \in called PROVE id < nextId + 1
    <3>1. id \in Nat
        BY <1>1, SqlKept DEF Ids
    <3> QED BY <1>1, <1>6, <3>1 DEF SqlHanded
  <2> QED BY <1>4, <2>1, <2>2 DEF SqlHanded
<1>17. SqlDrain'
    BY <1>1, <1>4 DEF SqlDrain
<1>18. IdsOf(Armed') = IdsOf(Armed) \cup {nextId}
  <2>1. Armed' = Armed \cup {reply}
      BY <1>4, <1>5, <1>15 DEF Armed
  <2> QED BY <1>5, <2>1 DEF IdsOf
<1> QED BY <1>4, <1>14, <1>16, <1>17, <1>18

LEMMA SqlUnique ==
    ASSUME SqlLedger
    PROVE  /\ \A r, q \in InTransit : r.id = q.id => r = q
           /\ \A r \in InTransit : r.id \notin called
<1>1. SqlInv /\ SqlPlaces
    BY SqlLedgerParts
<1> DEFINE P == Elements(Asked(pending))
           W == Carried(worker)
           D == Elements(done)
           B == Elements(batch)
<1>2. Apart(IdsOf(P), IdsOf(W), IdsOf(D), IdsOf(B), called)
    BY <1>1 DEF SqlPlaces
<1>3. \A r, q \in P : r.id = q.id => r = q
    BY <1>1, KnownById DEF SqlPlaces
<1>4. \A r, q \in D : r.id = q.id => r = q
    BY <1>1, KnownById DEF SqlPlaces
<1>5. \A r, q \in B : r.id = q.id => r = q
    BY <1>1, KnownById DEF SqlPlaces
<1>6. \A r, q \in W : r.id = q.id => r = q
    BY <1>1 DEF SqlPlaces, CarriedOnce, Carried
<1>7. InTransit = P \cup W \cup D \cup B
  <2>1. Elements(Asked(pending)) = {job.reply : job \in Elements(pending)}
      BY <1>1, SqlKept, AskedFacts
  <2> QED BY <2>1 DEF InTransit, Working, Carried
<1> HIDE DEF P, W, D, B
<1>8. /\ \A r \in P : r.id \in IdsOf(P)
      /\ \A r \in W : r.id \in IdsOf(W)
      /\ \A r \in D : r.id \in IdsOf(D)
      /\ \A r \in B : r.id \in IdsOf(B)
    BY DEF IdsOf
<1> QED BY <1>2, <1>3, <1>4, <1>5, <1>6, <1>7, <1>8 DEF Apart

LEMMA SqlCallBackSettles ==
    ASSUME SqlLedger, CallBack
    PROVE  /\ SqlPlaces' /\ SqlHanded' /\ SqlDrain' /\ nextId' = nextId
           /\ \E id \in IdsOf(Armed) : called' = called \cup {id} /\ IdsOf(Armed') = IdsOf(Armed) \ {id}
<1>1. SqlInv /\ SqlPlaces /\ SqlHanded /\ SqlDrain
    BY SqlLedgerParts
<1>2. PICK reply : reply = Head(batch)
    OBVIOUS
<1>3. /\ UNCHANGED <<nextId, generation, pending, done, worker>>
      /\ batch # <<>> /\ batch' = Tail(batch) /\ pc = "drain" /\ pc' = "lua"
      /\ calling' = reply /\ called' = called \cup {reply.id}
      /\ reply.callback /\ reply.generation = generation
    BY <1>2 DEF CallBack, queues, Unwanted
<1>4. /\ NoneTwice(batch') /\ reply \in Reply /\ reply \in InTransit
      /\ Elements(batch) = Elements(batch') \cup {reply} /\ reply.id \notin IdsOf(Elements(batch'))
    BY <1>2, <1>3, SqlBatch
<1>5. reply \in Armed
    BY <1>3, <1>4 DEF Armed
<1>6. SqlPlaces'
  <2>1. IdsOf(Elements(batch)) = IdsOf(Elements(batch')) \cup {reply.id}
      BY <1>4 DEF IdsOf
  <2>2. Apart(IdsOf(Elements(Asked(pending))), IdsOf(Carried(worker)), IdsOf(Elements(done)),
              IdsOf(Elements(batch')), called')
      BY <1>1, <1>3, <1>4, <2>1 DEF SqlPlaces, Apart
  <2> QED BY <1>1, <1>3, <1>4, <2>2 DEF SqlPlaces
<1>7. /\ InTransit = Elements(Asked(pending)) \cup Carried(worker) \cup Elements(done) \cup Elements(batch)
      /\ InTransit' = Elements(Asked(pending)) \cup Carried(worker) \cup Elements(done) \cup Elements(batch')
    BY <1>1, <1>3, SqlKept, SqlTransit
<1>8. InTransit' = InTransit \ {reply}
  <2>1. reply \notin Elements(batch')
      BY <1>4 DEF IdsOf
  <2>2. reply \notin Elements(Asked(pending)) /\ reply \notin Carried(worker) /\ reply \notin Elements(done)
    <3>1. reply.id \in IdsOf(Elements(batch))
        BY <1>4 DEF IdsOf
    <3>2. /\ reply.id \notin IdsOf(Elements(Asked(pending))) /\ reply.id \notin IdsOf(Carried(worker))
          /\ reply.id \notin IdsOf(Elements(done))
        BY <1>1, <3>1 DEF SqlPlaces, Apart
    <3> QED BY <3>2 DEF IdsOf
  <2> QED BY <1>4, <1>7, <2>1, <2>2
<1>9. SqlHanded'
  <2>1. reply.id < nextId
      BY <1>1, <1>4 DEF SqlHanded
  <2> QED BY <1>1, <1>3, <1>8, <2>1 DEF SqlHanded
<1>10. SqlDrain'
  <2>1. calling' # None
      BY <1>1, <1>3, <1>4, SqlNotNone
  <2> QED BY <1>3, <2>1 DEF SqlDrain
<1>11. Armed' = Armed \ {reply}
    BY <1>3, <1>8 DEF Armed
<1>12. IdsOf(Armed') = IdsOf(Armed) \ {reply.id}
  <2>1. \A r \in Armed : r.id = reply.id => r = reply
      BY <1>4, SqlUnique DEF Armed
  <2> QED BY <1>11, <2>1 DEF IdsOf
<1>13. reply.id \in IdsOf(Armed)
    BY <1>5 DEF IdsOf
<1> QED BY <1>3, <1>6, <1>9, <1>10, <1>12, <1>13

LEMMA SqlStatus ==
    /\ statusBar = Shown(nextId, called, IdsOf(Armed))
    /\ statusBar' = Shown(nextId', called', IdsOf(Armed'))
<1>1. \A id : (\E reply \in Armed : reply.id = id) <=> id \in IdsOf(Armed)
    BY DEF IdsOf
<1>2. \A id : (\E reply \in Armed' : reply.id = id) <=> id \in IdsOf(Armed')
    BY DEF IdsOf
<1> QED BY <1>1, <1>2 DEF statusBar, Shown, Ids

LEMMA SqlArmed ==
    ASSUME SqlLedger
    PROVE  /\ IdsOf(Armed) \subseteq Ids /\ Ids \subseteq Nat /\ nextId \in Nat
           /\ \A id \in IdsOf(Armed) : id < nextId /\ id \notin called
           /\ \A id \in called : id < nextId
           /\ Ids = Ids
<1>1. SqlInv /\ SqlHanded
    BY SqlLedgerParts
<1>2. \A r \in Armed : r \in InTransit
    BY DEF Armed
<1>3. \A r \in Armed : r.id \in Ids /\ r.id < nextId /\ r.id \notin called
    BY <1>1, <1>2, SqlReplies, SqlUnique DEF SqlHanded
<1>4. Ids \subseteq Nat /\ nextId \in Nat
    BY <1>1, SqlKept DEF Ids
<1> QED BY <1>1, <1>3, <1>4 DEF IdsOf, SqlHanded

LEMMA SqlDropOrStutter ==
    ASSUME SqlLedger, SqlSettled, UNCHANGED <<nextId, called>> PROVE Ledger!Next
<1>1. PICK armed, less : armed = IdsOf(Armed) /\ less = IdsOf(Armed')
    OBVIOUS
<1>2. less \subseteq armed
    BY <1>1 DEF SqlSettled, IdsOf
<1>3. statusBar = Shown(nextId, called, armed) /\ statusBar' = Shown(nextId, called, less)
    BY <1>1, SqlStatus
<1>4. armed \subseteq Ids /\ Ids \subseteq Nat /\ nextId \in Nat
      /\ \A id \in armed : id < nextId /\ id \notin called
    BY <1>1, SqlArmed
<1>5. /\ \A id \in armed \ less : statusBar[id] = "waiting"
      /\ statusBar' = [id \in Ids |-> IF id \in armed \ less THEN "dropped" ELSE statusBar[id]]
    BY <1>2, <1>3, <1>4, ShownDrops
<1>6. armed \ less \subseteq Ledger!Waiting
    BY <1>4, <1>5 DEF Ledger!Waiting
<1>7. Ledger!Drop(armed \ less)
    BY <1>4, <1>5, <1>6 DEF Ledger!Drop
<1> QED BY <1>6, <1>7 DEF Ledger!Next

LEMMA SqlNextLedger ==
    ASSUME SqlLedger, [Next]_vars
    PROVE  SqlLedger' /\ [Ledger!Next]_statusBar
<1>1. SqlInv'
    BY SqlLedgerParts, SqlNext
<1>2. ASSUME SqlSettled, UNCHANGED <<nextId, called>>
      PROVE  SqlPlaces' /\ SqlHanded' /\ SqlDrain' /\ Ledger!Next
    BY <1>2, SqlDropOrStutter DEF SqlSettled
<1>3. ASSUME NEW p \in Plugins, NEW c \in 1..MaxConns, NEW steps \in Batches \cup {<<>>},
             Ask(p, c, steps)
      PROVE  SqlPlaces' /\ SqlHanded' /\ SqlDrain' /\ Ledger!Next
  <2>1. /\ SqlPlaces' /\ SqlHanded' /\ SqlDrain'
        /\ nextId \in Ids /\ nextId' = nextId + 1 /\ called' = called
        /\ IdsOf(Armed') = IdsOf(Armed) \cup {nextId}
      BY <1>3, SqlAskSettles
  <2>2. PICK armed : armed = IdsOf(Armed)
      OBVIOUS
  <2>3. statusBar = Shown(nextId, called, armed) /\ statusBar' = Shown(nextId + 1, called, armed \cup {nextId})
      BY <2>1, <2>2, SqlStatus
  <2>4. statusBar[nextId] = "unasked" /\ statusBar' = [statusBar EXCEPT ![nextId] = "waiting"]
      BY <2>1, <2>3, SqlArmed, ShownAsks
  <2>5. Ledger!Ask(nextId)
      BY <2>4 DEF Ledger!Ask
  <2> QED BY <2>1, <2>5 DEF Ledger!Next
<1>4. ASSUME CallBack
      PROVE  SqlPlaces' /\ SqlHanded' /\ SqlDrain' /\ Ledger!Next
  <2>1. SqlPlaces' /\ SqlHanded' /\ SqlDrain' /\ nextId' = nextId
      BY <1>4, SqlCallBackSettles
  <2>2. PICK id \in IdsOf(Armed) : called' = called \cup {id} /\ IdsOf(Armed') = IdsOf(Armed) \ {id}
      BY <1>4, SqlCallBackSettles
  <2>3. PICK armed : armed = IdsOf(Armed)
      OBVIOUS
  <2>4. statusBar = Shown(nextId, called, armed) /\ statusBar' = Shown(nextId, called \cup {id}, armed \ {id})
      BY <2>1, <2>2, <2>3, SqlStatus
  <2>5. id \in armed /\ id \in Ids /\ id \in Ids /\ nextId \in Nat /\ Ids \subseteq Nat
        /\ id < nextId /\ id \notin called /\ Ids = Ids
    <3>1. id \in IdsOf(Armed)
        BY <2>2
    <3> QED BY <2>3, <3>1, SqlArmed
  <2>6. statusBar[id] = "waiting"
      BY <2>4, <2>5, ShownWaits
  <2>7. statusBar' = [statusBar EXCEPT ![id] = "called"]
      BY <2>4, <2>5, ShownCalls
  <2>8. Ledger!CallBack(id)
      BY <2>5, <2>6, <2>7 DEF Ledger!CallBack
  <2> QED BY <2>1, <2>5, <2>8 DEF Ledger!Next
<1>5. ASSUME NEW w \in Workers, WorkerStep(w)
      PROVE  SqlPlaces' /\ SqlHanded' /\ SqlDrain' /\ Ledger!Next
    BY <1>2, <1>5, SqlWorkerSettles
<1>6. ASSUME \/ \E p \in Plugins : Connect(p) \/ RemovePlugin(p)
             \/ \E c \in 1..MaxConns : Close(c)
             \/ GameStep /\ ~CallBack
             \/ StartDrain \/ Returned \/ Reset \/ Shutdown
             \/ UNCHANGED vars
      PROVE  SqlPlaces' /\ SqlHanded' /\ SqlDrain' /\ Ledger!Next
    BY <1>2, <1>6, SqlGameSettles
<1>7. SqlPlaces' /\ SqlHanded' /\ SqlDrain' /\ Ledger!Next
    BY <1>3, <1>4, <1>5, <1>6 DEF Next, LuaStep, GameStep
<1> QED BY <1>1, <1>7 DEF SqlLedger

LEMMA SqlLedgerInit ==
    ASSUME Parameters, Init PROVE SqlLedger /\ Ledger!Init
<1>1. SqlInv
    BY SqlInit, MySqlConstants
<1>2. /\ nextId = 1 /\ pending = <<>> /\ done = <<>> /\ batch = <<>> /\ called = {}
      /\ calling = None /\ pc = "lua" /\ \A w \in Workers : worker[w].job = None
    BY DEF Init, Idle
<1>3. Elements(done) = {} /\ Elements(batch) = {} /\ NoneTwice(done) /\ NoneTwice(batch) /\ Elements(pending) = {}
    BY <1>2, NoElements
<1>4. /\ Elements(Asked(pending)) = {} /\ NoneTwice(Asked(pending))
  <2>1. pending \in Seq(Job)
      BY <1>1, SqlKept
  <2>2. Elements(Asked(pending)) = {} /\ Len(Asked(pending)) = 0
      BY <1>2, <1>3, <2>1, AskedFacts, NoElements
  <2> QED BY <2>2 DEF NoneTwice
<1>5. Carried(worker) = {} /\ CarriedOnce(worker)
    BY <1>2 DEF Carried, CarriedOnce
<1>6. SqlPlaces
    BY <1>2, <1>3, <1>4, <1>5 DEF SqlPlaces, Apart, IdsOf
<1>7. InTransit = {}
    BY <1>2, <1>3 DEF InTransit, Working
<1>8. SqlHanded /\ SqlDrain
    BY <1>2, <1>7 DEF SqlHanded, SqlDrain
<1>9. statusBar = [id \in Ids |-> "unasked"]
  <2>1. \A id \in Ids : id >= nextId
      BY <1>1, <1>2, SqlKept DEF Ids
  <2> QED BY <2>1 DEF statusBar
<1> QED BY <1>1, <1>6, <1>8, <1>9 DEF SqlLedger, Ledger!Init

\* Workers, locks, teardowns and drains implement what RequestLedger promises: a
\* query or a batch is called back once or dropped once, never one after the
\* other.
THEOREM MySqlImplementsLedger == Spec => KeepsLedger
<1>1. Init => SqlLedger /\ Ledger!Init
    BY SqlLedgerInit, MySqlConstants
<1>2. SqlLedger /\ [Next]_vars => SqlLedger' /\ [Ledger!Next]_statusBar
    BY SqlNextLedger
<1> QED BY <1>1, <1>2, PTL DEF Spec, KeepsLedger, Ledger!Spec
=============================================================================
