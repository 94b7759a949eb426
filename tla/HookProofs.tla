----------------------------- MODULE HookProofs -----------------------------
(***************************************************************************)
(* Theorems about HookDispatch for every number of plugins, events, ids,   *)
(* registry slots, registrations and nested walks.                         *)
(*                                                                         *)
(* The inductive invariant is TypeOK, Numbering and the three properties   *)
(* themselves: they support each other.  Numbering says that registration  *)
(* numbers are handed out once, so a record is its number; RefsMatch needs *)
(* it to keep two entries of one list apart, and OneSubscription needs the *)
(* duplicate scan of hook.add to be exact.                                 *)
(*                                                                         *)
(* For NobodySkipped each walk must also know that its index is within the *)
(* list, and that the entry it names is the one whose handler runs         *)
(* (InPlace); that an index keeps its entry follows from the numbers.      *)
(***************************************************************************)
EXTENDS HookDispatch, FiniteSetTheorems, TLAPS

\* A registration number is given once, to one entry of one list.
Numbering ==
    /\ \A e \in Events : \A h \in lists[e] : h.n <= registered
    /\ \A e1, e2 \in Events : \A h1 \in lists[e1], h2 \in lists[e2] :
          h1.n = h2.n => (e1 = e2 /\ h1 = h2)

IInv == TypeOK /\ Numbering /\ RefsMatchHandlers /\ OneSubscription /\ QuiescentClean

-----------------------------------------------------------------------------
(* The bookkeeping operators                                               *)

\* Burying entries keeps every list a set of handlers.
LEMMA BuryType ==
    ASSUME TypeOK, NEW doomed
    PROVE  Bury(doomed) \in [Events -> SUBSET Handler]
<1> SUFFICES ASSUME NEW e \in Events, NEW h \in lists[e]
             PROVE  (IF h \in doomed THEN Buried(h) ELSE h) \in Handler
    BY DEF Bury
<1>1. h \in Handler
    BY DEF TypeOK
<1>2. Buried(h) \in Handler
    BY <1>1 DEF Buried, Handler
<1> QED BY <1>1, <1>2

\* What a sweep leaves: either the lists as given, at a positive depth, or the
\* live entries alone.
LEMMA SweepFacts ==
    ASSUME keys \subseteq CustomEvents, NEW d \in Int, NEW ls,
           ls \in [Events -> SUBSET Handler], Sweep(ls, d)
    PROVE  /\ lists' \in [Events -> SUBSET Handler]
           /\ keys' \subseteq CustomEvents
           /\ d > 0 => lists' = ls /\ keys' = keys
           /\ d <= 0 => /\ lists' = [e \in Events |-> {h \in ls[e] : ~h.dead}]
                        /\ keys' = {c \in keys : \E h \in ls[c] : ~h.dead}
BY DEF Sweep, Compacted

\* Releasing refs keeps the registry a registry.
LEMMA UnrefType ==
    ASSUME TypeOK, NEW doomed
    PROVE  Unref(doomed) \in [Refs -> Closure \cup {Free}]
BY DEF TypeOK, Unref

LEMMA TopType ==
    ASSUME TypeOK, stack # <<>>
    PROVE  Len(stack) \in Nat \ {0} /\ Top \in Frame
BY DEF TypeOK, Top

\* Changing the innermost frame changes nothing else.
LEMMA AdvanceType ==
    ASSUME TypeOK, stack # <<>>, NEW f \in Frame, Advance(f)
    PROVE  stack' \in Seq(Frame) /\ Len(stack') = Len(stack)
BY TopType DEF TypeOK, Advance

-----------------------------------------------------------------------------
(* Type correctness                                                        *)

LEMMA InitType == Init => TypeOK
BY HookConstants DEF Init, TypeOK

LEMMA StartWalkType ==
    ASSUME TypeOK, NEW e \in Events, StartWalk(e)
    PROVE  TypeOK'
<1>1. [event |-> e, at |-> 0, handler |-> 0, plugin |-> NoPlugin, called |-> {}] \in Frame
    BY HookConstants DEF Frame
<1> QED BY <1>1 DEF StartWalk, TypeOK

\* A frame with new contents is a frame.
LEMMA FrameUpdate ==
    ASSUME NEW f \in Frame, NEW a \in Nat, NEW n \in 0..MaxHandlers,
           NEW p \in Plugins \cup {NoPlugin}, NEW c \in SUBSET (1..MaxHandlers)
    PROVE  /\ [f EXCEPT !.handler = n, !.plugin = p, !.at = a] \in Frame
           /\ [f EXCEPT !.handler = n, !.plugin = p, !.called = c] \in Frame
BY DEF Frame

LEMMA SkipDeadType == TypeOK /\ SkipDead => TypeOK'
<1> SUFFICES ASSUME TypeOK, SkipDead PROVE TypeOK'
    OBVIOUS
<1>1. stack # <<>> /\ Top \in Frame
    BY TopType DEF SkipDead, AtEntry
<1>2. [Top EXCEPT !.at = @ + 1] \in Frame
    BY <1>1 DEF Frame
<1> QED BY <1>1, <1>2, AdvanceType DEF SkipDead, TypeOK

LEMMA CallType == TypeOK /\ Call => TypeOK'
<1> SUFFICES ASSUME TypeOK, Call PROVE TypeOK'
    OBVIOUS
<1>1. stack # <<>> /\ Top \in Frame
    BY TopType DEF Call, AtEntry
<1>2. PICK h \in UNION {lists[e] : e \in Events} :
          Advance([Top EXCEPT !.handler = h.n, !.plugin = h.plugin,
                              !.called = @ \cup {h.n}])
    BY DEF Call
<1>3. h \in Handler
    BY <1>2 DEF TypeOK
<1>4. [Top EXCEPT !.handler = h.n, !.plugin = h.plugin,
                  !.called = @ \cup {h.n}] \in Frame
  <2>1. h.n \in 0..MaxHandlers /\ h.plugin \in Plugins \cup {NoPlugin}
      BY <1>3 DEF Handler
  <2>2. Top.called \cup {h.n} \in SUBSET (1..MaxHandlers)
      BY <1>1, <1>3 DEF Frame, Handler
  <2> QED BY <1>1, <2>1, <2>2, FrameUpdate
<1> QED BY <1>1, <1>2, <1>4, AdvanceType DEF Call, TypeOK

LEMMA ReturnType == TypeOK /\ Return => TypeOK'
<1> SUFFICES ASSUME TypeOK, Return PROVE TypeOK'
    OBVIOUS
<1>1. stack # <<>> /\ Top \in Frame
    BY TopType DEF Return
<1>2. [Top EXCEPT !.handler = 0, !.plugin = NoPlugin, !.at = @ + 1] \in Frame
  <2>1. 0 \in 0..MaxHandlers /\ Top.at + 1 \in Nat
      BY <1>1, HookConstants DEF Frame
  <2> QED BY <1>1, <2>1, FrameUpdate
<1> QED BY <1>1, <1>2, AdvanceType DEF Return, TypeOK

\* The depth is the number of walks, so leaving one cannot make it negative.
LEMMA EndWalkType ==
    ASSUME TypeOK, dispatching = Len(stack), stack # <<>>, EndWalk
    PROVE  TypeOK'
<1>1. Len(stack) \in Nat \ {0}
    BY TopType
<1>2. SubSeq(stack, 1, Len(stack) - 1) \in Seq(Frame)
    BY <1>1 DEF TypeOK
<1>3. dispatching - 1 \in Nat
    BY <1>1
<1>4. keys \subseteq CustomEvents /\ lists \in [Events -> SUBSET Handler]
    BY DEF TypeOK
<1>5. lists' \in [Events -> SUBSET Handler] /\ keys' \subseteq CustomEvents
    BY <1>3, <1>4, SweepFacts DEF EndWalk
<1> QED BY <1>2, <1>3, <1>5 DEF EndWalk, TypeOK

LEMMA RegistrationType ==
    ASSUME TypeOK, NEW p \in Plugins, NEW e \in Events, NEW i \in Ids,
           Replace(p, e, i) \/ PushBack(p, e, i) \/ Remove(p, e, i)
    PROVE  TypeOK'
<1>1. CASE Replace(p, e, i)
  <2>1. PICK h \in Own(e, p, i), r \in Refs :
            /\ registry' = [Unref({h}) EXCEPT ![r] = <<p, e, i>>]
            /\ lists' = [lists EXCEPT ![e] = (@ \ {h}) \cup {[h EXCEPT !.ref = r]}]
      BY <1>1 DEF Replace
  <2>2. h \in Handler
      BY <2>1 DEF Own, TypeOK
  <2>3. [h EXCEPT !.ref = r] \in Handler
      BY <2>2 DEF Handler
  <2>4. lists' \in [Events -> SUBSET Handler]
      BY <2>1, <2>3 DEF TypeOK
  <2>5. registry' \in [Refs -> Closure \cup {Free}]
      BY <2>1, UnrefType DEF Closure
  <2> QED BY <1>1, <2>4, <2>5 DEF Replace, TypeOK
<1>2. CASE PushBack(p, e, i)
  <2>1. PICK r \in FreeRefs :
            /\ registry' = [registry EXCEPT ![r] = <<p, e, i>>]
            /\ lists' = [lists EXCEPT ![e] = @ \cup
                  {[n |-> registered + 1, plugin |-> p, id |-> i, ref |-> r, dead |-> FALSE]}]
      BY <1>2 DEF PushBack
  <2>2. r \in Refs
      BY DEF FreeRefs
  <2>3. registered + 1 \in 1..MaxHandlers
      BY <1>2, HookConstants DEF PushBack, TypeOK
  <2>4. [n |-> registered + 1, plugin |-> p, id |-> i, ref |-> r, dead |-> FALSE] \in Handler
      BY <2>2, <2>3 DEF Handler
  <2>5. lists' \in [Events -> SUBSET Handler]
      BY <2>1, <2>4 DEF TypeOK
  <2>6. registry' \in [Refs -> Closure \cup {Free}]
      BY <2>1, <2>2 DEF TypeOK, Closure
  <2> QED BY <1>2, <2>3, <2>5, <2>6 DEF PushBack, TypeOK
<1>3. CASE Remove(p, e, i)
  <2>1. dispatching \in Int /\ keys \subseteq CustomEvents
      BY DEF TypeOK
  <2>2. lists' \in [Events -> SUBSET Handler] /\ keys' \subseteq CustomEvents
      BY <1>3, <2>1, BuryType, SweepFacts DEF Remove
  <2> QED BY <1>3, <2>2, UnrefType DEF Remove, TypeOK
<1> QED BY <1>1, <1>2, <1>3

LEMMA RemovePluginType ==
    ASSUME TypeOK, NEW q \in Plugins, RemovePlugin(q)
    PROVE  TypeOK'
<1>1. dispatching \in Int /\ keys \subseteq CustomEvents
    BY DEF TypeOK
<1>2. lists' \in [Events -> SUBSET Handler] /\ keys' \subseteq CustomEvents
    BY <1>1, BuryType, SweepFacts DEF RemovePlugin
<1> QED BY <1>2, UnrefType DEF RemovePlugin, TypeOK

-----------------------------------------------------------------------------
(* What the steps preserve                                                 *)

\* Each entry of the buried lists stems from an entry with the same number,
\* plugin and id: itself if it was spared, otherwise one that lost its ref.
LEMMA BuryOrigin ==
    ASSUME TypeOK, NEW doomed, NEW e \in Events
    PROVE  /\ \A h \in Bury(doomed)[e] : \E g \in lists[e] :
                 /\ g.n = h.n /\ g.plugin = h.plugin /\ g.id = h.id
                 /\ g \in doomed => h.dead /\ h.ref = NoRef
                 /\ g \notin doomed => h = g
           /\ \A g \in lists[e] : g \notin doomed => g \in Bury(doomed)[e]
           /\ lists[e] = {} <=> Bury(doomed)[e] = {}
<1>1. lists[e] \subseteq Handler
    BY DEF TypeOK
<1>2. \A g \in Handler : /\ Buried(g).n = g.n /\ Buried(g).plugin = g.plugin
                          /\ Buried(g).id = g.id /\ Buried(g).dead
                          /\ Buried(g).ref = NoRef
    BY DEF Buried, Handler
<1>3. Bury(doomed)[e] = {IF g \in doomed THEN Buried(g) ELSE g : g \in lists[e]}
    BY DEF Bury
<1>4. ASSUME NEW h \in Bury(doomed)[e]
      PROVE  \E g \in lists[e] :
                 /\ g.n = h.n /\ g.plugin = h.plugin /\ g.id = h.id
                 /\ g \in doomed => h.dead /\ h.ref = NoRef
                 /\ g \notin doomed => h = g
  <2>1. PICK g \in lists[e] : h = IF g \in doomed THEN Buried(g) ELSE g
      BY <1>3, <1>4
  <2> WITNESS g \in lists[e]
  <2> QED BY <1>1, <1>2, <2>1
<1> QED BY <1>3, <1>4

\* Releasing and burying any set of entries, then sweeping, keeps the invariant
\* whatever the dispatch depth is: this is hook.remove, the teardown of a
\* plugin, and (with nothing doomed) the end of a walk.
LEMMA BurySweep ==
    ASSUME IInv, TypeOK', NEW doomed,
           \A k \in doomed : \E e \in Events : k \in lists[e],
           registry' = Unref(doomed),
           Sweep(Bury(doomed), dispatching'), dispatching' = Len(stack'),
           registered' = registered
    PROVE  Numbering' /\ RefsMatchHandlers' /\ OneSubscription' /\ QuiescentClean'
<1>1. TypeOK /\ Numbering /\ RefsMatchHandlers /\ OneSubscription /\ QuiescentClean
    BY DEF IInv
<1>0. /\ dispatching' > 0 => lists' = Bury(doomed) /\ keys' = keys
      /\ dispatching' <= 0 =>
            /\ lists' = [e \in Events |-> {h \in Bury(doomed)[e] : ~h.dead}]
            /\ keys' = {c \in keys : \E h \in Bury(doomed)[c] : ~h.dead}
    BY <1>1, SweepFacts, BuryType DEF TypeOK
<1>2. \A e \in Events : lists'[e] \subseteq Bury(doomed)[e]
    BY <1>0, <1>1 DEF TypeOK
<1>3. \A e \in Events : \A h \in Bury(doomed)[e] : ~h.dead => h \in lists'[e]
    BY <1>0, <1>1 DEF TypeOK
<1>4. \A e \in Events : \A h \in lists'[e] : \E g \in lists[e] :
            /\ g.n = h.n /\ g.plugin = h.plugin /\ g.id = h.id
            /\ g \in doomed => h.dead /\ h.ref = NoRef
            /\ g \notin doomed => h = g
    BY <1>1, <1>2, BuryOrigin
<1>5. Numbering'
  <2>1. \A e \in Events : \A h \in lists'[e] : h.n <= registered'
      BY <1>1, <1>4 DEF Numbering
  <2>2. ASSUME NEW e1 \in Events, NEW e2 \in Events, NEW h1 \in lists'[e1],
               NEW h2 \in lists'[e2], h1.n = h2.n
        PROVE  e1 = e2 /\ h1 = h2
    <3>1. PICK g1 \in lists[e1] : g1.n = h1.n
        BY <1>4
    <3>2. PICK g2 \in lists[e2] : g2.n = h2.n
        BY <1>4
    <3>3. e1 = e2
        BY <1>1, <2>2, <3>1, <3>2 DEF Numbering
    <3>4. PICK x \in lists[e1] : h1 = IF x \in doomed THEN Buried(x) ELSE x
        BY <1>2 DEF Bury
    <3>5. PICK y \in lists[e1] : h2 = IF y \in doomed THEN Buried(y) ELSE y
        BY <1>2, <3>3 DEF Bury
    <3>6. x \in Handler /\ y \in Handler
        BY <1>1 DEF TypeOK
    <3>7. x.n = h1.n /\ y.n = h2.n
        BY <3>4, <3>5, <3>6 DEF Buried, Handler
    <3>8. x = y
        BY <1>1, <2>2, <3>7 DEF Numbering
    <3> QED BY <3>3, <3>4, <3>5, <3>8
  <2> QED BY <2>1, <2>2 DEF Numbering
<1>6. RefsMatchHandlers'
  <2>1. ASSUME NEW e \in Events, NEW h \in lists'[e]
        PROVE  IF h.dead THEN h.ref = NoRef
                         ELSE h.ref \in Refs /\ registry'[h.ref] = <<h.plugin, e, h.id>>
    <3>1. PICK g \in lists[e] :
              /\ g \in doomed => h.dead /\ h.ref = NoRef
              /\ g \notin doomed => h = g
        BY <1>4
    <3>2. h.dead => h.ref = NoRef
        BY <1>1, <3>1 DEF RefsMatchHandlers
    <3>3. ASSUME ~h.dead
          PROVE  h.ref \in Refs /\ registry'[h.ref] = <<h.plugin, e, h.id>>
      <4>1. g \notin doomed /\ h = g
          BY <3>1, <3>3
      <4>2. h.ref \in Refs /\ registry[h.ref] = <<h.plugin, e, h.id>>
          BY <1>1, <3>3, <4>1 DEF RefsMatchHandlers
      <4>3. \A k \in doomed : k.ref # h.ref
          BY <1>1, <4>1, <4>2, HookConstants DEF RefsMatchHandlers
      <4> QED BY <4>2, <4>3 DEF Unref
    <3> QED BY <3>2, <3>3
  <2>2. ASSUME NEW e1 \in Events, NEW e2 \in Events, NEW h1 \in lists'[e1],
               NEW h2 \in lists'[e2], h1.ref = h2.ref, h1.ref # NoRef
        PROVE  e1 = e2 /\ h1 = h2
    <3>1. h1 \in lists[e1] /\ h2 \in lists[e2]
        BY <1>4, <2>2
    <3> QED BY <1>1, <2>2, <3>1 DEF RefsMatchHandlers
  <2>3. ASSUME NEW r \in Refs, registry'[r] # Free
        PROVE  \E e \in Events : \E h \in lists'[e] : h.ref = r
    <3>1. registry[r] # Free /\ \A k \in doomed : k.ref # r
        BY <2>3 DEF Unref
    <3>2. PICK e \in Events : \E h \in lists[e] : h.ref = r
        BY <1>1, <3>1 DEF RefsMatchHandlers
    <3>5. PICK h \in lists[e] : h.ref = r
        BY <3>2
    <3>3. ~h.dead /\ h \notin doomed
        BY <1>1, <3>1, <3>5, HookConstants DEF RefsMatchHandlers
    <3>4. h \in Bury(doomed)[e]
        BY <1>1, <3>3, BuryOrigin
    <3> QED BY <1>3, <3>3, <3>4, <3>5
  <2> QED BY <2>1, <2>2, <2>3 DEF RefsMatchHandlers
<1>7. OneSubscription'
    BY <1>1, <1>4 DEF OneSubscription
<1>8. QuiescentClean'
  <2>1. stack' = <<>> => \A e \in Events : \A h \in lists'[e] : ~h.dead
      BY <1>0
  <2>2. keys' = {c \in CustomEvents : lists'[c] # {}}
    <3>1. keys = {c \in CustomEvents : Bury(doomed)[c] # {}}
        BY <1>1, BuryOrigin DEF QuiescentClean, Events
    <3>2. CASE dispatching' > 0
        BY <1>0, <3>1, <3>2
    <3>3. CASE dispatching' <= 0
        BY <1>0, <3>1, <3>3 DEF Events
    <3>4. dispatching' \in Int
        BY DEF TypeOK
    <3> QED BY <3>2, <3>3, <3>4
  <2> QED BY <2>1, <2>2 DEF QuiescentClean
<1> QED BY <1>5, <1>6, <1>7, <1>8

\* Nothing doomed: burying and releasing change nothing.
LEMMA BuryNone ==
    ASSUME TypeOK
    PROVE  Bury({}) = lists /\ Unref({}) = registry
BY DEF Bury, Unref, TypeOK

\* Steps that leave the handlers alone and keep the depth in step with the stack.
LEMMA WalkOnly ==
    ASSUME IInv, UNCHANGED <<lists, keys, registered, registry>>,
           dispatching' = Len(stack'), stack' # <<>>
    PROVE  Numbering' /\ RefsMatchHandlers' /\ OneSubscription' /\ QuiescentClean'
<1>1. Numbering'
    BY DEF IInv, Numbering
<1>2. RefsMatchHandlers'
    BY DEF IInv, RefsMatchHandlers
<1>3. OneSubscription'
    BY DEF IInv, OneSubscription
<1>4. QuiescentClean'
    BY DEF IInv, QuiescentClean
<1> QED BY <1>1, <1>2, <1>3, <1>4

\* A repeated hook.add keeps number, place and subscriber of the entry; the slot
\* it moves to was free or its own, so no other entry names it.
LEMMA ReplaceInductive ==
    ASSUME IInv, NEW p \in Plugins, NEW e \in Events, NEW i \in Ids, Replace(p, e, i)
    PROVE  Numbering' /\ RefsMatchHandlers' /\ OneSubscription' /\ QuiescentClean'
<1>1. TypeOK /\ Numbering /\ RefsMatchHandlers /\ OneSubscription /\ QuiescentClean
    BY DEF IInv
<1>2. PICK h \in Own(e, p, i), r \in Refs :
          /\ r = h.ref \/ r \in FreeRefs
          /\ registry' = [Unref({h}) EXCEPT ![r] = <<p, e, i>>]
          /\ lists' = [lists EXCEPT ![e] = (@ \ {h}) \cup {[h EXCEPT !.ref = r]}]
    BY DEF Replace
<1> DEFINE k == [h EXCEPT !.ref = r]
<1>3. /\ h \in lists[e] /\ h \in Handler /\ ~h.dead /\ h.plugin = p /\ h.id = i
      /\ UNCHANGED <<keys, registered, dispatching, stack>>
    BY <1>1 DEF Own, TypeOK, Replace
<1>4. /\ k.n = h.n /\ k.plugin = p /\ k.id = i /\ ~k.dead /\ k.ref = r
    BY <1>3 DEF Handler
<1> HIDE DEF k
<1>5. /\ lists'[e] = (lists[e] \ {h}) \cup {k}
      /\ \A x \in Events : x # e => lists'[x] = lists[x]
    BY <1>1, <1>2 DEF TypeOK, k
<1>6. registry' = [s \in Refs |-> IF s = r THEN <<p, e, i>>
                                  ELSE IF s = h.ref THEN Free ELSE registry[s]]
    BY <1>2 DEF Unref
<1>7. \A x \in Events : \A g \in lists'[x] :
          \/ g \in lists[x] /\ ~(x = e /\ g = h)
          \/ x = e /\ g = k
    BY <1>5
<1>8. h.ref \in Refs /\ registry[h.ref] = <<p, e, i>>
    BY <1>1, <1>3 DEF RefsMatchHandlers
\* The slot is nobody else's.
<1>9. \A x \in Events : \A g \in lists[x] :
          (x = e /\ g = h) \/ (g.ref # h.ref /\ g.ref # r)
  <2> SUFFICES ASSUME NEW x \in Events, NEW g \in lists[x], ~(x = e /\ g = h)
               PROVE  g.ref # h.ref /\ g.ref # r
      OBVIOUS
  <2>1. h.ref # NoRef /\ r # NoRef
      BY <1>8, HookConstants
  <2>2. g.ref # h.ref
      BY <1>1, <1>3, <2>1 DEF RefsMatchHandlers
  <2>3. ASSUME r \in FreeRefs PROVE g.ref # r
    <3>1. registry[r] = Free
        BY <2>3 DEF FreeRefs
    <3>2. <<g.plugin, x, g.id>> # Free
      <4>1. g \in Handler
          BY <1>1 DEF TypeOK
      <4> QED BY <4>1, HookConstants DEF Handler
    <3>3. \/ g.dead /\ g.ref = NoRef
          \/ registry[g.ref] = <<g.plugin, x, g.id>>
        BY <1>1 DEF RefsMatchHandlers
    <3> QED BY <2>1, <3>1, <3>2, <3>3
  <2> QED BY <1>2, <2>2, <2>3
<1>10. Numbering'
    BY <1>1, <1>3, <1>4, <1>7 DEF Numbering
<1>11. RefsMatchHandlers'
  <2>1. ASSUME NEW x \in Events, NEW g \in lists'[x]
        PROVE  IF g.dead THEN g.ref = NoRef
                         ELSE g.ref \in Refs /\ registry'[g.ref] = <<g.plugin, x, g.id>>
    <3>1. CASE x = e /\ g = k
        BY <1>2, <1>4, <1>6, <3>1
    <3>2. CASE g \in lists[x] /\ ~(x = e /\ g = h)
        BY <1>1, <1>6, <1>9, <3>2 DEF RefsMatchHandlers
    <3> QED BY <1>7, <3>1, <3>2
  <2>2. ASSUME NEW x \in Events, NEW y \in Events, NEW g1 \in lists'[x],
               NEW g2 \in lists'[y], g1.ref = g2.ref, g1.ref # NoRef
        PROVE  x = y /\ g1 = g2
      BY <1>1, <1>4, <1>7, <1>9, <2>2 DEF RefsMatchHandlers
  <2>3. ASSUME NEW s \in Refs, registry'[s] # Free
        PROVE  \E x \in Events : \E g \in lists'[x] : g.ref = s
    <3>1. CASE s = r
        BY <1>4, <1>5, <3>1
    <3>2. CASE s # r
      <4>1. s # h.ref /\ registry[s] # Free
          BY <1>6, <2>3, <3>2
      <4>2. PICK x \in Events : \E g \in lists[x] : g.ref = s
          BY <1>1, <4>1 DEF RefsMatchHandlers
      <4>3. PICK g \in lists[x] : g.ref = s
          BY <4>2
      <4>4. g \in lists'[x]
          BY <1>5, <4>1, <4>3
      <4> QED BY <4>3, <4>4
    <3> QED BY <3>1, <3>2
  <2> QED BY <2>1, <2>2, <2>3 DEF RefsMatchHandlers
<1>12. OneSubscription'
  <2> SUFFICES ASSUME NEW x \in Events, NEW g1 \in lists'[x], NEW g2 \in lists'[x],
                      ~g1.dead, ~g2.dead, g1.plugin = g2.plugin, g1.id = g2.id
               PROVE  g1 = g2
      BY DEF OneSubscription
  <2>1. \A g \in lists[e] : (~g.dead /\ g.plugin = p /\ g.id = i) => g = h
      BY <1>1, <1>3 DEF OneSubscription
  <2> QED BY <1>1, <1>4, <1>7, <2>1 DEF OneSubscription
<1>13. QuiescentClean'
  <2>1. \A x \in Events : lists'[x] = {} <=> lists[x] = {}
      BY <1>3, <1>5
  <2>2. stack' = <<>> => \A x \in Events : \A g \in lists'[x] : ~g.dead
      BY <1>1, <1>3, <1>4, <1>7 DEF QuiescentClean
  <2>3. keys' = {c \in CustomEvents : lists'[c] # {}}
      BY <1>1, <1>3, <2>1 DEF QuiescentClean, Events
  <2> QED BY <1>1, <1>3, <2>2, <2>3 DEF QuiescentClean
<1> QED BY <1>10, <1>11, <1>12, <1>13

\* A new entry takes the next number and a slot nobody uses, and the scan that
\* found no entry of the caller under that id saw the whole list.
LEMMA PushBackInductive ==
    ASSUME IInv, NEW p \in Plugins, NEW e \in Events, NEW i \in Ids, PushBack(p, e, i)
    PROVE  Numbering' /\ RefsMatchHandlers' /\ OneSubscription' /\ QuiescentClean'
<1>1. TypeOK /\ Numbering /\ RefsMatchHandlers /\ OneSubscription /\ QuiescentClean
    BY DEF IInv
<1>2. PICK r \in FreeRefs :
          /\ registry' = [registry EXCEPT ![r] = <<p, e, i>>]
          /\ lists' = [lists EXCEPT ![e] = @ \cup
                {[n |-> registered + 1, plugin |-> p, id |-> i, ref |-> r, dead |-> FALSE]}]
    BY DEF PushBack
<1> DEFINE k == [n |-> registered + 1, plugin |-> p, id |-> i, ref |-> r, dead |-> FALSE]
<1>3. k.n = registered + 1 /\ k.plugin = p /\ k.id = i /\ ~k.dead /\ k.ref = r
    OBVIOUS
<1> HIDE DEF k
<1>4. /\ lists'[e] = lists[e] \cup {k}
      /\ \A x \in Events : x # e => lists'[x] = lists[x]
    BY <1>1, <1>2 DEF TypeOK, k
<1>5. /\ r \in Refs /\ registry[r] = Free
      /\ registry' = [registry EXCEPT ![r] = <<p, e, i>>]
      /\ registered' = registered + 1 /\ registered \in Nat
      /\ UNCHANGED <<dispatching, stack>>
      /\ keys' = keys \cup ({e} \cap CustomEvents)
  <2>1. r \in Refs /\ registry[r] = Free
      BY DEF FreeRefs
  <2>2. registered \in Nat
      BY <1>1, HookConstants DEF TypeOK
  <2> QED BY <1>2, <2>1, <2>2 DEF PushBack
<1>6. \A x \in Events : \A g \in lists'[x] : g \in lists[x] \/ (x = e /\ g = k)
    BY <1>4
<1>7. \A x \in Events : \A g \in lists[x] : g \in Handler /\ g.n \in Nat
    BY <1>1 DEF TypeOK, Handler
<1>8. \A x \in Events : \A g \in lists[x] : g.ref # r
  <2> SUFFICES ASSUME NEW x \in Events, NEW g \in lists[x] PROVE g.ref # r
      OBVIOUS
  <2>1. <<g.plugin, x, g.id>> # Free
      BY <1>7, HookConstants DEF Handler
  <2>2. g.ref = NoRef \/ registry[g.ref] = <<g.plugin, x, g.id>>
      BY <1>1 DEF RefsMatchHandlers
  <2> QED BY <1>5, <2>1, <2>2, HookConstants
<1>9. Numbering'
  <2>1. \A x \in Events : \A g \in lists'[x] : g.n <= registered'
      BY <1>1, <1>3, <1>5, <1>6, <1>7 DEF Numbering
  <2>2. ASSUME NEW x \in Events, NEW y \in Events, NEW g1 \in lists'[x],
               NEW g2 \in lists'[y], g1.n = g2.n
        PROVE  x = y /\ g1 = g2
    <3>1. \A z \in Events : \A g \in lists[z] : g.n # k.n
        BY <1>1, <1>3, <1>5, <1>7 DEF Numbering
    <3> QED BY <1>1, <1>6, <2>2, <3>1 DEF Numbering
  <2> QED BY <2>1, <2>2 DEF Numbering
<1>10. RefsMatchHandlers'
  <2>1. ASSUME NEW x \in Events, NEW g \in lists'[x]
        PROVE  IF g.dead THEN g.ref = NoRef
                         ELSE g.ref \in Refs /\ registry'[g.ref] = <<g.plugin, x, g.id>>
    <3>1. CASE x = e /\ g = k
        BY <1>1, <1>3, <1>5, <3>1 DEF TypeOK
    <3>2. CASE g \in lists[x]
        BY <1>1, <1>5, <1>8, <3>2 DEF RefsMatchHandlers, TypeOK
    <3> QED BY <1>6, <3>1, <3>2
  <2>2. ASSUME NEW x \in Events, NEW y \in Events, NEW g1 \in lists'[x],
               NEW g2 \in lists'[y], g1.ref = g2.ref, g1.ref # NoRef
        PROVE  x = y /\ g1 = g2
      BY <1>1, <1>3, <1>6, <1>8, <2>2 DEF RefsMatchHandlers
  <2>3. ASSUME NEW s \in Refs, registry'[s] # Free
        PROVE  \E x \in Events : \E g \in lists'[x] : g.ref = s
    <3>1. CASE s = r
        BY <1>3, <1>4, <3>1
    <3>2. CASE s # r
      <4>1. PICK x \in Events : \E g \in lists[x] : g.ref = s
          BY <1>1, <1>5, <2>3, <3>2 DEF RefsMatchHandlers, TypeOK
      <4> QED BY <1>4, <4>1
    <3> QED BY <3>1, <3>2
  <2> QED BY <2>1, <2>2, <2>3 DEF RefsMatchHandlers
<1>11. OneSubscription'
  <2> SUFFICES ASSUME NEW x \in Events, NEW g1 \in lists'[x], NEW g2 \in lists'[x],
                      ~g1.dead, ~g2.dead, g1.plugin = g2.plugin, g1.id = g2.id
               PROVE  g1 = g2
      BY DEF OneSubscription
  <2>1. \A g \in lists[e] : ~(~g.dead /\ g.plugin = p /\ g.id = i)
      BY DEF PushBack, Own
  <2> QED BY <1>1, <1>3, <1>6, <2>1 DEF OneSubscription
<1>12. QuiescentClean'
  <2>1. stack' = <<>> => \A x \in Events : \A g \in lists'[x] : ~g.dead
      BY <1>1, <1>3, <1>5, <1>6 DEF QuiescentClean
  <2>2. keys' = {c \in CustomEvents : lists'[c] # {}}
      BY <1>1, <1>4, <1>5 DEF QuiescentClean, Events
  <2> QED BY <1>1, <1>5, <2>1, <2>2 DEF QuiescentClean
<1> QED BY <1>9, <1>10, <1>11, <1>12

\* The depth stays the number of walks.
LEMMA DepthCounts ==
    ASSUME TypeOK, dispatching = Len(stack)
    PROVE  /\ \A e \in Events : StartWalk(e) => dispatching' = Len(stack') /\ stack' # <<>>
           /\ (stack # <<>> /\ EndWalk) => dispatching' = Len(stack')
           /\ \A f \in Frame : (stack # <<>> /\ Advance(f)) => Len(stack') = Len(stack)
<1>1. stack \in Seq(Frame)
    BY DEF TypeOK
<1>2. ASSUME NEW e \in Events, StartWalk(e)
      PROVE  dispatching' = Len(stack') /\ stack' # <<>>
  <2> DEFINE f == [event |-> e, at |-> 0, handler |-> 0, plugin |-> NoPlugin, called |-> {}]
  <2>1. f \in Frame
      BY HookConstants DEF Frame
  <2> HIDE DEF f
  <2>2. stack' = Append(stack, f) /\ dispatching' = dispatching + 1
      BY <1>2 DEF StartWalk, f
  <2> QED BY <1>1, <2>1, <2>2
<1>3. ASSUME stack # <<>>, EndWalk
      PROVE  dispatching' = Len(stack')
    BY <1>1, <1>3, TopType DEF EndWalk
<1> QED BY <1>2, <1>3, AdvanceType

LEMMA EndWalkInductive ==
    ASSUME IInv, stack # <<>>, EndWalk
    PROVE  IInv'
<1>1. TypeOK /\ dispatching = Len(stack)
    BY DEF IInv, QuiescentClean
<1>2. TypeOK'
    BY <1>1, EndWalkType
<1>3. dispatching' = Len(stack')
    BY <1>1, DepthCounts
<1>4. registry' = Unref({}) /\ Sweep(Bury({}), dispatching') /\ registered' = registered
    BY <1>1, BuryNone DEF EndWalk
<1> QED BY <1>2, <1>3, <1>4, BurySweep DEF IInv

LEMMA AdvanceInductive ==
    ASSUME IInv, SkipDead \/ Call \/ Return
    PROVE  IInv'
<1>1. TypeOK /\ dispatching = Len(stack)
    BY DEF IInv, QuiescentClean
<1>2. TypeOK'
    BY <1>1, SkipDeadType, CallType, ReturnType
<1>3. stack # <<>> /\ \E f : Advance(f)
    BY DEF SkipDead, Call, Return, AtEntry
<1>4. Len(stack') = Len(stack) /\ stack' # <<>>
    BY <1>1, <1>3, TopType DEF Advance, TypeOK
<1>5. UNCHANGED <<lists, keys, registered, registry, dispatching>>
    BY DEF SkipDead, Call, Return
<1> QED BY <1>1, <1>2, <1>4, <1>5, WalkOnly DEF IInv

-----------------------------------------------------------------------------
(* The invariant                                                           *)

LEMMA InitInductive == Init => IInv
<1> SUFFICES ASSUME Init PROVE IInv
    OBVIOUS
<1>1. TypeOK
    BY InitType
<1>2. Numbering /\ OneSubscription
    BY DEF Init, Numbering, OneSubscription
<1>3. RefsMatchHandlers
    BY DEF Init, RefsMatchHandlers
<1>4. QuiescentClean
    BY DEF Init, QuiescentClean, Events
<1> QED BY <1>1, <1>2, <1>3, <1>4 DEF IInv

LEMMA NextInductive == IInv /\ [Next]_vars => IInv'
<1> SUFFICES ASSUME IInv, [Next]_vars PROVE IInv'
    OBVIOUS
<1>1. TypeOK /\ dispatching = Len(stack) /\ dispatching \in Int
    BY DEF IInv, QuiescentClean, TypeOK
<1>2. ASSUME NEW p \in Plugins, NEW e \in Events, NEW i \in Ids, Replace(p, e, i)
      PROVE  IInv'
    BY <1>1, <1>2, RegistrationType, ReplaceInductive DEF IInv
<1>3. ASSUME NEW p \in Plugins, NEW e \in Events, NEW i \in Ids, PushBack(p, e, i)
      PROVE  IInv'
    BY <1>1, <1>3, RegistrationType, PushBackInductive DEF IInv
<1>4. ASSUME NEW p \in Plugins, NEW e \in Events, NEW i \in Ids, Remove(p, e, i)
      PROVE  IInv'
  <2>1. TypeOK'
      BY <1>1, <1>4, RegistrationType
  <2>2. \A k \in Own(e, p, i) : \E x \in Events : k \in lists[x]
      BY DEF Own
  <2> QED BY <1>1, <1>4, <2>1, <2>2, BurySweep DEF Remove, IInv
<1>5. ASSUME NEW q \in Plugins, RemovePlugin(q)
      PROVE  IInv'
  <2>1. TypeOK'
      BY <1>1, <1>5, RemovePluginType
  <2>2. \A k \in Belonging(q) : \E x \in Events : k \in lists[x]
      BY DEF Belonging
  <2> QED BY <1>1, <1>5, <2>1, <2>2, BurySweep DEF RemovePlugin, IInv
<1>6. CASE Clear
  <2>1. TypeOK'
      BY <1>1, <1>6, HookConstants DEF Clear, TypeOK
  <2>2. Numbering' /\ OneSubscription'
      BY <1>6 DEF Clear, Numbering, OneSubscription
  <2>3. RefsMatchHandlers'
      BY <1>6 DEF Clear, RefsMatchHandlers
  <2>4. QuiescentClean'
      BY <1>6 DEF Clear, QuiescentClean, Events
  <2> QED BY <2>1, <2>2, <2>3, <2>4 DEF IInv
<1>7. ASSUME NEW e \in Events, StartWalk(e)
      PROVE  IInv'
  <2>1. TypeOK'
      BY <1>1, <1>7, StartWalkType
  <2>2. dispatching' = Len(stack') /\ stack' # <<>>
      BY <1>1, <1>7, DepthCounts
  <2> QED BY <1>7, <2>1, <2>2, WalkOnly DEF StartWalk, IInv
<1>8. CASE \E e \in Events : Fire(e)
    BY <1>7, <1>8 DEF Fire
<1>9. CASE \E p \in Plugins, c \in CustomEvents : HookRun(p, c)
    BY <1>7, <1>9 DEF HookRun, Events
<1>10. CASE SkipDead \/ Call \/ Return
    BY <1>10, AdvanceInductive
<1>11. CASE ReturnCancelled \/ Exhausted
    BY <1>11, EndWalkInductive DEF ReturnCancelled, Exhausted
<1>12. CASE UNCHANGED vars
    BY <1>12 DEF vars, IInv, TypeOK, Numbering, RefsMatchHandlers, OneSubscription,
                 QuiescentClean
<1> QED BY <1>2, <1>3, <1>4, <1>5, <1>6, <1>8, <1>9, <1>10, <1>11, <1>12 DEF Next

LEMMA Inductive == Spec => []IInv
BY InitInductive, NextInductive, PTL DEF Spec

-----------------------------------------------------------------------------
(* The theorems                                                            *)

\* The state of the event system is well formed in every reachable state.
THEOREM TypeCorrect == Spec => []TypeOK
<1>1. IInv => TypeOK
    BY DEF IInv
<1> QED BY <1>1, Inductive, PTL

\* However handlers, removals, nested events and teardowns interleave, a live
\* entry fetches its own closure from the registry and no slot leaks.
THEOREM RefsSafe == Spec => []RefsMatchHandlers
<1>1. IInv => RefsMatchHandlers
    BY DEF IInv
<1> QED BY <1>1, Inductive, PTL

\* A plugin is never subscribed twice under one id, tombstones notwithstanding.
THEOREM OneSubscriptionSafe == Spec => []OneSubscription
<1>1. IInv => OneSubscription
    BY DEF IInv
<1> QED BY <1>1, Inductive, PTL

\* When the outermost walk ends no tombstone and no empty name is left.
THEOREM QuiescentSafe == Spec => []QuiescentClean
<1>1. IInv => QuiescentClean
    BY DEF IInv
<1> QED BY <1>1, Inductive, PTL

\* Types, slots, subscriptions and tombstones together: what the run checks as one
\* invariant of the handler lists.
THEOREM ConsistentAlways == Spec => []Consistent
BY TypeCorrect, RefsSafe, OneSubscriptionSafe, QuiescentSafe, PTL DEF Consistent

\* A step that keeps the lists, or buries some entries without compacting.
LEMMA BuryOnlyGrows ==
    ASSUME TypeOK, NEW doomed, lists' = Bury(doomed)
    PROVE  OnlyGrows
<1> SUFFICES ASSUME NEW e \in Events
             PROVE  /\ \A h \in lists[e] : \E g \in Bury(doomed)[e] : g.n = h.n
                    /\ \A g \in Bury(doomed)[e] : \E h \in lists[e] : h.n = g.n
    BY DEF OnlyGrows
<1>1. ASSUME NEW h \in lists[e]
      PROVE  \E g \in Bury(doomed)[e] : g.n = h.n
  <2>1. h \in Handler
      BY DEF TypeOK
  <2>2. Buried(h).n = h.n
      BY <2>1 DEF Buried, Handler
  <2>3. (IF h \in doomed THEN Buried(h) ELSE h) \in Bury(doomed)[e]
      BY DEF Bury
  <2> QED BY <2>2, <2>3
<1> QED BY <1>1, BuryOrigin

LEMMA StepOnlyGrows == IInv /\ [Next]_vars => OnlyGrows
<1> SUFFICES ASSUME IInv, [Next]_vars, stack # <<>>, stack' # <<>> PROVE OnlyGrows
    BY DEF OnlyGrows
<1>1. TypeOK /\ dispatching = Len(stack) /\ dispatching \in Int
    BY DEF IInv, QuiescentClean, TypeOK
<1>2. dispatching > 0
    BY <1>1, TopType
<1>3. CASE lists' = lists
    BY <1>3 DEF OnlyGrows
<1>4. ASSUME NEW doomed, Sweep(Bury(doomed), dispatching)
      PROVE  OnlyGrows
    BY <1>1, <1>2, <1>4, BuryOnlyGrows DEF Sweep
<1>5. ASSUME NEW p \in Plugins, NEW e \in Events, NEW i \in Ids, Replace(p, e, i)
      PROVE  OnlyGrows
  <2>1. PICK h \in Own(e, p, i), r \in Refs :
            lists' = [lists EXCEPT ![e] = (@ \ {h}) \cup {[h EXCEPT !.ref = r]}]
      BY <1>5 DEF Replace
  <2>2. h \in lists[e] /\ h \in Handler
      BY <1>1 DEF Own, TypeOK
  <2>3. [h EXCEPT !.ref = r].n = h.n
      BY <2>2 DEF Handler
  <2> DEFINE k == [h EXCEPT !.ref = r]
  <2> HIDE DEF k
  <2>4. /\ k.n = h.n /\ lists'[e] = (lists[e] \ {h}) \cup {k}
        /\ \A x \in Events : x # e => lists'[x] = lists[x]
      BY <1>1, <2>1, <2>3 DEF TypeOK, k
  <2> QED BY <2>2, <2>4 DEF OnlyGrows
<1>6. ASSUME NEW p \in Plugins, NEW e \in Events, NEW i \in Ids, PushBack(p, e, i)
      PROVE  OnlyGrows
  <2>1. PICK r \in FreeRefs :
            lists' = [lists EXCEPT ![e] = @ \cup
                {[n |-> registered + 1, plugin |-> p, id |-> i, ref |-> r, dead |-> FALSE]}]
      BY <1>6 DEF PushBack
  <2> DEFINE k == [n |-> registered + 1, plugin |-> p, id |-> i, ref |-> r, dead |-> FALSE]
  <2>2. k.n = registered + 1
      OBVIOUS
  <2> HIDE DEF k
  <2>3. /\ lists'[e] = lists[e] \cup {k}
        /\ \A x \in Events : x # e => lists'[x] = lists[x]
      BY <1>1, <2>1 DEF TypeOK, k
  <2>4. \A h \in lists[e] : h.n < k.n
    <3>1. registered \in Int /\ \A h \in lists[e] : h.n \in Int
        BY <1>1, HookConstants DEF TypeOK, Handler
    <3>2. \A h \in lists[e] : h.n <= registered
        BY DEF IInv, Numbering
    <3> QED BY <2>2, <3>1, <3>2
  <2> QED BY <2>3, <2>4 DEF OnlyGrows
<1>7. CASE EndWalk
  <2>1. dispatching - 1 = Len(stack')
      BY <1>1, <1>7, DepthCounts DEF EndWalk
  <2>2. Len(stack') > 0
    <3>1. stack' \in Seq(Frame)
        BY <1>1, <1>7, EndWalkType DEF TypeOK
    <3> QED BY <3>1
  <2> QED BY <1>3, <1>7, <2>1, <2>2 DEF EndWalk, Sweep
<1>8. CASE SkipDead \/ Call \/ Return \/ UNCHANGED vars
    BY <1>3, <1>8 DEF SkipDead, Call, Return, vars
<1>9. CASE (\E e \in Events : Fire(e)) \/ (\E p \in Plugins, c \in CustomEvents : HookRun(p, c))
    BY <1>3, <1>9 DEF Fire, HookRun, StartWalk
<1> QED BY <1>4, <1>5, <1>6, <1>7, <1>8, <1>9
        DEF Next, Remove, RemovePlugin, Clear, ReturnCancelled, Exhausted

\* Nothing a handler does, teardown of its own plugin included, moves or erases
\* an entry of a list that is being walked.
THEOREM ListsOnlyGrow == Spec => ListsOnlyGrowUnderWalk
BY Inductive, StepOnlyGrows, PTL DEF Spec, ListsOnlyGrowUnderWalk
-----------------------------------------------------------------------------
(* Positions: the number of entries before an entry depends on the numbers *)
(* of the entries alone                                                    *)

NumbersOf(list) == {h.n : h \in list}

Distinct(list) == \A g, h \in list : g.n = h.n => g = h

LEMMA CountedByNumber ==
    ASSUME NEW list \in SUBSET Handler, Distinct(list)
    PROVE  /\ IsFiniteSet(list) /\ Cardinality(list) \in Nat
           /\ IsFiniteSet(NumbersOf(list))
           /\ Cardinality(list) = Cardinality(NumbersOf(list))
<1> DEFINE f == [h \in list |-> h.n]
<1>1. NumbersOf(list) \subseteq 1..MaxHandlers
    BY DEF NumbersOf, Handler
<1>2. IsFiniteSet(NumbersOf(list))
  <2>1. IsFiniteSet(1..MaxHandlers)
      BY HookConstants, FS_Interval
  <2> QED BY <1>1, <2>1, FS_Subset
<1>3. f \in [list -> NumbersOf(list)]
    BY DEF NumbersOf
<1>4. \A g, h \in list : f[g] = f[h] => g = h
    BY DEF Distinct
<1>5. \A m \in NumbersOf(list) : \E h \in list : f[h] = m
    BY DEF NumbersOf
<1> HIDE DEF f
<1>6. f \in Injection(list, NumbersOf(list))
    BY <1>3, <1>4 DEF Injection, IsInjective
<1>7. f \in Surjection(list, NumbersOf(list))
    BY <1>3, <1>5 DEF Surjection
<1>8. IsFiniteSet(list) /\ Cardinality(list) = Cardinality(NumbersOf(list))
    BY <1>2, <1>6, <1>7, FS_Injection
<1> QED BY <1>2, <1>8, FS_CardinalityType

\* An index names one entry, and every entry has an index.
LEMMA PositionFacts ==
    ASSUME NEW list \in SUBSET Handler, Distinct(list), NEW h \in list
    PROVE  /\ Position(h, list) \in Nat
           /\ Position(h, list) < Cardinality(list)
           /\ \A g \in list : Position(g, list) = Position(h, list) => g = h
<1> DEFINE Before(x) == {y \in list : y.n < x.n}
<1>1. IsFiniteSet(list) /\ Cardinality(list) \in Nat
    BY CountedByNumber
<1>2. \A x \in list : IsFiniteSet(Before(x)) /\ Cardinality(Before(x)) \in Nat
    BY <1>1, FS_Subset, FS_CardinalityType
<1>3. \A x \in list : x.n \in Int
    BY DEF Handler
<1>4. Cardinality(Before(h)) < Cardinality(list)
  <2>1. Before(h) \in SUBSET list /\ Before(h) # list
      BY <1>3
  <2> QED BY <1>1, <1>2, <2>1, FS_Subset
<1>5. ASSUME NEW x \in list, NEW y \in list, x.n < y.n
      PROVE  Cardinality(Before(x)) < Cardinality(Before(y))
  <2>1. Before(x) \in SUBSET Before(y)
      BY <1>3, <1>5
  <2>2. x \in Before(y) /\ x \notin Before(x)
      BY <1>3, <1>5
  <2> HIDE DEF Before
  <2>3. Before(x) # Before(y) /\ Cardinality(Before(x)) <= Cardinality(Before(y))
      BY <1>2, <2>1, <2>2, FS_Subset
  <2>4. Cardinality(Before(x)) # Cardinality(Before(y))
      BY <1>2, <2>1, <2>3, FS_Subset
  <2> QED BY <1>2, <2>3, <2>4
<1>6. \A x \in list : Position(x, list) = Cardinality(Before(x))
    BY DEF Position
<1> HIDE DEF Before
<1>7. ASSUME NEW g \in list, Position(g, list) = Position(h, list) PROVE g = h
  <2>1. ~(g.n < h.n) /\ ~(h.n < g.n)
      BY <1>2, <1>5, <1>6, <1>7
  <2>2. g.n = h.n
      BY <2>1, <1>3
  <2> QED BY <2>2 DEF Distinct
<1> QED BY <1>2, <1>4, <1>6, <1>7

\* Two lists with the same numbers below n have as many entries below n.
LEMMA SameBelow ==
    ASSUME NEW L \in SUBSET Handler, Distinct(L), NEW M \in SUBSET Handler, Distinct(M),
           NEW n \in Int,
           \A m \in 1..MaxHandlers : m < n => (m \in NumbersOf(L) <=> m \in NumbersOf(M))
    PROVE  Cardinality({g \in L : g.n < n}) = Cardinality({g \in M : g.n < n})
<1> DEFINE A == {g \in L : g.n < n}
           B == {g \in M : g.n < n}
<1>1. A \in SUBSET Handler /\ Distinct(A) /\ B \in SUBSET Handler /\ Distinct(B)
    BY DEF Distinct
<1>2. \A h \in Handler : h.n \in 1..MaxHandlers
    BY DEF Handler
<1>3. NumbersOf(A) = NumbersOf(B)
    BY <1>2 DEF NumbersOf
<1> HIDE DEF A, B
<1>4. Cardinality(A) = Cardinality(B)
    BY <1>1, <1>3, CountedByNumber
<1> QED BY <1>4 DEF A, B

-----------------------------------------------------------------------------
(* What every walk in progress knows of its list                           *)

\* A walk with the list it goes over, when the registration numbers handed out
\* end at last.
Standing(f, list, last) ==
    /\ f.at <= Cardinality(list)
    /\ f.called \subseteq 1..last
    /\ \A h \in list : /\ (~h.dead /\ Position(h, list) < f.at) => h.n \in f.called
                       /\ h.n \in f.called =>
                             Position(h, list) < f.at + (IF f.handler = 0 THEN 0 ELSE 1)
    /\ f.handler # 0 => /\ f.handler \in f.called
                        /\ \E h \in list : h.n = f.handler /\ Position(h, list) = f.at

InPlace == \A k \in 1..Len(stack) : Standing(stack[k], lists[stack[k].event], registered)

\* What a step inside a walk may make of a list: its entries stay, or die, and
\* at most one comes, with the next number.
GrowsInto(L, M, last) ==
    /\ \A h \in L : \E g \in M : g.n = h.n
    /\ \A g \in M : \/ \E h \in L : h.n = g.n /\ (h.dead => g.dead)
                    \/ g.n = last + 1
    /\ \A h \in L : h.n <= last

LEMMA StillStanding ==
    ASSUME NEW L \in SUBSET Handler, Distinct(L), NEW M \in SUBSET Handler, Distinct(M),
           NEW f \in Frame, NEW last \in Nat, NEW next \in Nat, last <= next,
           Standing(f, L, last), GrowsInto(L, M, last)
    PROVE  Standing(f, M, next)
<1>1. \A h \in Handler : h.n \in 1..MaxHandlers /\ h.n \in Int
    BY HookConstants DEF Handler
<1>2. NumbersOf(L) \subseteq NumbersOf(M)
    BY DEF NumbersOf, GrowsInto
<1>3. \A m \in NumbersOf(M) : m \in NumbersOf(L) \/ m = last + 1
    BY DEF NumbersOf, GrowsInto
<1>4. \A m \in NumbersOf(L) : m <= last
    BY DEF NumbersOf, GrowsInto
<1>5. Cardinality(L) \in Nat /\ Cardinality(M) \in Nat /\ Cardinality(L) <= Cardinality(M)
    BY <1>2, CountedByNumber, FS_Subset
<1>6. ASSUME NEW h \in L, NEW g \in M, h.n = g.n
      PROVE  Position(g, M) = Position(h, L)
  <2>1. \A m \in 1..MaxHandlers : m < h.n => (m \in NumbersOf(L) <=> m \in NumbersOf(M))
    <3>1. h.n <= last
        BY DEF GrowsInto
    <3> QED BY <1>1, <1>2, <1>3, <3>1
  <2>2. Cardinality({x \in L : x.n < h.n}) = Cardinality({x \in M : x.n < h.n})
      BY <1>1, <2>1, SameBelow
  <2> QED BY <1>6, <2>2 DEF Position
<1>7. ASSUME NEW g \in M, g.n = last + 1
      PROVE  Position(g, M) = Cardinality(L)
  <2>1. \A m \in 1..MaxHandlers : m < g.n => (m \in NumbersOf(L) <=> m \in NumbersOf(M))
      BY <1>1, <1>2, <1>3, <1>7
  <2>2. Cardinality({x \in L : x.n < g.n}) = Cardinality({x \in M : x.n < g.n})
      BY <1>1, <2>1, SameBelow
  <2>3. {x \in L : x.n < g.n} = L
      BY <1>1, <1>7 DEF GrowsInto
  <2> QED BY <2>2, <2>3 DEF Position
<1>8. f.at \in Nat /\ f.called \subseteq 1..next /\ f.at <= Cardinality(M)
    BY <1>5 DEF Standing, Frame
<1>9. ASSUME NEW g \in M
      PROVE  /\ (~g.dead /\ Position(g, M) < f.at) => g.n \in f.called
             /\ g.n \in f.called => Position(g, M) < f.at + (IF f.handler = 0 THEN 0 ELSE 1)
  <2>1. CASE \E h \in L : h.n = g.n /\ (h.dead => g.dead)
    <3>1. PICK h \in L : h.n = g.n /\ (h.dead => g.dead)
        BY <2>1
    <3>2. Position(g, M) = Position(h, L)
        BY <1>6, <3>1
    <3> QED BY <3>1, <3>2 DEF Standing
  <2>2. CASE g.n = last + 1
    <3>1. Position(g, M) = Cardinality(L) /\ f.at <= Cardinality(L)
        BY <1>7, <2>2 DEF Standing
    <3>2. g.n \notin f.called
        BY <2>2 DEF Standing
    <3> QED BY <3>1, <3>2, <1>5, <1>8
  <2> QED BY <2>1, <2>2 DEF GrowsInto
<1>10. ASSUME f.handler # 0
       PROVE  /\ f.handler \in f.called
              /\ \E g \in M : g.n = f.handler /\ Position(g, M) = f.at
  <2>1. PICK h \in L : h.n = f.handler /\ Position(h, L) = f.at
      BY <1>10 DEF Standing
  <2>2. PICK g \in M : g.n = h.n
      BY DEF GrowsInto
  <2> QED BY <1>6, <1>10, <2>1, <2>2 DEF Standing
<1> QED BY <1>8, <1>9, <1>10 DEF Standing

-----------------------------------------------------------------------------
(* Every step keeps the walks in place                                     *)

LEMMA ListsDistinct ==
    ASSUME TypeOK, Numbering, NEW e \in Events
    PROVE  /\ lists[e] \in SUBSET Handler /\ Distinct(lists[e])
           /\ Cardinality(lists[e]) \in Nat
           /\ \A h \in lists[e] : h.n <= registered /\ h.n \in Int
<1>1. lists[e] \in SUBSET Handler /\ Distinct(lists[e])
    BY DEF TypeOK, Numbering, Distinct
<1>2. \A h \in Handler : h.n \in Int
    BY HookConstants DEF Handler
<1> QED BY <1>1, <1>2, CountedByNumber DEF Numbering

LEMMA ListsDistinctNext ==
    ASSUME TypeOK', Numbering', NEW e \in Events
    PROVE  lists'[e] \in SUBSET Handler /\ Distinct(lists'[e])
BY DEF TypeOK, Numbering, Distinct

\* The handlers of a list grow; the walks are the same.
LEMMA GrowthKeeps ==
    ASSUME IInv, IInv', InPlace, stack' = stack, registered <= registered',
           \A e \in Events : GrowsInto(lists[e], lists'[e], registered)
    PROVE  InPlace'
<1> SUFFICES ASSUME NEW k \in 1..Len(stack)
             PROVE  Standing(stack[k], lists'[stack[k].event], registered')
    BY DEF InPlace
<1>1. TypeOK /\ Numbering /\ TypeOK' /\ Numbering'
    BY DEF IInv
<1>2. stack[k] \in Frame /\ registered \in Nat /\ registered' \in Nat
    BY <1>1, HookConstants DEF TypeOK
<1>3. stack[k].event \in Events
    BY <1>2 DEF Frame
<1>4. Standing(stack[k], lists[stack[k].event], registered)
    BY DEF InPlace
<1> QED BY <1>1, <1>2, <1>3, <1>4, ListsDistinct, ListsDistinctNext, StillStanding

LEMMA BuryGrows ==
    ASSUME TypeOK, Numbering, NEW doomed, NEW e \in Events
    PROVE  GrowsInto(lists[e], Bury(doomed)[e], registered)
<1>1. \A h \in lists[e] : \E g \in Bury(doomed)[e] : g.n = h.n
  <2> SUFFICES ASSUME NEW h \in lists[e] PROVE \E g \in Bury(doomed)[e] : g.n = h.n
      OBVIOUS
  <2>1. h \in Handler
      BY DEF TypeOK
  <2>2. Buried(h).n = h.n
      BY <2>1 DEF Buried, Handler
  <2>3. (IF h \in doomed THEN Buried(h) ELSE h) \in Bury(doomed)[e]
      BY DEF Bury
  <2> QED BY <2>2, <2>3
<1>2. \A g \in Bury(doomed)[e] : \E h \in lists[e] : h.n = g.n /\ (h.dead => g.dead)
  <2> SUFFICES ASSUME NEW g \in Bury(doomed)[e]
               PROVE  \E h \in lists[e] : h.n = g.n /\ (h.dead => g.dead)
      OBVIOUS
  <2>1. PICK h \in lists[e] : h.n = g.n /\ (h \in doomed => g.dead) /\ (h \notin doomed => g = h)
      BY BuryOrigin
  <2> QED BY <2>1
<1> QED BY <1>1, <1>2, ListsDistinct DEF GrowsInto

LEMMA SameGrows ==
    ASSUME TypeOK, Numbering, NEW e \in Events
    PROVE  GrowsInto(lists[e], lists[e], registered)
BY ListsDistinct DEF GrowsInto

\* hook.remove and the teardown of a plugin: inside a walk nothing is swept.
LEMMA BuriedInPlace ==
    ASSUME IInv, IInv', InPlace, NEW doomed,
           Sweep(Bury(doomed), dispatching), UNCHANGED <<registered, stack>>
    PROVE  InPlace'
<1>1. TypeOK /\ Numbering /\ dispatching = Len(stack) /\ dispatching \in Nat
    BY DEF IInv, TypeOK, QuiescentClean
<1>2. CASE dispatching = 0
    BY <1>1, <1>2 DEF InPlace
<1>3. CASE dispatching > 0
  <2>1. lists' = Bury(doomed)
      BY <1>1, <1>3 DEF Sweep
  <2>2. registered \in Nat
      BY <1>1, HookConstants DEF TypeOK
  <2> QED BY <1>1, <2>1, <2>2, BuryGrows, GrowthKeeps
<1> QED BY <1>1, <1>2, <1>3

LEMMA ReplaceInPlace ==
    ASSUME IInv, IInv', InPlace, NEW p \in Plugins, NEW e \in Events, NEW i \in Ids,
           Replace(p, e, i)
    PROVE  InPlace'
<1>1. TypeOK /\ Numbering
    BY DEF IInv
<1>2. PICK h \in Own(e, p, i), r \in Refs :
          lists' = [lists EXCEPT ![e] = (@ \ {h}) \cup {[h EXCEPT !.ref = r]}]
    BY DEF Replace
<1> DEFINE k == [h EXCEPT !.ref = r]
<1>3. h \in lists[e] /\ ~h.dead /\ h \in Handler
    BY <1>1 DEF Own, TypeOK
<1>4. k.n = h.n
    BY <1>3 DEF Handler
<1> HIDE DEF k
<1>5. /\ lists'[e] = (lists[e] \ {h}) \cup {k}
      /\ \A x \in Events : x # e => lists'[x] = lists[x]
    BY <1>1, <1>2 DEF TypeOK, k
<1>6. GrowsInto(lists[e], lists'[e], registered)
    BY <1>1, <1>3, <1>4, <1>5, ListsDistinct DEF GrowsInto
<1>7. \A x \in Events : GrowsInto(lists[x], lists'[x], registered)
    BY <1>1, <1>5, <1>6, SameGrows
<1>8. stack' = stack /\ registered' = registered /\ registered \in Nat
    BY <1>1, HookConstants DEF Replace, TypeOK
<1> QED BY <1>7, <1>8, GrowthKeeps

LEMMA PushBackInPlace ==
    ASSUME IInv, IInv', InPlace, NEW p \in Plugins, NEW e \in Events, NEW i \in Ids,
           PushBack(p, e, i)
    PROVE  InPlace'
<1>1. TypeOK /\ Numbering
    BY DEF IInv
<1>2. PICK r \in FreeRefs :
          lists' = [lists EXCEPT ![e] = @ \cup
                {[n |-> registered + 1, plugin |-> p, id |-> i, ref |-> r, dead |-> FALSE]}]
    BY DEF PushBack
<1> DEFINE k == [n |-> registered + 1, plugin |-> p, id |-> i, ref |-> r, dead |-> FALSE]
<1>3. k.n = registered + 1
    OBVIOUS
<1> HIDE DEF k
<1>4. /\ lists'[e] = lists[e] \cup {k}
      /\ \A x \in Events : x # e => lists'[x] = lists[x]
    BY <1>1, <1>2 DEF TypeOK, k
<1>5. GrowsInto(lists[e], lists'[e], registered)
    BY <1>1, <1>3, <1>4, ListsDistinct DEF GrowsInto
<1>6. \A x \in Events : GrowsInto(lists[x], lists'[x], registered)
    BY <1>1, <1>4, <1>5, SameGrows
<1>7. stack' = stack /\ registered' = registered + 1 /\ registered \in Nat
    BY <1>1, HookConstants DEF PushBack, TypeOK
<1> QED BY <1>6, <1>7, GrowthKeeps

LEMMA StartInPlace ==
    ASSUME IInv, InPlace, NEW e \in Events, StartWalk(e)
    PROVE  InPlace'
<1> DEFINE f == [event |-> e, at |-> 0, handler |-> 0, plugin |-> NoPlugin, called |-> {}]
<1>1. TypeOK /\ Numbering
    BY DEF IInv
<1>2. f \in Frame
    BY HookConstants DEF Frame
<1>3. f.event = e /\ f.at = 0 /\ f.handler = 0 /\ f.called = {}
    OBVIOUS
<1>4. stack' = Append(stack, f) /\ lists' = lists /\ registered' = registered
    BY DEF StartWalk
<1> HIDE DEF f
<1>5. /\ Len(stack') = Len(stack) + 1 /\ Len(stack) \in Nat
      /\ stack'[Len(stack) + 1] = f
      /\ \A k \in 1..Len(stack) : stack'[k] = stack[k]
    BY <1>1, <1>2, <1>4 DEF TypeOK
<1>6. Standing(f, lists[e], registered)
  <2>1. 0 <= Cardinality(lists[e])
      BY <1>1, ListsDistinct
  <2>2. \A h \in lists[e] : ~(Position(h, lists[e]) < 0)
    <3>1. \A h \in lists[e] : Position(h, lists[e]) \in Nat
        BY <1>1, ListsDistinct, PositionFacts
    <3> QED BY <3>1
  <2> QED BY <1>3, <2>1, <2>2 DEF Standing
<1>7. \A k \in 1..Len(stack') : k \in 1..Len(stack) \/ k = Len(stack) + 1
    BY <1>5
<1> QED BY <1>3, <1>4, <1>5, <1>6, <1>7 DEF InPlace

LEMMA EndInPlace ==
    ASSUME IInv, InPlace, stack # <<>>, EndWalk
    PROVE  InPlace'
<1>1. TypeOK /\ dispatching = Len(stack)
    BY DEF IInv, QuiescentClean
<1>2. Len(stack) \in Nat \ {0} /\ stack \in Seq(Frame)
    BY <1>1, TopType DEF TypeOK
<1>3. /\ stack' = SubSeq(stack, 1, Len(stack) - 1)
      /\ registered' = registered
      /\ dispatching - 1 > 0 => lists' = lists
    BY <1>1, <1>2 DEF EndWalk, Sweep
<1>4. Len(stack') = Len(stack) - 1 /\ \A k \in 1..Len(stack') : stack'[k] = stack[k]
  <2>1. \A n \in 0..Len(stack) : /\ Len(SubSeq(stack, 1, n)) = n
                                 /\ \A k \in 1..n : SubSeq(stack, 1, n)[k] = stack[k]
      BY <1>2
  <2>2. Len(stack) - 1 \in 0..Len(stack)
      BY <1>2
  <2> QED BY <1>3, <2>1, <2>2
<1>5. CASE Len(stack) = 1
    BY <1>4, <1>5 DEF InPlace
<1>6. CASE Len(stack) # 1
  <2>1. lists' = lists
      BY <1>1, <1>2, <1>3, <1>6
  <2>2. \A k \in 1..Len(stack') : k \in 1..Len(stack)
      BY <1>2, <1>4
  <2> QED BY <1>3, <1>4, <2>1, <2>2 DEF InPlace
<1> QED BY <1>5, <1>6

\* The innermost walk moves on.
LEMMA AdvanceInPlace ==
    ASSUME TypeOK, InPlace, stack # <<>>, NEW f \in Frame, Advance(f), f.event = Top.event,
           lists' = lists, registered' = registered,
           Standing(f, lists[f.event], registered)
    PROVE  InPlace'
<1>1. Len(stack) \in Nat \ {0} /\ stack \in Seq(Frame)
    BY TopType DEF TypeOK
<1>2. /\ Len(stack') = Len(stack) /\ stack'[Len(stack)] = f
      /\ \A k \in 1..Len(stack) : k # Len(stack) => stack'[k] = stack[k]
    BY <1>1 DEF Advance
<1> QED BY <1>2 DEF InPlace

LEMMA TopStands ==
    ASSUME IInv, InPlace, stack # <<>>
    PROVE  /\ Top \in Frame /\ Top.event \in Events /\ Top.at \in Nat
           /\ Standing(Top, lists[Top.event], registered)
           /\ lists[Top.event] \in SUBSET Handler /\ Distinct(lists[Top.event])
           /\ Cardinality(lists[Top.event]) \in Nat
           /\ \A h \in lists[Top.event] : h.n <= registered
<1>1. TypeOK /\ Numbering
    BY DEF IInv
<1>2. Top \in Frame /\ Len(stack) \in 1..Len(stack)
    BY <1>1, TopType
<1>3. Top.event \in Events /\ Top.at \in Nat
    BY <1>2 DEF Frame
<1>4. Standing(Top, lists[Top.event], registered)
    BY <1>2 DEF InPlace, Top
<1> QED BY <1>1, <1>2, <1>3, <1>4, ListsDistinct

LEMMA SkipDeadInPlace ==
    ASSUME IInv, InPlace, SkipDead
    PROVE  InPlace'
<1>1. PICK h \in UNION {lists[e] : e \in Events} :
          AtEntry(h) /\ h.dead /\ Advance([Top EXCEPT !.at = @ + 1])
    BY DEF SkipDead
<1>2. /\ stack # <<>> /\ Top.handler = 0 /\ h \in lists[Top.event]
      /\ Position(h, lists[Top.event]) = Top.at
    BY <1>1 DEF AtEntry
<1> DEFINE f == [Top EXCEPT !.at = @ + 1]
           L == lists[Top.event]
<1>3. /\ Top \in Frame /\ Top.event \in Events /\ Top.at \in Nat
      /\ Standing(Top, L, registered) /\ L \in SUBSET Handler /\ Distinct(L)
      /\ Cardinality(L) \in Nat
    BY <1>2, TopStands
<1>4. /\ f \in Frame /\ f.at = Top.at + 1 /\ f.handler = 0 /\ f.called = Top.called
      /\ f.event = Top.event
    BY <1>2, <1>3 DEF Frame
<1>5. Advance(f) /\ lists' = lists /\ registered' = registered /\ TypeOK
    BY <1>1 DEF SkipDead, IInv
<1>6. h \in L /\ Position(h, L) = Top.at
    BY <1>2
<1> HIDE DEF f, L
<1>7. \A g \in L : Position(g, L) \in Nat /\ (Position(g, L) = Top.at => g = h)
    BY <1>3, <1>6, PositionFacts
<1>8. Top.at < Cardinality(L)
    BY <1>3, <1>6, PositionFacts
<1>9. Standing(f, L, registered)
  <2>1. f.at <= Cardinality(L)
      BY <1>3, <1>4, <1>8
  <2>2. \A g \in L : (~g.dead /\ Position(g, L) < f.at) => g.n \in f.called
      BY <1>1, <1>3, <1>4, <1>7 DEF Standing
  <2>3. \A g \in L : g.n \in f.called => Position(g, L) < f.at
      BY <1>2, <1>3, <1>4, <1>7 DEF Standing
  <2> QED BY <1>3, <1>4, <2>1, <2>2, <2>3 DEF Standing
<1>10. L = lists[f.event]
    BY <1>4 DEF L
<1> QED BY <1>2, <1>4, <1>5, <1>9, <1>10, AdvanceInPlace

LEMMA CallInPlace ==
    ASSUME IInv, InPlace, Call
    PROVE  InPlace'
<1>1. PICK h \in UNION {lists[e] : e \in Events} :
          /\ AtEntry(h)
          /\ Advance([Top EXCEPT !.handler = h.n, !.plugin = h.plugin, !.called = @ \cup {h.n}])
    BY DEF Call
<1>2. /\ stack # <<>> /\ Top.handler = 0 /\ h \in lists[Top.event]
      /\ Position(h, lists[Top.event]) = Top.at
    BY <1>1 DEF AtEntry
<1> DEFINE f == [Top EXCEPT !.handler = h.n, !.plugin = h.plugin, !.called = @ \cup {h.n}]
           L == lists[Top.event]
<1>3. /\ Top \in Frame /\ Top.event \in Events /\ Top.at \in Nat
      /\ Standing(Top, L, registered) /\ L \in SUBSET Handler /\ Distinct(L)
      /\ h.n <= registered
    BY <1>2, TopStands
<1>4. h \in Handler /\ h.n \in 1..MaxHandlers
    BY <1>2, <1>3 DEF Handler
<1>5. /\ f.at = Top.at /\ f.handler = h.n /\ f.called = Top.called \cup {h.n}
      /\ f.event = Top.event
    BY <1>3 DEF Frame
<1>6. f \in Frame
  <2>1. h.n \in 0..MaxHandlers /\ h.plugin \in Plugins \cup {NoPlugin}
      BY <1>4 DEF Handler
  <2>2. Top.called \cup {h.n} \in SUBSET (1..MaxHandlers)
      BY <1>3, <1>4 DEF Frame
  <2> QED BY <1>3, <2>1, <2>2, FrameUpdate
<1>7. Advance(f) /\ lists' = lists /\ registered' = registered /\ TypeOK
    BY <1>1 DEF Call, IInv
<1>8. h \in L /\ Position(h, L) = Top.at
    BY <1>2
<1> HIDE DEF f, L
<1>9. \A g \in L : Position(g, L) \in Nat /\ (g.n = h.n => g = h)
    BY <1>3, <1>8, PositionFacts DEF Distinct
<1>10. f.handler # 0 /\ registered \in Nat
    BY <1>4, <1>5, <1>7, HookConstants DEF TypeOK
<1>11. Standing(f, L, registered)
  <2>1. f.at <= Cardinality(L)
      BY <1>3, <1>5 DEF Standing
  <2>2. f.called \subseteq 1..registered
      BY <1>3, <1>4, <1>5, <1>10 DEF Standing
  <2>3. \A g \in L : (~g.dead /\ Position(g, L) < f.at) => g.n \in f.called
      BY <1>3, <1>5 DEF Standing
  <2>4. \A g \in L : g.n \in f.called => Position(g, L) < f.at + 1
      BY <1>2, <1>3, <1>5, <1>8, <1>9 DEF Standing
  <2> QED BY <1>5, <1>8, <1>10, <2>1, <2>2, <2>3, <2>4 DEF Standing
<1>12. L = lists[f.event]
    BY <1>5 DEF L
<1> QED BY <1>2, <1>5, <1>6, <1>7, <1>11, <1>12, AdvanceInPlace

LEMMA ReturnInPlace ==
    ASSUME IInv, InPlace, Return
    PROVE  InPlace'
<1> DEFINE f == [Top EXCEPT !.handler = 0, !.plugin = NoPlugin, !.at = @ + 1]
           L == lists[Top.event]
<1>1. stack # <<>> /\ Top.handler # 0
    BY DEF Return
<1>2. /\ Top \in Frame /\ Top.event \in Events /\ Top.at \in Nat
      /\ Standing(Top, L, registered) /\ L \in SUBSET Handler /\ Distinct(L)
      /\ Cardinality(L) \in Nat
    BY <1>1, TopStands
<1>3. /\ f.at = Top.at + 1 /\ f.handler = 0 /\ f.called = Top.called
      /\ f.event = Top.event
    BY <1>2 DEF Frame
<1>4. f \in Frame
  <2>1. 0 \in 0..MaxHandlers /\ Top.at + 1 \in Nat
      BY <1>2, HookConstants
  <2> QED BY <1>2, <2>1, FrameUpdate
<1>5. Advance(f) /\ lists' = lists /\ registered' = registered /\ TypeOK
    BY DEF Return, IInv
<1> HIDE DEF f, L
<1>6. PICK h \in L : h.n = Top.handler /\ Position(h, L) = Top.at
    BY <1>1, <1>2 DEF Standing
<1>7. \A g \in L : Position(g, L) \in Nat /\ (Position(g, L) = Top.at => g = h)
    BY <1>2, <1>6, PositionFacts
<1>8. Top.at < Cardinality(L) /\ h.n \in Top.called
    BY <1>1, <1>2, <1>6, PositionFacts DEF Standing
<1>9. Standing(f, L, registered)
  <2>1. f.at <= Cardinality(L)
      BY <1>2, <1>3, <1>8
  <2>2. \A g \in L : (~g.dead /\ Position(g, L) < f.at) => g.n \in f.called
      BY <1>2, <1>3, <1>7, <1>8 DEF Standing
  <2>3. \A g \in L : g.n \in f.called => Position(g, L) < f.at
      BY <1>1, <1>2, <1>3, <1>7 DEF Standing
  <2> QED BY <1>2, <1>3, <2>1, <2>2, <2>3 DEF Standing
<1>10. L = lists[f.event]
    BY <1>3 DEF L
<1> QED BY <1>1, <1>3, <1>4, <1>5, <1>9, <1>10, AdvanceInPlace

LEMMA NextInPlace == IInv /\ InPlace /\ [Next]_vars => InPlace'
<1> SUFFICES ASSUME IInv, InPlace, [Next]_vars PROVE InPlace'
    OBVIOUS
<1>1. IInv'
    BY NextInductive
<1>2. ASSUME NEW p \in Plugins, NEW e \in Events, NEW i \in Ids,
             Replace(p, e, i) \/ PushBack(p, e, i) \/ Remove(p, e, i)
      PROVE  InPlace'
    BY <1>1, <1>2, ReplaceInPlace, PushBackInPlace, BuriedInPlace DEF Remove
<1>3. ASSUME NEW q \in Plugins, RemovePlugin(q)
      PROVE  InPlace'
    BY <1>1, <1>3, BuriedInPlace DEF RemovePlugin
<1>4. CASE Clear
    BY <1>4 DEF Clear, InPlace
<1>5. ASSUME NEW e \in Events, StartWalk(e)
      PROVE  InPlace'
    BY <1>5, StartInPlace
<1>6. CASE \E e \in Events : Fire(e)
    BY <1>5, <1>6 DEF Fire
<1>7. CASE \E p \in Plugins, c \in CustomEvents : HookRun(p, c)
    BY <1>5, <1>7 DEF HookRun, Events
<1>8. CASE SkipDead \/ Call \/ Return
    BY <1>8, SkipDeadInPlace, CallInPlace, ReturnInPlace
<1>9. CASE ReturnCancelled \/ Exhausted
    BY <1>9, EndInPlace DEF ReturnCancelled, Exhausted
<1>10. CASE UNCHANGED vars
    BY <1>10 DEF vars, InPlace
<1> QED BY <1>2, <1>3, <1>4, <1>6, <1>7, <1>8, <1>9, <1>10 DEF Next

\* Whatever handlers do to the lists while they are walked, a live handler that a
\* walk has come past was called by it, once, and one ahead of it was not yet.
THEOREM NobodySkippedAlways == Spec => []NobodySkipped
<1>1. Init => InPlace
    BY DEF Init, InPlace
<1>2. InPlace => NobodySkipped
    BY DEF InPlace, Standing, NobodySkipped
<1> QED BY <1>1, <1>2, Inductive, NextInPlace, PTL DEF Spec

=============================================================================
