---------------------------- MODULE TimerPromise ----------------------------
(***************************************************************************)
(* What timer.* promises a plugin: a timer is a countdown of server time   *)
(* that has been played.  The clock a map starts from, and the frame at    *)
(* which a wait was taken over, are no part of it.  Timers implements it.  *)
(***************************************************************************)
EXTENDS Integers

CONSTANTS Timers,   \* identities of timers
          Delays    \* the waits a plugin asks for

VARIABLES left,     \* what is left to wait, for every timer that is set
          every,    \* its period, 0 for one that fires once
          keeps     \* whether it survives a change of map

vars == <<left, every, keeps>>

IsSet == DOMAIN left

Without(f, ids) == [id \in DOMAIN f \ ids |-> f[id]]

With(f, id, value) == [i \in DOMAIN f \cup {id} |-> IF i = id THEN value ELSE f[i]]

Init ==
    /\ left = [id \in {} |-> 0]
    /\ every = [id \in {} |-> 0]
    /\ keeps = [id \in {} |-> TRUE]

\* A new timer, or a named one that is set again: the wait begins anew.
Set(id) ==
    /\ \E d \in Delays :
          /\ left' = With(left, id, d)
          /\ every' \in {With(every, id, period) : period \in {0, d}}
    /\ keeps' \in {With(keeps, id, k) : k \in BOOLEAN}

\* Some are gone: a cancel, an error of its callback, the end of its plugin or of everything.
Drop(ids) ==
    /\ left' = Without(left, ids)
    /\ every' = Without(every, ids)
    /\ keeps' = Without(keeps, ids)

\* A frame goes by for everybody.
Tick ==
    /\ left' = [id \in IsSet |-> IF left[id] = 0 THEN 0 ELSE left[id] - 1]
    /\ UNCHANGED <<every, keeps>>

\* Not before the wait is over; a repeating timer begins its next one.
Fire(id) ==
    /\ id \in IsSet
    /\ left[id] = 0
    /\ IF every[id] = 0
       THEN Drop({id})
       ELSE left' = [left EXCEPT ![id] = every[id]] /\ UNCHANGED <<every, keeps>>

\* Who does not survive is dropped; the others have as long to wait as before.
ChangeMap == Drop({id \in IsSet : ~keeps[id]})

Next ==
    \/ Drop(IsSet \ DOMAIN left')
    \/ Tick
    \/ ChangeMap
    \/ \E id \in Timers : Set(id) \/ Fire(id)

Spec == Init /\ [][Next]_vars
=============================================================================
