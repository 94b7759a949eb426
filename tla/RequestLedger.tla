---------------------------- MODULE RequestLedger ----------------------------
(***************************************************************************)
(* What an asynchronous namespace of cs-lua promises the plugin that uses  *)
(* it: a request that was accepted is waiting until it is either called    *)
(* back, once, or dropped for good.  Nothing that was dropped is called    *)
(* back, and nothing is settled twice.  HttpClient and MySql implement it  *)
(* for the requests a plugin sends, HttpServer for those it is asked to    *)
(* answer.                                                                 *)
(***************************************************************************)
CONSTANT Requests

VARIABLE status

Statuses == {"unasked", "waiting", "called", "dropped"}

Waiting == {id \in Requests : status[id] = "waiting"}

Init == status = [id \in Requests |-> "unasked"]

\* The namespace takes a callback and returns an id.
Ask(id) ==
    /\ status[id] = "unasked"
    /\ status' = [status EXCEPT ![id] = "waiting"]

\* The callback runs, on the game thread.
CallBack(id) ==
    /\ status[id] = "waiting"
    /\ status' = [status EXCEPT ![id] = "called"]

\* A cancel, the unloading of a plugin or the end of the Lua state.
Drop(ids) ==
    /\ ids \subseteq Waiting
    /\ status' = [id \in Requests |-> IF id \in ids THEN "dropped" ELSE status[id]]

Next ==
    \/ \E ids \in SUBSET Waiting : Drop(ids)
    \/ \E id \in Requests : Ask(id) \/ CallBack(id)

Spec == Init /\ [][Next]_status
=============================================================================
