------------------------------- MODULE Queues -------------------------------
(***************************************************************************)
(* The std::deque and std::vector of requests and timers, as sequences.    *)
(* Without is what erase leaves, written so that it can be reasoned about. *)
(***************************************************************************)
EXTENDS Integers, Sequences

Elements(seq) == {seq[k] : k \in 1..Len(seq)}

\* A queue after some of its entries were erased: kept[n] is what stays of the
\* first n.
Without(seq, doomed) ==
    LET kept[n \in 0..Len(seq)] ==
          IF n = 0 THEN <<>>
          ELSE IF seq[n] \in doomed THEN kept[n - 1] ELSE Append(kept[n - 1], seq[n])
    IN  kept[Len(seq)]
=============================================================================
