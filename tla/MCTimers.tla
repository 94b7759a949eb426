------------------------------ MODULE MCTimers ------------------------------
(* A small instance of Timers for TLC.                                     *)
EXTENDS Timers, TLC

\* Nothing orders plugins or registry slots.
MCSymmetry == Permutations(Plugins) \cup Permutations(Refs)
=============================================================================
