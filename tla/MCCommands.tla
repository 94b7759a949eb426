------------------------------ MODULE MCCommands ------------------------------
(* A small instance of Commands for TLC.                                   *)
EXTENDS Commands, TLC

\* Everywhere, as without a list, and from one place.
MCAsked == {Sources, {"console"}}

MCSymmetry == Permutations(Plugins)
=============================================================================
