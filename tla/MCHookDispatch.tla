--------------------------- MODULE MCHookDispatch ---------------------------
(* A small instance of HookDispatch for TLC.                               *)
EXTENDS HookDispatch, TLC

\* Plugins, registry slots and ids are interchangeable: nothing orders them.
MCSymmetry == Permutations(Plugins) \cup Permutations(Refs)
=============================================================================
