---------------------------- MODULE MCGameEvents ----------------------------
EXTENDS GameEvents, TLC

MCSymmetry == Permutations(Plugins)
=============================================================================
