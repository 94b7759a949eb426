------------------------------ MODULE MCMessages ------------------------------
EXTENDS Messages, TLC

Slots == Permutations(Players)
=============================================================================
