------------------------------ MODULE MCDatabase ------------------------------
EXTENDS Database, TLC

MCSymmetry == Permutations(Plugins)
=============================================================================
