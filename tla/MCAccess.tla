-------------------------------- MODULE MCAccess ------------------------------
EXTENDS Access, TLC

AllTables == Entries

\* Nothing orders maps.
MCSymmetry == Permutations(Maps)
=============================================================================
