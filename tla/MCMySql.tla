------------------------------- MODULE MCMySql -------------------------------
EXTENDS MySql

CONSTANT m1

MCBatches == {<<m1>>}
=============================================================================
