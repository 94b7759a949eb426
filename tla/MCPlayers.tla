------------------------------- MODULE MCPlayers ------------------------------
EXTENDS Players
=============================================================================
