------------------------------ MODULE MCProfile ------------------------------
EXTENDS Profile, TLC

Symmetric == Permutations(Runs) \cup Permutations(Restores)
=============================================================================
