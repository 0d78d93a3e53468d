---------------------------- MODULE MCConnTable -----------------------------
EXTENDS ConnTable, TLC

Symmetry == Permutations(Clients)
=============================================================================
