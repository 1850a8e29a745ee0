------------------------------ MODULE MCHearts ------------------------------
(* Instances of Hearts for TLC.                                            *)
EXTENDS Hearts, TLC

Symmetry == Permutations(Accounts) \cup Permutations(Items)
=============================================================================
