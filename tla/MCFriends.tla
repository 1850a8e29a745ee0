------------------------------ MODULE MCFriends -----------------------------
(* Instances of Friends for TLC.                                           *)
EXTENDS Friends, TLC

Symmetry == Permutations(Users) \cup Permutations(Workers)
=============================================================================
