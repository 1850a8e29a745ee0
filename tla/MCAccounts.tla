----------------------------- MODULE MCAccounts -----------------------------
(* Instances of Accounts for TLC.                                          *)
EXTENDS Accounts, TLC

Symmetry == Permutations(Users) \cup Permutations(Addrs) \cup Permutations(Clients)

GuessOps == OpNames \cup {"expire", "crash"}
SerialOps == OpNames \cup {"logout", "crash"}
RaceOps == {"register", "verify", "patch", "callback", "delete"}
=============================================================================
