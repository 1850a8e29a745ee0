----------------------------- MODULE FileDrawer -----------------------------
(***************************************************************************)
(* What the attachments promise: each account has a drawer of at most      *)
(* Limit files; a file enters one drawer, and leaves by being deleted or   *)
(* with the whole drawer when the account is.                              *)
(***************************************************************************)
EXTENDS Naturals, FiniteSets

CONSTANTS Owners, Files, Limit

VARIABLE drawer   \* account -> the files in its drawer

Init == drawer = [u \in Owners |-> {}]

Put(u, f) ==
    /\ f \notin UNION {drawer[v] : v \in Owners}
    /\ Cardinality(drawer[u]) < Limit
    /\ drawer' = [drawer EXCEPT ![u] = @ \cup {f}]

Take(u, f) ==
    /\ f \in drawer[u]
    /\ drawer' = [drawer EXCEPT ![u] = @ \ {f}]

Empty(u) == drawer' = [drawer EXCEPT ![u] = {}]

Next == \E u \in Owners : Empty(u) \/ \E f \in Files : Put(u, f) \/ Take(u, f)

Spec == Init /\ [][Next]_drawer
=============================================================================
