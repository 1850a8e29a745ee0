----------------------------- MODULE AccountLife ----------------------------
(***************************************************************************)
(* What the account endpoints promise, each as one atomic step: an account *)
(* is opened with a password or with Google, its address is proven, it may *)
(* be linked to Google, and it is closed.  An address belongs to at most   *)
(* one account; it changes only together with a proof of ownership; Google *)
(* accounts stay Google accounts and closed ones stay closed.              *)
(***************************************************************************)
CONSTANTS Users, Addrs, None

VARIABLES
    stage,  \* user -> "absent", "unproven", "proven", "google" or "closed"
    login   \* user -> its address, None when it has none

Free(u, a) == a = None \/ \A v \in Users \ {u} : login[v] # a

Set(u, s, a) ==
    /\ Free(u, a)
    /\ stage' = [stage EXCEPT ![u] = s]
    /\ login' = [login EXCEPT ![u] = a]

Open(u, a) == stage[u] = "absent" /\ Set(u, "unproven", a)
OpenGoogle(u, a) == stage[u] = "absent" /\ Set(u, "google", a)
Prove(u, a) == stage[u] \in {"unproven", "proven"} /\ Set(u, "proven", a)
Link(u, a) == stage[u] \in {"unproven", "proven", "google"} /\ Set(u, "google", a)
Close(u) == stage[u] \in {"unproven", "proven", "google"} /\ Set(u, "closed", None)

Init ==
    /\ stage = [u \in Users |-> "absent"]
    /\ login = [u \in Users |-> None]

Next ==
    \E u \in Users :
        \/ \E a \in Addrs : Open(u, a) \/ Prove(u, a)
        \/ \E a \in Addrs \cup {None} : OpenGoogle(u, a) \/ Link(u, a)
        \/ Close(u)

Spec == Init /\ [][Next]_<<stage, login>>
=============================================================================
