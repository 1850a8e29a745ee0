----------------------------- MODULE FriendLife -----------------------------
(***************************************************************************)
(* What the friendship endpoints promise, each as one atomic step: a user  *)
(* asks another; two users become friends only when one agrees to what the *)
(* other has asked and not taken back; either ends it, for both at once.   *)
(***************************************************************************)
CONSTANT Users

VARIABLES
    asked,   \* pairs <<a, b>>: a has asked b and b has not answered
    friends  \* sets {a, b} of two friends

Ask(a, b) ==
    /\ asked' = asked \cup {<<a, b>>}
    /\ UNCHANGED friends

Agree(a, b) ==
    /\ <<b, a>> \in asked
    /\ asked' = asked \ {<<b, a>>}
    /\ friends' = friends \cup {{a, b}}

Decline(a, b) ==
    /\ asked' = asked \ {<<b, a>>}
    /\ UNCHANGED friends

End(a, b) ==
    /\ asked' = asked \ {<<a, b>>, <<b, a>>}
    /\ friends' = friends \ {{a, b}}

Leave(u) ==
    /\ asked' = {p \in asked : u # p[1] /\ u # p[2]}
    /\ friends' = {f \in friends : u \notin f}

Init == asked = {} /\ friends = {}

Next ==
    \/ \E a, b \in Users :
         a # b /\ (Ask(a, b) \/ Agree(a, b) \/ Decline(a, b) \/ End(a, b))
    \/ \E u \in Users : Leave(u)

Spec == Init /\ [][Next]_<<asked, friends>>
=============================================================================
