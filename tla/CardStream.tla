----------------------------- MODULE CardStream -----------------------------
(***************************************************************************)
(* What a search promises the page that reads it: a stream opens, brings   *)
(* each card at most once, and says when it is over; nothing follows that. *)
(***************************************************************************)
EXTENDS Sequences

CONSTANTS Streams, Cards

VARIABLES
    phase,  \* stream -> "unborn", "open" or "over"
    out     \* stream -> the cards it has brought, in order

vars == <<phase, out>>

Brought(s) == {out[s][k] : k \in DOMAIN out[s]}

Init ==
    /\ phase = [s \in Streams |-> "unborn"]
    /\ out = [s \in Streams |-> <<>>]

Open(s) ==
    /\ phase[s] = "unborn"
    /\ phase' = [phase EXCEPT ![s] = "open"]
    /\ UNCHANGED out

Bring(s, c) ==
    /\ phase[s] = "open" /\ c \notin Brought(s)
    /\ out' = [out EXCEPT ![s] = Append(@, c)]
    /\ UNCHANGED phase

End(s) ==
    /\ phase[s] # "over"
    /\ phase' = [phase EXCEPT ![s] = "over"]
    /\ UNCHANGED out

Next == \E s \in Streams : Open(s) \/ End(s) \/ \E c \in Cards : Bring(s, c)

Spec == Init /\ [][Next]_vars
=============================================================================
