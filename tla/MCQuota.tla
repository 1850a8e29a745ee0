------------------------------- MODULE MCQuota ------------------------------
(* Instances of Quota for TLC: a search quota and a sign-in limit of one.  *)
(* Periods 0 and 2 are the same minute of the night the clocks go back,    *)
(* period 1 is what lies between; for a search they are three days.        *)
EXTENDS Quota, TLC

CONSTANTS search, auth

OneEach == (search :> 1) @@ (auth :> 1)
DayOfChange == {<<search, 1>>}
Written == (search :> [p \in 0..LastPeriod |-> p]) @@ (auth :> [p \in 0..LastPeriod |-> p % 2])
=============================================================================
