------------------------------ MODULE MCSearch ------------------------------
(* Instances of Search for TLC.                                            *)
EXTENDS Search, TLC

CONSTANTS p1, p2, c1, c2, c3

(* Two prompts: in one the first cards of both legs tie below a shared one *)
(* and may push each other out; in the other the legs share nothing.       *)
TwoLexical == (p1 :> <<c1, c2>>) @@ (p2 :> <<c1>>)
TwoSemantic == (p1 :> <<c3, c2>>) @@ (p2 :> <<c2, c3>>)
TwoTies == {(c1 :> 1) @@ (c2 :> 2) @@ (c3 :> 3), (c1 :> 3) @@ (c2 :> 2) @@ (c3 :> 1)}
=============================================================================
