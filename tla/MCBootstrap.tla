----------------------------- MODULE MCBootstrap -----------------------------
(* Instances of Bootstrap for TLC.                                         *)
EXTENDS Bootstrap
=============================================================================
