------------------------------ MODULE MCWSPost ------------------------------
(* Two callers and two calls, which may overlap or follow each other: an id *)
(* is used after another call timed out with its answer on the way.         *)
EXTENDS WSPost
=============================================================================
