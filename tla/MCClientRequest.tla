-------------------------- MODULE MCClientRequest --------------------------
(* Two callers that make three calls between them, so that a call overlaps *)
(* late copies of an earlier one.                                          *)
EXTENDS ClientRequest, TLC

CallerSymmetry == Permutations(Callers)
=============================================================================
