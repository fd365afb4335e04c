-------------------------- MODULE MCRelayAdmission --------------------------
(* Two sessions of one key whose plan has one stream, two symbols for a    *)
(* pool of one worker: slots, limiters and workers all run out.            *)
EXTENDS RelayAdmission, TLC

CONSTANTS k1
OneKey == [s \in Sessions |-> k1]
Symmetry == Permutations(Sessions) \cup Permutations(Symbols)
OneStream == [s \in Sessions |-> 1]
=============================================================================
