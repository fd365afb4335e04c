---------------------------- MODULE MCFanoutHub ----------------------------
(* Instances of FanoutHub: one symbol with its feed, a WebSocket client and, *)
(* but for the run that only asks whether a goroutine panics, a gRPC stream. *)
EXTENDS FanoutHub, TLC
=============================================================================
