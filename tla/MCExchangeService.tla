------------------------- MODULE MCExchangeService -------------------------
(* Instance of ExchangeService: two callers, two perpetuals and a spot coin. *)
EXTENDS ExchangeService, TLC

CONSTANTS c1, c2

CallerSymmetry == Permutations({c1, c2})
=============================================================================
