------------------------------ MODULE MCNonce ------------------------------
(* Two goroutines that make four calls between them, so that each may call  *)
(* again while the other is in the loop, and a clock that can lag, meet and *)
(* lead the counter.                                                        *)
EXTENDS Nonce
=============================================================================
