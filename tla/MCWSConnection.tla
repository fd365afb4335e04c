--------------------------- MODULE MCWSConnection ---------------------------
(* Instances of WSConnection.  Each cfg is a scenario: which operations the *)
(* users perform, whether dials can fail, how many connections there are.   *)
EXTENDS WSConnection
=============================================================================
