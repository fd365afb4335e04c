------------------------------ MODULE MCUsage ------------------------------
(* Two goroutines recording for one API key while flushLoop runs.          *)
EXTENDS Usage
=============================================================================
