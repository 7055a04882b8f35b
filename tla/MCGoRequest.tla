---------------------------- MODULE MCGoRequest ----------------------------
(* Values for the constants of GoRequest.                                     *)
EXTENDS GoRequest

TwoGoroutines == {"g1", "g2"}
=============================================================================
