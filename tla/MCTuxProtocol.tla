--------------------------- MODULE MCTuxProtocol ---------------------------
(* TuxProtocol with two LED values and a bounded number of resets.          *)
EXTENDS TuxProtocol
=============================================================================
