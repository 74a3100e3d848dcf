--------------------------- MODULE MCSignalBridge ---------------------------
(* The risk limits in units of $100, scaled down so that few trades reach    *)
(* them.                                                                     *)
EXTENDS SignalBridge

MCSwings == {-1, 1}
=============================================================================
