---------------------------- MODULE MCFadeBridge ----------------------------
(* Losses up to three, so that few trades reach the halts.                   *)
EXTENDS FadeBridge

MCResults == {-3, -2, 2}
=============================================================================
