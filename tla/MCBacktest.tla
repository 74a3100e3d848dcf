---------------------------- MODULE MCBacktest -----------------------------
(* Few prices, two zones, a short hold: every way in and out of a position.  *)
EXTENDS Backtest
=============================================================================
