----------------------------- MODULE MCRecords -----------------------------
(* A losing and a winning trade per sleeve, and a few executions: of any     *)
(* size for the ledger, at times around the limits for the labels.           *)
EXTENDS Records

MCPnls == {-1, 2}
MCLastBar == [forward_log |-> 7, portfolio |-> 3, aggregate |-> 3]
MCPortfolio == [portfolio |-> {1, 3}, aggregate |-> {1, 2, 3}]
MCShares == [trade_log |-> {-2, -1, 1, 2}, session_report |-> {-1, 1}]
MCLevels == [trade_log |-> {3, 5}, session_report |-> {3, 5}]
MCWaits == [trade_log |-> {1}, session_report |-> {2, 5}]
MCLags == [trade_log |-> {}, session_report |-> {0, 1}]
MCMaxFills == [trade_log |-> 5, session_report |-> 4]
=============================================================================
