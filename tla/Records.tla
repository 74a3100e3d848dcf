------------------------------ MODULE Records ------------------------------
(***************************************************************************)
(* The programs that keep the record of what the engines did, each run on  *)
(* its own: the two forward logs, the aggregate report and the pairing of  *)
(* the broker's fills.                                                     *)
(***************************************************************************)
EXTENDS Amounts, SequencesExt

CONSTANTS Pnls, ShockSleeve, MaxShocks, WindowEnd, LastBar, MaxRevisions,
          Portfolio,   \* mode of portfolio.py -> its sleeves, numbered
          Shares,      \* report -> what one execution can trade, bought positive
          Levels,      \* report -> the prices of executions
          Waits,       \* report -> the times between them
          Lags,        \* report -> from an entry to its line, fill_timeout_s at most
          MaxFills,    \* report -> bound on the executions
          MatchWithin

ASSUME RecordsAssumption ==
    /\ Pnls \subseteq Int /\ WindowEnd \in Nat /\ MaxRevisions \in Nat
    /\ LastBar \in [{"forward_log", "portfolio", "aggregate"} -> Nat]
    /\ \A r \in {"trade_log", "session_report"} :
         /\ Shares[r] \subseteq Int \ {0} /\ Levels[r] \subseteq Nat
         /\ Waits[r] \subseteq Nat /\ Lags[r] \subseteq 0..(MatchWithin - 1)
         /\ MaxFills[r] \in Nat
    /\ MatchWithin \in Nat
    /\ \A p \in {"portfolio", "aggregate"} :
         Portfolio[p] \subseteq Nat /\ IsFiniteSet(Portfolio[p])
    /\ ShockSleeve \in Nat \ {1} /\ MaxShocks \in Nat   \* 1 is forward_log's

VARIABLES
    program,
    clock, entered, trades, pc, scope, new, log, cut, tally,
    revised, uneven, logged,
    pos, op, trips, fills, now, enters, cash, scaled

paperVars == <<clock, entered, trades, pc, scope, new, log, cut, tally,
               revised, uneven, logged>>
tripVars == <<pos, op, trips, fills, now, enters, cash, scaled>>
vars == <<program, paperVars, tripVars>>

Paper == INSTANCE PaperLog
Trips == INSTANCE RoundTrips

Reports == {"trade_log", "session_report"}
Loggers == {"forward_log", "portfolio"}

Init ==
    /\ \/ program = "forward_log" /\ Paper!PaperInit({1})
       \/ program \in {"portfolio", "aggregate"} /\ Paper!PaperInit(Portfolio[program])
       \/ program \in Reports /\ Paper!PaperInit({})
    /\ Trips!TripsInit

Data ==
    /\ program \notin Reports /\ Paper!PaperData
    /\ UNCHANGED <<program, tripVars>>

Run ==
    /\ program \in Loggers /\ Paper!PaperRun
    /\ UNCHANGED <<program, tripVars>>

Fill ==
    /\ program \in Reports /\ fills < MaxFills[program]
    /\ \E signed \in Shares[program], px \in Levels[program],
          wait \in Waits[program] :
         /\ Trips!Execution(signed, px, wait)
         /\ \/ Trips!Unlogged
            \/ \E lag \in Lags[program], sig \in Levels[program] :
                 Trips!Logged(signed, px, sig, lag)
    /\ UNCHANGED <<program, paperVars>>

\* All fills of the day are read, or no run is asked for any more.
Finished ==
    /\ IF program \in Reports THEN fills = MaxFills[program]
       ELSE pc = "idle" /\ \A s \in Paper!Sleeves : clock[s] = LastBar[program]
    /\ UNCHANGED vars

Next == Data \/ Run \/ Fill \/ Finished

Spec == Init /\ [][Next]_vars
-----------------------------------------------------------------------------
Written(L) == ToSet(L) \ {Paper!Torn}
AllTrades == UNION {trades[s] : s \in Paper!Sleeves}

\* The rows that json.loads reads: all but those that share a line.
Readable == {log[i] : i \in {j \in DOMAIN log :
                 log[j] # Paper!Torn /\ (Paper!Glued => j \notin {cut, cut + 1})}}

(* However often a run is repeated, killed or narrowed by --since, no trade  *)
(* is in the file twice ("re-running the same day does not double-log",      *)
(* forward_log.py:11-12), every row is of a forward trade, and every forward *)
(* trade a finished run had in its scope has a line of its key that can be   *)
(* read: all but one, whose row was cut before its newline, was read so by   *)
(* the run that finished, and had the next row written onto its line.        *)
(* Unless trades of the past changed, every row is a trade as today's bars   *)
(* make it, or a trade of the SHOCK sleeve that ran when its row was written *)
(* and was never corrected.                                                  *)
LogIsForwardTrades ==
    /\ \A i, j \in DOMAIN log :
         /\ i # j /\ log[i] # Paper!Torn /\ log[j] # Paper!Torn
         => Paper!Id(log[i]) # Paper!Id(log[j])
    /\ \A r \in Written(log) :
         /\ Paper!Forward(r)
         /\ r.sleeve # ShockSleeve => r.over
         /\ revised = 0 =>
              \E t \in AllTrades :
                IF r.over THEN t = r ELSE Paper!Id(t) = Paper!Id(r)
    /\ logged \subseteq {Paper!Key(r) : r \in Readable} \cup
                       (IF Paper!Glued THEN {Paper!Key(log[cut])} ELSE {})

(* The tally counts and sums each trade in the file once, and its drawdown   *)
(* is that of the trades in the order in which they happened: by entry for   *)
(* forward_log, whatever order --since left in the file; by exit for the     *)
(* portfolio, if its sleeves' bars always ended together and were never      *)
(* revised (portfolio.py:216-220 takes the file's order).                    *)
TallyIsOfTrades ==
    tally # Paper!NoTally =>
      LET T == ToSet(SubSeq(log, 1, tally.lines))
      IN /\ tally.n = Cardinality(T)
         /\ tally.total = MapThenSumSet(LAMBDA t : t.pnl, T)
         /\ program = "forward_log" =>
              tally.dd = Paper!Drawdown(Paper!InOrder(T, Paper!Earlier))
         /\ program = "portfolio" /\ ~uneven /\ revised = 0 =>
              tally.dd = Paper!Drawdown(Paper!InOrder(T, Paper!Sooner))

(* The concurrency the aggregate report prints is the largest number of      *)
(* positions that were open between two bars: a position that a bar hands    *)
(* over counts once (portfolio.py:182), one of the SHOCK sleeve never.       *)
ConcurrencyIsPeak ==
    program = "aggregate" =>
    LET Open(t) == {u \in AllTrades : u.entry <= t /\ t < u.exit}
    IN Paper!MaxConcurrency(Paper!InOrder(AllTrades, Paper!Sooner))
         = Max({0} \cup {Cardinality(Open(u.entry)) : u \in AllTrades})

(* A trip is open exactly when the account is not flat.  As long as every    *)
(* execution took the account from flat or to flat, what the trips made and  *)
(* the open one cost is what the executions paid ("Source: IB broker         *)
(* execution record (authoritative)", trade_log.py:57).                      *)
LedgerIsCash ==
    /\ (op = Trips!NoTrip) = (pos = 0)
    /\ ~scaled => cash = Trips!TotalOf(trips) -
                           (IF pos = 0 THEN 0 ELSE pos * op.epx)

(* A round trip is labelled with the strategy that entered it, if the bridge *)
(* logged that entry and no other of its side was executed within twice the  *)
(* time a line can take; it is external, if the bridge did not (its call     *)
(* gave up before the fill, or it was somebody else) and no entry of its     *)
(* side has a line near enough ("labels each with its strategy",             *)
(* trade_log.py:3).  Where the label is right the slippage the session       *)
(* report prints is zero, whatever was signalled: the bridge logs the fill   *)
(* (multi_engine_bridge.py:153), session_report.py:22 takes it for the       *)
(* signal.                                                                   *)
LabelsMatchEntries ==
    \A t \in ToSet(trips) :
      LET Apart(r) == Abs(r.etime - t.etime)
          others == {r \in ToSet(enters) : r.side = t.side /\ r.no # t.no}
          lag == Max({0} \cup Lags[program])
      IN IF \E r \in ToSet(enters) : r.no = t.no
         THEN /\ Trips!Match(t) # Trips!External
              /\ (\A r \in others : Apart(r) > 2 * lag) =>
                   Trips!Match(t).no = t.no /\ Trips!Slip(t) = 0
         ELSE (\A r \in others : Apart(r) >= MatchWithin + lag) =>
                Trips!Match(t) = Trips!External
=============================================================================
