----------------------------- MODULE FadeBridge -----------------------------
(***************************************************************************)
(* ib_fade_bridge.py: the runner of one engine, MEANREV_FADE_2M.           *)
(*                                                                         *)
(* One thread: a two-minute bar closes, the engine decides, an entry may   *)
(* be vetoed by the risk manager (only with route_risk, which is off by    *)
(* default), the order is placed and booked.  Unlike multi_engine_bridge   *)
(* it never looks whether the answer said filled.  Long only, one          *)
(* contract: base_contracts is 1 and no proposal is daily_aligned.         *)
(*                                                                         *)
(* Bars, prices and the log are left out; what a trade realizes is any of  *)
(* Results.  The lines that only the AccountState reads after Ctrl-C are   *)
(* one step, since nothing reads it then.                                  *)
(***************************************************************************)
EXTENDS IBKRClient, RiskManager

CONSTANTS
    Fade,       \* the one strategy of this runner
    Risks,      \* catastrophe_atr_mult * ATR * point_value at an entry
    Results,    \* what a round trip may realize
    WorstLoss,  \* and the most it may lose
    MaxBars     \* bound on the bars a run sees

ASSUME FadeAssumption ==
    /\ Tags = {Fade}
    /\ Risks \subseteq Int /\ Results \subseteq Int
    /\ WorstLoss \in Nat /\ \A r \in Results : -r <= WorstLoss
    /\ MaxBars \in Nat /\ BaseContracts = 1

VARIABLES
    route_risk,  \* self.route_risk
    pc,          \* where the thread is
    in_pos,      \* self.engine.in_pos
    position,    \* self.position
    acct,        \* self.acct
    trades,      \* len of self.trades
    bars,        \* bars_processed
    vetoed,      \* the engine's position was vetoed (history)
    halted,      \* the risk manager answered HALT (history)
    cut,         \* where trading stopped, "no" while it has not (history)
    refused      \* the flatten of shutdown raised (history)

fadeVars == <<route_risk, pc, in_pos, position, acct, trades, bars, vetoed,
              halted, cut, refused>>
vars == <<clientVars, fadeVars>>

Trading == {"start", "poll", "entering", "exiting", "closing"}
Over    == {"done", "killed"}

FadeTypeOK ==
    /\ ClientTypeOK
    /\ route_risk \in BOOLEAN /\ in_pos \in BOOLEAN
    /\ pc \in Trading \cup {"shut", "flattening"} \cup Over
    /\ position \in {0, 1}
    /\ acct \in Accounts
    /\ trades \in Nat /\ bars \in Nat
    /\ vetoed \in BOOLEAN /\ halted \in BOOLEAN /\ refused \in BOOLEAN
    /\ cut \in Trading \cup {"no", "end"}

Init ==
    /\ ClientInit
    /\ route_risk \in BOOLEAN
    /\ pc = "start" /\ in_pos = FALSE /\ position = 0
    /\ acct = NewAccount
    /\ trades = 0 /\ bars = 0
    /\ vetoed = FALSE /\ halted = FALSE /\ cut = "no" /\ refused = FALSE

Buy  == [tag |-> Fade, side |-> 1]
Sell == [tag |-> Fade, side |-> -1]

-----------------------------------------------------------------------------
(* The runners. *)

Stop(why) ==
    /\ pc' = "shut" /\ cut' = why
    /\ UNCHANGED <<route_risk, in_pos, position, acct, trades, bars, vetoed,
                   halted, refused>>

\* run_dry replays a file; run_live authenticates, and warm() feeds indicators
\* only.
Starts ==
    /\ pc = "start"
    /\ IF cfg.dry_run THEN UNCHANGED clientVars ELSE Authenticate
    /\ pc' = "poll"
    /\ UNCHANGED <<route_risk, in_pos, position, acct, trades, bars, vetoed,
                   halted, cut, refused>>

\* run_live without PAPER_LIVE, or authenticate raised.
StartFails ==
    /\ pc = "start" /\ ~cfg.dry_run
    /\ Stop("start")
    /\ UNCHANGED clientVars

ReplayEnds ==
    /\ pc = "poll" /\ cfg.dry_run
    /\ Stop("end")
    /\ UNCHANGED clientVars

-----------------------------------------------------------------------------
(* on_closed_bar. *)

Bar == pc = "poll" /\ bars < MaxBars /\ bars' = bars + 1

BarQuiet ==
    /\ Bar
    /\ UNCHANGED <<clientVars, route_risk, pc, in_pos, position, acct, trades,
                   vetoed, halted, cut, refused>>

EngineEnters == ~in_pos /\ in_pos' = TRUE

\* Mutant of EngineExits: the engine does not leave its position.
EngineStays == in_pos /\ UNCHANGED in_pos

EngineExits == in_pos /\ in_pos' = FALSE

\* What _enter asks the risk manager for an entry that risks r.
Verdict(r) == Evaluate([action |-> "BUY", requested_qty |-> 1, risk |-> r,
                        daily_aligned |-> FALSE], acct)

Vetoed(d) == d.verdict \in {"REJECT", "HALT"} \/ d.approved_qty <= 0

BarEnterVetoed ==
    /\ Bar /\ EngineEnters /\ position = 0 /\ route_risk
    /\ \E r \in Risks :
          /\ Vetoed(Verdict(r))
          /\ halted' = (halted \/ Verdict(r).verdict = "HALT")
    /\ vetoed' = TRUE
    /\ UNCHANGED <<clientVars, route_risk, pc, position, acct, trades, cut,
                   refused>>

\* Mutant of BarEnter: the order goes out without asking the risk manager.
BarEnterUnasked ==
    /\ Bar /\ EngineEnters /\ position = 0
    /\ PlaceOrder(Buy)
    /\ pc' = "entering"
    /\ UNCHANGED <<route_risk, position, acct, trades, vetoed, halted, cut,
                   refused>>

BarEnter ==
    /\ Bar /\ EngineEnters /\ position = 0
    /\ route_risk => \E r \in Risks : ~Vetoed(Verdict(r))
    /\ PlaceOrder(Buy)
    /\ pc' = "entering"
    /\ UNCHANGED <<route_risk, position, acct, trades, vetoed, halted, cut,
                   refused>>

\* Mutant of BarExit: the flatten goes out on the side of the entry.
BarExitBuys ==
    /\ Bar /\ EngineExits /\ position > 0
    /\ PlaceOrder(Buy)
    /\ pc' = "exiting"
    /\ UNCHANGED <<route_risk, position, acct, trades, vetoed, halted, cut,
                   refused>>

BarExit ==
    /\ Bar /\ EngineExits /\ position > 0
    /\ PlaceOrder(Sell)
    /\ pc' = "exiting"
    /\ UNCHANGED <<route_risk, position, acct, trades, vetoed, halted, cut,
                   refused>>

\* The engine leaves a position that was never taken.
BarExitDropped ==
    /\ Bar /\ EngineExits /\ position = 0
    /\ vetoed' = FALSE
    /\ UNCHANGED <<clientVars, route_risk, pc, position, acct, trades, halted,
                   cut, refused>>

-----------------------------------------------------------------------------
(* _enter and _exit after place_order came back. *)

Answered == callSt \in {"filled", "unfilled"} /\ Return

\* The position is taken as held, whatever ack["filled"] says.
EnterBooks ==
    /\ pc = "entering" /\ Answered
    /\ position' = 1 /\ acct' = [acct EXCEPT !.open_position = 1]
    /\ pc' = "poll"
    /\ UNCHANGED <<route_risk, in_pos, trades, bars, vetoed, halted, cut,
                   refused>>

\* The trade and its result first, the position only after the log line.
ExitBooks ==
    /\ pc = "exiting" /\ Answered
    /\ trades' = trades + 1
    /\ \E pnl \in Results : acct' = Realize(acct, pnl)
    /\ pc' = "closing"
    /\ UNCHANGED <<route_risk, in_pos, position, bars, vetoed, halted, cut,
                   refused>>

\* Mutant of ExitCloses: the order is taken off the position, not added.
ExitClosesWrongSign ==
    /\ pc = "closing"
    /\ position' = position - order.side
    /\ acct' = [acct EXCEPT !.open_position = 0]
    /\ pc' = "poll"
    /\ UNCHANGED <<clientVars, route_risk, in_pos, trades, bars, vetoed,
                   halted, cut, refused>>

ExitCloses ==
    /\ pc = "closing"
    /\ position' = 0 /\ acct' = [acct EXCEPT !.open_position = 0]
    /\ pc' = "poll"
    /\ UNCHANGED <<clientVars, route_risk, in_pos, trades, bars, vetoed,
                   halted, cut, refused>>

OrderRaises ==
    /\ pc \in {"entering", "exiting"} /\ callSt = "raised" /\ Return
    /\ Stop(pc)

-----------------------------------------------------------------------------
(* Ctrl-C and shutdown. *)

Interrupted == IF callSt \in {"wait", "filled"} THEN Abandon
               ELSE IF callSt = "idle" THEN UNCHANGED clientVars ELSE Return

Sigint == pc \in Trading /\ Interrupted /\ Stop(pc)

SecondSigint ==
    /\ pc \in {"shut", "flattening"} /\ Interrupted
    /\ pc' = "killed"
    /\ UNCHANGED <<route_risk, in_pos, position, acct, trades, bars, vetoed,
                   halted, cut, refused>>

\* Mutant of ShutFlatten: shutdown buys.
ShutBuys ==
    /\ pc = "shut" /\ position > 0
    /\ PlaceOrder(Buy)
    /\ pc' = "flattening"
    /\ UNCHANGED <<route_risk, in_pos, position, acct, trades, bars, vetoed,
                   halted, cut, refused>>

ShutFlatten ==
    /\ pc = "shut" /\ position > 0
    /\ PlaceOrder(Sell)
    /\ pc' = "flattening"
    /\ UNCHANGED <<route_risk, in_pos, position, acct, trades, bars, vetoed,
                   halted, cut, refused>>

\* Mutant of ShutBooks: the flatten is repeated until it is filled.
ShutRetries ==
    /\ pc = "flattening" /\ callSt \in {"filled", "unfilled", "raised"}
    /\ Return
    /\ position' = (IF callSt = "filled" THEN 0 ELSE 1) /\ pc' = "shut"
    /\ UNCHANGED <<route_risk, in_pos, acct, trades, bars, vetoed, halted, cut,
                   refused>>

\* The answer is not looked at, an exception is logged: flat either way.
ShutBooks ==
    /\ pc = "flattening" /\ callSt \in {"filled", "unfilled", "raised"}
    /\ Return
    /\ refused' = (callSt = "raised")
    /\ position' = 0 /\ pc' = "shut"
    /\ UNCHANGED <<route_risk, in_pos, acct, trades, bars, vetoed, halted, cut>>

\* Mutant of ShutEnds: the session may end without a flatten.
ShutEndsOpen ==
    /\ pc = "shut" /\ Disconnect
    /\ pc' = "done"
    /\ UNCHANGED <<route_risk, in_pos, position, acct, trades, bars, vetoed,
                   halted, cut, refused>>

ShutEnds ==
    /\ pc = "shut" /\ position = 0
    /\ Disconnect
    /\ pc' = "done"
    /\ UNCHANGED <<route_risk, in_pos, position, acct, trades, bars, vetoed,
                   halted, cut, refused>>

Finished == pc \in Over /\ UNCHANGED vars

-----------------------------------------------------------------------------
OnClosedBar == BarQuiet \/ BarEnterVetoed \/ BarEnter \/ BarExit
                   \/ BarExitDropped
Books       == EnterBooks \/ ExitBooks \/ ExitCloses \/ OrderRaises
Shutdown    == ShutFlatten \/ ShutBooks \/ ShutEnds
Waits       == Poll /\ UNCHANGED fadeVars
Outside     == Broker /\ UNCHANGED fadeVars

Main == Starts \/ StartFails \/ ReplayEnds \/ OnClosedBar \/ Books \/ Shutdown
            \/ Waits

Next == Main \/ Outside \/ Sigint \/ SecondSigint \/ Finished

\* Only the main thread is fair: neither the operator nor the broker is.
Spec == Init /\ [][Next]_vars /\ WF_vars(Main)

-----------------------------------------------------------------------------
AtRest == pc \in {"start", "poll"}

\* The engine and the bridge disagree on the position only over an entry the
\* risk manager vetoed, and agree again once the engine has left it (lines
\* 153-156 and 172-175): no veto lasts beyond one trade.
EngineMatchesPosition ==
    AtRest => /\ in_pos <=> (position = 1 \/ vetoed)
              /\ ~(position = 1 /\ vetoed)

\* Between two bars, the position is off the account by at most the number of
\* orders nobody knows the outcome of, although no answer is looked at
\* (lines 178-201).
PositionWithinGiveups ==
    AtRest => Abs(account[Fade] - position) <= giveups[Fade]

\* With route_risk the session and the drawdown stop within one trade of their
\* limits, however bad that stopless trade is (lines 161-175, 195-197).
RoutedLossesBounded ==
    route_risk =>
        /\ acct.session > -(DailyHalt + WorstLoss)
        /\ Drawdown(acct) < TrailingDD - MaxRisk + WorstLoss

\* With route_risk a HALT is the session's last word: it is answered only when
\* flat, and flat nothing changes the account it was answered for.
RoutedHaltIsFinal ==
    [][halted => (pc' = "entering" => pc = "entering")]_vars

\* shutdown leaves at the broker no more than place_order gave up on, unless
\* trading stopped between an executed exit and the line that clears the
\* position, or the flatten raised (lines 279-288).
ShutdownLeavesOnlyGiveups ==
    (pc = "done" /\ cut # "closing" /\ ~refused) =>
        Abs(account[Fade]) <= giveups[Fade]

\* Ctrl-C ends the session even if the broker never answers (lines 279-295).
StopEnds == cut # "no" ~> pc \in Over

\* The position refines PositionBook.
Book == INSTANCE PositionBook WITH
    Engines <- {Fade},
    held    <- [e \in {Fade} |-> position],
    phase   <- IF pc \in Trading THEN "trading"
               ELSE IF pc = "done" THEN "over"
               ELSE IF pc = "killed" THEN "killed" ELSE "stopping"

BookSpec == Book!Spec

-----------------------------------------------------------------------------
(* What the repository says and the code does not do. *)

\* ibkr_client.py 214-215: filled=False is returned "so the bridge never assumes
\* a position it doesn't hold"; with no order left to execute, it holds none.
NeverAssumesUnheld ==
    (AtRest /\ Stray(Fade) = 0) => position <= Abs(account[Fade])
=============================================================================
