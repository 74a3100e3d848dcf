-------------------------- MODULE FadeBridgeProofs --------------------------
(***************************************************************************)
(* Safety of FadeBridge, for any limits, risks, results and numbers of     *)
(* bars and polls.                                                         *)
(*                                                                         *)
(* The client's invariant is inherited.  Since the bridge books a position *)
(* whatever the answer said, an answer filled=False leaves two positions   *)
(* the book may end with, and Drift bounds the account against each of     *)
(* them.  RoomForATrade is what the risk manager's verdict leaves when a   *)
(* position is taken; LastWord is why nothing undoes a HALT.               *)
(***************************************************************************)
EXTENDS FadeBridge, IBKRClientProofs

Calling == {"entering", "exiting", "flattening"}

\* A call runs exactly where the thread waits for one, trading has been cut
\* exactly when it is over, an entry is ordered when flat and an exit when
\* long, and only the flatten of shutdown can have been refused.
Control ==
    /\ callSt # "idle" <=> pc \in Calling
    /\ cut = "no" <=> pc \in Trading
    /\ pc = "start" => position = 0
    /\ pc = "entering" => position = 0 /\ order = Buy
    /\ pc \in {"exiting", "closing", "flattening"} => position = 1
    /\ pc \in {"exiting", "flattening"} => order = Sell
    /\ pc = "done" => position = 0
    /\ refused => position = 0 /\ pc \notin Trading

Base == FadeTypeOK /\ ClientInv /\ Control

-----------------------------------------------------------------------------
(* Types and control. *)

LEMMA OurOrders == Buy \in Orders /\ Sell \in Orders
  BY FadeAssumption DEF Buy, Sell, Orders, Sides

LEMMA Placed ==
    ASSUME NEW o, PlaceOrder(o)
    PROVE  callSt' # "idle" /\ order' = o
  BY DEF PlaceOrder, Simulate, Report, Transmit, Refuse

\* Every step of the bridge is a step of the client or leaves it alone.
LEMMA FadeStepsClient ==
    ASSUME [Next]_vars
    PROVE  [ClientNext]_clientVars
  <1> USE OurOrders
  <1>1. CASE Starts \/ StartFails \/ ReplayEnds
    BY <1>1 DEF Starts, StartFails, ReplayEnds, ClientNext
  <1>2. CASE OnClosedBar
    BY <1>2 DEF OnClosedBar, BarQuiet, BarEnterVetoed, BarEnter, BarExit,
                BarExitDropped, ClientNext
  <1>3. CASE Books
    BY <1>3 DEF Books, EnterBooks, ExitBooks, ExitCloses, OrderRaises,
                Answered, ClientNext
  <1>4. CASE Shutdown
    BY <1>4 DEF Shutdown, ShutFlatten, ShutBooks, ShutEnds, ClientNext
  <1>5. CASE Sigint \/ SecondSigint
    BY <1>5 DEF Sigint, SecondSigint, Interrupted, ClientNext
  <1>6. CASE Waits \/ Outside
    BY <1>6 DEF Waits, Outside, ClientNext
  <1>7. CASE UNCHANGED vars
    BY <1>7 DEF vars
  <1> QED
    BY <1>1, <1>2, <1>3, <1>4, <1>5, <1>6, <1>7 DEF Next, Main, Finished

\* Realizing a result moves the session by it and lets the drawdown grow by at
\* most its loss.
LEMMA RealizeMoves ==
    ASSUME NEW a \in Accounts, NEW pnl \in Int
    PROVE  /\ Realize(a, pnl) \in Accounts
           /\ Realize(a, pnl).session = a.session + pnl
           /\ Realize(a, pnl).halted = a.halted
           /\ \/ Drawdown(Realize(a, pnl)) = Drawdown(a) - pnl
              \/ Drawdown(Realize(a, pnl)) = 0
  <1> DEFINE high == Greatest(a.high_water, a.total + pnl)
  <1>1. /\ a.total \in Int /\ a.high_water \in Int /\ a.session \in Int
        /\ a.open_position \in Int /\ a.halted \in BOOLEAN
        /\ DOMAIN a = {"session", "total", "high_water", "open_position",
                       "halted"}
    BY DEF Accounts
  <1>2. high \in Int /\ (high = a.high_water \/ high = a.total + pnl)
    BY <1>1 DEF Greatest
  <1>3. Realize(a, pnl) =
          [a EXCEPT !.session = a.session + pnl, !.total = a.total + pnl,
                    !.high_water = high]
    BY DEF Realize
  <1> HIDE DEF high
  <1>4. Realize(a, pnl) =
          [session |-> a.session + pnl, total |-> a.total + pnl,
           high_water |-> high, open_position |-> a.open_position,
           halted |-> a.halted]
    BY <1>1, <1>3 DEF Accounts
  <1>5. Drawdown(Realize(a, pnl)) = high - (a.total + pnl)
    BY <1>4 DEF Drawdown
  <1> QED
    BY <1>1, <1>2, <1>4, <1>5 DEF Accounts, Drawdown

LEMMA OpenPositionSet ==
    ASSUME NEW a \in Accounts, NEW n \in Int
    PROVE  LET b == [a EXCEPT !.open_position = n]
           IN  /\ b \in Accounts /\ b.session = a.session
               /\ b.halted = a.halted /\ Drawdown(b) = Drawdown(a)
  BY DEF Accounts, Drawdown

LEMMA FadeTypeStep ==
    ASSUME Base, [Next]_vars
    PROVE  FadeTypeOK'
  <1>0. ClientTypeOK' /\ FadeTypeOK
    BY FadeStepsClient, ClientTypeStep DEF Base, ClientInv
  <1> USE <1>0 DEF FadeTypeOK, Trading, Over
  <1>1. CASE Starts
    BY <1>1 DEF Starts
  <1>2. CASE StartFails
    BY <1>2 DEF StartFails, Stop
  <1>3. CASE ReplayEnds
    BY <1>3 DEF ReplayEnds, Stop
  <1>4. CASE BarQuiet
    BY <1>4 DEF BarQuiet, Bar
  <1>5. CASE BarEnterVetoed
    BY <1>5 DEF BarEnterVetoed, Bar, EngineEnters
  <1>6. CASE BarEnter
    <2>1. /\ bars' = bars + 1 /\ in_pos' \in BOOLEAN
          /\ UNCHANGED <<route_risk, position, acct, trades, vetoed, halted,
                         cut, refused>>
      BY <1>6 DEF BarEnter, Bar, EngineEnters
    <2>2. pc' = "entering"
      BY <1>6 DEF BarEnter
    <2> QED
      BY <2>1, <2>2
  <1>7. CASE BarExit
    <2>1. /\ bars' = bars + 1 /\ in_pos' \in BOOLEAN
          /\ UNCHANGED <<route_risk, position, acct, trades, vetoed, halted,
                         cut, refused>>
      BY <1>7 DEF BarExit, Bar, EngineExits
    <2>2. pc' = "exiting"
      BY <1>7 DEF BarExit
    <2> QED
      BY <2>1, <2>2
  <1>8. CASE BarExitDropped
    <2>1. bars' = bars + 1 /\ in_pos' \in BOOLEAN /\ vetoed' \in BOOLEAN
      BY <1>8 DEF BarExitDropped, Bar, EngineExits
    <2>2. UNCHANGED <<route_risk, pc, position, acct, trades, halted, cut,
                      refused>>
      BY <1>8 DEF BarExitDropped
    <2> QED
      BY <2>1, <2>2
  <1>9. CASE EnterBooks
    BY <1>9, OpenPositionSet DEF EnterBooks
  <1>10. CASE ExitBooks
    BY <1>10, RealizeMoves, FadeAssumption DEF ExitBooks
  <1>11. CASE ExitCloses
    BY <1>11, OpenPositionSet DEF ExitCloses
  <1>12. CASE OrderRaises
    BY <1>12 DEF OrderRaises, Stop
  <1>13. CASE ShutFlatten
    BY <1>13 DEF ShutFlatten
  <1>14. CASE ShutBooks
    BY <1>14 DEF ShutBooks
  <1>15. CASE ShutEnds
    BY <1>15 DEF ShutEnds
  <1>16. CASE Sigint
    BY <1>16 DEF Sigint, Stop
  <1>17. CASE SecondSigint
    BY <1>17 DEF SecondSigint
  <1>18. CASE Waits \/ Outside
    BY <1>18 DEF Waits, Outside, fadeVars
  <1>19. CASE UNCHANGED vars
    BY <1>19 DEF vars, fadeVars
  <1> QED
    BY <1>1, <1>2, <1>3, <1>4, <1>5, <1>6, <1>7, <1>8, <1>9, <1>10, <1>11,
       <1>12, <1>13, <1>14, <1>15, <1>16, <1>17, <1>18, <1>19 DEF Next, Main,
       OnClosedBar, Books, Shutdown, Finished

LEMMA ControlStep ==
    ASSUME Base, [Next]_vars
    PROVE  Control'
  <1>0. /\ Control /\ position \in {0, 1}
        /\ pc \in Trading \cup {"shut", "flattening"} \cup Over
    BY DEF Base, FadeTypeOK
  <1> USE <1>0 DEF Control, Trading, Over, Calling, clientVars
  <1>1. CASE Starts
    BY <1>1 DEF Starts, Authenticate
  <1>2. CASE StartFails
    BY <1>2 DEF StartFails, Stop
  <1>3. CASE ReplayEnds
    BY <1>3 DEF ReplayEnds, Stop
  <1>4. CASE BarQuiet
    BY <1>4 DEF BarQuiet, Bar
  <1>5. CASE BarEnterVetoed
    BY <1>5 DEF BarEnterVetoed, Bar, EngineEnters
  <1>6. CASE BarEnter
    BY <1>6, Placed DEF BarEnter, Bar
  <1>7. CASE BarExit
    BY <1>7, Placed DEF BarExit, Bar
  <1>8. CASE BarExitDropped
    BY <1>8 DEF BarExitDropped, Bar
  <1>9. CASE EnterBooks
    BY <1>9 DEF EnterBooks, Answered, Return
  <1>10. CASE ExitBooks
    BY <1>10 DEF ExitBooks, Answered, Return
  <1>11. CASE ExitCloses
    BY <1>11 DEF ExitCloses
  <1>12. CASE OrderRaises
    BY <1>12 DEF OrderRaises, Return, Stop
  <1>13. CASE ShutFlatten
    BY <1>13, Placed DEF ShutFlatten
  <1>14. CASE ShutBooks
    BY <1>14 DEF ShutBooks, Return
  <1>15. CASE ShutEnds
    BY <1>15 DEF ShutEnds, Disconnect
  <1>16. CASE Sigint
    BY <1>16 DEF Sigint, Interrupted, Stop, Abandon, Return
  <1>17. CASE SecondSigint
    BY <1>17 DEF SecondSigint, Interrupted, Abandon, Return
  <1>18. CASE Waits
    BY <1>18, PollFacts DEF Waits, fadeVars
  <1>19. CASE Outside
    BY <1>19, BrokerFacts DEF Outside, fadeVars
  <1>20. CASE UNCHANGED vars
    BY <1>20 DEF vars, fadeVars
  <1> QED
    BY <1>1, <1>2, <1>3, <1>4, <1>5, <1>6, <1>7, <1>8, <1>9, <1>10, <1>11,
       <1>12, <1>13, <1>14, <1>15, <1>16, <1>17, <1>18, <1>19, <1>20 DEF Next,
       Main, OnClosedBar, Books, Shutdown, Finished

LEMMA BaseStep == Base /\ [Next]_vars => Base'
  BY FadeStepsClient, ClientStepInv, FadeTypeStep, ControlStep DEF Base

-----------------------------------------------------------------------------
(* The engine against the position. *)

\* The position the order at hand is about to make.
Aim == IF pc = "entering" THEN 1
       ELSE IF pc \in {"exiting", "closing"} THEN 0 ELSE position

EngineFollowed ==
    pc \in Trading => /\ in_pos <=> (Aim = 1 \/ vetoed)
                      /\ vetoed => pc \in {"start", "poll"} /\ position = 0

LEMMA EngineStep ==
    ASSUME Base, EngineFollowed, [Next]_vars
    PROVE  EngineFollowed'
  <1>0. /\ Control /\ position \in {0, 1}
        /\ pc \in Trading \cup {"shut", "flattening"} \cup Over
    BY DEF Base, FadeTypeOK
  <1> USE <1>0 DEF Control, EngineFollowed, Aim, Trading, Over
  <1>1. CASE Starts
    BY <1>1 DEF Starts
  <1>2. CASE StartFails \/ ReplayEnds
    BY <1>2 DEF StartFails, ReplayEnds, Stop
  <1>3. CASE BarQuiet
    BY <1>3 DEF BarQuiet, Bar
  <1>4. CASE BarEnterVetoed
    BY <1>4 DEF BarEnterVetoed, Bar, EngineEnters
  <1>5. CASE BarEnter
    BY <1>5 DEF BarEnter, Bar, EngineEnters
  <1>6. CASE BarExit
    BY <1>6 DEF BarExit, Bar, EngineExits
  <1>7. CASE BarExitDropped
    BY <1>7 DEF BarExitDropped, Bar, EngineExits
  <1>8. CASE EnterBooks
    BY <1>8 DEF EnterBooks
  <1>9. CASE ExitBooks
    BY <1>9 DEF ExitBooks
  <1>10. CASE ExitCloses
    BY <1>10 DEF ExitCloses
  <1>11. CASE OrderRaises
    BY <1>11 DEF OrderRaises, Stop
  <1>12. CASE Shutdown
    BY <1>12 DEF Shutdown, ShutFlatten, ShutBooks, ShutEnds
  <1>13. CASE Sigint \/ SecondSigint
    BY <1>13 DEF Sigint, SecondSigint, Stop
  <1>14. CASE Waits \/ Outside
    BY <1>14 DEF Waits, Outside, fadeVars
  <1>15. CASE UNCHANGED vars
    BY <1>15 DEF vars, fadeVars
  <1> QED
    BY <1>1, <1>2, <1>3, <1>4, <1>5, <1>6, <1>7, <1>8, <1>9, <1>10, <1>11,
       <1>12, <1>13, <1>14, <1>15 DEF Next, Main, OnClosedBar, Books, Finished

-----------------------------------------------------------------------------
(* The losses and the veto. *)

LEMMA VerdictMeaning ==
    ASSUME acct \in Accounts, NEW r \in Risks
    PROVE  /\ ~Vetoed(Verdict(r)) => ~Halts(acct)
           /\ Verdict(r).verdict = "HALT" => Halts(acct)
  BY DEF Vetoed, Verdict, Evaluate, Decision, Sized

\* From the verdict until the trade is booked, no limit halts.
RoomForATrade ==
    (/\ route_risk
     /\ \/ pc = "entering"
        \/ position = 1 /\ pc \in {"poll", "exiting"})
        => ~Halts(acct)

\* A HALT leaves the bridge flat, with the account it was answered for.
LastWord ==
    halted => /\ route_risk /\ Halts(acct) /\ position = 0
              /\ pc \notin {"start", "entering"}

Losses == RoomForATrade /\ RoutedLossesBounded /\ LastWord

LEMMA TradeWithinWorstLoss ==
    ASSUME acct \in Accounts, ~Halts(acct), NEW pnl \in Results
    PROVE  LET a == Realize(acct, pnl)
           IN  /\ a.session > -(DailyHalt + WorstLoss)
               /\ Drawdown(a) < TrailingDD - MaxRisk + WorstLoss
  <1>1. pnl \in Int /\ -pnl <= WorstLoss /\ WorstLoss \in Nat
    BY FadeAssumption
  <1>2. /\ acct.session \in Int /\ Drawdown(acct) \in Int
        /\ acct.session > -DailyHalt /\ Drawdown(acct) < TrailingDD - MaxRisk
    BY RiskAssumption DEF Halts, Drawdown, Accounts
  <1>3. /\ Realize(acct, pnl).session = acct.session + pnl
        /\ \/ Drawdown(Realize(acct, pnl)) = Drawdown(acct) - pnl
           \/ Drawdown(Realize(acct, pnl)) = 0
    BY <1>1, RealizeMoves
  <1> QED
    BY <1>1, <1>2, <1>3, RiskAssumption

LEMMA OpenPositionHalts ==
    ASSUME acct \in Accounts, NEW n \in Int,
           acct' = [acct EXCEPT !.open_position = n]
    PROVE  /\ Halts(acct)' <=> Halts(acct)
           /\ RoutedLossesBounded /\ UNCHANGED route_risk
                => RoutedLossesBounded'
  <1>1. acct'.session = acct.session /\ Drawdown(acct') = Drawdown(acct)
    BY OpenPositionSet
  <1> QED
    BY <1>1 DEF Halts, RoutedLossesBounded

LEMMA LossesStep ==
    ASSUME Base, Losses, [Next]_vars
    PROVE  Losses'
  <1>0. /\ Control /\ position \in {0, 1} /\ acct \in Accounts
        /\ route_risk \in BOOLEAN /\ halted \in BOOLEAN
        /\ pc \in Trading \cup {"shut", "flattening"} \cup Over
    BY DEF Base, FadeTypeOK
  <1>k. UNCHANGED <<acct, route_risk>>
           => /\ Halts(acct)' <=> Halts(acct)
              /\ RoutedLossesBounded'
    BY DEF Halts, Drawdown, Losses, RoutedLossesBounded
  <1> USE <1>0, <1>k DEF Control, Losses, RoomForATrade, LastWord, Trading, Over
  <1>1. CASE Starts
    BY <1>1 DEF Starts
  <1>2. CASE StartFails \/ ReplayEnds
    BY <1>2 DEF StartFails, ReplayEnds, Stop
  <1>3. CASE BarQuiet
    BY <1>3 DEF BarQuiet, Bar
  <1>4. CASE BarEnterVetoed
    BY <1>4, VerdictMeaning DEF BarEnterVetoed, Bar
  <1>5. CASE BarEnter
    BY <1>5, VerdictMeaning DEF BarEnter, Bar
  <1>6. CASE BarExit
    BY <1>6 DEF BarExit, Bar
  <1>7. CASE BarExitDropped
    BY <1>7 DEF BarExitDropped, Bar
  <1>8. CASE EnterBooks
    BY <1>8, OpenPositionHalts DEF EnterBooks
  <1>9. CASE ExitBooks
    <2>1. PICK pnl \in Results : acct' = Realize(acct, pnl)
      BY <1>9 DEF ExitBooks
    <2>2. /\ pc = "exiting" /\ position = 1
          /\ UNCHANGED <<route_risk, halted, position>>
      BY <1>9 DEF ExitBooks
    <2>3. RoutedLossesBounded'
      BY <2>1, <2>2, TradeWithinWorstLoss DEF RoutedLossesBounded
    <2> QED
      BY <1>9, <2>2, <2>3 DEF ExitBooks
  <1>10. CASE ExitCloses
    BY <1>10, OpenPositionHalts DEF ExitCloses
  <1>11. CASE OrderRaises
    BY <1>11 DEF OrderRaises, Stop
  <1>12. CASE Shutdown
    BY <1>12 DEF Shutdown, ShutFlatten, ShutBooks, ShutEnds
  <1>13. CASE Sigint \/ SecondSigint
    BY <1>13 DEF Sigint, SecondSigint, Stop
  <1>14. CASE Waits \/ Outside
    BY <1>14 DEF Waits, Outside, fadeVars
  <1>15. CASE UNCHANGED vars
    BY <1>15 DEF vars, fadeVars
  <1> QED
    BY <1>1, <1>2, <1>3, <1>4, <1>5, <1>6, <1>7, <1>8, <1>9, <1>10, <1>11,
       <1>12, <1>13, <1>14, <1>15 DEF Next, Main, OnClosedBar, Books, Finished

-----------------------------------------------------------------------------
(* The account against the position, through shutdown. *)

\* The positions the book may have once the order at hand is booked, or given
\* up by Ctrl-C, as far as the client knows the order's fate.
Outcomes ==
    IF pc = "closing" THEN {0}
    ELSE IF pc \in Calling /\ callSt = "unfilled"
    THEN {position, position + order.side}
    ELSE IF pc \in Calling /\ HasRun(order, Fade)
    THEN {position + order.side}
    ELSE {position}

\* How far the account is off the position p, and how far the resting orders
\* could still take it, up and down.
OffWithin(p) ==
    /\ account[Fade] - p + resting[Fade][1] <= giveups[Fade]
    /\ p - account[Fade] + resting[Fade][-1] <= giveups[Fade]

Drift ==
    (pc # "killed" /\ cut # "closing" /\ ~refused) =>
        \A p \in Outcomes : OffWithin(p)

LEMMA DriftTypes ==
    ASSUME Base
    PROVE  /\ ClientTypeOK /\ CallShape /\ Control /\ Fade \in Tags
           /\ account[Fade] \in Int /\ giveups[Fade] \in Nat
           /\ resting[Fade][1] \in Nat /\ resting[Fade][-1] \in Nat
           /\ position \in {0, 1}
           /\ Buy.side = 1 /\ Sell.side = -1
           /\ Buy.tag = Fade /\ Sell.tag = Fade
  BY FadeAssumption
  DEF Base, FadeTypeOK, ClientInv, ClientTypeOK, Sides, Buy, Sell

LEMMA OrderAtHand ==
    ASSUME Base, pc \in Calling
    PROVE  order \in Orders /\ order.tag = Fade /\ order.side \in {-1, 1}
  BY DriftTypes, OurOrders DEF Control, Calling

\* What placing an order leaves of Drift: the account moves as the outcome does.
LEMMA PlaceKeepsDrift ==
    ASSUME Base, Base', NEW o \in {Buy, Sell}, PlaceOrder(o), UNCHANGED position,
           pc \notin Calling, pc # "closing", pc' \in Calling,
           OffWithin(position)
    PROVE  \A p \in Outcomes' : OffWithin(p)'
  <1>1. /\ order' = o /\ UNCHANGED <<giveups, resting>>
        /\ callSt' \in {"wait", "filled", "raised"}
        /\ account'[Fade] = account[Fade]
                              + (IF HasRun(o, Fade)' THEN o.side ELSE 0)
    BY OurOrders, DriftTypes, PlaceOrderDrift
  <1>2. o.side \in {-1, 1}
    BY DriftTypes
  <1>3. CASE HasRun(o, Fade)'
    <2>1. Outcomes' = {position + o.side}
      BY <1>1, <1>3 DEF Outcomes, HasRun, Calling
    <2> QED
      BY <1>1, <1>2, <1>3, <2>1, DriftTypes DEF OffWithin
  <1>4. CASE ~HasRun(o, Fade)'
    <2>1. Outcomes' = {position}
      BY <1>1, <1>4 DEF Outcomes, HasRun, Calling
    <2> QED
      BY <1>1, <1>4, <2>1, DriftTypes DEF OffWithin
  <1> QED
    BY <1>3, <1>4

\* A call that is left behind is given up: one order more may be off.
LEMMA LeavingKeepsDrift ==
    ASSUME Base, pc \in Calling, callSt \in {"wait", "filled"}, LeaveBehind,
           UNCHANGED account,
           \A p \in Outcomes : OffWithin(p),
           NEW q \in {position, position + order.side}
    PROVE  /\ account'[Fade] - q + resting'[Fade][1] <= giveups'[Fade]
           /\ q - account'[Fade] + resting'[Fade][-1] <= giveups'[Fade]
  <1>1. /\ giveups'[Fade] = giveups[Fade] + 1
        /\ resting'[Fade][1] = resting[Fade][1] + Left(Fade, 1)
        /\ resting'[Fade][-1] = resting[Fade][-1] + Left(Fade, -1)
    BY OrderAtHand, DriftTypes, LeaveBehindDrift
  <1>2. CASE parent = "working"
    <2>1. callSt = "wait" /\ Outcomes = {position}
      BY <1>2, DriftTypes
      DEF Outcomes, HasRun, CallShape, Calling
    <2>2. /\ Left(Fade, 1) = (IF order.side = 1 THEN 1 ELSE 0)
          /\ Left(Fade, -1) = (IF order.side = -1 THEN 1 ELSE 0)
      BY <1>2, OrderAtHand DEF Left
    <2> QED
      BY <1>1, <2>1, <2>2, OrderAtHand, DriftTypes DEF OffWithin
  <1>3. CASE parent # "working"
    <2>1. Left(Fade, 1) = 0 /\ Left(Fade, -1) = 0
      BY <1>3 DEF Left
    <2>2. PICK p \in {position, position + order.side} : OffWithin(p)
      BY DEF Outcomes, Calling
    <2>3. /\ account[Fade] - p + resting[Fade][1] <= giveups[Fade]
          /\ p - account[Fade] + resting[Fade][-1] <= giveups[Fade]
      BY <2>2 DEF OffWithin
    <2>4. p \in Int /\ q \in Int /\ p - q \in {-1, 0, 1}
      BY OrderAtHand, DriftTypes
    <2> QED
      BY <1>1, <2>1, <2>3, <2>4, DriftTypes
  <1> QED
    BY <1>2, <1>3

LEMMA BrokerKeepsDrift ==
    ASSUME Base, Base', Broker, UNCHANGED fadeVars,
           \A p \in Outcomes : OffWithin(p)
    PROVE  \A p \in Outcomes' : OffWithin(p)'
  <1> USE DriftTypes DEF OffWithin, fadeVars
  <1>1. CASE BrokerFills
    <2>1. /\ callSt = "wait" /\ parent = "working" /\ pc \in Calling
          /\ order.tag = Fade /\ order.side \in {-1, 1}
      BY <1>1, OrderAtHand DEF BrokerFills, CallShape, Control
    <2>2. /\ UNCHANGED <<callSt, order, resting, giveups>>
          /\ parent' \in {"filled", "unseen"}
          /\ account'[Fade] = account[Fade] + order.side
      BY <1>1, <2>1 DEF BrokerFills, ClientTypeOK
    <2>3. Outcomes = {position} /\ Outcomes' = {position + order.side}
      BY <2>1, <2>2 DEF Outcomes, HasRun, Calling
    <2> QED
      BY <2>1, <2>2, <2>3
  <1>2. CASE BrokerRejects \/ LinkDrops
    <2>1. Outcomes' = Outcomes
      BY <1>2 DEF BrokerRejects, LinkDrops, Outcomes, HasRun
    <2> QED
      BY <1>2, <2>1 DEF BrokerRejects, LinkDrops
  <1>3. ASSUME NEW o \in Orders, LateFill(o) \/ LateCancel(o)
        PROVE  \A p \in Outcomes' : OffWithin(p)'
    <2>1. /\ UNCHANGED <<callSt, order, parent, giveups>>
          /\ \/ UNCHANGED <<account[Fade], resting[Fade]>>
             \/ /\ account'[Fade] \in {account[Fade], account[Fade] + 1}
                /\ resting'[Fade][1] = resting[Fade][1] - 1
                /\ resting'[Fade][-1] = resting[Fade][-1]
             \/ /\ account'[Fade] \in {account[Fade], account[Fade] - 1}
                /\ resting'[Fade][-1] = resting[Fade][-1] - 1
                /\ resting'[Fade][1] = resting[Fade][1]
      BY <1>3, LateDrift
    <2>2. Outcomes' = Outcomes
      BY <2>1 DEF Outcomes, HasRun
    <2>3. \A p \in Outcomes : p \in Int
      BY OrderAtHand DEF Outcomes
    <2> QED
      BY <2>1, <2>2, <2>3
  <1> QED
    BY <1>1, <1>2, <1>3 DEF Broker

LEMMA PollKeepsDrift ==
    ASSUME Base, Base', Poll, UNCHANGED fadeVars,
           \A p \in Outcomes : OffWithin(p)
    PROVE  \A p \in Outcomes' : OffWithin(p)'
  <1> USE DEF fadeVars
  <1>1. pc \in Calling /\ pc # "closing" /\ callSt = "wait"
    BY PollFacts, DriftTypes DEF Control, Calling
  <1>2. CASE PollSeesFill
    <2>1. Outcomes' = Outcomes
      BY <1>1, <1>2 DEF PollSeesFill, Report, Outcomes, HasRun
    <2> QED
      BY <1>2, <2>1 DEF PollSeesFill, OffWithin
  <1>3. CASE PollAgain
    BY <1>3 DEF PollAgain, Outcomes, HasRun, OffWithin
  <1>4. CASE PollTimesOut
    <2>1. /\ LeaveBehind /\ UNCHANGED <<account, order>>
          /\ callSt' = "unfilled"
      BY <1>4 DEF PollTimesOut
    <2>2. Outcomes' = {position, position + order.side}
      BY <1>1, <2>1 DEF Outcomes
    <2>3. ASSUME NEW p \in Outcomes'
          PROVE  OffWithin(p)'
      <3>1. /\ account'[Fade] - p + resting'[Fade][1] <= giveups'[Fade]
            /\ p - account'[Fade] + resting'[Fade][-1] <= giveups'[Fade]
        BY <1>1, <2>1, <2>2, LeavingKeepsDrift
      <3> QED
        BY <3>1 DEF OffWithin
    <2> QED
      BY <2>3
  <1> QED
    BY <1>2, <1>3, <1>4 DEF Poll

\* Ctrl-C while a call runs: nothing of it is booked.
LEMMA InterruptKeepsDrift ==
    ASSUME Base, Base', Interrupted, UNCHANGED position, pc # "closing",
           pc' = "shut", \A p \in Outcomes : OffWithin(p)
    PROVE  \A p \in Outcomes' : OffWithin(p)'
  <1>1. Outcomes' = {position}
    BY DEF Outcomes, Calling
  <1>2. CASE callSt \in {"wait", "filled"}
    <2>1. LeaveBehind /\ UNCHANGED account /\ pc \in Calling
      BY <1>2, DriftTypes DEF Interrupted, Abandon, Control
    <2>2. /\ account'[Fade] - position + resting'[Fade][1] <= giveups'[Fade]
          /\ position - account'[Fade] + resting'[Fade][-1] <= giveups'[Fade]
      BY <1>2, <2>1, LeavingKeepsDrift
    <2> QED
      BY <1>1, <2>2 DEF OffWithin
  <1>3. CASE callSt \notin {"wait", "filled"}
    <2>1. UNCHANGED <<account, resting, giveups>>
      BY <1>3 DEF Interrupted, Return, clientVars
    <2>2. position \in Outcomes
      <3>1. callSt = "raised" => ~HasRun(order, Fade)
        BY DriftTypes DEF HasRun, CallShape
      <3>2. callSt \in {"idle", "unfilled", "raised"}
        BY <1>3, DriftTypes DEF ClientTypeOK
      <3> QED
        BY <3>1, <3>2, DriftTypes DEF Outcomes, Control, Calling
    <2> QED
      BY <1>1, <2>1, <2>2 DEF OffWithin
  <1> QED
    BY <1>2, <1>3

LEMMA DriftStep ==
    ASSUME Base, Base', Drift, [Next]_vars
    PROVE  Drift'
  <1> SUFFICES ASSUME pc' # "killed", cut' # "closing", ~refused'
               PROVE  \A p \in Outcomes' : OffWithin(p)'
    BY DEF Drift
  <1>0. Control /\ pc \in Trading \cup {"shut", "flattening"} \cup Over
    BY DriftTypes DEF Base, FadeTypeOK
  <1> USE <1>0, DriftTypes
          DEF Control, Drift, Outcomes, OffWithin, Trading, Over, Calling,
              clientVars
  <1>1. CASE Starts
    BY <1>1 DEF Starts, Authenticate
  <1>2. CASE StartFails \/ ReplayEnds
    BY <1>2 DEF StartFails, ReplayEnds, Stop
  <1>3. CASE BarQuiet
    BY <1>3 DEF BarQuiet, Bar
  <1>4. CASE BarEnterVetoed
    BY <1>4 DEF BarEnterVetoed, Bar
  <1>5. CASE BarEnter
    <2>1. /\ PlaceOrder(Buy) /\ pc = "poll" /\ pc' = "entering"
          /\ UNCHANGED <<position, cut, refused>>
      BY <1>5 DEF BarEnter, Bar
    <2>2. OffWithin(position)
      BY <2>1
    <2> HIDE DEF Outcomes, OffWithin
    <2> QED
      BY <2>1, <2>2, PlaceKeepsDrift
  <1>6. CASE BarExit
    <2>1. /\ PlaceOrder(Sell) /\ pc = "poll" /\ pc' = "exiting"
          /\ UNCHANGED <<position, cut, refused>>
      BY <1>6 DEF BarExit, Bar
    <2>2. OffWithin(position)
      BY <2>1
    <2> HIDE DEF Outcomes, OffWithin
    <2> QED
      BY <2>1, <2>2, PlaceKeepsDrift
  <1>7. CASE BarExitDropped
    BY <1>7 DEF BarExitDropped, Bar
  <1>8. CASE EnterBooks
    BY <1>8 DEF EnterBooks, Answered, Return, HasRun
  <1>9. CASE ExitBooks
    BY <1>9 DEF ExitBooks, Answered, Return, HasRun
  <1>10. CASE ExitCloses
    BY <1>10 DEF ExitCloses
  <1>11. CASE OrderRaises
    <2>1. /\ callSt = "raised" /\ pc \in Calling /\ cut = "no"
          /\ UNCHANGED <<position, account, resting, giveups>>
          /\ pc' = "shut" /\ ~refused
      BY <1>11 DEF OrderRaises, Return, Stop
    <2>2. Outcomes = {position} /\ Outcomes' = {position}
      BY <2>1 DEF HasRun, CallShape
    <2> HIDE DEF Outcomes
    <2> QED
      BY <2>1, <2>2
  <1>12. CASE ShutFlatten
    <2>1. /\ PlaceOrder(Sell) /\ pc = "shut" /\ pc' = "flattening"
          /\ UNCHANGED <<position, cut, refused>>
      BY <1>12 DEF ShutFlatten
    <2>2. OffWithin(position)
      BY <2>1
    <2> HIDE DEF Outcomes, OffWithin
    <2> QED
      BY <2>1, <2>2, PlaceKeepsDrift
  <1>13. CASE ShutBooks
    <2>1. /\ callSt \in {"filled", "unfilled"} /\ pc = "flattening"
          /\ UNCHANGED <<account, resting, giveups, cut>>
          /\ position' = 0 /\ pc' = "shut"
      BY <1>13 DEF ShutBooks, Return
    <2>2. position = 1 /\ order.side = -1 /\ order.tag = Fade /\ ~refused
      BY <2>1
    <2>3. 0 \in Outcomes /\ Outcomes' = {0}
      BY <2>1, <2>2 DEF HasRun
    <2> HIDE DEF Outcomes
    <2> QED
      BY <2>1, <2>2, <2>3
  <1>14. CASE ShutEnds
    BY <1>14 DEF ShutEnds, Disconnect
  <1>15. CASE Sigint
    <2>1. /\ Interrupted /\ pc # "closing" /\ pc' = "shut"
          /\ UNCHANGED <<position, refused>> /\ cut # "closing" /\ pc # "killed"
      BY <1>15 DEF Sigint, Stop
    <2> HIDE DEF Outcomes, OffWithin
    <2> QED
      BY <2>1, InterruptKeepsDrift
  <1>16. CASE SecondSigint
    BY <1>16 DEF SecondSigint
  <1>17. CASE Waits
    <2>1. Poll /\ UNCHANGED fadeVars /\ UNCHANGED <<pc, cut, refused>>
      BY <1>17 DEF Waits, fadeVars
    <2> HIDE DEF Outcomes, OffWithin
    <2> QED
      BY <2>1, PollKeepsDrift
  <1>18. CASE Outside
    <2>1. Broker /\ UNCHANGED fadeVars /\ UNCHANGED <<pc, cut, refused>>
      BY <1>18 DEF Outside, fadeVars
    <2> HIDE DEF Outcomes, OffWithin
    <2> QED
      BY <2>1, BrokerKeepsDrift
  <1>19. CASE UNCHANGED vars
    BY <1>19 DEF vars, fadeVars, HasRun
  <1> QED
    BY <1>1, <1>2, <1>3, <1>4, <1>5, <1>6, <1>7, <1>8, <1>9, <1>10, <1>11,
       <1>12, <1>13, <1>14, <1>15, <1>16, <1>17, <1>18, <1>19 DEF Next, Main,
       OnClosedBar, Books, Shutdown, Finished

-----------------------------------------------------------------------------
(* The invariant and what follows from it. *)

Inv == Base /\ EngineFollowed /\ Losses /\ Drift

LEMMA InitInv == Init => Inv
  <1> SUFFICES ASSUME Init PROVE Inv
    OBVIOUS
  <1> USE DEF Init, ClientInit, Trading, Calling
  <1>1. ClientInv
    BY ClientInitInv
  <1>2. acct \in Accounts /\ Drawdown(acct) = 0 /\ acct.session = 0
    BY DEF NewAccount, Accounts, Drawdown
  <1>3. Base
    BY <1>1, <1>2 DEF Base, FadeTypeOK, Control, ClientInv
  <1>4. EngineFollowed
    BY DEF EngineFollowed, Aim
  <1>5. Losses
    BY <1>2, RiskAssumption, FadeAssumption
    DEF Losses, RoomForATrade, RoutedLossesBounded, LastWord
  <1>6. Outcomes = {0} /\ OffWithin(0)
    BY FadeAssumption DEF Outcomes, OffWithin, Sides
  <1> QED
    BY <1>3, <1>4, <1>5, <1>6 DEF Inv, Drift

LEMMA StepInv == Inv /\ [Next]_vars => Inv'
  BY BaseStep, EngineStep, LossesStep, DriftStep DEF Inv

LEMMA SpecInv == Spec => []Inv
  BY InitInv, StepInv, PTL DEF Spec

LEMMA InvImpliesEngineMatches == Inv => EngineMatchesPosition
  BY DEF Inv, Base, FadeTypeOK, EngineFollowed, EngineMatchesPosition, AtRest,
         Aim, Trading

LEMMA InvImpliesWithin == Inv => PositionWithinGiveups
  <1> SUFFICES ASSUME Inv, AtRest
               PROVE  Abs(account[Fade] - position) <= giveups[Fade]
    BY DEF PositionWithinGiveups
  <1>1. Outcomes = {position} /\ Drift /\ pc # "killed" /\ cut = "no"
    BY DEF Inv, Base, Control, AtRest, Trading, Outcomes, Calling
  <1>2. ~refused
    BY DEF Inv, Base, FadeTypeOK, Control, AtRest, Trading
  <1> QED
    BY <1>1, <1>2, DriftTypes DEF Inv, Drift, OffWithin, Abs

LEMMA InvImpliesShutdown == Inv => ShutdownLeavesOnlyGiveups
  <1> SUFFICES ASSUME Inv, pc = "done", cut # "closing", ~refused
               PROVE  Abs(account[Fade]) <= giveups[Fade]
    BY DEF ShutdownLeavesOnlyGiveups
  <1>1. Outcomes = {0} /\ Drift
    BY DEF Inv, Base, Control, Outcomes, Calling
  <1> QED
    BY <1>1, DriftTypes DEF Inv, Drift, OffWithin, Abs

-----------------------------------------------------------------------------
(* The theorems. *)

\* Every variable of the single-engine runner keeps its type.
THEOREM FadeTypeCorrect == Spec => []FadeTypeOK
  <1>1. Inv => FadeTypeOK
    BY DEF Inv, Base
  <1> QED
    BY <1>1, SpecInv, PTL

\* Between two bars the engine and the bridge disagree only over an entry that
\* was vetoed, and never beyond the trade the engine made of it.
THEOREM EngineFollowsPosition == Spec => []EngineMatchesPosition
  BY SpecInv, InvImpliesEngineMatches, PTL

\* Although no answer is looked at, the position is off the account by at most
\* the calls that gave up: a booked rejection is one of them.
THEOREM PositionNearAccount == Spec => []PositionWithinGiveups
  BY SpecInv, InvImpliesWithin, PTL

\* With route_risk the session's loss and the drawdown stop within one trade of
\* their limits, for any limits and any worst trade.
THEOREM RoutedLosses == Spec => []RoutedLossesBounded
  <1>1. Inv => RoutedLossesBounded
    BY DEF Inv, Losses
  <1> QED
    BY <1>1, SpecInv, PTL

\* shutdown leaves at the broker no more than the calls that gave up, unless it
\* was reached from the line before the position is cleared or was refused.
THEOREM FadeShutdownFlattens == Spec => []ShutdownLeavesOnlyGiveups
  BY SpecInv, InvImpliesShutdown, PTL

\* With route_risk no entry follows a HALT, in this session.
THEOREM RoutedHaltHolds == Spec => RoutedHaltIsFinal
  <1>1. Inv /\ [Next]_vars
          => [halted => (pc' = "entering" => pc = "entering")]_vars
    <2> SUFFICES ASSUME Inv, Next, halted, pc' = "entering"
                 PROVE  pc = "entering"
      OBVIOUS
    <2>1. Inv'
      BY StepInv
    <2>2. halted'
      BY DEF Next, Main, Starts, StartFails, ReplayEnds, Stop, OnClosedBar,
             BarQuiet, BarEnterVetoed, BarEnter, BarExit, BarExitDropped,
             Books, EnterBooks, ExitBooks, ExitCloses, OrderRaises, Shutdown,
             ShutFlatten, ShutBooks, ShutEnds, Sigint, SecondSigint, Waits,
             Outside, Finished, fadeVars, vars
    <2> QED
      BY <2>1, <2>2 DEF Inv, Losses, LastWord
  <1> QED
    BY <1>1, SpecInv, PTL DEF Spec, RoutedHaltIsFinal

-----------------------------------------------------------------------------
(* The position implements PositionBook. *)

Held  == [e \in {Fade} |-> position]
Phase == IF pc \in Trading THEN "trading"
         ELSE IF pc = "done" THEN "over"
         ELSE IF pc = "killed" THEN "killed" ELSE "stopping"

LEMMA BookInit == Init => Book!Init
  BY DEF Init, Book!Init, Trading

LEMMA BookOpens ==
    ASSUME position = 0, position' = 1, Phase = "trading", UNCHANGED Phase
    PROVE  Book!Next
  <1>1. Held[Fade] = 0 /\ Held' = [Held EXCEPT ![Fade] = 1]
    BY DEF Held
  <1>2. Book!Open(Fade, 1)
    BY <1>1 DEF Book!Open, Held, Phase
  <1> QED
    BY <1>2 DEF Book!Next, Book!Step

LEMMA BookCloses ==
    ASSUME position = 1, position' = 0, Phase \in {"trading", "stopping"},
           UNCHANGED Phase
    PROVE  Book!Next
  <1>1. Held[Fade] # 0 /\ Held' = [Held EXCEPT ![Fade] = 0]
    BY DEF Held
  <1>2. Book!Close(Fade)
    BY <1>1 DEF Book!Close, Held, Phase
  <1> QED
    BY <1>2 DEF Book!Next, Book!Step

LEMMA BookStep == Inv /\ [Next]_vars => [Book!Next]_<<Held, Phase>>
  <1> SUFFICES ASSUME Inv, [Next]_vars
               PROVE  Book!Next \/ UNCHANGED <<Held, Phase>>
    OBVIOUS
  <1>0. /\ Control /\ position \in {0, 1}
        /\ pc \in Trading \cup {"shut", "flattening"} \cup Over
    BY DEF Inv, Base, FadeTypeOK
  <1>s. (UNCHANGED position /\ UNCHANGED Phase) => UNCHANGED <<Held, Phase>>
    BY DEF Held
  <1>e. (UNCHANGED position /\ Phase = "trading" /\ Phase' = "stopping")
           => Book!Next
    BY DEF Book!Next, Book!Stop, Phase
  <1>k. (UNCHANGED position /\ Phase = "stopping" /\ Phase' = "killed")
           => Book!Next
    BY DEF Book!Next, Book!Kill, Phase
  <1>1. CASE EnterBooks
    BY <1>1, <1>0, BookOpens DEF EnterBooks, Control, Phase, Trading
  <1>2. CASE ExitCloses
    BY <1>2, <1>0, BookCloses DEF ExitCloses, Control, Phase, Trading
  <1>3. CASE ShutBooks
    BY <1>3, <1>0, BookCloses DEF ShutBooks, Control, Phase, Trading
  <1>4. CASE ShutEnds
    <2>1. Phase = "stopping" /\ Phase' = "over" /\ Held[Fade] = 0
          /\ UNCHANGED Held
      BY <1>4 DEF ShutEnds, Phase, Held, Trading
    <2> QED
      BY <2>1 DEF Book!Next, Book!End, Phase, Held
  <1>5. CASE StartFails \/ ReplayEnds \/ OrderRaises \/ Sigint
    BY <1>5, <1>e DEF StartFails, ReplayEnds, OrderRaises, Sigint, Stop, Phase,
                      Trading
  <1>6. CASE SecondSigint
    BY <1>6, <1>k DEF SecondSigint, Phase, Trading
  <1>7. CASE Starts \/ OnClosedBar \/ ExitBooks \/ ShutFlatten
    BY <1>7, <1>s DEF Starts, OnClosedBar, Bar, BarQuiet, BarEnterVetoed,
                      BarEnter, BarExit, BarExitDropped, ExitBooks,
                      ShutFlatten, Phase, Trading
  <1>8. CASE Waits \/ Outside \/ UNCHANGED vars
    BY <1>8, <1>s DEF Waits, Outside, vars, fadeVars, Phase
  <1> QED
    BY <1>1, <1>2, <1>3, <1>4, <1>5, <1>6, <1>7, <1>8 DEF Next, Main, Books,
       Shutdown, Finished

\* The runner implements PositionBook: it opens only when flat and trading and
\* ends flat, whatever the broker and the operator do.
THEOREM FadeImplementsBook == Spec => BookSpec
  <1>1. Inv /\ [Next]_vars
          => [Book!Next]_<<[e \in {Fade} |-> position],
                           IF pc \in Trading THEN "trading"
                           ELSE IF pc = "done" THEN "over"
                           ELSE IF pc = "killed" THEN "killed" ELSE "stopping">>
    BY BookStep DEF Held, Phase
  <1> QED
    BY <1>1, BookInit, SpecInv, PTL DEF Spec, BookSpec, Book!Spec
=============================================================================
