-------------------------- MODULE IBKRClientProofs --------------------------
(***************************************************************************)
(* Proofs about IBKRClient, for any set of tags and any number of polls.   *)
(* The inductive invariant is ClientInv: the types, what the state of the  *)
(* call says about the order at the broker, and AccountWithinGiveups with  *)
(* the running call made precise.                                          *)
(***************************************************************************)
EXTENDS IBKRClient, TLAPS

\* Without a running call there is no order anyone waits for.
CallShape ==
    /\ callSt = "wait" <=> parent # "none"
    /\ parent # "none" => Mode = "PAPER_LIVE"

\* Where the running call stands: its order has executed or it has not.
Executed(t) ==
    IF order.tag = t /\ parent \in {"filled", "unseen"} THEN order.side ELSE 0

\* Executions nobody reported, the running call's own set apart, and orders
\* still resting are covered by the calls that gave up.
Covered ==
    \A t \in Tags :
        Abs(account[t] - reported[t] - Executed(t)) + Stray(t) <= giveups[t]

\* Orders rest at a broker only where they were transmitted to one.
RestsOnPaper ==
    (\E o \in Orders : resting[o.tag][o.side] > 0) => Mode = "PAPER_LIVE"

ClientInv == ClientTypeOK /\ CallShape /\ Covered /\ RestsOnPaper

-----------------------------------------------------------------------------
LEMMA ClientInitInv == ClientInit => ClientInv
  <1> SUFFICES ASSUME ClientInit PROVE ClientInv
    OBVIOUS
  <1> USE ClientAssumption
  <1>1. ClientTypeOK
    BY DEF ClientInit, ClientTypeOK
  <1>2. CallShape
    BY DEF ClientInit, CallShape
  <1>3. ASSUME NEW t \in Tags
        PROVE  Abs(account[t] - reported[t] - Executed(t)) + Stray(t)
                 <= giveups[t]
    <2>1. account[t] = 0 /\ reported[t] = 0 /\ giveups[t] = 0
      BY DEF ClientInit
    <2>2. Executed(t) = 0 /\ Stray(t) = 0
      BY DEF ClientInit, Executed, Stray, Sides
    <2> QED
      BY <2>1, <2>2 DEF Abs
  <1>4. RestsOnPaper
    BY DEF ClientInit, RestsOnPaper, Orders
  <1> QED
    BY <1>1, <1>2, <1>3, <1>4 DEF ClientInv, Covered
-----------------------------------------------------------------------------
(* One step: the types, then the shape of the call, then the counts. *)

LEMMA OrderFields ==
    ASSUME NEW o \in Orders
    PROVE  o.tag \in Tags /\ o.side \in {-1, 1}
  BY DEF Orders, Sides

LEMMA ClientTypeStep ==
    ASSUME ClientTypeOK, CallShape, [ClientNext]_clientVars
    PROVE  ClientTypeOK'
  <1> USE ClientAssumption, OrderFields DEF ClientTypeOK, Sides
  <1>1. CASE Authenticate
    BY <1>1 DEF Authenticate
  <1>2. CASE PollSeesFill
    BY <1>2 DEF PollSeesFill, Report, CallShape
  <1>3. CASE PollAgain
    BY <1>3 DEF PollAgain
  <1>4. CASE PollTimesOut
    BY <1>4 DEF PollTimesOut, LeaveBehind
  <1>5. CASE Return
    BY <1>5 DEF Return
  <1>6. CASE Abandon
    BY <1>6 DEF Abandon, LeaveBehind
  <1>7. CASE Disconnect
    BY <1>7 DEF Disconnect
  <1>8. ASSUME NEW o \in Orders, PlaceOrder(o)
        PROVE  ClientTypeOK'
    BY <1>8 DEF PlaceOrder, Simulate, Report, Transmit, Refuse
  <1>9. CASE BrokerFills
    BY <1>9 DEF BrokerFills, CallShape
  <1>10. CASE BrokerRejects
    BY <1>10 DEF BrokerRejects
  <1>11. CASE LinkDrops
    BY <1>11 DEF LinkDrops
  <1>12. ASSUME NEW o \in Orders, LateFill(o) \/ LateCancel(o)
        PROVE  ClientTypeOK'
    BY <1>12 DEF LateFill, LateCancel
  <1>13. CASE UNCHANGED clientVars
    BY <1>13 DEF clientVars
  <1> QED
    BY <1>1, <1>2, <1>3, <1>4, <1>5, <1>6, <1>7, <1>8, <1>9, <1>10, <1>11, <1>12, <1>13 DEF ClientNext, Poll, Broker

LEMMA CallShapeStep ==
    ASSUME ClientTypeOK, CallShape, RestsOnPaper, [ClientNext]_clientVars
    PROVE  CallShape' /\ RestsOnPaper'
  <1> USE OrderFields DEF ClientTypeOK, CallShape, RestsOnPaper, Sides, Mode
  <1>1. CASE Authenticate
    BY <1>1 DEF Authenticate
  <1>2. CASE PollSeesFill
    BY <1>2 DEF PollSeesFill, Report
  <1>3. CASE PollAgain
    BY <1>3 DEF PollAgain
  <1>4. CASE PollTimesOut
    BY <1>4 DEF PollTimesOut, LeaveBehind, Orders
  <1>5. CASE Return
    BY <1>5 DEF Return
  <1>6. CASE Abandon
    BY <1>6 DEF Abandon, LeaveBehind, Orders
  <1>7. CASE Disconnect
    BY <1>7 DEF Disconnect
  <1>8. ASSUME NEW o \in Orders, PlaceOrder(o)
        PROVE  CallShape' /\ RestsOnPaper'
    BY <1>8 DEF PlaceOrder, Simulate, Report, Transmit, Refuse
  <1>9. CASE BrokerFills
    BY <1>9 DEF BrokerFills
  <1>10. CASE BrokerRejects
    BY <1>10 DEF BrokerRejects
  <1>11. CASE LinkDrops
    BY <1>11 DEF LinkDrops
  <1>12. ASSUME NEW o \in Orders, LateFill(o) \/ LateCancel(o)
        PROVE  CallShape' /\ RestsOnPaper'
    BY <1>12 DEF LateFill, LateCancel, Orders
  <1>13. CASE UNCHANGED clientVars
    BY <1>13 DEF clientVars
  <1> QED
    BY <1>1, <1>2, <1>3, <1>4, <1>5, <1>6, <1>7, <1>8, <1>9, <1>10, <1>11, <1>12, <1>13 DEF ClientNext, Poll, Broker

LEMMA CoveredStep ==
    ASSUME ClientTypeOK, CallShape, Covered, [ClientNext]_clientVars,
           ClientTypeOK', NEW t \in Tags
    PROVE  Abs(account'[t] - reported'[t] - Executed(t)') + Stray(t)'
             <= giveups'[t]
  <1> DEFINE Bound == Abs(account[t] - reported[t] - Executed(t)) + Stray(t)
                        <= giveups[t]
  <1>0. Bound
    BY DEF Covered
  <1> USE <1>0, OrderFields DEF ClientTypeOK, CallShape, Sides, Abs, Stray, Executed
  <1>1. CASE Authenticate
    BY <1>1 DEF Authenticate
  <1>2. CASE PollSeesFill
    BY <1>2 DEF PollSeesFill, Report
  <1>3. CASE PollAgain
    BY <1>3 DEF PollAgain
  <1>4. CASE PollTimesOut
    BY <1>4 DEF PollTimesOut, LeaveBehind, Orders
  <1>5. CASE Return
    BY <1>5 DEF Return
  <1>6. CASE Abandon
    BY <1>6 DEF Abandon, LeaveBehind, Orders
  <1>7. CASE Disconnect
    BY <1>7 DEF Disconnect
  <1>8. ASSUME NEW o \in Orders, PlaceOrder(o)
        PROVE  Bound'
    BY <1>8 DEF PlaceOrder, Simulate, Report, Transmit, Refuse
  <1>9. CASE BrokerFills
    BY <1>9 DEF BrokerFills
  <1>10. CASE BrokerRejects
    BY <1>10 DEF BrokerRejects
  <1>11. CASE LinkDrops
    BY <1>11 DEF LinkDrops
  <1>12. ASSUME NEW o \in Orders, LateFill(o) \/ LateCancel(o)
        PROVE  Bound'
    BY <1>12 DEF LateFill, LateCancel, Orders
  <1>13. CASE UNCHANGED clientVars
    BY <1>13 DEF clientVars
  <1> QED
    BY <1>1, <1>2, <1>3, <1>4, <1>5, <1>6, <1>7, <1>8, <1>9, <1>10, <1>11, <1>12, <1>13 DEF ClientNext, Poll, Broker

LEMMA ClientStepInv == ClientInv /\ [ClientNext]_clientVars => ClientInv'
  <1> SUFFICES ASSUME ClientInv, [ClientNext]_clientVars PROVE ClientInv'
    OBVIOUS
  <1>1. ClientTypeOK'
    BY ClientTypeStep DEF ClientInv
  <1>2. CallShape' /\ RestsOnPaper'
    BY CallShapeStep DEF ClientInv
  <1>3. Covered'
    BY <1>1, CoveredStep DEF ClientInv, Covered
  <1> QED
    BY <1>1, <1>2, <1>3 DEF ClientInv

-----------------------------------------------------------------------------
(* What a step does to what a runner compares its book with. *)

LEMMA PollFacts ==
    Poll => /\ callSt = "wait" /\ callSt' \in {"wait", "filled", "unfilled"}
            /\ UNCHANGED <<cfg, link, order, account>>
  BY DEF Poll, PollSeesFill, PollAgain, PollTimesOut, Report

LEMMA BrokerFacts ==
    Broker => UNCHANGED <<cfg, callSt, order, polls, reported, fills, giveups>>
  BY DEF Broker, BrokerFills, BrokerRejects, LinkDrops, LateFill, LateCancel

\* The client has the order o in hand and knows, or could know, it executed.
HasRun(o, e) == /\ o.tag = e
                /\ callSt = "filled" \/ parent \in {"filled", "unseen"}

LEMMA PlaceOrderDrift ==
    ASSUME ClientTypeOK, CallShape, NEW o \in Orders, PlaceOrder(o),
           NEW e \in Tags
    PROVE  /\ order' = o /\ UNCHANGED <<giveups, resting>> 
           /\ callSt' \in {"wait", "filled", "raised"}
           /\ account'[e] = account[e]
                              + (IF HasRun(o, e)' THEN o.side ELSE 0)
  <1> USE OrderFields DEF ClientTypeOK, CallShape, HasRun
  <1>1. CASE Simulate(o)
    BY <1>1 DEF PlaceOrder, Simulate, Report
  <1>2. CASE Transmit
    BY <1>2 DEF PlaceOrder, Transmit
  <1>3. CASE Refuse
    BY <1>3 DEF PlaceOrder, Refuse
  <1> QED
    BY <1>1, <1>2, <1>3 DEF PlaceOrder

\* One more order of e and side s rests when the call is left.
Left(e, s) ==
    IF parent = "working" /\ order.tag = e /\ order.side = s THEN 1 ELSE 0

LEMMA LeaveBehindDrift ==
    ASSUME ClientTypeOK, LeaveBehind, NEW e \in Tags,
           order \in Orders
    PROVE  /\ order.tag = e => giveups'[e] = giveups[e] + 1
           /\ order.tag # e => giveups'[e] = giveups[e]
           /\ resting'[e][1] = resting[e][1] + Left(e, 1)
           /\ resting'[e][-1] = resting[e][-1] + Left(e, -1)
  BY OrderFields DEF ClientTypeOK, LeaveBehind, Left, Sides

LEMMA LateDrift ==
    ASSUME ClientTypeOK, NEW o \in Orders, LateFill(o) \/ LateCancel(o),
           NEW e \in Tags
    PROVE  /\ UNCHANGED <<cfg, link, callSt, order, parent, giveups>>
           /\ \/ UNCHANGED <<account[e], resting[e]>>
              \/ /\ account'[e] \in {account[e], account[e] + 1}
                 /\ resting'[e][1] = resting[e][1] - 1
                 /\ resting'[e][-1] = resting[e][-1]
              \/ /\ account'[e] \in {account[e], account[e] - 1}
                 /\ resting'[e][-1] = resting[e][-1] - 1
                 /\ resting'[e][1] = resting[e][1]
  <1> USE OrderFields DEF ClientTypeOK, LateFill, LateCancel, Sides
  <1>1. CASE o.tag # e
    BY <1>1
  <1>2. CASE o.tag = e /\ o.side = 1
    BY <1>2
  <1>3. CASE o.tag = e /\ o.side = -1
    BY <1>3
  <1> QED
    BY <1>1, <1>2, <1>3

-----------------------------------------------------------------------------
(* What follows from the invariant. *)

LEMMA InvImpliesWithinGiveups == ClientInv => AccountWithinGiveups
  <1> SUFFICES ASSUME ClientInv, NEW t \in Tags
               PROVE  Abs(account[t] - reported[t]) + Stray(t)
                        <= giveups[t] + InFlight(t)
    BY DEF AccountWithinGiveups
  <1>1. Abs(account[t] - reported[t] - Executed(t)) + Stray(t) <= giveups[t]
    BY DEF ClientInv, Covered
  <1>2. /\ account[t] \in Int /\ reported[t] \in Int /\ giveups[t] \in Nat
        /\ Stray(t) \in Nat
    BY DEF ClientInv, ClientTypeOK, Stray, Sides
  <1>3. CASE Executed(t) = 0
    BY <1>1, <1>2, <1>3 DEF InFlight, Abs
  <1>4. CASE Executed(t) # 0
    <2>1. callSt = "wait" /\ order.tag = t /\ Executed(t) \in {-1, 1}
      BY <1>4, OrderFields DEF Executed, ClientInv, CallShape, ClientTypeOK
    <2> QED
      BY <1>1, <1>2, <2>1 DEF InFlight, Abs
  <1> QED
    BY <1>3, <1>4

LEMMA InvImpliesPaperOnly == ClientInv => PaperOnly
  BY DEF ClientInv, CallShape, RestsOnPaper, PaperOnly, Mode

\* The types of the client hold in every behaviour of it.
THEOREM ClientTypeCorrect == ClientSpec => []ClientTypeOK
  <1>1. ClientInv => ClientTypeOK
    BY DEF ClientInv
  <1> QED
    BY <1>1, ClientInitInv, ClientStepInv, PTL DEF ClientSpec

\* For any strategies and any time limit: what the account holds of a strategy
\* differs from what place_order reported by at most the calls that gave up,
\* orders still resting at the broker included.
THEOREM ClientWithinGiveups == ClientSpec => []AccountWithinGiveups
  BY ClientInitInv, ClientStepInv, InvImpliesWithinGiveups, PTL DEF ClientSpec

\* No order of any configuration but the paper one ever exists at a broker.
THEOREM ClientPaperOnly == ClientSpec => []PaperOnly
  BY ClientInitInv, ClientStepInv, InvImpliesPaperOnly, PTL DEF ClientSpec
=============================================================================
