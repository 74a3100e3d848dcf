----------------------- MODULE MultiEngineBridgeProofs ----------------------
(***************************************************************************)
(* Proofs about MultiEngineBridge, for any engines, timeframes and bounds. *)
(*                                                                         *)
(* The client's invariant is inherited: every step of the bridge is a step *)
(* of the client or leaves it alone (BridgeStepsClient).  On top of it,    *)
(* Control says which program points hold a running call and an order, and *)
(* OrderPos what the book says of the engine the order is for; the         *)
(* invariants of the book are then inductive one engine at a time.         *)
(***************************************************************************)
EXTENDS MultiEngineBridge, IBKRClientProofs, FoldTheorems

Calling == {"entering", "exiting", "flattening"}
AtHand  == Calling \cup {"entered", "logged", "netted"}

\* A call runs exactly where the thread waits for one, trading has been cut
\* exactly when it is over, and the order at hand is of the engine in turn.
Control ==
    /\ callSt # "idle" <=> pc \in Calling
    /\ cut = "no" <=> pc \in Trading
    /\ pc \in AtHand => /\ order \in Orders
                       /\ todo # <<>> /\ order.tag = Head(todo)

\* The order at hand opens, or closes, the position of its engine.
OrderPos ==
    /\ pc = "entering" => pos[order.tag] = 0
    /\ pc = "entered" => pos[order.tag] = order.side
    /\ pc \in {"exiting", "logged", "netted", "flattening"}
          => pos[order.tag] = -order.side

Base == TypeOK /\ ClientInv /\ Control /\ OrderPos

-----------------------------------------------------------------------------
LEMMA HeadTail ==
    ASSUME NEW S, NEW s \in Seq(S), s # <<>>
    PROVE  Head(s) \in S /\ Tail(s) \in Seq(S)
  OBVIOUS

LEMMA EmptySeq == ASSUME NEW S PROVE <<>> \in Seq(S)
  OBVIOUS

LEMMA InitBase == Init => Base
  <1> SUFFICES ASSUME Init PROVE Base
    OBVIOUS
  <1>1. ClientInv
    BY ClientInitInv DEF Init
  <1>2. TypeOK
    <2>1. engine \in [Engines -> Dirs] /\ pos \in [Engines -> Dirs]
      BY DEF Init, Dirs
    <2>2. trades \in [Engines -> Nat] /\ net \in Int /\ bars \in Nat
      BY DEF Init
    <2>3. todo \in Seq(Engines) /\ tfs \in Seq(Timeframes)
      BY EmptySeq DEF Init
    <2> QED
      BY <1>1, <2>1, <2>2, <2>3 DEF Init, TypeOK, ClientInv, Trading
  <1>3. Control /\ OrderPos
    BY DEF Init, ClientInit, Control, OrderPos, Calling, AtHand, Trading
  <1> QED
    BY <1>1, <1>2, <1>3 DEF Base

\* Every step of the bridge is a step of the client or leaves it alone.
LEMMA BridgeStepsClient ==
    ASSUME TypeOK, [Next]_vars
    PROVE  [ClientNext]_clientVars
  <1>1. CASE Starts
    BY <1>1 DEF Starts, StartDry, StartLive, StartFails, ClientNext
  <1>2. CASE Loops
    BY <1>2 DEF Loops, WarmBar, WarmTfEnds, WarmEnds, FeedBar, ReplayEnds,
                CloseBar
  <1>3. CASE Decides
    <2>1. CASE DecideEnter
      <3>1. PICK d \in Sides : PlaceOrder([tag |-> Head(todo), side |-> d])
        BY <2>1 DEF DecideEnter
      <3>2. [tag |-> Head(todo), side |-> d] \in Orders
        BY <2>1, HeadTail DEF DecideEnter, Orders, TypeOK, Engines
      <3> QED
        BY <3>1, <3>2 DEF ClientNext
    <2>2. CASE DecideExit
      <3>1. PICK d \in Sides : PlaceOrder([tag |-> Head(todo), side |-> -d])
        BY <2>2 DEF DecideExit
      <3>2. [tag |-> Head(todo), side |-> -d] \in Orders
        BY <2>2, HeadTail DEF DecideExit, Orders, TypeOK, Engines, Sides
      <3> QED
        BY <3>1, <3>2 DEF ClientNext
    <2> QED
      BY <1>3, <2>1, <2>2 DEF Decides, NoDecision, DecideDropped, CloseEnds
  <1>4. CASE Books
    BY <1>4 DEF Books, NotFilled, OrderRaises, EnterBooksPos, EnterBooksNet,
                ExitLogsTrade, ExitBooksNet, ExitBooksPos, ClientNext
  <1>5. CASE Shutdown
    <2>1. CASE ShutFlatten
      <3>1. Head(todo) \in Tags /\ pos[Head(todo)] \in {-1, 1}
        BY <2>1, HeadTail DEF ShutFlatten, TypeOK, Engines, Dirs
      <3>2. [tag |-> Head(todo), side |-> -pos[Head(todo)]] \in Orders
        BY <3>1 DEF Orders, Sides
      <3> QED
        BY <2>1, <3>2 DEF ShutFlatten, ClientNext
    <2> QED
      BY <1>5, <2>1 DEF Shutdown, ShutSkip, ShutBooks, ShutEnds, ClientNext
  <1>6. CASE Sigint \/ SecondSigint
    BY <1>6 DEF Sigint, SecondSigint, Interrupted, ClientNext
  <1>7. CASE Waits \/ Outside
    BY <1>7 DEF Waits, Outside, ClientNext
  <1>8. CASE UNCHANGED vars
    BY <1>8 DEF vars
  <1> QED
    BY <1>1, <1>2, <1>3, <1>4, <1>5, <1>6, <1>7, <1>8 DEF Next, Main, Finished

LEMMA CountUp ==
    ASSUME NEW f \in [Engines -> Nat], NEW e \in Engines
    PROVE  [f EXCEPT ![e] = @ + 1] \in [Engines -> Nat]
  OBVIOUS

LEMMA Cleared ==
    ASSUME NEW f \in [Engines -> Dirs], NEW e \in Engines
    PROVE  [f EXCEPT ![e] = 0] \in [Engines -> Dirs]
  BY DEF Dirs

LEMMA EngineMoves ==
    ASSUME engine \in [Engines -> Dirs], NEW e \in Engines, NEW d \in Sides,
           Enters(e, d) \/ Exits(e, d)
    PROVE  engine' \in [Engines -> Dirs]
  BY DEF Enters, Exits, Sides, Dirs

LEMMA OrderAtHand ==
    ASSUME Base, pc \in AtHand
    PROVE  order.tag \in Engines /\ order.side \in {-1, 1}
  BY OrderFields
  DEF Base, Control, Engines

LEMMA BridgeTypeStep ==
    ASSUME Base, [Next]_vars
    PROVE  TypeOK'
  <1>0. ClientTypeOK' /\ TypeOK /\ Control
    BY BridgeStepsClient, ClientTypeStep DEF Base, ClientInv
  <1>a. pc \in AtHand
           => order.tag \in Engines /\ order.side \in {-1, 1}
    BY OrderAtHand
  <1>e. pc \in AtHand => pos[order.tag] \in {-1, 0, 1}
    BY <1>0, <1>a DEF TypeOK, Dirs
  <1> USE <1>0, BridgeAssumption, HeadTail
          DEF TypeOK, Control, Trading, Over, Dirs, Calling, AtHand
  <1>1. CASE StartDry
    BY <1>1 DEF StartDry
  <1>2. CASE StartLive
    BY <1>2 DEF StartLive, Authenticate
  <1>3. CASE StartFails
    BY <1>3 DEF StartFails, Stop
  <1>4. CASE WarmBar
    BY <1>4 DEF WarmBar, CloseBar
  <1>5. CASE WarmTfEnds
    BY <1>5 DEF WarmTfEnds
  <1>6. CASE WarmEnds
    BY <1>6 DEF WarmEnds
  <1>7. CASE FeedBar
    BY <1>7 DEF FeedBar, CloseBar
  <1>8. CASE ReplayEnds
    BY <1>8 DEF ReplayEnds, Stop
  <1>9. CASE NoDecision
    BY <1>9 DEF NoDecision, Continue
  <1>10. CASE DecideEnter
    BY <1>10 DEF DecideEnter, FollowedEnter, Enters, Sides
  <1>11. CASE DecideExit
    BY <1>11 DEF DecideExit, FollowedExit, Exits, Sides
  <1>12. CASE DecideDropped
    <2>0. PICK d \in Sides : Enters(Head(todo), d) \/ Exits(Head(todo), d)
      BY <1>12 DEF DecideDropped
    <2>1. engine' \in [Engines -> Dirs]
      BY <1>12, <2>0, EngineMoves DEF DecideDropped
    <2>3. missed' \in SUBSET Engines
      BY <1>12 DEF DecideDropped
    <2>2. todo' \in Seq(Engines)
      BY <1>12 DEF DecideDropped, Continue
    <2> QED
      BY <1>12, <2>1, <2>2, <2>3 DEF DecideDropped, Continue
  <1>13. CASE CloseEnds
    BY <1>13 DEF CloseEnds
  <1>14. CASE NotFilled
    BY <1>14, <1>a DEF NotFilled, Return, Continue
  <1>15. CASE OrderRaises
    BY <1>15 DEF OrderRaises, Return, Stop
  <1>16. CASE EnterBooksPos
    BY <1>16, <1>a DEF EnterBooksPos, Return
  <1>17. CASE EnterBooksNet
    <2>1. net' \in Int
      BY <1>17, <1>a DEF EnterBooksNet
    <2> QED
      BY <1>17, <1>a, <2>1 DEF EnterBooksNet, Continue
  <1>18. CASE ExitLogsTrade
    <2>1. trades' \in [Engines -> Nat]
      BY <1>18, <1>a, CountUp DEF ExitLogsTrade
    <2> QED
      BY <1>18, <1>a, <2>1 DEF ExitLogsTrade
  <1>19. CASE ExitBooksNet
    <2>1. net' \in Int
      BY <1>19, <1>e DEF ExitBooksNet
    <2> QED
      BY <1>19, <2>1 DEF ExitBooksNet
  <1>20. CASE ExitBooksPos
    BY <1>20, <1>a DEF ExitBooksPos, Continue
  <1>21. CASE ShutSkip
    BY <1>21 DEF ShutSkip
  <1>22. CASE ShutFlatten
    BY <1>22 DEF ShutFlatten
  <1>23. CASE ShutBooks
    <2>1. trades' \in [Engines -> Nat] /\ refused' \in SUBSET Engines
      BY <1>23, <1>a, CountUp DEF ShutBooks
    <2>2. net' \in Int
      BY <1>23, <1>e DEF ShutBooks
    <2>3. pos' \in [Engines -> Dirs]
      BY <1>23, <1>a, Cleared DEF ShutBooks
    <2> QED
      BY <1>23, <2>1, <2>2, <2>3 DEF ShutBooks
  <1>24. CASE ShutEnds
    BY <1>24 DEF ShutEnds, Disconnect
  <1>25. CASE Sigint
    BY <1>25 DEF Sigint, Stop, Interrupted, Abandon, LeaveBehind, Return
  <1>26. CASE SecondSigint
    BY <1>26 DEF SecondSigint, Interrupted, Abandon, LeaveBehind, Return
  <1>27. CASE Waits
    BY <1>27 DEF Waits, bridgeVars
  <1>28. CASE Outside
    BY <1>28 DEF Outside, bridgeVars
  <1>29. CASE UNCHANGED vars
    BY <1>29 DEF vars, clientVars, bridgeVars
  <1> QED
    BY <1>1, <1>2, <1>3, <1>4, <1>5, <1>6, <1>7, <1>8, <1>9, <1>10, <1>11,
       <1>12, <1>13, <1>14, <1>15, <1>16, <1>17, <1>18, <1>19, <1>20, <1>21,
       <1>22, <1>23, <1>24, <1>25, <1>26, <1>27, <1>28, <1>29 DEF Next, Main,
       Starts, Loops, Decides, Books, Shutdown, Finished

LEMMA ControlStep ==
    ASSUME Base, [Next]_vars
    PROVE  Control' /\ OrderPos'
  <1>0. Control /\ OrderPos /\ pos \in [Engines -> Dirs]
    BY DEF Base, TypeOK
  <1>a. pc \in AtHand => order.tag \in Engines /\ order.side \in {-1, 1}
    BY OrderAtHand
  <1>b. todo # <<>> => Head(todo) \in Engines
    BY HeadTail DEF Base, TypeOK
  <1>c. pc \in Trading \cup {"shut", "flattening"} \cup Over
    BY DEF Base, TypeOK
  <1> USE <1>0, <1>b, <1>c
          DEF Control, OrderPos, Trading, Over, Calling, AtHand, clientVars
  <1>1. CASE StartDry
    BY <1>1 DEF StartDry
  <1>2. CASE StartLive
    BY <1>2 DEF StartLive, Authenticate
  <1>3. CASE StartFails
    BY <1>3 DEF StartFails, Stop
  <1>4. CASE WarmBar
    BY <1>4 DEF WarmBar, CloseBar
  <1>5. CASE WarmTfEnds
    BY <1>5 DEF WarmTfEnds
  <1>6. CASE WarmEnds
    BY <1>6 DEF WarmEnds
  <1>7. CASE FeedBar
    BY <1>7 DEF FeedBar, CloseBar
  <1>8. CASE ReplayEnds
    BY <1>8 DEF ReplayEnds, Stop
  <1>9. CASE NoDecision
    BY <1>9 DEF NoDecision, Continue
  <1>10. CASE DecideEnter
    <2>1. PICK d \in Sides : /\ FollowedEnter(Head(todo), d)
                            /\ PlaceOrder([tag |-> Head(todo), side |-> d])
      BY <1>10 DEF DecideEnter
    <2>2. callSt' # "idle" /\ order' = [tag |-> Head(todo), side |-> d]
      BY <2>1 DEF PlaceOrder, Simulate, Report, Transmit, Refuse
    <2>3. pos[Head(todo)] = 0 /\ Head(todo) \in Tags
      BY <1>10, <2>1 DEF DecideEnter, FollowedEnter, Engines
    <2> QED
      BY <1>10, <2>2, <2>3 DEF DecideEnter, Orders
  <1>11. CASE DecideExit
    <2>1. PICK d \in Sides : /\ FollowedExit(Head(todo), d)
                            /\ PlaceOrder([tag |-> Head(todo), side |-> -d])
      BY <1>11 DEF DecideExit
    <2>2. callSt' # "idle" /\ order' = [tag |-> Head(todo), side |-> -d]
      BY <2>1 DEF PlaceOrder, Simulate, Report, Transmit, Refuse
    <2>3. pos[Head(todo)] = d /\ Head(todo) \in Tags
      BY <1>11, <2>1 DEF DecideExit, FollowedExit, Engines
    <2>4. -d \in Sides /\ d = -(-d)
      BY DEF Sides
    <2> QED
      BY <1>11, <2>2, <2>3, <2>4 DEF DecideExit, Orders
  <1>12. CASE DecideDropped
    BY <1>12 DEF DecideDropped, Continue, Enters, Exits
  <1>13. CASE CloseEnds
    BY <1>13 DEF CloseEnds
  <1>14. CASE NotFilled
    BY <1>14, <1>a DEF NotFilled, Return, Continue
  <1>15. CASE OrderRaises
    BY <1>15 DEF OrderRaises, Return, Stop
  <1>16. CASE EnterBooksPos
    BY <1>16, <1>a DEF EnterBooksPos, Return
  <1>17. CASE EnterBooksNet
    BY <1>17, <1>a DEF EnterBooksNet, Continue
  <1>18. CASE ExitLogsTrade
    BY <1>18, <1>a DEF ExitLogsTrade, Return
  <1>19. CASE ExitBooksNet
    BY <1>19, <1>a DEF ExitBooksNet
  <1>20. CASE ExitBooksPos
    BY <1>20, <1>a DEF ExitBooksPos, Continue
  <1>21. CASE ShutSkip
    BY <1>21 DEF ShutSkip
  <1>22. CASE ShutFlatten
    <2> DEFINE p == pos[Head(todo)]
    <2>1. callSt' # "idle" /\ order' = [tag |-> Head(todo), side |-> -p]
      BY <1>22 DEF ShutFlatten, PlaceOrder, Simulate, Report, Transmit, Refuse
    <2>2. p \in {-1, 1} /\ Head(todo) \in Tags
      BY <1>22 DEF ShutFlatten, Dirs, Engines
    <2>3. -p \in Sides /\ p = -(-p)
      BY <2>2 DEF Sides
    <2> QED
      BY <1>22, <2>1, <2>2, <2>3 DEF ShutFlatten, Orders
  <1>23. CASE ShutBooks
    BY <1>23, <1>a DEF ShutBooks, Return
  <1>24. CASE ShutEnds
    BY <1>24 DEF ShutEnds, Disconnect
  <1>25. CASE Sigint
    BY <1>25 DEF Sigint, Stop, Interrupted, Abandon, Return
  <1>26. CASE SecondSigint
    BY <1>26 DEF SecondSigint, Interrupted, Abandon, Return
  <1>27. CASE Waits
    BY <1>27, PollFacts DEF Waits, bridgeVars
  <1>28. CASE Outside
    BY <1>28, BrokerFacts DEF Outside, bridgeVars
  <1>29. CASE UNCHANGED vars
    BY <1>29 DEF vars, clientVars, bridgeVars
  <1> QED
    BY <1>1, <1>2, <1>3, <1>4, <1>5, <1>6, <1>7, <1>8, <1>9, <1>10, <1>11,
       <1>12, <1>13, <1>14, <1>15, <1>16, <1>17, <1>18, <1>19, <1>20, <1>21,
       <1>22, <1>23, <1>24, <1>25, <1>26, <1>27, <1>28, <1>29 DEF Next, Main,
       Starts, Loops, Decides, Books, Shutdown, Finished

-----------------------------------------------------------------------------
(* The book against what the client reported. *)

LEMMA MatchesReportsStep ==
    ASSUME Base, Control', BookMatchesReports, [Next]_vars, NEW e \in Engines
    PROVE  pc' \in Trading => reported'[e] = pos'[e] + Unbooked(e)'
  <1>0. /\ Control /\ OrderPos /\ reported \in [Tags -> Int]
        /\ pos \in [Engines -> Dirs] /\ pos[e] \in Int /\ reported[e] \in Int
    BY DEF Base, TypeOK, ClientTypeOK, Dirs, Engines
  <1>a. pc \in AtHand => order.tag \in Engines /\ order.side \in {-1, 1}
    BY OrderAtHand
  <1>b. pc \in Trading => reported[e] = pos[e] + Unbooked(e)
    BY DEF BookMatchesReports
  <1>c. pc \in Trading \cup {"shut", "flattening"} \cup Over
    BY DEF Base, TypeOK
  <1> USE <1>0, <1>a, <1>b, <1>c
          DEF Control, OrderPos, Trading, Over, Calling, AtHand, Unbooked,
              clientVars, Engines
  <1>1. CASE StartDry
    BY <1>1 DEF StartDry
  <1>2. CASE StartLive
    BY <1>2 DEF StartLive, Authenticate
  <1>3. CASE StartFails
    BY <1>3 DEF StartFails, Stop
  <1>4. CASE WarmBar
    BY <1>4 DEF WarmBar, CloseBar
  <1>5. CASE WarmTfEnds
    BY <1>5 DEF WarmTfEnds
  <1>6. CASE WarmEnds
    BY <1>6 DEF WarmEnds
  <1>7. CASE FeedBar
    BY <1>7 DEF FeedBar, CloseBar
  <1>8. CASE ReplayEnds
    BY <1>8 DEF ReplayEnds, Stop
  <1>9. CASE NoDecision
    BY <1>9 DEF NoDecision, Continue
  <1>10. CASE DecideEnter
    BY <1>10 DEF DecideEnter, FollowedEnter, Enters, PlaceOrder, Simulate,
         Report, Transmit, Refuse
  <1>11. CASE DecideExit
    BY <1>11 DEF DecideExit, FollowedExit, Exits, PlaceOrder, Simulate,
         Report, Transmit, Refuse
  <1>12. CASE DecideDropped
    BY <1>12 DEF DecideDropped, Continue, Enters, Exits
  <1>13. CASE CloseEnds
    BY <1>13 DEF CloseEnds
  <1>14. CASE NotFilled
    BY <1>14 DEF NotFilled, Return, Continue
  <1>15. CASE OrderRaises
    BY <1>15 DEF OrderRaises, Return, Stop
  <1>16. CASE EnterBooksPos
    BY <1>16 DEF EnterBooksPos, Return
  <1>17. CASE EnterBooksNet
    BY <1>17 DEF EnterBooksNet, Continue
  <1>18. CASE ExitLogsTrade
    BY <1>18 DEF ExitLogsTrade, Return
  <1>19. CASE ExitBooksNet
    BY <1>19 DEF ExitBooksNet
  <1>20. CASE ExitBooksPos
    BY <1>20 DEF ExitBooksPos, Continue
  <1>21. CASE ShutSkip
    BY <1>21 DEF ShutSkip
  <1>22. CASE ShutFlatten
    BY <1>22 DEF ShutFlatten, PlaceOrder, Simulate, Report, Transmit, Refuse
  <1>23. CASE ShutBooks
    BY <1>23 DEF ShutBooks, Return
  <1>24. CASE ShutEnds
    BY <1>24 DEF ShutEnds, Disconnect
  <1>25. CASE Sigint
    BY <1>25 DEF Sigint, Stop, Interrupted, Abandon, Return
  <1>26. CASE SecondSigint
    BY <1>26 DEF SecondSigint, Stop
  <1>27. CASE Waits
    BY <1>27 DEF Waits, Poll, PollSeesFill, PollAgain, PollTimesOut, Report,
         bridgeVars
  <1>28. CASE Outside
    BY <1>28, BrokerFacts DEF Outside, bridgeVars
  <1>29. CASE UNCHANGED vars
    BY <1>29 DEF vars, clientVars, bridgeVars
  <1> QED
    BY <1>1, <1>2, <1>3, <1>4, <1>5, <1>6, <1>7, <1>8, <1>9, <1>10, <1>11,
       <1>12, <1>13, <1>14, <1>15, <1>16, <1>17, <1>18, <1>19, <1>20, <1>21,
       <1>22, <1>23, <1>24, <1>25, <1>26, <1>27, <1>28, <1>29 DEF Next, Main,
       Starts, Loops, Decides, Books, Shutdown, Finished

-----------------------------------------------------------------------------
(* The engine against the book. *)

\* What the engine has done and the book has not, while an order is at hand.
Moved(e) ==
    IF order.tag = e /\ pc \in {"entering", "exiting", "logged", "netted"}
    THEN order.side ELSE 0

EngineBook ==
    pc \in Trading => \A e \in Engines \ missed : engine[e] = pos[e] + Moved(e)

LEMMA EngineBookStep ==
    ASSUME Base, EngineBook, [Next]_vars, NEW e \in Engines
    PROVE  (pc' \in Trading /\ e \notin missed')
              => engine'[e] = pos'[e] + Moved(e)'
  <1>0. /\ Control /\ OrderPos
        /\ engine \in [Engines -> Dirs] /\ pos \in [Engines -> Dirs]
        /\ pos[e] \in Int /\ engine[e] \in Int
    BY DEF Base, TypeOK, Dirs
  <1>a. pc \in AtHand => order.tag \in Engines /\ order.side \in {-1, 1}
    BY OrderAtHand
  <1>b. (pc \in Trading /\ e \notin missed) => engine[e] = pos[e] + Moved(e)
    BY DEF EngineBook
  <1>c. /\ pc \in Trading \cup {"shut", "flattening"} \cup Over
        /\ todo # <<>> => Head(todo) \in Engines
    BY HeadTail DEF Base, TypeOK
  <1> USE <1>0, <1>a, <1>b, <1>c
          DEF Control, OrderPos, Trading, Over, Calling, AtHand, Moved,
              clientVars, Sides
  <1>1. CASE StartDry
    BY <1>1 DEF StartDry
  <1>2. CASE StartLive
    BY <1>2 DEF StartLive, Authenticate
  <1>3. CASE StartFails
    BY <1>3 DEF StartFails, Stop
  <1>4. CASE WarmBar
    BY <1>4 DEF WarmBar, CloseBar
  <1>5. CASE WarmTfEnds
    BY <1>5 DEF WarmTfEnds
  <1>6. CASE WarmEnds
    BY <1>6 DEF WarmEnds
  <1>7. CASE FeedBar
    BY <1>7 DEF FeedBar, CloseBar
  <1>8. CASE ReplayEnds
    BY <1>8 DEF ReplayEnds, Stop
  <1>9. CASE NoDecision
    BY <1>9 DEF NoDecision, Continue
  <1>10. CASE DecideEnter
    BY <1>10 DEF DecideEnter, FollowedEnter, Enters, PlaceOrder
  <1>11. CASE DecideExit
    BY <1>11 DEF DecideExit, FollowedExit, Exits, PlaceOrder
  <1>12. CASE DecideDropped
    BY <1>12 DEF DecideDropped, Continue, Enters, Exits
  <1>13. CASE CloseEnds
    BY <1>13 DEF CloseEnds
  <1>14. CASE NotFilled
    BY <1>14 DEF NotFilled, Return, Continue
  <1>15. CASE OrderRaises
    BY <1>15 DEF OrderRaises, Return, Stop
  <1>16. CASE EnterBooksPos
    BY <1>16 DEF EnterBooksPos, Return
  <1>17. CASE EnterBooksNet
    BY <1>17 DEF EnterBooksNet, Continue
  <1>18. CASE ExitLogsTrade
    BY <1>18 DEF ExitLogsTrade, Return
  <1>19. CASE ExitBooksNet
    BY <1>19 DEF ExitBooksNet
  <1>20. CASE ExitBooksPos
    BY <1>20 DEF ExitBooksPos, Continue
  <1>21. CASE ShutSkip
    BY <1>21 DEF ShutSkip
  <1>22. CASE ShutFlatten
    BY <1>22 DEF ShutFlatten, PlaceOrder, Simulate, Report, Transmit, Refuse
  <1>23. CASE ShutBooks
    BY <1>23 DEF ShutBooks, Return
  <1>24. CASE ShutEnds
    BY <1>24 DEF ShutEnds, Disconnect
  <1>25. CASE Sigint
    BY <1>25 DEF Sigint, Stop, Interrupted, Abandon, Return
  <1>26. CASE SecondSigint
    BY <1>26 DEF SecondSigint, Stop
  <1>27. CASE Waits
    BY <1>27, PollFacts DEF Waits, bridgeVars
  <1>28. CASE Outside
    BY <1>28, BrokerFacts DEF Outside, bridgeVars
  <1>29. CASE UNCHANGED vars
    BY <1>29 DEF vars, clientVars, bridgeVars
  <1> QED
    BY <1>1, <1>2, <1>3, <1>4, <1>5, <1>6, <1>7, <1>8, <1>9, <1>10, <1>11,
       <1>12, <1>13, <1>14, <1>15, <1>16, <1>17, <1>18, <1>19, <1>20, <1>21,
       <1>22, <1>23, <1>24, <1>25, <1>26, <1>27, <1>28, <1>29 DEF Next, Main,
       Starts, Loops, Decides, Books, Shutdown, Finished

-----------------------------------------------------------------------------
(* The recorded trades against the answers. *)

\* The filled entries and exits not yet recorded, or recorded ahead of the book.
Ahead(e) ==
    IF order.tag = e /\ pc \in {"entering", "exiting"} /\ callSt = "filled"
    THEN 1
    ELSE IF order.tag = e /\ pc \in {"logged", "netted"} THEN -1 ELSE 0

RoundTrips ==
    pc \in Trading =>
        \A e \in Engines : fills[e] = 2 * trades[e] + Abs(pos[e]) + Ahead(e)

LEMMA RoundTripsStep ==
    ASSUME Base, Control', RoundTrips, [Next]_vars, NEW e \in Engines
    PROVE  pc' \in Trading
              => fills'[e] = 2 * trades'[e] + Abs(pos'[e]) + Ahead(e)'
  <1>0. /\ Control /\ OrderPos
        /\ fills \in [Tags -> Nat] /\ trades \in [Engines -> Nat]
        /\ pos \in [Engines -> Dirs] /\ pos[e] \in {-1, 0, 1}
        /\ fills[e] \in Nat /\ trades[e] \in Nat
    BY DEF Base, TypeOK, ClientTypeOK, Dirs, Engines
  <1>a. pc \in AtHand => order.tag \in Engines /\ order.side \in {-1, 1}
    BY OrderAtHand
  <1>b. pc \in Trading => fills[e] = 2 * trades[e] + Abs(pos[e]) + Ahead(e)
    BY DEF RoundTrips
  <1>c. pc \in Trading \cup {"shut", "flattening"} \cup Over
    BY DEF Base, TypeOK
  <1> USE <1>0, <1>a, <1>b, <1>c
          DEF Control, OrderPos, Trading, Over, Calling, AtHand, Ahead, Abs,
              clientVars, Engines
  <1>1. CASE StartDry
    BY <1>1 DEF StartDry
  <1>2. CASE StartLive
    BY <1>2 DEF StartLive, Authenticate
  <1>3. CASE StartFails
    BY <1>3 DEF StartFails, Stop
  <1>4. CASE WarmBar
    BY <1>4 DEF WarmBar, CloseBar
  <1>5. CASE WarmTfEnds
    BY <1>5 DEF WarmTfEnds
  <1>6. CASE WarmEnds
    BY <1>6 DEF WarmEnds
  <1>7. CASE FeedBar
    BY <1>7 DEF FeedBar, CloseBar
  <1>8. CASE ReplayEnds
    BY <1>8 DEF ReplayEnds, Stop
  <1>9. CASE NoDecision
    BY <1>9 DEF NoDecision, Continue
  <1>10. CASE DecideEnter
    BY <1>10 DEF DecideEnter, FollowedEnter, Enters, PlaceOrder, Simulate,
         Report, Transmit, Refuse
  <1>11. CASE DecideExit
    BY <1>11 DEF DecideExit, FollowedExit, Exits, PlaceOrder, Simulate,
         Report, Transmit, Refuse
  <1>12. CASE DecideDropped
    BY <1>12 DEF DecideDropped, Continue, Enters, Exits
  <1>13. CASE CloseEnds
    BY <1>13 DEF CloseEnds
  <1>14. CASE NotFilled
    BY <1>14 DEF NotFilled, Return, Continue
  <1>15. CASE OrderRaises
    BY <1>15 DEF OrderRaises, Return, Stop
  <1>16. CASE EnterBooksPos
    BY <1>16 DEF EnterBooksPos, Return
  <1>17. CASE EnterBooksNet
    BY <1>17 DEF EnterBooksNet, Continue
  <1>18. CASE ExitLogsTrade
    BY <1>18 DEF ExitLogsTrade, Return
  <1>19. CASE ExitBooksNet
    BY <1>19 DEF ExitBooksNet
  <1>20. CASE ExitBooksPos
    BY <1>20 DEF ExitBooksPos, Continue
  <1>21. CASE ShutSkip
    BY <1>21 DEF ShutSkip
  <1>22. CASE ShutFlatten
    BY <1>22 DEF ShutFlatten, PlaceOrder, Simulate, Report, Transmit, Refuse
  <1>23. CASE ShutBooks
    BY <1>23 DEF ShutBooks, Return
  <1>24. CASE ShutEnds
    BY <1>24 DEF ShutEnds, Disconnect
  <1>25. CASE Sigint
    BY <1>25 DEF Sigint, Stop, Interrupted, Abandon, Return
  <1>26. CASE SecondSigint
    BY <1>26 DEF SecondSigint, Stop
  <1>27. CASE Waits
    BY <1>27 DEF Waits, Poll, PollSeesFill, PollAgain, PollTimesOut, Report,
         bridgeVars
  <1>28. CASE Outside
    BY <1>28, BrokerFacts DEF Outside, bridgeVars
  <1>29. CASE UNCHANGED vars
    BY <1>29 DEF vars, clientVars, bridgeVars
  <1> QED
    BY <1>1, <1>2, <1>3, <1>4, <1>5, <1>6, <1>7, <1>8, <1>9, <1>10, <1>11,
       <1>12, <1>13, <1>14, <1>15, <1>16, <1>17, <1>18, <1>19, <1>20, <1>21,
       <1>22, <1>23, <1>24, <1>25, <1>26, <1>27, <1>28, <1>29 DEF Next, Main,
       Starts, Loops, Decides, Books, Shutdown, Finished

-----------------------------------------------------------------------------
(* The account against the book, through shutdown. *)

\* What the order at hand has done, or in shutdown is taken to have done, and
\* the book does not show yet.
Pending(e) ==
    IF \/ pc \in Calling /\ HasRun(order, e)
       \/ pc = "flattening" /\ callSt = "unfilled" /\ order.tag = e
       \/ pc \in {"logged", "netted"} /\ order.tag = e
    THEN order.side ELSE 0

\* How far the account is off the book, and how far the resting orders could
\* still take it, up and down.
Off(e) == account[e] - pos[e] - Pending(e)

OffWithin(e) == /\ Off(e) + resting[e][1] <= giveups[e]
                /\ -Off(e) + resting[e][-1] <= giveups[e]

Drift ==
    (pc # "killed" /\ cut \notin {"logged", "netted"}) =>
        \A e \in Engines \ refused : OffWithin(e)

LEMMA PendingRange ==
    ASSUME Base, NEW e \in Engines
    PROVE  Pending(e) \in {-1, 0, 1} /\ Off(e) \in Int
  <1>1. Pending(e) \in {-1, 0, 1}
    BY OrderAtHand DEF Pending, AtHand, Calling
  <1>2. account[e] \in Int /\ pos[e] \in {-1, 0, 1}
    BY DEF Base, TypeOK, ClientTypeOK, Engines, Dirs
  <1> QED
    BY <1>1, <1>2 DEF Off

LEMMA LateOffWithin ==
    ASSUME Base, NEW o \in Orders, LateFill(o) \/ LateCancel(o),
           UNCHANGED bridgeVars, NEW e \in Engines, OffWithin(e)
    PROVE  OffWithin(e)'
  <1>1. UNCHANGED <<cfg, link, callSt, order, parent, giveups>>
    BY LateDrift DEF Base, TypeOK, Engines
  <1>2. Pending(e)' = Pending(e) /\ pos'[e] = pos[e]
    BY <1>1 DEF Pending, HasRun, bridgeVars
  <1>3. /\ Pending(e) \in {-1, 0, 1} /\ Off(e) \in Int
        /\ account[e] \in Int /\ pos[e] \in {-1, 0, 1} /\ giveups[e] \in Nat
        /\ resting[e][1] \in Nat /\ resting[e][-1] \in Nat
    BY PendingRange DEF Base, TypeOK, ClientTypeOK, Engines, Dirs, Sides
  <1>4. \/ UNCHANGED <<account[e], resting[e]>>
        \/ /\ account'[e] \in {account[e], account[e] + 1}
           /\ resting'[e][1] = resting[e][1] - 1
           /\ resting'[e][-1] = resting[e][-1]
        \/ /\ account'[e] \in {account[e], account[e] - 1}
           /\ resting'[e][-1] = resting[e][-1] - 1
           /\ resting'[e][1] = resting[e][1]
    BY LateDrift DEF Base, TypeOK, Engines
  <1>5. Off(e)' - Off(e) = account'[e] - account[e]
    BY <1>2, <1>3, <1>4 DEF Off
  <1> QED
    BY <1>1, <1>2, <1>3, <1>4 DEF OffWithin, Off

LEMMA BrokerFillsOffWithin ==
    ASSUME Base, BrokerFills, UNCHANGED bridgeVars,
           NEW e \in Engines, OffWithin(e)
    PROVE  OffWithin(e)'
  <1>1. /\ callSt = "wait" /\ parent = "working" /\ pc \in Calling
        /\ order \in Orders /\ account \in [Tags -> Int]
    BY DEF Base, TypeOK, ClientTypeOK, ClientInv, CallShape, Control, AtHand,
           BrokerFills
  <1>2. order.tag \in Tags /\ order.side \in {-1, 1}
    BY <1>1, OrderFields
  <1>3. /\ UNCHANGED <<callSt, order, resting, giveups, pos, pc>>
        /\ parent' \in {"filled", "unseen"}
        /\ account' = [account EXCEPT ![order.tag] = @ + order.side]
    BY DEF BrokerFills, bridgeVars
  <1>4. account[e] \in Int /\ pos[e] \in {-1, 0, 1}
    BY DEF Base, TypeOK, ClientTypeOK, Engines, Dirs
  <1>5. CASE order.tag = e
    <2>1. Pending(e) = 0 /\ Pending(e)' = order.side
      BY <1>1, <1>3, <1>5 DEF Pending, HasRun, Calling
    <2>2. account'[e] = account[e] + order.side
      BY <1>1, <1>2, <1>3, <1>5
    <2>3. Off(e)' = Off(e)
      BY <1>2, <1>3, <1>4, <2>1, <2>2 DEF Off
    <2> QED
      BY <1>3, <2>3 DEF OffWithin
  <1>6. CASE order.tag # e
    <2>1. Pending(e) = 0 /\ Pending(e)' = 0
      BY <1>1, <1>3, <1>6 DEF Pending, HasRun, Calling
    <2>2. account'[e] = account[e]
      BY <1>1, <1>2, <1>3, <1>6 DEF Engines
    <2> QED
      BY <1>3, <2>1, <2>2 DEF OffWithin, Off
  <1> QED
    BY <1>5, <1>6

LEMMA AbandonOffWithin ==
    ASSUME Base, Abandon, pc' = "shut", UNCHANGED pos, pc \in Trading,
           NEW e \in Engines, OffWithin(e)
    PROVE  OffWithin(e)'
  <1>0. ClientTypeOK /\ Control /\ CallShape
    BY DEF Base, TypeOK, ClientInv
  <1>1. /\ order \in Orders /\ pc \in {"entering", "exiting"}
        /\ callSt \in {"wait", "filled"}
    BY <1>0 DEF Control, AtHand, Calling, Trading, Abandon
  <1>2. /\ order.tag = e => giveups'[e] = giveups[e] + 1
        /\ order.tag # e => giveups'[e] = giveups[e]
        /\ resting'[e][1] = resting[e][1] + Left(e, 1)
        /\ resting'[e][-1] = resting[e][-1] + Left(e, -1)
    BY <1>0, <1>1, LeaveBehindDrift DEF Abandon, Engines
  <1>3. UNCHANGED <<order, account>> /\ Pending(e)' = 0
    BY DEF Abandon, Pending, Calling
  <1>4. /\ account[e] \in Int /\ pos[e] \in {-1, 0, 1} /\ giveups[e] \in Nat
        /\ resting[e][1] \in Nat /\ resting[e][-1] \in Nat
    BY DEF Base, TypeOK, ClientTypeOK, Engines, Dirs, Sides
  <1>5. order.side \in {-1, 1}
    BY <1>1, OrderFields
  <1>6. CASE order.tag # e
    <2>1. Pending(e) = 0 /\ Left(e, 1) = 0 /\ Left(e, -1) = 0
      BY <1>1, <1>6 DEF Pending, HasRun, Left
    <2> QED
      BY <1>2, <1>3, <1>4, <1>6, <2>1 DEF OffWithin, Off
  <1>7. CASE order.tag = e /\ parent = "working"
    <2>1. Pending(e) = 0 /\ Left(e, 1) \in {0, 1} /\ Left(e, -1) \in {0, 1}
      BY <1>0, <1>1, <1>7 DEF Pending, HasRun, Left, CallShape
    <2> QED
      BY <1>2, <1>3, <1>4, <1>7, <2>1 DEF OffWithin, Off
  <1>8. CASE order.tag = e /\ parent # "working"
    <2>1. Pending(e) \in {-1, 0, 1} /\ Left(e, 1) = 0 /\ Left(e, -1) = 0
      BY <1>5, <1>8, PendingRange DEF Left
    <2> QED
      BY <1>2, <1>3, <1>4, <1>8, <2>1 DEF OffWithin, Off
  <1> QED
    BY <1>6, <1>7, <1>8

LEMMA TimesOutOffWithin ==
    ASSUME Base, PollTimesOut, UNCHANGED bridgeVars,
           NEW e \in Engines, OffWithin(e)
    PROVE  OffWithin(e)'
  <1>0. ClientTypeOK /\ OrderPos /\ Control /\ CallShape /\ callSt = "wait"
    BY DEF Base, TypeOK, ClientInv, PollTimesOut
  <1>1. /\ ClientTypeOK /\ order \in Orders /\ OrderPos /\ Control
        /\ pc \in Calling /\ CallShape
        /\ giveups[e] \in Nat /\ pos[e] \in Int /\ account[e] \in Int
        /\ resting[e][1] \in Nat /\ resting[e][-1] \in Nat
    <2>1. pc \in Calling /\ order \in Orders
      BY <1>0 DEF Control, AtHand
    <2> QED
      BY <1>0, <2>1 DEF Base, TypeOK, ClientTypeOK, Engines, Dirs, Sides
  <1>2. /\ order.tag = e => giveups'[e] = giveups[e] + 1
        /\ order.tag # e => giveups'[e] = giveups[e]
        /\ resting'[e][1] = resting[e][1] + Left(e, 1)
        /\ resting'[e][-1] = resting[e][-1] + Left(e, -1)
    BY <1>1, LeaveBehindDrift DEF PollTimesOut, Engines
  <1>3. UNCHANGED <<order, account, pos, pc>> /\ callSt' = "unfilled"
        /\ parent' = "none" /\ callSt = "wait"
    BY DEF PollTimesOut, LeaveBehind, bridgeVars
  <1>4. CASE order.tag # e
    BY <1>1, <1>2, <1>3, <1>4
    DEF OffWithin, Off, Pending, HasRun, Left, Calling
  <1>5. CASE order.tag = e
    <2>1. order.side \in {-1, 1}
      BY <1>1, OrderFields
    <2>2. Pending(e) = IF parent = "unseen" THEN order.side ELSE 0
      BY <1>1, <1>3, <1>5 DEF Pending, HasRun, Calling, PollTimesOut
    <2>3. Pending(e)' = IF pc = "flattening" THEN order.side ELSE 0
      BY <1>1, <1>3, <1>5 DEF Pending, HasRun, Calling
    <2>4. /\ Left(e, order.side) = IF parent = "working" THEN 1 ELSE 0
          /\ Left(e, -order.side) = 0
      BY <1>5, <2>1 DEF Left
    <2>5. CASE order.side = 1
      BY <1>1, <1>2, <1>3, <1>5, <2>2, <2>3, <2>4, <2>5 DEF OffWithin, Off
    <2>6. CASE order.side = -1
      BY <1>1, <1>2, <1>3, <1>5, <2>2, <2>3, <2>4, <2>6 DEF OffWithin, Off
    <2> QED
      BY <2>1, <2>5, <2>6
  <1> QED
    BY <1>4, <1>5

LEMMA DriftStep ==
    ASSUME Base, Control', Drift, [Next]_vars, NEW e \in Engines
    PROVE  (pc # "killed" /\ cut \notin {"logged", "netted"} /\ e \notin refused)'
              => OffWithin(e)'
  <1> DEFINE Bounded ==
        (pc # "killed" /\ cut \notin {"logged", "netted"} /\ e \notin refused)
           => OffWithin(e)
  <1>0. /\ Control /\ OrderPos /\ CallShape /\ ClientTypeOK
        /\ account \in [Tags -> Int] /\ giveups \in [Tags -> Nat]
        /\ pos \in [Engines -> Dirs] /\ pos[e] \in {-1, 0, 1}
        /\ resting \in [Tags -> [Sides -> Nat]]
        /\ resting[e][1] \in Nat /\ resting[e][-1] \in Nat
        /\ account[e] \in Int /\ giveups[e] \in Nat
    BY DEF Base, TypeOK, ClientInv, ClientTypeOK, Dirs, Engines, Sides
  <1>a. pc \in AtHand => order.tag \in Engines /\ order.side \in {-1, 1}
    BY OrderAtHand
  <1>b. Bounded
    BY DEF Drift
  <1>c. pc \in Trading \cup {"shut", "flattening"} \cup Over
    BY DEF Base, TypeOK
  <1>d. todo # <<>> => Head(todo) \in Engines
    BY HeadTail DEF Base, TypeOK
  <1> USE <1>0, <1>a, <1>b, <1>c
          DEF Control, OrderPos, CallShape, Trading, Over, Calling, AtHand,
              Pending, HasRun, Left, Off, OffWithin, clientVars, bridgeVars,
              Engines, Sides
  <1>1. CASE StartDry
    BY <1>1 DEF StartDry
  <1>2. CASE StartLive
    BY <1>2 DEF StartLive, Authenticate
  <1>3. CASE StartFails
    BY <1>3 DEF StartFails, Stop
  <1>4. CASE WarmBar
    BY <1>4 DEF WarmBar, CloseBar
  <1>5. CASE WarmTfEnds
    BY <1>5 DEF WarmTfEnds
  <1>6. CASE WarmEnds
    BY <1>6 DEF WarmEnds
  <1>7. CASE FeedBar
    BY <1>7 DEF FeedBar, CloseBar
  <1>8. CASE ReplayEnds
    BY <1>8 DEF ReplayEnds, Stop
  <1>9. CASE NoDecision
    BY <1>9 DEF NoDecision, Continue
  <1>10. CASE DecideEnter
    <2>1. PICK d \in Sides : PlaceOrder([tag |-> Head(todo), side |-> d])
      BY <1>10 DEF DecideEnter
    <2> DEFINE o == [tag |-> Head(todo), side |-> d]
    <2>2. o \in Orders
      BY <1>10, <1>d DEF DecideEnter, Orders
    <2>3. /\ order' = o /\ UNCHANGED <<giveups, resting>>
          /\ callSt' \in {"wait", "filled", "raised"}
          /\ account'[e] = account[e] + (IF HasRun(o, e)' THEN o.side ELSE 0)
      BY <2>1, <2>2, PlaceOrderDrift
    <2> QED
      BY <1>10, <2>2, <2>3 DEF DecideEnter
  <1>11. CASE DecideExit
    <2>1. PICK d \in Sides : PlaceOrder([tag |-> Head(todo), side |-> -d])
      BY <1>11 DEF DecideExit
    <2> DEFINE o == [tag |-> Head(todo), side |-> -d]
    <2>2. o \in Orders
      BY <1>11, <1>d DEF DecideExit, Orders
    <2>3. /\ order' = o /\ UNCHANGED <<giveups, resting>>
          /\ callSt' \in {"wait", "filled", "raised"}
          /\ account'[e] = account[e] + (IF HasRun(o, e)' THEN o.side ELSE 0)
      BY <2>1, <2>2, PlaceOrderDrift
    <2> QED
      BY <1>11, <2>2, <2>3 DEF DecideExit
  <1>12. CASE DecideDropped
    BY <1>12 DEF DecideDropped, Continue, Enters, Exits
  <1>13. CASE CloseEnds
    BY <1>13 DEF CloseEnds
  <1>14. CASE NotFilled
    BY <1>14 DEF NotFilled, Return, Continue
  <1>15. CASE OrderRaises
    BY <1>15 DEF OrderRaises, Return, Stop
  <1>16. CASE EnterBooksPos
    BY <1>16 DEF EnterBooksPos, Return
  <1>17. CASE EnterBooksNet
    BY <1>17 DEF EnterBooksNet, Continue
  <1>18. CASE ExitLogsTrade
    BY <1>18 DEF ExitLogsTrade, Return
  <1>19. CASE ExitBooksNet
    BY <1>19 DEF ExitBooksNet
  <1>20. CASE ExitBooksPos
    BY <1>20 DEF ExitBooksPos, Continue
  <1>21. CASE ShutSkip
    BY <1>21 DEF ShutSkip
  <1>22. CASE ShutFlatten
    <2> DEFINE o == [tag |-> Head(todo), side |-> -pos[Head(todo)]]
    <2>1. Head(todo) \in Tags /\ pos[Head(todo)] \in {-1, 1}
      BY <1>22, <1>d DEF ShutFlatten, Dirs
    <2>2. o \in Orders
      BY <2>1 DEF Orders
    <2>3. /\ order' = o /\ UNCHANGED <<giveups, resting>>
          /\ callSt' \in {"wait", "filled", "raised"}
          /\ account'[e] = account[e] + (IF HasRun(o, e)' THEN o.side ELSE 0)
      BY <1>22, <2>2, PlaceOrderDrift DEF ShutFlatten
    <2> QED
      BY <1>22, <2>2, <2>3 DEF ShutFlatten
  <1>23. CASE ShutBooks
    <2>1. CASE order.tag = e
      BY <1>23, <2>1 DEF ShutBooks, Return
    <2>2. CASE order.tag # e
      BY <1>23, <2>2 DEF ShutBooks, Return
    <2> QED
      BY <2>1, <2>2
  <1>24. CASE ShutEnds
    BY <1>24 DEF ShutEnds, Disconnect
  <1>25. CASE Sigint
    <2>1. CASE callSt \in {"wait", "filled"}
      BY <1>25, <2>1, AbandonOffWithin DEF Sigint, Interrupted, Stop
    <2>2. CASE callSt \notin {"wait", "filled", "idle"}
      BY <1>25, <2>2 DEF Sigint, Interrupted, Stop, Return
    <2>3. CASE callSt = "idle"
      BY <1>25, <2>3 DEF Sigint, Interrupted, Stop
    <2> QED
      BY <2>1, <2>2, <2>3
  <1>26. CASE SecondSigint
    <2>1. CASE callSt \in {"wait", "filled"}
      BY <1>26 DEF SecondSigint
    <2>2. CASE callSt \notin {"wait", "filled", "idle"}
      BY <1>26, <2>2 DEF SecondSigint, Interrupted, Stop, Return
    <2>3. CASE callSt = "idle"
      BY <1>26, <2>3 DEF SecondSigint, Interrupted, Stop
    <2> QED
      BY <2>1, <2>2, <2>3
  <1>27. CASE Waits
    <2>1. CASE PollSeesFill
      BY <1>27, <2>1 DEF Waits, PollSeesFill, Report
    <2>2. CASE PollAgain
      BY <1>27, <2>2 DEF Waits, PollAgain
    <2>3. CASE PollTimesOut
      BY <1>27, <2>3, TimesOutOffWithin DEF Waits
    <2> QED
      BY <1>27, <2>1, <2>2, <2>3 DEF Waits, Poll
  <1>28. CASE Outside
    <2>1. CASE BrokerFills
      BY <1>28, <2>1, BrokerFillsOffWithin DEF Outside
    <2>2. CASE BrokerRejects \/ LinkDrops
      BY <1>28, <2>2 DEF Outside, BrokerRejects, LinkDrops
    <2>3. ASSUME NEW o \in Orders, LateFill(o) \/ LateCancel(o)
          PROVE  Bounded'
      BY <1>28, <2>3, LateOffWithin DEF Outside
    <2> QED
      BY <1>28, <2>1, <2>2, <2>3 DEF Outside, Broker
  <1>29. CASE UNCHANGED vars
    BY <1>29 DEF vars, clientVars, bridgeVars
  <1> QED
    BY <1>1, <1>2, <1>3, <1>4, <1>5, <1>6, <1>7, <1>8, <1>9, <1>10, <1>11,
       <1>12, <1>13, <1>14, <1>15, <1>16, <1>17, <1>18, <1>19, <1>20, <1>21,
       <1>22, <1>23, <1>24, <1>25, <1>26, <1>27, <1>28, <1>29 DEF Next, Main,
       Starts, Loops, Decides, Books, Shutdown, Finished

-----------------------------------------------------------------------------
(* What shutdown has still to flatten. *)

In(e, s) == \E i \in DOMAIN s : s[i] = e

LEMMA InTail ==
    ASSUME NEW s \in Seq(Engines), NEW e \in Engines, In(e, s), e # Head(s)
    PROVE  In(e, Tail(s))
  <1>1. PICK i \in DOMAIN s : s[i] = e
    BY DEF In
  <1>2. i - 1 \in DOMAIN Tail(s) /\ Tail(s)[i - 1] = e
    BY <1>1
  <1> QED
    BY <1>2 DEF In

ShutCovers ==
    /\ pc \in {"shut", "flattening"} =>
          \A e \in Engines : pos[e] = 0 \/ In(e, todo)
    /\ pc = "done" => \A e \in Engines : pos[e] = 0

LEMMA ShutCoversStep ==
    ASSUME Base, ShutCovers, [Next]_vars, NEW e \in Engines
    PROVE  /\ pc' \in {"shut", "flattening"} => pos'[e] = 0 \/ In(e, todo')
           /\ pc' = "done" => pos'[e] = 0
  <1>0. /\ Control /\ todo \in Seq(Engines) /\ pos \in [Engines -> Dirs]
        /\ pc \in Trading \cup {"shut", "flattening"} \cup Over
    BY DEF Base, TypeOK
  <1>a. pc \in AtHand => order.tag = Head(todo) /\ order.tag \in Engines
    BY OrderAtHand DEF Base, Control
  <1>b. In(e, States) /\ ~In(e, <<>>)
    BY BridgeAssumption DEF In
  <1>c. /\ pc \in {"shut", "flattening"} => pos[e] = 0 \/ In(e, todo)
        /\ pc = "done" => pos[e] = 0
    BY DEF ShutCovers
  <1> USE <1>0, <1>b, <1>c
          DEF Control, Trading, Over, Calling, AtHand
  <1>1. CASE StartDry
    BY <1>1 DEF StartDry
  <1>2. CASE StartLive
    BY <1>2 DEF StartLive
  <1>3. CASE StartFails
    BY <1>3 DEF StartFails, Stop
  <1>4. CASE WarmBar
    BY <1>4 DEF WarmBar, CloseBar
  <1>5. CASE WarmTfEnds
    BY <1>5 DEF WarmTfEnds
  <1>6. CASE WarmEnds
    BY <1>6 DEF WarmEnds
  <1>7. CASE FeedBar
    BY <1>7 DEF FeedBar, CloseBar
  <1>8. CASE ReplayEnds
    BY <1>8 DEF ReplayEnds, Stop
  <1>9. CASE NoDecision
    BY <1>9 DEF NoDecision, Continue
  <1>10. CASE DecideEnter
    BY <1>10 DEF DecideEnter
  <1>11. CASE DecideExit
    BY <1>11 DEF DecideExit
  <1>12. CASE DecideDropped
    BY <1>12 DEF DecideDropped, Continue, Enters, Exits
  <1>13. CASE CloseEnds
    BY <1>13 DEF CloseEnds
  <1>14. CASE NotFilled
    BY <1>14 DEF NotFilled, Continue
  <1>15. CASE OrderRaises
    BY <1>15 DEF OrderRaises, Stop
  <1>16. CASE EnterBooksPos
    BY <1>16 DEF EnterBooksPos
  <1>17. CASE EnterBooksNet
    BY <1>17 DEF EnterBooksNet, Continue
  <1>18. CASE ExitLogsTrade
    BY <1>18 DEF ExitLogsTrade
  <1>19. CASE ExitBooksNet
    BY <1>19 DEF ExitBooksNet
  <1>20. CASE ExitBooksPos
    BY <1>20 DEF ExitBooksPos, Continue
  <1>21. CASE ShutSkip
    <2>1. CASE e = Head(todo)
      BY <1>21, <2>1 DEF ShutSkip
    <2>2. CASE e # Head(todo)
      BY <1>21, <2>2, InTail DEF ShutSkip
    <2> QED
      BY <2>1, <2>2
  <1>22. CASE ShutFlatten
    BY <1>22 DEF ShutFlatten
  <1>23. CASE ShutBooks
    <2>1. CASE e = Head(todo)
      BY <1>23, <2>1, <1>a DEF ShutBooks
    <2>2. CASE e # Head(todo)
      BY <1>23, <2>2, <1>a, InTail DEF ShutBooks
    <2> QED
      BY <2>1, <2>2
  <1>24. CASE ShutEnds
    BY <1>24 DEF ShutEnds
  <1>25. CASE Sigint
    BY <1>25 DEF Sigint, Stop
  <1>26. CASE SecondSigint
    BY <1>26 DEF SecondSigint
  <1>27. CASE Waits
    BY <1>27 DEF Waits, bridgeVars
  <1>28. CASE Outside
    BY <1>28 DEF Outside, bridgeVars
  <1>29. CASE UNCHANGED vars
    BY <1>29 DEF vars, clientVars, bridgeVars
  <1> QED
    BY <1>1, <1>2, <1>3, <1>4, <1>5, <1>6, <1>7, <1>8, <1>9, <1>10, <1>11,
       <1>12, <1>13, <1>14, <1>15, <1>16, <1>17, <1>18, <1>19, <1>20, <1>21,
       <1>22, <1>23, <1>24, <1>25, <1>26, <1>27, <1>28, <1>29 DEF Next, Main,
       Starts, Loops, Decides, Books, Shutdown, Finished

-----------------------------------------------------------------------------
(* The net position against the book. *)

\* Every engine is in States, a sequence.
LEMMA EnginesFinite == IsFiniteSet(Engines)
  <1>1. States \in Seq(Engines) /\ \A e \in Engines : \E i \in DOMAIN States : States[i] = e
    BY BridgeAssumption
  <1>2. Len(States) \in Nat /\ States \in Surjection(1..Len(States), Engines)
    BY <1>1 DEF Surjection
  <1>3. IsFiniteSet(1..Len(States))
    BY <1>2, FS_Interval
  <1> QED
    BY <1>2, <1>3, FS_Surjection

BookSum == SumOver(pos, Engines)

LEMMA BookSumIsMapThenSum ==
    BookSum = MapThenSumSet(LAMBDA e : pos[e], Engines)
  BY DEF BookSum, SumOver, SumFold, Some, MapThenSumSet, MapThenFoldSet

\* What net is short of the book between the two lines that book one answer.
Unnetted ==
    CASE pc = "entered" -> order.side
      [] pc = "netted" -> pos[order.tag]
      [] OTHER -> 0

NetOfBook ==
    cut \notin {"entered", "netted"} => net + Unnetted = BookSum

LEMMA SumMoves ==
    ASSUME NEW f \in [Engines -> Dirs], NEW h \in [Engines -> Dirs],
           NEW e \in Engines, \A x \in Engines \ {e} : h[x] = f[x]
    PROVE  SumOver(h, Engines) = SumOver(f, Engines) - f[e] + h[e]
  <1>1. \A x \in Engines : f[x] \in Int /\ h[x] \in Int
    BY DEF Dirs
  <1> QED
    BY <1>1, EnginesFinite, SumOverChange

LEMMA BookSumMoves ==
    ASSUME pos \in [Engines -> Dirs], pos' \in [Engines -> Dirs],
           NEW e \in Engines, \A x \in Engines \ {e} : pos'[x] = pos[x]
    PROVE  BookSum' = BookSum - pos[e] + pos'[e]
  BY SumMoves DEF BookSum

LEMMA NetInit == Init => NetOfBook
  <1> SUFFICES ASSUME Init PROVE net + Unnetted = BookSum
    BY DEF NetOfBook
  <1>1. \A e \in Engines : pos[e] = 0
    BY DEF Init
  <1>2. BookSum = 0
    BY <1>1, EnginesFinite, SumOverZero DEF BookSum
  <1> QED
    BY <1>2 DEF Init, Unnetted

LEMMA NetStep ==
    ASSUME Base, Control', NetOfBook, [Next]_vars
    PROVE  NetOfBook'
  <1>0. /\ Control /\ OrderPos /\ pos \in [Engines -> Dirs] /\ net \in Int
        /\ pc \in Trading \cup {"shut", "flattening"} \cup Over
    BY DEF Base, TypeOK
  <1>a. pc \in AtHand => /\ order.tag \in Engines /\ order.side \in {-1, 1}
                         /\ pos[order.tag] \in Dirs
    BY <1>0, OrderAtHand
  <1>p. pos' \in [Engines -> Dirs]
    BY BridgeTypeStep DEF TypeOK
  <1>s. BookSum \in Int
    <2>1. \A e \in Engines : pos[e] \in Int
      BY <1>0 DEF Dirs
    <2> QED
      BY <2>1, EnginesFinite, SumOverInt DEF BookSum
  <1>b. UNCHANGED pos => UNCHANGED BookSum
    BY DEF BookSum
  <1> USE <1>0, <1>a, <1>s, <1>b
          DEF Control, OrderPos, Trading, Over, Calling, AtHand, Unnetted, Dirs,
              NetOfBook, clientVars
  <1>1. CASE StartDry
    BY <1>1 DEF StartDry
  <1>2. CASE StartLive
    BY <1>2 DEF StartLive
  <1>3. CASE StartFails
    BY <1>3 DEF StartFails, Stop
  <1>4. CASE WarmBar
    BY <1>4 DEF WarmBar, CloseBar
  <1>5. CASE WarmTfEnds
    BY <1>5 DEF WarmTfEnds
  <1>6. CASE WarmEnds
    BY <1>6 DEF WarmEnds
  <1>7. CASE FeedBar
    BY <1>7 DEF FeedBar, CloseBar
  <1>8. CASE ReplayEnds
    BY <1>8 DEF ReplayEnds, Stop
  <1>9. CASE NoDecision
    BY <1>9 DEF NoDecision, Continue
  <1>10. CASE DecideEnter
    BY <1>10 DEF DecideEnter
  <1>11. CASE DecideExit
    BY <1>11 DEF DecideExit
  <1>12. CASE DecideDropped
    BY <1>12 DEF DecideDropped, Continue
  <1>13. CASE CloseEnds
    BY <1>13 DEF CloseEnds
  <1>14. CASE NotFilled
    BY <1>14 DEF NotFilled, Continue
  <1>15. CASE OrderRaises
    BY <1>15 DEF OrderRaises, Stop
  <1>16. CASE EnterBooksPos
    <2>1. order' = order /\ UNCHANGED <<net, cut>> /\ pc' = "entered"
      BY <1>16 DEF EnterBooksPos, Return
    <2>2. BookSum' = BookSum + order.side
      <3>1. order.tag \in Engines
        BY <1>16 DEF EnterBooksPos
      <3>2. \A x \in Engines \ {order.tag} : pos'[x] = pos[x]
        BY <1>16 DEF EnterBooksPos
      <3>3. pos'[order.tag] = order.side
        BY <1>16, <3>1 DEF EnterBooksPos
      <3>4. BookSum' = BookSum - pos[order.tag] + pos'[order.tag]
        BY <1>p, <3>1, <3>2, BookSumMoves
      <3> QED
        BY <1>16, <3>3, <3>4 DEF EnterBooksPos
    <2> QED
      BY <1>16, <2>1, <2>2 DEF EnterBooksPos
  <1>17. CASE EnterBooksNet
    BY <1>17 DEF EnterBooksNet, Continue
  <1>18. CASE ExitLogsTrade
    BY <1>18 DEF ExitLogsTrade
  <1>19. CASE ExitBooksNet
    BY <1>19 DEF ExitBooksNet
  <1>20. CASE ExitBooksPos
    <2>1. BookSum' = BookSum - pos[order.tag]
      <3>1. order.tag \in Engines
        BY <1>20 DEF ExitBooksPos
      <3>2. \A x \in Engines \ {order.tag} : pos'[x] = pos[x]
        BY <1>20 DEF ExitBooksPos
      <3>3. pos'[order.tag] = 0
        BY <1>20, <3>1 DEF ExitBooksPos
      <3>4. BookSum' = BookSum - pos[order.tag] + pos'[order.tag]
        BY <1>p, <3>1, <3>2, BookSumMoves
      <3> QED
        BY <1>20, <3>3, <3>4 DEF ExitBooksPos
    <2> QED
      BY <1>20, <2>1 DEF ExitBooksPos, Continue
  <1>21. CASE ShutSkip
    BY <1>21 DEF ShutSkip
  <1>22. CASE ShutFlatten
    BY <1>22 DEF ShutFlatten
  <1>23. CASE ShutBooks
    <2>1. BookSum' = BookSum - pos[order.tag]
      <3>1. order.tag \in Engines
        BY <1>23 DEF ShutBooks
      <3>2. \A x \in Engines \ {order.tag} : pos'[x] = pos[x]
        BY <1>23 DEF ShutBooks
      <3>3. pos'[order.tag] = 0
        BY <1>23, <3>1 DEF ShutBooks
      <3>4. BookSum' = BookSum - pos[order.tag] + pos'[order.tag]
        BY <1>p, <3>1, <3>2, BookSumMoves
      <3> QED
        BY <1>23, <3>3, <3>4 DEF ShutBooks
    <2> QED
      BY <1>23, <2>1 DEF ShutBooks
  <1>24. CASE ShutEnds
    BY <1>24 DEF ShutEnds
  <1>25. CASE Sigint
    BY <1>25 DEF Sigint, Stop
  <1>26. CASE SecondSigint
    BY <1>26 DEF SecondSigint
  <1>27. CASE Waits
    BY <1>27, PollFacts DEF Waits, bridgeVars
  <1>28. CASE Outside
    BY <1>28, BrokerFacts DEF Outside, bridgeVars
  <1>29. CASE UNCHANGED vars
    BY <1>29 DEF vars, bridgeVars
  <1> QED
    BY <1>1, <1>2, <1>3, <1>4, <1>5, <1>6, <1>7, <1>8, <1>9, <1>10, <1>11,
       <1>12, <1>13, <1>14, <1>15, <1>16, <1>17, <1>18, <1>19, <1>20, <1>21,
       <1>22, <1>23, <1>24, <1>25, <1>26, <1>27, <1>28, <1>29 DEF Next, Main,
       Starts, Loops, Decides, Books, Shutdown, Finished

-----------------------------------------------------------------------------
(* The invariant and what follows from it. *)

Inv == /\ Base /\ BookMatchesReports /\ EngineBook /\ RoundTrips /\ Drift
       /\ ShutCovers /\ NetOfBook

LEMMA InitInv == Init => Inv
  <1> SUFFICES ASSUME Init PROVE Inv
    OBVIOUS
  <1>1. Base
    BY InitBase
  <1>2. BookMatchesReports /\ EngineBook
    BY DEF Init, ClientInit, BookMatchesReports, EngineBook, Unbooked, Moved,
           Trading, Engines
  <1>3. RoundTrips
    <2> SUFFICES ASSUME NEW e \in Engines
                 PROVE  fills[e] = 2 * trades[e] + Abs(pos[e]) + Ahead(e)
      BY DEF RoundTrips
    <2>1. fills[e] = 0 /\ trades[e] = 0 /\ pos[e] = 0 /\ Ahead(e) = 0
      BY DEF Init, ClientInit, Ahead, Engines
    <2> QED
      BY <2>1 DEF Abs
  <1>4. Drift
    <2> SUFFICES ASSUME NEW e \in Engines PROVE OffWithin(e)
      BY DEF Drift
    <2>1. account[e] = 0 /\ giveups[e] = 0 /\ pos[e] = 0 /\ Pending(e) = 0
      BY DEF Init, ClientInit, Pending, Calling, Engines
    <2>2. resting[e][1] = 0 /\ resting[e][-1] = 0
      BY DEF Init, ClientInit, Engines, Sides
    <2> QED
      BY <2>1, <2>2 DEF OffWithin, Off
  <1>5. ShutCovers
    BY DEF Init, ShutCovers
  <1> QED
    BY <1>1, <1>2, <1>3, <1>4, <1>5, NetInit DEF Inv

LEMMA BaseStep == Base /\ [Next]_vars => Base'
  <1> SUFFICES ASSUME Base, [Next]_vars PROVE Base'
    OBVIOUS
  <1>1. ClientInv'
    BY BridgeStepsClient, ClientStepInv DEF Base
  <1>2. TypeOK' /\ Control' /\ OrderPos'
    BY BridgeTypeStep, ControlStep
  <1> QED
    BY <1>1, <1>2 DEF Base

LEMMA StepInv == Inv /\ [Next]_vars => Inv'
  <1> SUFFICES ASSUME Inv, [Next]_vars PROVE Inv'
    OBVIOUS
  <1>1. Base' /\ Control'
    BY BaseStep DEF Inv, Base
  <1>2. BookMatchesReports'
    BY <1>1, MatchesReportsStep DEF Inv, BookMatchesReports
  <1>3. EngineBook'
    BY EngineBookStep DEF Inv, EngineBook
  <1>4. RoundTrips'
    BY <1>1, RoundTripsStep DEF Inv, RoundTrips
  <1>5. Drift'
    BY <1>1, DriftStep DEF Inv, Drift
  <1>6. ShutCovers'
    BY ShutCoversStep DEF Inv, ShutCovers
  <1>7. NetOfBook'
    BY <1>1, NetStep DEF Inv
  <1> QED
    BY <1>1, <1>2, <1>3, <1>4, <1>5, <1>6, <1>7 DEF Inv

LEMMA SpecInv == Spec => []Inv
  BY InitInv, StepInv, PTL DEF Spec

LEMMA InvImpliesBookWithinGiveups == Inv => BookWithinGiveups
  <1> SUFFICES ASSUME Inv, AtRest, NEW e \in Engines
               PROVE  Abs(account[e] - pos[e]) <= giveups[e]
    BY DEF BookWithinGiveups
  <1>1. BookMatchesReports /\ pc \in Trading /\ callSt = "idle" /\ Unbooked(e) = 0
    BY DEF Inv, Base, Control, AtRest, Trading, Calling, Unbooked
  <1>2. reported[e] = pos[e] + 0
    BY <1>1 DEF BookMatchesReports
  <1>3. /\ account[e] \in Int /\ giveups[e] \in Nat /\ Stray(e) \in Nat
        /\ pos[e] \in {-1, 0, 1}
    BY DEF Inv, Base, TypeOK, ClientTypeOK, Stray, Engines, Dirs, Sides
  <1>4. Abs(account[e] - reported[e]) + Stray(e) <= giveups[e] + InFlight(e)
    BY InvImpliesWithinGiveups DEF Inv, Base, AccountWithinGiveups, Engines
  <1>5. InFlight(e) = 0
    BY <1>1 DEF InFlight
  <1> QED
    BY <1>2, <1>3, <1>4, <1>5 DEF Abs

LEMMA InvImpliesEngineMatchesBook == Inv => EngineMatchesBook
  <1> SUFFICES ASSUME Inv, AtRest, NEW e \in Engines \ missed
               PROVE  engine[e] = pos[e]
    BY DEF EngineMatchesBook
  <1>1. engine[e] = pos[e] + Moved(e) /\ Moved(e) = 0 /\ pos[e] \in {-1, 0, 1}
    BY DEF Inv, Base, TypeOK, EngineBook, Moved, AtRest, Trading, Dirs
  <1> QED
    BY <1>1

LEMMA InvImpliesRoundTrips == Inv => TradesAreRoundTrips
  <1> SUFFICES ASSUME Inv, AtRest, NEW e \in Engines
               PROVE  fills[e] = 2 * trades[e] + Abs(pos[e])
    BY DEF TradesAreRoundTrips
  <1>1. fills[e] = 2 * trades[e] + Abs(pos[e]) + Ahead(e) /\ Ahead(e) = 0
    BY DEF Inv, RoundTrips, Ahead, AtRest, Trading
  <1>2. pos[e] \in {-1, 0, 1} /\ trades[e] \in Nat
    BY DEF Inv, Base, TypeOK, Dirs
  <1> QED
    BY <1>1, <1>2 DEF Abs

LEMMA InvImpliesShutdown == Inv => ShutdownLeavesOnlyGiveups
  <1> SUFFICES ASSUME Inv, pc = "done", cut \notin {"logged", "netted"},
                      NEW e \in Engines \ refused
               PROVE  Abs(account[e]) <= giveups[e]
    BY DEF ShutdownLeavesOnlyGiveups
  <1>1. OffWithin(e) /\ Pending(e) = 0 /\ pos[e] = 0
    BY DEF Inv, Drift, Pending, Calling, ShutCovers
  <1>2. /\ account[e] \in Int /\ giveups[e] \in Nat
        /\ resting[e][1] \in Nat /\ resting[e][-1] \in Nat
    BY DEF Inv, Base, TypeOK, ClientTypeOK, Engines, Sides
  <1> QED
    BY <1>1, <1>2 DEF OffWithin, Off, Abs

LEMMA InvImpliesNet == Inv => NetIsSumOfBook
  <1> SUFFICES ASSUME Inv, pc \notin {"entered", "netted"},
                      cut \notin {"entered", "netted"}
               PROVE  net = MapThenSumSet(LAMBDA e : pos[e], Engines)
    BY DEF NetIsSumOfBook
  <1>1. net = BookSum
    BY DEF Inv, Base, TypeOK, NetOfBook, Unnetted
  <1> QED
    BY <1>1, BookSumIsMapThenSum

-----------------------------------------------------------------------------
(* The theorems. *)

\* Every variable keeps its type in every behaviour of the bridge.
THEOREM TypeCorrect == Spec => []TypeOK
  <1>1. Inv => TypeOK
    BY DEF Inv, Base
  <1> QED
    BY <1>1, SpecInv, PTL

\* While trading, the book is what the filled=True answers add up to, whatever
\* the engines decide and the broker does.
THEOREM BookFollowsReports == Spec => []BookMatchesReports
  <1>1. Inv => BookMatchesReports
    BY DEF Inv
  <1> QED
    BY <1>1, SpecInv, PTL

\* At rest, the book of an engine is off the account by at most the number of
\* its calls that timed out: exact if none did.
THEOREM BookNearAccount == Spec => []BookWithinGiveups
  BY SpecInv, InvImpliesBookWithinGiveups, PTL

\* Warmup decisions and unfilled orders are the only ways for an engine and the
\* book to disagree.
THEOREM EngineFollowedByBook == Spec => []EngineMatchesBook
  BY SpecInv, InvImpliesEngineMatchesBook, PTL

\* Every recorded trade is one filled entry and one filled exit.
THEOREM RoundTripsOnly == Spec => []TradesAreRoundTrips
  BY SpecInv, InvImpliesRoundTrips, PTL

\* Shutdown leaves at the broker no more than timed-out calls, however late
\* their orders execute.
THEOREM ShutdownFlattens == Spec => []ShutdownLeavesOnlyGiveups
  BY SpecInv, InvImpliesShutdown, PTL

\* Whenever nothing is half booked, net is the sum of the positions of however
\* many engines there are, through every entry, exit and flatten.
THEOREM NetFollowsBook == Spec => []NetIsSumOfBook
  BY SpecInv, InvImpliesNet, PTL

-----------------------------------------------------------------------------
(* The bridge implements PositionBook. *)

Phase == IF pc \in Trading THEN "trading"
         ELSE IF pc = "done" THEN "over"
         ELSE IF pc = "killed" THEN "killed" ELSE "stopping"

LEMMA BookInit == Init => Book!Init
  BY DEF Init, Book!Init, Trading

LEMMA BookStep == Inv /\ [Next]_vars => [Book!Next]_<<pos, Phase>>
  <1> SUFFICES ASSUME Inv, [Next]_vars
               PROVE  Book!Next \/ UNCHANGED <<pos, Phase>>
    BY DEF Phase
  <1>0. /\ Control /\ OrderPos /\ ShutCovers /\ todo \in Seq(Engines)
        /\ pos \in [Engines -> Dirs]
    BY DEF Inv, Base, TypeOK
  <1>a. pc \in AtHand => order.tag \in Engines /\ order.side \in {-1, 1}
    BY OrderAtHand DEF Inv
  <1> USE <1>0 DEF Control, OrderPos, Calling, AtHand, Trading, Phase
  <1>1. CASE EnterBooksPos
    <2>1. pos[order.tag] = 0 /\ pos' = [pos EXCEPT ![order.tag] = order.side]
      BY <1>1 DEF EnterBooksPos
    <2>2. Book!Open(order.tag, order.side)
      BY <1>1, <2>1 DEF EnterBooksPos, Book!Open
    <2> QED
      BY <1>1, <1>a, <2>2 DEF EnterBooksPos, Book!Next, Book!Step
  <1>2. CASE ExitBooksPos
    <2>1. Book!Close(order.tag)
      BY <1>2, <1>a DEF ExitBooksPos, Continue, Book!Close
    <2> QED
      BY <1>2, <1>a, <2>1 DEF ExitBooksPos, Book!Next, Book!Step
  <1>3. CASE ShutBooks
    <2>1. Book!Close(order.tag)
      BY <1>3, <1>a DEF ShutBooks, Book!Close
    <2> QED
      BY <1>3, <1>a, <2>1 DEF ShutBooks, Book!Next, Book!Step
  <1>4. CASE StartFails \/ ReplayEnds \/ OrderRaises \/ Sigint
    <2>1. Book!Stop
      BY <1>4 DEF StartFails, ReplayEnds, OrderRaises, Sigint, Stop, Book!Stop
    <2> QED
      BY <2>1 DEF Book!Next
  <1>5. CASE ShutEnds
    <2>1. \A e \in Engines : ~In(e, <<>>)
      BY DEF In
    <2>2. Book!End
      BY <1>5, <2>1 DEF ShutEnds, ShutCovers, Book!End
    <2> QED
      BY <2>2 DEF Book!Next
  <1>6. CASE SecondSigint
    <2>1. Book!Kill
      BY <1>6 DEF SecondSigint, Book!Kill
    <2> QED
      BY <2>1 DEF Book!Next
  <1>7. CASE StartDry \/ StartLive \/ WarmBar \/ WarmTfEnds \/ WarmEnds \/ FeedBar
    BY <1>7 DEF StartDry, StartLive, WarmBar, WarmTfEnds, WarmEnds, FeedBar,
                CloseBar
  <1>8. CASE Decides
    BY <1>8 DEF Decides, NoDecision, DecideEnter, DecideExit, DecideDropped,
                CloseEnds, Continue
  <1>9. CASE NotFilled \/ EnterBooksNet \/ ExitLogsTrade \/ ExitBooksNet
    BY <1>9 DEF NotFilled, EnterBooksNet, ExitLogsTrade, ExitBooksNet, Continue
  <1>10. CASE ShutSkip \/ ShutFlatten
    BY <1>10 DEF ShutSkip, ShutFlatten
  <1>11. CASE Waits \/ Outside \/ UNCHANGED vars
    BY <1>11 DEF Waits, Outside, bridgeVars, vars
  <1> QED
    BY <1>1, <1>2, <1>3, <1>4, <1>5, <1>6, <1>7, <1>8, <1>9, <1>10, <1>11
    DEF Next, Main, Starts, Loops, Books, Shutdown, Finished

\* Every behaviour of the bridge is one of PositionBook: one position per
\* engine, opened from flat while trading, closed whole, nothing opened after
\* the stop, and everything closed when the session is over.
THEOREM ImplementsBook == Spec => BookSpec
  <1>1. Inv /\ [Next]_vars
           => [Book!Next]_<<pos, IF pc \in Trading THEN "trading"
                                 ELSE IF pc = "done" THEN "over"
                                 ELSE IF pc = "killed" THEN "killed"
                                 ELSE "stopping">>
    BY BookStep DEF Phase
  <1> QED
    BY <1>1, BookInit, SpecInv, PTL DEF Spec, BookSpec, Book!Spec
=============================================================================
