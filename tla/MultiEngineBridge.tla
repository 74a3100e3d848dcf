------------------------- MODULE MultiEngineBridge --------------------------
(***************************************************************************)
(* multi_engine_bridge.py: every enabled engine on one broker session.     *)
(*                                                                         *)
(* One thread: a bar of some timeframe closes, each engine of that         *)
(* timeframe decides in turn, an entry or exit it asks for is a blocking   *)
(* place_order call (module IBKRClient), and the answer is booked.         *)
(* Ctrl-C raises KeyboardInterrupt between any two steps of it; main()     *)
(* then runs shutdown(), which flattens what the book says is open.        *)
(*                                                                         *)
(* An engine is modelled by what every on_bar of the registry keeps to: it *)
(* holds at most one position, of one contract, and emits at most one      *)
(* decision per bar.  What a bar contains, the prices and the log are left *)
(* out.  A source line is atomic.                                          *)
(***************************************************************************)
EXTENDS IBKRClient, Sequences, FiniteSetsExt

CONSTANTS
    Tfs,          \* timeframes, in the order of sorted(self.by_tf)
    ByTf,         \* by_tf: the engines of each timeframe, in registry order
    States,       \* self.states: all engines, in registry order
    MaxBars       \* bound on the timeframe bars a run sees

Engines == Tags

Timeframes == DOMAIN ByTf

\* Every engine of the book is in self.states; order and timeframe are free.
ASSUME BridgeAssumption ==
    /\ Tfs \in Seq(Timeframes)
    /\ ByTf \in [Timeframes -> Seq(Engines)]
    /\ States \in Seq(Engines)
    /\ \A e \in Engines : \E i \in DOMAIN States : States[i] = e
    /\ MaxBars \in Nat

VARIABLES
    pc,        \* where the thread is
    todo,      \* engines left in the loop of _on_tf_close or of shutdown
    tfs,       \* timeframes _warmup has not finished with
    warming,   \* self.warming
    engine,    \* the position each engine believes it holds
    pos,       \* st["pos"]
    net,       \* self.net
    trades,    \* len of self.trades per engine
    bars,      \* timeframe bars closed so far
    missed,    \* engines with a decision the book did not follow (history)
    owed,      \* engines whose last exit order was not filled (history)
    cut,       \* where trading stopped, "no" while it has not (history)
    refused    \* engines whose shutdown flatten raised (history)

bridgeVars == <<pc, todo, tfs, warming, engine, pos, net, trades, bars,
                missed, owed, cut, refused>>
vars == <<clientVars, bridgeVars>>

Dirs    == {-1, 0, 1}
Trading == {"start", "warm", "poll", "close", "entering", "entered",
            "exiting", "logged", "netted"}
Over    == {"done", "killed"}

TypeOK ==
    /\ ClientTypeOK
    /\ pc \in Trading \cup {"shut", "flattening"} \cup Over
    /\ todo \in Seq(Engines)
    /\ tfs \in Seq(Timeframes)
    /\ warming \in BOOLEAN
    /\ engine \in [Engines -> Dirs]
    /\ pos \in [Engines -> Dirs]
    /\ net \in Int
    /\ trades \in [Engines -> Nat]
    /\ bars \in Nat
    /\ missed \in SUBSET Engines /\ owed \in SUBSET Engines
    /\ refused \in SUBSET Engines
    /\ cut \in Trading \cup {"no", "end"}

\* The bridge is built with dry_run given; the client decides the mode.
Init ==
    /\ ClientInit
    /\ pc = "start" /\ todo = <<>> /\ tfs = <<>> /\ warming = FALSE
    /\ engine = [e \in Engines |-> 0]
    /\ pos = [e \in Engines |-> 0]
    /\ net = 0
    /\ trades = [e \in Engines |-> 0]
    /\ bars = 0
    /\ missed = {} /\ owed = {} /\ refused = {} /\ cut = "no"

-----------------------------------------------------------------------------
(* The run loops and _warmup. *)

\* The exit into main()'s finally clause, from wherever the thread is.
Stop(why) ==
    /\ pc' = "shut" /\ todo' = States /\ cut' = why
    /\ UNCHANGED <<tfs, warming, engine, pos, net, trades, bars, missed, owed,
                   refused>>

\* run_dry: nothing to connect to, no warmup.
StartDry ==
    /\ pc = "start" /\ cfg.dry_run
    /\ pc' = "poll"
    /\ UNCHANGED <<clientVars, todo, tfs, warming, engine, pos, net, trades,
                   bars, missed, owed, cut, refused>>

\* run_live: authenticate, then _warmup over every timeframe.
StartLive ==
    /\ pc = "start" /\ ~cfg.dry_run /\ Authenticate
    /\ pc' = "warm" /\ warming' = TRUE /\ tfs' = Tfs
    /\ UNCHANGED <<todo, engine, pos, net, trades, bars, missed, owed, cut,
                   refused>>

\* run_live refuses a client that is not PAPER_LIVE, and authenticate may fail.
StartFails ==
    /\ pc = "start" /\ ~cfg.dry_run
    /\ Stop("start")
    /\ UNCHANGED clientVars

\* A bar of the timeframe tf is handed to _on_tf_close.
CloseBar(tf) ==
    /\ bars < MaxBars
    /\ bars' = bars + 1
    /\ todo' = ByTf[tf] /\ pc' = "close"
    /\ UNCHANGED <<clientVars, tfs, warming, engine, pos, net, trades, missed,
                   owed, cut, refused>>

\* _warmup: one historical bar of the timeframe it is at.
WarmBar == pc = "warm" /\ tfs # <<>> /\ CloseBar(Head(tfs))

\* _warmup: this timeframe is fed, or its request raised and it is skipped.
WarmTfEnds ==
    /\ pc = "warm" /\ tfs # <<>>
    /\ tfs' = Tail(tfs)
    /\ UNCHANGED <<clientVars, pc, todo, warming, engine, pos, net, trades,
                   bars, missed, owed, cut, refused>>

WarmEnds ==
    /\ pc = "warm" /\ tfs = <<>>
    /\ warming' = FALSE /\ pc' = "poll"
    /\ UNCHANGED <<clientVars, todo, tfs, engine, pos, net, trades, bars,
                   missed, owed, cut, refused>>

\* feed_sub_bar completes a bar of some timeframe; close_final in run_dry too.
FeedBar == pc = "poll" /\ \E i \in DOMAIN Tfs : CloseBar(Tfs[i])

\* run_dry returns when the replay file is exhausted.
ReplayEnds ==
    /\ pc = "poll" /\ cfg.dry_run
    /\ Stop("end")
    /\ UNCHANGED clientVars

-----------------------------------------------------------------------------
(* _on_tf_close: one engine after the other. *)

\* Go on with the next engine of the timeframe.
Continue == pc' = "close" /\ todo' = Tail(todo)

NoDecision ==
    /\ pc = "close" /\ todo # <<>>
    /\ Continue
    /\ UNCHANGED <<clientVars, tfs, warming, engine, pos, net, trades, bars,
                   missed, owed, cut, refused>>

\* on_bar entered: the decision ENTER_LONG (d = 1) or ENTER_SHORT (d = -1).
Enters(e, d) == engine[e] = 0 /\ engine' = [engine EXCEPT ![e] = d]

\* on_bar left: the decision EXIT_LONG (d = 1) or EXIT_SHORT (d = -1).
Exits(e, d) == engine[e] = d /\ engine' = [engine EXCEPT ![e] = 0]

\* Mutant of FollowedEnter: the check st["pos"] == 0 is dropped.
FollowedEnterStacking(e, d) == ~warming /\ Enters(e, d)

\* The decision opens or closes a position of the book (lines 133-140).
FollowedEnter(e, d) == ~warming /\ pos[e] = 0 /\ Enters(e, d)
FollowedExit(e, d)  == ~warming /\ pos[e] = d /\ Exits(e, d)

DecideEnter ==
    /\ pc = "close" /\ todo # <<>>
    /\ \E d \in Sides :
          /\ FollowedEnter(Head(todo), d)
          /\ PlaceOrder([tag |-> Head(todo), side |-> d])
    /\ pc' = "entering"
    /\ UNCHANGED <<todo, tfs, warming, pos, net, trades, bars, missed, owed,
                   cut, refused>>

\* Mutant of DecideExit: the flatten goes out on the side of the position.
DecideExitSameSide ==
    /\ pc = "close" /\ todo # <<>>
    /\ \E d \in Sides :
          /\ FollowedExit(Head(todo), d)
          /\ PlaceOrder([tag |-> Head(todo), side |-> d])
    /\ pc' = "exiting"
    /\ UNCHANGED <<todo, tfs, warming, pos, net, trades, bars, missed, owed,
                   cut, refused>>

DecideExit ==
    /\ pc = "close" /\ todo # <<>>
    /\ \E d \in Sides :
          /\ FollowedExit(Head(todo), d)
          /\ PlaceOrder([tag |-> Head(todo), side |-> -d])
    /\ pc' = "exiting"
    /\ UNCHANGED <<todo, tfs, warming, pos, net, trades, bars, missed, owed,
                   cut, refused>>

\* A decision in warmup, or one the book's position does not match: the engine
\* has moved and no order is placed.
DecideDropped ==
    /\ pc = "close" /\ todo # <<>>
    /\ LET e == Head(todo) IN
       /\ \E d \in Sides :
             \/ Enters(e, d) /\ (warming \/ pos[e] # 0)
             \/ Exits(e, d) /\ (warming \/ pos[e] # d)
       /\ missed' = missed \cup {e}
    /\ Continue
    /\ UNCHANGED <<clientVars, tfs, warming, pos, net, trades, bars, owed, cut,
                   refused>>

CloseEnds ==
    /\ pc = "close" /\ todo = <<>>
    /\ pc' = IF warming THEN "warm" ELSE "poll"
    /\ UNCHANGED <<clientVars, todo, tfs, warming, engine, pos, net, trades,
                   bars, missed, owed, cut, refused>>

-----------------------------------------------------------------------------
(* _enter and _exit after place_order came back. *)

\* filled=False: nothing is booked; the engine has already moved.
NotFilled ==
    /\ pc \in {"entering", "exiting"} /\ callSt = "unfilled" /\ Return
    /\ missed' = missed \cup {order.tag}
    /\ owed' = IF pc = "exiting" THEN owed \cup {order.tag} ELSE owed
    /\ Continue
    /\ UNCHANGED <<tfs, warming, engine, pos, net, trades, bars, cut, refused>>

\* place_order raised: the exception leaves run_live.
OrderRaises ==
    /\ pc \in {"entering", "exiting"} /\ callSt = "raised" /\ Return
    /\ Stop(pc)

\* Mutants of EnterBooksPos: the answer is not looked at; the sign is lost.
EnterBooksUnfilled ==
    /\ pc = "entering" /\ callSt \in {"filled", "unfilled"} /\ Return
    /\ pos' = [pos EXCEPT ![order.tag] = order.side]
    /\ pc' = "entered"
    /\ UNCHANGED <<todo, tfs, warming, engine, net, trades, bars, missed, owed,
                   cut, refused>>

EnterBooksUnsigned ==
    /\ pc = "entering" /\ callSt = "filled" /\ Return
    /\ pos' = [pos EXCEPT ![order.tag] = 1]
    /\ pc' = "entered"
    /\ UNCHANGED <<todo, tfs, warming, engine, net, trades, bars, missed, owed,
                   cut, refused>>

\* _enter, line 155 up to the update of net.
EnterBooksPos ==
    /\ pc = "entering" /\ callSt = "filled" /\ Return
    /\ pos' = [pos EXCEPT ![order.tag] = order.side]
    /\ pc' = "entered"
    /\ UNCHANGED <<todo, tfs, warming, engine, net, trades, bars, missed, owed,
                   cut, refused>>

\* Mutant of EnterBooksNet: the quantity is added without its sign.
EnterBooksNetUnsigned ==
    /\ pc = "entered"
    /\ net' = net + 1
    /\ Continue
    /\ UNCHANGED <<clientVars, tfs, warming, engine, pos, trades, bars, missed,
                   owed, cut, refused>>

EnterBooksNet ==
    /\ pc = "entered"
    /\ net' = net + order.side
    /\ Continue
    /\ UNCHANGED <<clientVars, tfs, warming, engine, pos, trades, bars, missed,
                   owed, cut, refused>>

\* Mutant of ExitLogsTrade: the answer is not looked at.
ExitLogsUnfilled ==
    /\ pc = "exiting" /\ callSt \in {"filled", "unfilled"} /\ Return
    /\ trades' = [trades EXCEPT ![order.tag] = @ + 1]
    /\ pc' = "logged"
    /\ UNCHANGED <<todo, tfs, warming, engine, pos, net, bars, missed, owed,
                   cut, refused>>

\* _exit: the trade is appended (170), net is updated (173), and only after the
\* log line is the position cleared (176).
ExitLogsTrade ==
    /\ pc = "exiting" /\ callSt = "filled" /\ Return
    /\ trades' = [trades EXCEPT ![order.tag] = @ + 1]
    /\ pc' = "logged"
    /\ UNCHANGED <<todo, tfs, warming, engine, pos, net, bars, missed, owed,
                   cut, refused>>

ExitBooksNet ==
    /\ pc = "logged"
    /\ net' = net - pos[order.tag]
    /\ pc' = "netted"
    /\ UNCHANGED <<clientVars, todo, tfs, warming, engine, pos, trades, bars,
                   missed, owed, cut, refused>>

\* Mutant of ExitBooksPos: the order is taken off the position, not added.
ExitBooksWrongSign ==
    /\ pc = "netted"
    /\ pos' = [pos EXCEPT ![order.tag] = @ - order.side]
    /\ owed' = owed \ {order.tag}
    /\ Continue
    /\ UNCHANGED <<clientVars, tfs, warming, engine, net, trades, bars, missed,
                   cut, refused>>

ExitBooksPos ==
    /\ pc = "netted"
    /\ pos' = [pos EXCEPT ![order.tag] = 0]
    /\ owed' = owed \ {order.tag}
    /\ Continue
    /\ UNCHANGED <<clientVars, tfs, warming, engine, net, trades, bars, missed,
                   cut, refused>>

-----------------------------------------------------------------------------
(* Ctrl-C and shutdown. *)

\* The SIGINT handler raises KeyboardInterrupt in whatever the thread is doing.
Interrupted == IF callSt \in {"wait", "filled"} THEN Abandon
               ELSE IF callSt = "idle" THEN UNCHANGED clientVars ELSE Return

Sigint ==
    /\ pc \in Trading
    /\ Interrupted
    /\ Stop(pc)

\* A second Ctrl-C: shutdown catches only Exception, so the process ends.
SecondSigint ==
    /\ pc \in {"shut", "flattening"}
    /\ Interrupted
    /\ pc' = "killed"
    /\ UNCHANGED <<todo, tfs, warming, engine, pos, net, trades, bars, missed,
                   owed, cut, refused>>

\* Mutant of ShutSkip: shutdown flattens longs only.
ShutSkipShorts ==
    /\ pc = "shut" /\ todo # <<>> /\ pos[Head(todo)] <= 0
    /\ todo' = Tail(todo)
    /\ UNCHANGED <<clientVars, pc, tfs, warming, engine, pos, net, trades,
                   bars, missed, owed, cut, refused>>

ShutSkip ==
    /\ pc = "shut" /\ todo # <<>> /\ pos[Head(todo)] = 0
    /\ todo' = Tail(todo)
    /\ UNCHANGED <<clientVars, pc, tfs, warming, engine, pos, net, trades,
                   bars, missed, owed, cut, refused>>

ShutFlatten ==
    /\ pc = "shut" /\ todo # <<>> /\ pos[Head(todo)] # 0
    /\ PlaceOrder([tag |-> Head(todo), side |-> -pos[Head(todo)]])
    /\ pc' = "flattening"
    /\ UNCHANGED <<todo, tfs, warming, engine, pos, net, trades, bars, missed,
                   owed, cut, refused>>

\* Mutant of ShutBooks: shutdown tries an engine again until it is filled.
ShutRetries ==
    /\ pc = "flattening" /\ callSt \in {"filled", "unfilled", "raised"}
    /\ Return
    /\ IF callSt = "filled"
       THEN /\ trades' = [trades EXCEPT ![order.tag] = @ + 1]
            /\ net' = net - pos[order.tag]
            /\ pos' = [pos EXCEPT ![order.tag] = 0]
            /\ todo' = Tail(todo)
       ELSE UNCHANGED <<trades, net, pos, todo>>
    /\ pc' = "shut"
    /\ UNCHANGED <<tfs, warming, engine, bars, missed, owed, cut, refused>>

\* The flatten came back or raised: a trade is recorded whatever the answer
\* was, and the book is cleared even if the order raised (lines 247-264).
ShutBooks ==
    /\ pc = "flattening" /\ callSt \in {"filled", "unfilled", "raised"}
    /\ Return
    /\ LET e == order.tag IN
       /\ trades' = IF callSt = "raised" THEN trades
                    ELSE [trades EXCEPT ![e] = @ + 1]
       /\ refused' = IF callSt = "raised" THEN refused \cup {e} ELSE refused
       /\ net' = net - pos[e]
       /\ pos' = [pos EXCEPT ![e] = 0]
    /\ pc' = "shut" /\ todo' = Tail(todo)
    /\ UNCHANGED <<tfs, warming, engine, bars, missed, owed, cut>>

ShutEnds ==
    /\ pc = "shut" /\ todo = <<>>
    /\ Disconnect
    /\ pc' = "done"
    /\ UNCHANGED <<todo, tfs, warming, engine, pos, net, trades, bars, missed,
                   owed, cut, refused>>

Finished == pc \in Over /\ UNCHANGED vars

-----------------------------------------------------------------------------
Starts   == StartDry \/ StartLive \/ StartFails
Loops    == WarmBar \/ WarmTfEnds \/ WarmEnds \/ FeedBar \/ ReplayEnds
Decides  == NoDecision \/ DecideEnter \/ DecideExit \/ DecideDropped
                \/ CloseEnds
Books    == NotFilled \/ OrderRaises \/ EnterBooksPos \/ EnterBooksNet
                \/ ExitLogsTrade \/ ExitBooksNet \/ ExitBooksPos
Shutdown == ShutSkip \/ ShutFlatten \/ ShutBooks \/ ShutEnds

\* The turns of the wait loop, the broker and the socket leave the book alone.
Waits   == Poll /\ UNCHANGED bridgeVars
Outside == Broker /\ UNCHANGED bridgeVars

Main == Starts \/ Loops \/ Decides \/ Books \/ Shutdown \/ Waits

Next == Main \/ Outside \/ Sigint \/ SecondSigint \/ Finished

\* The main thread is never descheduled for good; whether the operator presses
\* Ctrl-C, and what the broker does, is left open.
Spec == Init /\ [][Next]_vars /\ WF_vars(Main)

-----------------------------------------------------------------------------
(* Properties. *)

\* The thread is between two engines or two bars: nothing is half booked.
AtRest == pc \in {"start", "warm", "poll", "close"}

\* What place_order has reported filled for e and the book does not show yet.
Unbooked(e) ==
    IF order.tag = e /\ \/ pc \in {"entering", "exiting"} /\ callSt = "filled"
                        \/ pc \in {"logged", "netted"}
    THEN order.side ELSE 0

\* The book is what the filled=True answers add up to, from the first bar to
\* the end of trading: no answer is booked twice, to another engine, or lost,
\* and an order that was not filled moves nothing (_enter, _exit).
BookMatchesReports ==
    pc \in Trading => \A e \in Engines : reported[e] = pos[e] + Unbooked(e)

\* Whenever the thread is at rest, the book of an engine is off the account by
\* at most the number of its calls that timed out, and exact if none did
\* ("the bridge never assumes a position it doesn't hold", ibkr_client.py 215,
\* holds up to the timeouts).
BookWithinGiveups ==
    AtRest => \A e \in Engines : Abs(account[e] - pos[e]) <= giveups[e]

\* net is the sum of the book's positions whenever nothing is half booked,
\* through shutdown to its end, if trading did not stop between the update of
\* net and that of a position (lines 155 and 173-176).
NetIsSumOfBook ==
    (pc \notin {"entered", "netted"} /\ cut \notin {"entered", "netted"})
        => net = MapThenSumSet(LAMBDA e : pos[e], Engines)

\* An engine and the book agree on its position, while trading, for as long as
\* every decision of it was followed: the ways to part are a decision in warmup
\* and an order that was not filled, and none else (lines 130-152, 165-167).
EngineMatchesBook ==
    AtRest => \A e \in Engines \ missed : engine[e] = pos[e]

\* A recorded trade is a round trip: one entry and one exit, both filled.
TradesAreRoundTrips ==
    AtRest => \A e \in Engines : fills[e] = 2 * trades[e] + Abs(pos[e])

\* shutdown leaves at the broker no more than place_order gave up on, if
\* trading did not stop between an executed exit and the line that clears the
\* position, and no flatten raised (lines 238-264).
ShutdownLeavesOnlyGiveups ==
    (pc = "done" /\ cut \notin {"logged", "netted"}) =>
        \A e \in Engines \ refused : Abs(account[e]) <= giveups[e]

\* The operator's Ctrl-C ends the session even if the broker never answers:
\* the wait for each flatten is bounded (lines 238-270).
StopEnds == cut # "no" ~> pc \in Over

\* The book refines PositionBook.
Book == INSTANCE PositionBook WITH
    held  <- pos,
    phase <- IF pc \in Trading THEN "trading"
             ELSE IF pc = "done" THEN "over"
             ELSE IF pc = "killed" THEN "killed" ELSE "stopping"

BookSpec == Book!Spec

-----------------------------------------------------------------------------
(* What the repository says and the code does not do. *)

\* multi_engine_bridge.py 166: an exit that was not filled is retried at the
\* engine's next signal.
RetriedAtNextSignal ==
    [][ \A e \in Engines :
          (e \in owed /\ engine'[e] # engine[e]) => pc' = "exiting" ]_vars
=============================================================================
