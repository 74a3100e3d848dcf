----------------------------- MODULE IBKRClient -----------------------------
(***************************************************************************)
(* src/bridge/ibkr_client.py: the only path from a bridge to a broker.     *)
(*                                                                         *)
(* place_order is a blocking call.  In DRY_RUN it returns a simulated      *)
(* fill; in PAPER_LIVE it submits a market order and then polls, every     *)
(* half second and a bounded number of times, for an execution of it.  It  *)
(* never cancels an order it stops waiting for, so that order can still    *)
(* execute after filled=False was returned.  The broker and the socket are *)
(* external: they are modelled from how the client uses them.              *)
(*                                                                         *)
(* Orders carry one contract (every enabled registry engine trades qty 1,  *)
(* src/bridge/engine_registry.py), a tag (payload "strategy") and a side,  *)
(* +1 for Buy and -1 for Sell, so an order has no partial execution.       *)
(* Prices are left out: nothing here branches on one.                      *)
(***************************************************************************)
EXTENDS Amounts

CONSTANTS
    Tags,      \* the strategies whose orders the client places
    Polls      \* fill_timeout_s / 0.5, sixteen in the code

ASSUME ClientAssumption == Polls \in Nat \ {0}

VARIABLES
    cfg,       \* the IBKRConfig and the environment: dry_run, account, port
    link,      \* "off" before authenticate, then "up", "down" once it dropped
    callSt,    \* the place_order call: idle, wait, or how it came back
    order,     \* the last order handed to place_order
    polls,     \* half-second polls made so far by the running call
    parent,    \* what became of that order at the broker
    resting,   \* orders nobody waits for that the broker can still execute
    account,   \* the broker's (or the simulation's) position per tag
    reported,  \* the position the filled=True answers add up to, per tag
    fills,     \* number of filled=True answers, per tag
    giveups    \* calls that ended without reporting what the order did

clientVars == <<cfg, link, callSt, order, polls, parent, resting,
                account, reported, fills, giveups>>

Sides   == {-1, 1}
Orders  == [tag : Tags, side : Sides]
NoOrder == [tag |-> "none", side |-> 0]

Configs == [dry_run : BOOLEAN, paper_account : BOOLEAN,
            port : {"paper", "live", "other"}]

\* Mutant of Mode: the port is only kept off the live ones, not on a paper one.
ModeAnyPort == IF ~cfg.dry_run /\ cfg.paper_account
               THEN "PAPER_LIVE" ELSE "DRY_RUN"

\* The mode property: DRY_RUN unless opted out and a safe paper target is set.
Mode == IF ~cfg.dry_run /\ cfg.paper_account /\ cfg.port = "paper"
        THEN "PAPER_LIVE" ELSE "DRY_RUN"

ClientTypeOK ==
    /\ cfg \in Configs
    /\ link \in {"off", "up", "down"}
    /\ callSt \in {"idle", "wait", "filled", "unfilled", "raised"}
    /\ order \in Orders \cup {NoOrder}
    /\ callSt # "idle" => order \in Orders
    /\ polls \in 0 .. Polls - 1
    /\ parent \in {"none", "working", "filled", "unseen", "dead"}
    /\ resting \in [Tags -> [Sides -> Nat]]
    /\ account \in [Tags -> Int]
    /\ reported \in [Tags -> Int]
    /\ fills \in [Tags -> Nat]
    /\ giveups \in [Tags -> Nat]

ClientInit ==
    /\ cfg \in Configs
    /\ link = "off" /\ callSt = "idle" /\ order = NoOrder
    /\ polls = 0 /\ parent = "none"
    /\ resting = [t \in Tags |-> [s \in Sides |-> 0]]
    /\ account = [t \in Tags |-> 0]
    /\ reported = [t \in Tags |-> 0]
    /\ fills = [t \in Tags |-> 0]
    /\ giveups = [t \in Tags |-> 0]

-----------------------------------------------------------------------------
(* The client's own steps. *)

\* authenticate: DRY_RUN opens no socket; a live port, or a session that does
\* not manage our account, raises and leaves the client disconnected.
Authenticate ==
    /\ callSt = "idle" /\ link = "off"
    /\ cfg.port # "live" /\ Mode = "PAPER_LIVE"
    /\ link' = "up"
    /\ UNCHANGED <<cfg, callSt, order, polls, parent, resting, account,
                   reported, fills, giveups>>

\* The answer filled=True for the order o.
Report(o) ==
    /\ callSt' = "filled"
    /\ reported' = [reported EXCEPT ![o.tag] = @ + o.side]
    /\ fills' = [fills EXCEPT ![o.tag] = @ + 1]

\* place_order, DRY_RUN branch: a simulated fill at once.
Simulate(o) ==
    /\ Mode = "DRY_RUN"
    /\ account' = [account EXCEPT ![o.tag] = @ + o.side]
    /\ Report(o)
    /\ UNCHANGED <<parent, polls>>

\* place_order, PAPER_LIVE: the order is transmitted and the wait begins.
Transmit ==
    /\ Mode = "PAPER_LIVE" /\ cfg.port # "live" /\ cfg.paper_account
    /\ link = "up"
    /\ callSt' = "wait" /\ parent' = "working" /\ polls' = 0
    /\ UNCHANGED <<account, reported, fills>>

\* place_order, PAPER_LIVE without a usable socket: "not connected" from the
\* client, or the connection error ib_async raises before it sends anything.
Refuse ==
    /\ Mode = "PAPER_LIVE" /\ link # "up"
    /\ callSt' = "raised"
    /\ UNCHANGED <<account, reported, fills, parent, polls>>

PlaceOrder(o) ==
    /\ callSt = "idle"
    /\ order' = o
    /\ Simulate(o) \/ Transmit \/ Refuse
    /\ UNCHANGED <<cfg, link, resting, giveups>>

\* An order nobody waits for any more: it stays at the broker if it works there.
LeaveBehind ==
    /\ giveups' = [giveups EXCEPT ![order.tag] = @ + 1]
    /\ resting' = IF parent = "working"
                  THEN [resting EXCEPT ![order.tag][order.side] = @ + 1] ELSE resting
    /\ parent' = "none"

\* One turn of the wait loop: sleep half a second, look at parent.fills.
PollSeesFill ==
    /\ callSt = "wait" /\ parent = "filled"
    /\ Report(order)
    /\ parent' = "none" /\ polls' = 0
    /\ UNCHANGED <<cfg, link, order, resting, account, giveups>>

\* Mutant of PollAgain: turns are not counted.
PollForever == callSt = "wait" /\ parent # "filled" /\ UNCHANGED clientVars

PollAgain ==
    /\ callSt = "wait" /\ parent # "filled" /\ polls + 1 < Polls
    /\ polls' = polls + 1
    /\ UNCHANGED <<cfg, link, callSt, order, parent, resting, account,
                   reported, fills, giveups>>

\* Mutant of PollTimesOut: the order is assumed filled once the time is up.
PollAssumesFill ==
    /\ callSt = "wait" /\ parent # "filled" /\ polls + 1 = Polls
    /\ Report(order)
    /\ parent' = "none" /\ polls' = 0
    /\ UNCHANGED <<cfg, link, order, resting, account, giveups>>

\* The last turn: filled=False is returned, the order is not cancelled.
PollTimesOut ==
    /\ callSt = "wait" /\ parent # "filled" /\ polls + 1 = Polls
    /\ callSt' = "unfilled" /\ polls' = 0
    /\ LeaveBehind
    /\ UNCHANGED <<cfg, link, order, account, reported, fills>>

Poll == PollSeesFill \/ PollAgain \/ PollTimesOut

\* The caller takes the answer (or catches the exception).
Return ==
    /\ callSt \in {"filled", "unfilled", "raised"}
    /\ callSt' = "idle"
    /\ UNCHANGED <<cfg, link, order, polls, parent, resting, account,
                   reported, fills, giveups>>

\* A KeyboardInterrupt leaves the call before its caller has the answer.
Abandon ==
    /\ callSt \in {"wait", "filled"}
    /\ callSt' = "idle" /\ polls' = 0
    /\ LeaveBehind
    /\ UNCHANGED <<cfg, link, order, account, reported, fills>>

Disconnect ==
    /\ callSt = "idle" /\ link' = "off"
    /\ UNCHANGED <<cfg, callSt, order, polls, parent, resting, account,
                   reported, fills, giveups>>

-----------------------------------------------------------------------------
(* The broker and the socket. *)

\* The order the client waits for executes; without a socket it is not told.
BrokerFills ==
    /\ parent = "working"
    /\ account' = [account EXCEPT ![order.tag] = @ + order.side]
    /\ parent' = IF link = "up" THEN "filled" ELSE "unseen"
    /\ UNCHANGED <<cfg, link, callSt, order, polls, resting, reported, fills,
                   giveups>>

BrokerRejects ==
    /\ parent = "working" /\ parent' = "dead"
    /\ UNCHANGED <<cfg, link, callSt, order, polls, resting, account,
                   reported, fills, giveups>>

\* An order nobody waits for executes, or is cancelled by the broker.
LateFill(o) ==
    /\ resting[o.tag][o.side] > 0
    /\ resting' = [resting EXCEPT ![o.tag][o.side] = @ - 1]
    /\ account' = [account EXCEPT ![o.tag] = @ + o.side]
    /\ UNCHANGED <<cfg, link, callSt, order, polls, parent, reported, fills,
                   giveups>>

LateCancel(o) ==
    /\ resting[o.tag][o.side] > 0
    /\ resting' = [resting EXCEPT ![o.tag][o.side] = @ - 1]
    /\ UNCHANGED <<cfg, link, callSt, order, polls, parent, account, reported,
                   fills, giveups>>

LinkDrops ==
    /\ link = "up" /\ link' = "down"
    /\ UNCHANGED <<cfg, callSt, order, polls, parent, resting, account,
                   reported, fills, giveups>>

Broker ==
    \/ BrokerFills \/ BrokerRejects \/ LinkDrops
    \/ \E o \in Orders : LateFill(o) \/ LateCancel(o)

-----------------------------------------------------------------------------
(* The client with any caller. *)

ClientNext ==
    \/ Authenticate \/ Poll \/ Return \/ Abandon \/ Disconnect
    \/ \E o \in Orders : PlaceOrder(o)
    \/ Broker

\* Python runs the wait loop to its end; nothing is assumed of the broker.
ClientSpec == ClientInit /\ [][ClientNext]_clientVars /\ WF_clientVars(Poll)

-----------------------------------------------------------------------------
\* Orders of the tag t that may still change what the account holds, or that
\* have changed it without the caller having been told.
InFlight(t) == IF callSt = "wait" /\ order.tag = t THEN 1 ELSE 0
Stray(t)    == resting[t][1] + resting[t][-1]

\* The account differs from what the filled=True answers add up to by at most
\* the number of calls that gave up waiting, and every order still resting at
\* the broker uses up one of those too.  So, as long as no call of a strategy
\* timed out or was interrupted, its position at the broker is exactly the one
\* reported (place_order's fill confirmation, lines 212-226).
AccountWithinGiveups ==
    \A t \in Tags :
        Abs(account[t] - reported[t]) + Stray(t) <= giveups[t] + InFlight(t)

\* An order exists at a broker only in PAPER_LIVE: dry_run was opted out of,
\* and both the account and the port are paper (mode, _assert_not_live_port
\* and the guards at the head of place_order).
PaperOnly ==
    (parent # "none" \/ \E o \in Orders : resting[o.tag][o.side] > 0) =>
        ~cfg.dry_run /\ cfg.paper_account /\ cfg.port = "paper"

\* place_order returns whatever the broker does, even if it never answers: the
\* wait loop is bounded by fill_timeout_s (line 217).
CallsReturn == callSt = "wait" ~> callSt # "wait"
=============================================================================
