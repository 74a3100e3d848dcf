---------------------------- MODULE SignalBridge ----------------------------
(***************************************************************************)
(* src/bridge/bridge.py with src/bridge/oso.py: a signal passes the risk   *)
(* manager, becomes an entry with a bracket (a stop and a target, one      *)
(* cancels the other) and is handed to the client, which sends parent and  *)
(* legs (_build_ib_orders).  A FLAT signal skips the risk manager and is a *)
(* lone market order; nothing cancels the legs of what it flattens.        *)
(*                                                                         *)
(* on_signal looks at no answer of place_order, so the client is no more   *)
(* here than the order it leaves at the broker.  The broker is external; a *)
(* leg executes at its price, and the AccountState follows the executions  *)
(* ("updated from broker fills/positions", manager.py).                    *)
(***************************************************************************)
EXTENDS RiskManager, Sequences

CONSTANTS
    Quantities,   \* requested_qty of the signals
    Risks,        \* risk of one contract: stop_dist * point_value
    TargetR,      \* target_R, 2 in the code
    Swings,       \* what a flatten at the market may realize
    MaxOrders     \* bound on the orders a run sends

ASSUME SignalAssumption ==
    /\ Quantities \subseteq Int /\ Risks \subseteq Int /\ Swings \subseteq Int
    /\ TargetR \in Nat /\ MaxOrders \in Nat

VARIABLES
    acct,        \* the AccountState every signal is judged by
    orders,      \* every order sent, in order, with what became of it
    overlapped,  \* an order was sent while another was live (history)
    stopped      \* HALT was answered with nothing held or live (history)

signalVars == <<acct, orders, overlapped, stopped>>

Sides == {-1, 1}
Kinds == {"entry", "flat"}
States == {"sent", "open", "done", "dead"}

OrderRecords == [kind : Kinds, side : Sides, qty : Nat, risk : Int, st : States]

SignalTypeOK ==
    /\ acct \in Accounts
    /\ orders \in Seq(OrderRecords)
    /\ overlapped \in BOOLEAN /\ stopped \in BOOLEAN

SignalInit ==
    /\ acct = NewAccount
    /\ orders = <<>> /\ overlapped = FALSE /\ stopped = FALSE

\* Orders that can still execute: not yet executed, or with legs working.
Live == {i \in DOMAIN orders : orders[i].st \in {"sent", "open"}}

\* Nothing is held and nothing can execute.
Idle == Live = {} /\ acct.open_position = 0

-----------------------------------------------------------------------------
(* on_signal. *)

Send(kind, side, qty, risk) ==
    /\ Len(orders) < MaxOrders
    /\ orders' = Append(orders, [kind |-> kind, side |-> side, qty |-> qty,
                                 risk |-> risk, st |-> "sent"])
    /\ overlapped' = (overlapped \/ Live # {})
    /\ UNCHANGED <<acct, stopped>>

Entries == [action : {"BUY", "SELL"}, requested_qty : Quantities,
            risk : Risks, daily_aligned : BOOLEAN]

SideOf(p) == IF p.action = "BUY" THEN 1 ELSE -1

\* REJECT, HALT or nothing approved: no order.
EntryDropped(p) ==
    LET d == Evaluate(p, acct) IN
    /\ d.verdict \in {"REJECT", "HALT"} \/ d.approved_qty <= 0
    /\ stopped' = (stopped \/ (d.verdict = "HALT" /\ Idle))
    /\ UNCHANGED <<acct, orders, overlapped>>

\* Approved: build_oso and place_order.
EntrySubmitted(p) ==
    LET d == Evaluate(p, acct) IN
    /\ d.verdict \in {"ALLOW", "DOWNSIZE"} /\ d.approved_qty > 0
    /\ Send("entry", SideOf(p), d.approved_qty, p.risk)

\* build_flatten: the whole position, whatever the risk manager would say.
\* (With no position the signal is a NOOP; with too close a bracket build_oso
\* raises; neither changes anything.)
FlatSubmitted ==
    /\ acct.open_position # 0
    /\ Send("flat", IF acct.open_position > 0 THEN -1 ELSE 1,
            Abs(acct.open_position), 0)

-----------------------------------------------------------------------------
(* The broker. *)

Execute(i, st, contracts, pnl) ==
    /\ orders' = [orders EXCEPT ![i].st = st]
    /\ acct' = Realize([acct EXCEPT !.open_position = @ + contracts], pnl)
    /\ UNCHANGED <<overlapped, stopped>>

Size(o) == o.side * o.qty

EntryFills(i) ==
    /\ orders[i].kind = "entry" /\ orders[i].st = "sent"
    /\ Execute(i, "open", Size(orders[i]), 0)

\* Mutant of StopFills: the stop leg has the side of the entry.
StopSameSide(i) ==
    /\ orders[i].kind = "entry" /\ orders[i].st = "open"
    /\ Execute(i, "done", Size(orders[i]), -(orders[i].qty * orders[i].risk))

StopFills(i) ==
    /\ orders[i].kind = "entry" /\ orders[i].st = "open"
    /\ Execute(i, "done", -Size(orders[i]), -(orders[i].qty * orders[i].risk))

TargetFills(i) ==
    /\ orders[i].kind = "entry" /\ orders[i].st = "open"
    /\ Execute(i, "done", -Size(orders[i]),
               TargetR * (orders[i].qty * orders[i].risk))

\* A flatten executes at whatever the market is.
FlatFills(i) ==
    /\ orders[i].kind = "flat" /\ orders[i].st = "sent"
    /\ \E pnl \in Swings : Execute(i, "done", Size(orders[i]), pnl)

OrderDies(i) ==
    /\ orders[i].st = "sent"
    /\ orders' = [orders EXCEPT ![i].st = "dead"]
    /\ UNCHANGED <<acct, overlapped, stopped>>

\* AccountState.halted is set by whoever keeps the account; no code here does.
AccountHalted ==
    /\ ~acct.halted /\ acct' = [acct EXCEPT !.halted = TRUE]
    /\ UNCHANGED <<orders, overlapped, stopped>>

Signal == FlatSubmitted \/ \E p \in Entries : EntryDropped(p) \/ EntrySubmitted(p)

Fill == \E i \in DOMAIN orders :
            \/ EntryFills(i) \/ StopFills(i) \/ TargetFills(i)
            \/ FlatFills(i) \/ OrderDies(i)

SignalNext == Signal \/ Fill \/ AccountHalted

SignalSpec == SignalInit /\ [][SignalNext]_signalVars

-----------------------------------------------------------------------------
\* While no order is sent before the one before it is over, the firm's limits
\* hold for the account: the trailing drawdown is never breached, and the
\* session loses at most one trade more than the daily halt.  No single check
\* of evaluate says so: it takes the room kept, the ceiling of a trade and the
\* halt together (lines 84-99).
LossesBounded ==
    ~overlapped =>
        /\ Drawdown(acct) < TrailingDD
        /\ acct.session > -(DailyHalt + MaxRisk)

\* No entry, whatever its tier, can lose more than the per-trade ceiling at its
\* stop, and none is larger than max_contracts (lines 95-107).
EntriesWithinCeiling ==
    \A i \in DOMAIN orders :
        orders[i].kind = "entry" =>
            /\ orders[i].qty * orders[i].risk <= MaxRisk
            /\ orders[i].qty \in 1 .. MaxContracts

\* One order at a time keeps the exposure within max_contracts (line 99).
ExposureWithinMax ==
    ~overlapped => Abs(acct.open_position) <= MaxContracts

\* A HALT answered with nothing held or live stops the session, although evaluate
\* keeps no such flag: nothing can change the account any more (manager.py 18,
\* "account-level stop; no further entries this session").
HaltIsFinal == [][stopped => Len(orders') = Len(orders)]_signalVars

-----------------------------------------------------------------------------
(* What the repository says and the code does not do. *)

\* manager.py 80: "exits always allowed", and tests/test_risk.py 36, a FLAT
\* proposal on a halted account is allowed.
FlatAlwaysAllowed ==
    \A n \in Quantities :
        Evaluate([action |-> "FLAT", requested_qty |-> n, risk |-> 0,
                  daily_aligned |-> FALSE], acct).verdict = "ALLOW"

\* portfolio.py 15-16 and 184: the risk manager clamps total live size.
LiveSizeClamped == Abs(acct.open_position) <= MaxContracts
=============================================================================
