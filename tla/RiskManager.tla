---------------------------- MODULE RiskManager ----------------------------
(***************************************************************************)
(* src/risk/manager.py: the veto between a signal and the broker.          *)
(*                                                                         *)
(* evaluate is a function of the proposal and of the AccountState it is    *)
(* given; it keeps nothing.  Money is in units of the configuration's      *)
(* choice, a proposal carries the risk of one contract in that unit        *)
(* (stop_dist * point_value), and prices are left out.                     *)
(***************************************************************************)
EXTENDS Amounts

CONSTANTS
    TrailingDD,      \* trailing_dd, 2000 in the code
    MaxRisk,         \* max_risk_per_trade, 200
    MaxContracts,    \* max_contracts, 3
    BaseContracts,   \* base_contracts, 1
    AddBuffer,       \* add_buffer_usd, 400
    DailyHalt        \* daily_loss_halt, 600

ASSUME RiskAssumption ==
    /\ TrailingDD \in Nat /\ MaxRisk \in Nat \ {0} /\ MaxRisk < TrailingDD
    /\ MaxContracts \in Nat \ {0} /\ BaseContracts \in Nat \ {0}
    /\ AddBuffer \in Nat /\ DailyHalt \in Nat \ {0}

Verdicts  == {"ALLOW", "DOWNSIZE", "REJECT", "HALT"}
Actions   == {"BUY", "SELL", "FLAT"}
Proposals == [action : Actions, requested_qty : Int, risk : Int,
              daily_aligned : BOOLEAN]
Accounts  == [session : Int, total : Int, high_water : Int,
              open_position : Int, halted : BOOLEAN]

\* AccountState(): nothing realized, nothing held.
NewAccount == [session |-> 0, total |-> 0, high_water |-> 0,
               open_position |-> 0, halted |-> FALSE]

\* What the realized result of a trade does to the account.
Realize(a, pnl) ==
    [a EXCEPT !.session = @ + pnl, !.total = @ + pnl,
              !.high_water = Greatest(@, a.total + pnl)]

\* trailing_drawdown_room: how far below its peak the account is.
Drawdown(a) == a.high_water - a.total

\* Mutants of Halts: only a breach itself halts, no room is kept for a trade;
\* the session's loss is not looked at.
HaltsAtBreach(a) == TrailingDD <= Drawdown(a) \/ a.session <= -DailyHalt
HaltsOnDrawdown(a) == TrailingDD - Drawdown(a) <= MaxRisk

\* Limits 1 and 2: the trailing drawdown and the session's loss.
Halts(a) == TrailingDD - Drawdown(a) <= MaxRisk \/ a.session <= -DailyHalt

\* Limit 3, the sizing tier: one more contract only with a banked buffer.
Tier(p, a) ==
    Least(IF p.daily_aligned /\ a.session >= AddBuffer
          THEN Least(p.requested_qty, BaseContracts + 1) ELSE BaseContracts,
          MaxContracts)

\* Limit 4: as many contracts as the per-trade ceiling pays for.
Affordable(p) == MaxRisk \div p.risk

Decision(v, n) == [verdict |-> v, approved_qty |-> n]

Sized(p, a) ==
    Decision(IF Tier(p, a) <= Affordable(p) THEN "ALLOW" ELSE "DOWNSIZE",
             Least(Tier(p, a), Affordable(p)))

\* Mutant of Evaluate: the room is compared with this trade's risk.
EvaluateOwnRisk(p, a) ==
    IF TrailingDD - Drawdown(a) <= p.risk THEN Decision("HALT", 0)
    ELSE IF p.risk <= 0 \/ p.risk > MaxRisk THEN Decision("REJECT", 0)
    ELSE Sized(p, a)

Evaluate(p, a) ==
    IF a.halted THEN Decision("REJECT", 0)
    ELSE IF p.action = "FLAT" THEN Decision("ALLOW", Abs(a.open_position))
    ELSE IF Halts(a) THEN Decision("HALT", 0)
    ELSE IF p.risk <= 0 \/ p.risk > MaxRisk THEN Decision("REJECT", 0)
    ELSE Sized(p, a)
=============================================================================
