----------------------------- MODULE EngineBars -----------------------------
(***************************************************************************)
(* What the engines see of a bar, what they are configured with, and what  *)
(* their decisions look like.                                              *)
(***************************************************************************)
EXTENDS Amounts

CONSTANTS
    Prices,       \* prices a bar or a zone can have, in quarters of a unit
    Gaps,         \* minutes from one bar to the next, 1 on a complete feed
    MaxZones,     \* bound on the zones a run forms
    MaxDays,      \* bound on the days of a run
    TrailSwing,   \* LvlImbConfig.trail_swing, 6
    StopPad,      \* stop_pad of the order-block engines
    RiskFloor,    \* their risk_floor
    TargetR,      \* their target_R
    MaxHold,      \* their max_hold_min
    MaxHoldBars,  \* RangeRevertConfig.max_hold, 24
    MaxIdle       \* bound on the bars without a range in one trade

\* An index never trades below zero; a midpoint and three quarters of a height
\* are prices.
ASSUME EngineAssumption ==
    /\ Prices \subseteq Nat /\ \A p \in Prices : p % 4 = 0
    /\ Gaps \subseteq Nat \ {0} /\ MaxZones \in Nat /\ MaxDays \in Nat
    /\ TrailSwing \in Nat \ {0} /\ StopPad \in Nat /\ RiskFloor \in Nat
    /\ TargetR \in Nat /\ MaxHold \in Nat \ {0} /\ MaxHoldBars \in Nat \ {0}
    /\ MaxIdle \in Nat

\* h, l, c of on_bar; the open only matters to the detection of a zone.
BarSet == {b \in [h : Prices, l : Prices, c : Prices] : b.l <= b.c /\ b.c <= b.h}

\* A decision dict, by its signal, its side and its qty.
Decision(act, side, qty) == [act |-> act, side |-> side, qty |-> qty]
NoDecision == Decision("none", 0, 0)
EnterLong  == Decision("enter", 1, 1)
ExitLong   == Decision("exit", 1, 1)

\* The zone a loop over self.zones meets first: the oldest, they are appended.
Oldest(S) == CHOOSE z \in S : \A y \in S : z.id <= y.id
=============================================================================
