-------------------------- MODULE IndicatorEngines --------------------------
(***************************************************************************)
(* The engines that decide on indicators alone: v4.py, ema_cross.py,       *)
(* range_revert.py and meanrev_fade.py under src/engine/.                  *)
(*                                                                         *)
(* A bar is the truth of the conditions the engine derives from its        *)
(* averages and ranges, a free choice; what the engine does with them, and *)
(* in which order, is the code's.                                          *)
(***************************************************************************)
EXTENDS EngineBars

VARIABLES
    pos,         \* in_position and qty, or pos, or in_pos, signed
    bars_held,   \* RangeRevertEngine._held
    warm,        \* the averages have seen enough bars
    age,         \* history: the bars of the range trade since its entry
    idle_bars,   \* history: those of them that were idle
    dec          \* what on_bar returned

ageVars == <<age, idle_bars>>
vars == <<pos, bars_held, warm, ageVars, dec>>

Init ==
    /\ pos = 0 /\ bars_held = 0 /\ warm = FALSE /\ dec = NoDecision
    /\ age = 0 /\ idle_bars = 0

\* +1 for direction = "long", -1 for its mirror.
Side(short) == IF short THEN -1 ELSE 1

\* The early return while an average has not seen enough bars.
Warming ==
    /\ ~warm /\ warm' \in BOOLEAN
    /\ dec' = NoDecision /\ UNCHANGED <<pos, bars_held, ageVars>>

Quiet == dec' = NoDecision /\ UNCHANGED pos

Enter(side, qty) ==
    /\ pos = 0 /\ pos' = side * qty
    /\ dec' = Decision("enter", side, qty)

\* Mutant of Leave: the exit sells one contract of a doubled entry.
LeaveOne ==
    /\ pos # 0
    /\ LET side == IF pos > 0 THEN 1 ELSE -1 IN
       /\ pos' = pos - side
       /\ dec' = Decision("exit", side, side * pos)

\* The exit is for the whole position.
Leave ==
    /\ pos # 0 /\ pos' = 0
    /\ LET side == IF pos > 0 THEN 1 ELSE -1
       IN dec' = Decision("exit", side, side * pos)

\* V4Engine: converging averages enter, doubled when the daily trend agrees;
\* the catastrophe stop is asked before the cross that ends the trade.
V4OnBar(short, converging, aligned, stopped, crossing) ==
    \/ Warming
    \/ /\ warm /\ UNCHANGED <<warm, bars_held, ageVars>>
       /\ \/ pos = 0 /\ converging /\ Enter(Side(short), IF aligned THEN 2 ELSE 1)
          \/ pos = 0 /\ ~converging /\ Quiet
          \/ pos # 0 /\ (stopped \/ crossing) /\ Leave
          \/ pos # 0 /\ ~stopped /\ ~crossing /\ Quiet

\* EmaCrossEngine, both sides; trend is the direction of gap and slope.
EmaCrossOnBar(trend) ==
    \/ Warming
    \/ /\ warm /\ UNCHANGED <<warm, bars_held, ageVars>>
       /\ \/ pos = 0 /\ trend # 0 /\ Enter(trend, 1)
          \/ pos # 0 /\ trend = -pos /\ Leave
          \/ (IF pos = 0 THEN trend = 0 ELSE trend # -pos) /\ Quiet

HeldLongEnough(n) == n >= MaxHoldBars

\* The early return again, once warm: a bar at the end of so many without a
\* range that their mean is zero (atr <= 0).  It is not counted as held, and no
\* exit is asked for.
Idle ==
    /\ warm /\ Quiet /\ UNCHANGED <<warm, bars_held>>
    /\ IF pos = 0 THEN UNCHANGED ageVars
       ELSE /\ idle_bars < MaxIdle /\ idle_bars' = idle_bars + 1
            /\ age' = age + 1

\* RangeRevertEngine: a price near the extreme of its range enters; back at
\* the average or held for max_hold bars it leaves.
RangeRevertOnBar(short, near, back) ==
    \/ Warming
    \/ Idle
    \/ /\ warm /\ pos = 0 /\ UNCHANGED warm
       /\ \/ /\ near /\ Enter(Side(short), 1)
             /\ bars_held' = 0 /\ age' = 0 /\ idle_bars' = 0
          \/ ~near /\ Quiet /\ UNCHANGED <<bars_held, ageVars>>
    \/ /\ warm /\ pos # 0 /\ UNCHANGED <<warm, idle_bars>>
       /\ bars_held' = bars_held + 1 /\ age' = age + 1
       /\ \/ (back \/ HeldLongEnough(bars_held')) /\ Leave
          \/ ~back /\ ~HeldLongEnough(bars_held') /\ Quiet

\* MeanRevFadeEngine: a stretched price enters, a reverted one leaves; an idle
\* bar is neither.
MeanRevOnBar(short, stretched, reverted) ==
    \/ Warming
    \/ /\ warm /\ UNCHANGED <<warm, bars_held, ageVars>>
       /\ \/ pos = 0 /\ stretched /\ Enter(Side(short), 1)
          \/ pos # 0 /\ reverted /\ Leave
          \/ (IF pos = 0 THEN ~stretched ELSE ~reverted) /\ Quiet

IndicatorTypeOK ==
    /\ pos \in -2..2 /\ bars_held \in 0..MaxHoldBars /\ warm \in BOOLEAN
    /\ idle_bars \in 0..MaxIdle /\ age \in 0..(MaxHoldBars + MaxIdle)
    /\ dec \in [act : {"none", "enter", "exit"}, side : {-1, 0, 1}, qty : 0..2]

(* A range trade outlives max_hold bars only by the idle ones among them     *)
(* (range_revert.py:50 returns before :53-54 counts the bar and before the   *)
(* exits of :63-68).                                                         *)
HeldWithinMaxHold == pos # 0 => age < MaxHoldBars + idle_bars
=============================================================================
