--------------------------- MODULE ShockDetector ---------------------------
(***************************************************************************)
(* src/detector/shock.py: a window of recent bars, a threshold on the move *)
(* across it, a baseline for its volume, and a cooldown for each           *)
(* direction.  The threshold that the volatility estimate makes and the    *)
(* baseline of the minute are inputs of a bar.                             *)
(***************************************************************************)
EXTENDS Ohlc

CONSTANTS WindowLen,     \* ShockParams.window_s
          Cooldown,      \* cooldown_min
          Thresholds,    \* threshold_pts, never below min_abs_move_pct
          VolMultiple    \* vol_multiple

VARIABLES
    window,      \* self._bars
    cooldown,    \* self._cooldown_until, 0 for a missing key
    events       \* the ShockEvents returned

detectorVars == <<window, cooldown, events>>

DetectorInit ==
    /\ window = <<>>
    /\ cooldown = [d \in {-1, 1} |-> 0]
    /\ events = <<>>

\* The deque after append, and popleft up to the first bar young enough.
Recent(b) ==
    LET bars == Append(window, b)
        young == {i \in DOMAIN bars : bars[i].ts >= b.ts - WindowLen}
    IN SubSeq(bars, Min(young), Len(bars))

Direction(move) == IF move > 0 THEN 1 ELSE -1

Extreme(bars, d) ==
    IF d = 1 THEN Max({bars[i].h : i \in DOMAIN bars})
    ELSE Min({bars[i].l : i \in DOMAIN bars})

\* Mutant of Cooled: a shock silences the other direction.
CooledOther(d, ts) == ts >= cooldown[-d]

Cooled(d, ts) == ts >= cooldown[d]

Loud(bars, baseline) ==
    LET Add(sum, x) == sum + x.v
    IN baseline > 0 /\ FoldLeft(Add, 0, bars) >= VolMultiple * baseline

\* Whether the move from the open of the window's oldest bar to this close is
\* a shock.  With two bars the volatility estimate exists.
Triggers(bars, move, threshold, baseline, ts) ==
    /\ Len(bars) >= 2
    /\ Abs(move) >= threshold
    /\ Cooled(Direction(move), ts)
    /\ Loud(bars, baseline)

DetectorOnBar(b, threshold, baseline) ==
    LET bars == Recent(b)
        move == b.c - bars[1].o
        d == Direction(move)
        event == [ts |-> b.ts, dir |-> d, range |-> Abs(move),
                  open |-> bars[1].o, extreme |-> Extreme(bars, d)]
    IN /\ window' = bars
       /\ \/ /\ Triggers(bars, move, threshold, baseline, b.ts)
             /\ cooldown' = [cooldown EXCEPT ![d] = b.ts + Cooldown]
             /\ events' = Append(events, event)
          \/ /\ ~Triggers(bars, move, threshold, baseline, b.ts)
             /\ UNCHANGED <<cooldown, events>>
=============================================================================
