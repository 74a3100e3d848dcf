--------------------------- MODULE DriftControl ---------------------------
(***************************************************************************)
(* src/backtest/drift_control.py: trades entered at random bars of a       *)
(* session and held for a fixed number of bars, and how far the price went *)
(* for and against them.  Which bars the seeded generator picks is free.   *)
(***************************************************************************)
EXTENDS Sessions, Ohlc

CONSTANTS HorizonBars, DriftFriction, DriftSession

VARIABLE chosen    \* the bars entered, in order; none before the draw

DriftInit == chosen = <<>>

\* Mutant of HoldWindow: the entry bar counts, the exit bar does not.
HoldWindowEarly(i) == i..(i + HorizonBars - 1)

\* The bars of a hold: after the entry bar, to the exit bar.
HoldWindow(i) == (i + 1)..(i + HorizonBars)

Candidates(bars) ==
    {i \in DOMAIN bars : /\ TagSession(bars[i].ts) = DriftSession
                         /\ i + HorizonBars <= Len(bars)}

\* run_drift: n draws, sorted; one bar twice only with replacement, by choice
\* or because there are too few.
Draw(bars, n, replace) ==
    /\ Candidates(bars) # {}
    /\ \E f \in [1..n -> Candidates(bars)] :
         /\ \A i, j \in 1..n : i < j => f[i] <= f[j]
         /\ replace \/ n > Cardinality(Candidates(bars)) \/ IsInjective(f)
         /\ chosen' = f

Extremes(bars, i) ==
    [hi |-> Max({bars[j].h : j \in HoldWindow(i)}),
     lo |-> Min({bars[j].l : j \in HoldWindow(i)})]

\* _excursion: the furthest the price went for a trade of side d, and against.
Mfe(bars, i, d) ==
    LET x == Extremes(bars, i)
    IN Greatest(0, IF d = 1 THEN x.hi - bars[i].c ELSE bars[i].c - x.lo)

Mae(bars, i, d) == Mfe(bars, i, -d)

\* The trades of one draw, by their sums.
DriftResult(bars, d) ==
    LET Sum(F(_)) == FoldLeft(LAMBDA sum, i : sum + F(i), 0, chosen)
        Pnl(i) == d * (bars[i + HorizonBars].c - bars[i].c) - DriftFriction
    IN [n |-> Len(chosen), total |-> Sum(Pnl),
        mfe |-> Sum(LAMBDA i : Mfe(bars, i, d)),
        mae |-> Sum(LAMBDA i : Mae(bars, i, d))]
=============================================================================
