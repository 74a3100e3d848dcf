---------------------------- MODULE ShockEngine ----------------------------
(***************************************************************************)
(* The trade layer of src/engine/shock_v1.py: what the entry schemes and   *)
(* the walk of manage make of a list of bars and the detector's events.    *)
(*                                                                         *)
(* On signed prices (Ohlc) a DOWN shock is an UP shock, and the two        *)
(* branches the code has for each condition are one.  Prices are multiples *)
(* of 20, so that the shares of the impulse are integers.                  *)
(***************************************************************************)
EXTENDS Ohlc

CONSTANTS
    PullbackLen,    \* bars E2 waits for its pullback
    BreakFrom,      \* bars after the trigger at which E3 is armed
    BreakLen,       \* bars for which it stays armed
    TwoTicks,       \* how far beyond the extreme E3 waits
    SwingLen,       \* bars of the swing the stop trails
    ScratchAfter,   \* the hold without +1R
    DayLen, GuardAt,\* the time of the day no trade outlives
    Friction

NoEntry == [i |-> 0]

\* _entry_E1: the next open.
EntryE1(bars, it, e) ==
    IF it < Len(bars) THEN [i |-> it + 1, px |-> bars[it + 1].o] ELSE NoEntry

\* Mutant of EntryE2: a break of the extreme anywhere in the wait ends it.
EntryE2WholeWait(bars, it, e) ==
    LET d == e.dir
        fill == e.extreme - d * ((3 * e.range) \div 10)
        wait == (it + 1)..Least(it + PullbackLen, Len(bars))
        pulled == {j \in wait : Near(bars[j], d) <= d * fill}
    IN IF pulled = {} \/ (\E j \in wait : Far(bars[j], d) > d * e.extreme)
       THEN NoEntry ELSE [i |-> Min(pulled), px |-> fill]

\* _entry_E2: 30% back, unless the extreme is broken first or on that bar.
EntryE2(bars, it, e) ==
    LET d == e.dir
        fill == e.extreme - d * ((3 * e.range) \div 10)
        wait == (it + 1)..Least(it + PullbackLen, Len(bars))
        broken == {j \in wait : Far(bars[j], d) > d * e.extreme}
        pulled == {j \in wait : Near(bars[j], d) <= d * fill}
    IN IF pulled = {} \/ (\E j \in broken : j <= Min(pulled))
       THEN NoEntry ELSE [i |-> Min(pulled), px |-> fill]

\* _entry_E3: two ticks beyond the extreme.
EntryE3(bars, it, e) ==
    LET trig == e.extreme + e.dir * TwoTicks
        wait == (it + BreakFrom)..Least(it + BreakFrom + BreakLen - 1, Len(bars))
        reached == {j \in wait : Far(bars[j], e.dir) >= e.dir * trig}
    IN IF reached = {} THEN NoEntry ELSE [i |-> Min(reached), px |-> trig]

\* Mutant of InitStop: half the impulse back, wherever the entry was.
InitStopAtRetrace(en, e) == e.dir * e.extreme - e.range \div 2

\* init_stop, signed.
InitStop(en, e) ==
    Greatest(e.dir * en.px - (9 * e.range) \div 20,
             e.dir * e.extreme - e.range \div 2)

\* The trail bar j meets: the highest of the stop and of the swing lows that
\* the bars from the entry to j have shown one after the other.
Trail(bars, en, e, j) ==
    LET SwingLow(k) ==
          Min({Near(bars[m], e.dir) : m \in Greatest(en.i + 1, k - SwingLen)..(k - 1)})
    IN Max({InitStop(en, e)} \cup {SwingLow(k) : k \in (en.i + 2)..j})

\* The 17:00 that ends the day of an entry, or the next from 17:00 on.
Guard(ts) ==
    LET day == ts \div DayLen
    IN (IF ts % DayLen < GuardAt THEN day ELSE day + 1) * DayLen + GuardAt

Stopped(bars, en, e, j) == Near(bars[j], e.dir) <= Trail(bars, en, e, j)

ReachedOneR(bars, en, e, j) ==
    \E k \in (en.i + 1)..j : Far(bars[k], e.dir) >= e.dir * en.px + e.range

TimeIsUp(bars, en, e, j) ==
    \/ bars[j].ts >= Guard(bars[en.i].ts)
    \/ /\ bars[j].ts - bars[en.i].ts >= ScratchAfter
       /\ ~ReachedOneR(bars, en, e, j)

\* manage: the first bar that stops the trade, or at which its time is up, or
\* the last one there is.
Manage(bars, en, e) ==
    LET over == {j \in (en.i + 1)..Len(bars) :
                   Stopped(bars, en, e, j) \/ TimeIsUp(bars, en, e, j)}
        j == IF over = {} THEN Len(bars) ELSE Min(over)
        px == IF over # {} /\ Stopped(bars, en, e, j) THEN Trail(bars, en, e, j)
              ELSE e.dir * bars[j].c
    IN [exit |-> j, final |-> over # {}, pnl |-> px - e.dir * en.px - Friction]

\* run_bakeoff, for one event: the schemes that entered, and their trades.
Entries(bars, e) ==
    LET it == CHOOSE i \in DOMAIN bars : bars[i].ts = e.ts
        Entry(s, en) == [scheme |-> s, event |-> e, en |-> en]
        tried == {Entry("E1", EntryE1(bars, it, e)), Entry("E2", EntryE2(bars, it, e)),
                  Entry("E3", EntryE3(bars, it, e))}
    IN {x \in tried : x.en # NoEntry}

Trade(bars, x) ==
    LET m == Manage(bars, x.en, x.event)
    IN [scheme |-> x.scheme, event |-> x.event, en |-> x.en,
        exit |-> m.exit, final |-> m.final, pnl |-> m.pnl]

Trades(bars, e) == {Trade(bars, x) : x \in Entries(bars, e)}

\* Twice the result of the hybrid E4, half a contract in each of its legs.
Hybrid(T) ==
    MapThenSumSet(LAMBDA t : t.pnl, {t \in T : t.scheme \in {"E2", "E3"}})
=============================================================================
