--------------------------- MODULE BarAggregator ---------------------------
(***************************************************************************)
(* The aggregators of the two bridges: BarAggregator, one per timeframe    *)
(* (multi_engine_bridge.py), and TwoMinAggregator, the same with a fixed   *)
(* step (ib_fade_bridge.py).  Each holds the bar of one bucket and hands   *)
(* it to on_close when a sub-bar of a later bucket arrives.                *)
(***************************************************************************)
EXTENDS Ohlc

CONSTANT Steps    \* the timeframes, in sub-bars

VARIABLES
    bucket,    \* per timeframe the bar being filled: key, o, h, l, c, vol
    closed     \* per timeframe the bars on_close was given

aggVars == <<bucket, closed>>

\* self.key is None.
NoBar == [ts |-> -1]

AggInit ==
    /\ bucket = [s \in Steps |-> NoBar]
    /\ closed = [s \in Steps |-> <<>>]

\* _start
Start(r, step) == [r EXCEPT !.ts = Bucket(@, step)]

\* Mutant of Flushes: any other bucket closes the bar, an earlier one too.
FlushesOnAny(b, k) == b # NoBar /\ k # b.ts

Flushes(b, k) == b # NoBar /\ k > b.ts

\* What add leaves in the bucket; a sub-bar of an earlier one is ignored.
Filled(b, r, step) ==
    LET k == Bucket(r.ts, step)
    IN IF b = NoBar \/ Flushes(b, k) THEN Start(r, step)
       ELSE IF k = b.ts THEN Merge(b, r)
       ELSE b

\* feed_sub_bar: every aggregator gets the sub-bar.
FeedSubBar(r) ==
    /\ bucket' = [s \in Steps |-> Filled(bucket[s], r, s)]
    /\ closed' = [s \in Steps |->
                    IF Flushes(bucket[s], Bucket(r.ts, s))
                    THEN Append(closed[s], bucket[s]) ELSE closed[s]]

\* The end of a replay flushes the bar in progress.
CloseFinal ==
    /\ closed' = [s \in Steps |->
                    IF bucket[s] = NoBar THEN closed[s]
                    ELSE Append(closed[s], bucket[s])]
    /\ bucket' = [s \in Steps |-> NoBar]
=============================================================================
