---------------------------- MODULE GapReports ----------------------------
(***************************************************************************)
(* src/research/edgeful_reports.py: the days of a list of bars, where they *)
(* opened and went against the day before, how many of their gaps were     *)
(* filled, the same by size, the breaks of their opening ranges, and the   *)
(* trades of the gap fade.  A percentage is given by its two counts.       *)
(***************************************************************************)
EXTENDS Ohlc

CONSTANTS DayLen,
          SessStart, SessEnd,   \* the session of a report
          OrEnd,                \* the end of the opening range, by the clock
          Buckets,              \* EDGEFUL_BUCKETS, <<lo, hi>> in 1/10 percent
          FadeFriction

\* Some bars of the list, by their line numbers.
Open(x)  == x[Min(DOMAIN x)].o
Close(x) == x[Max(DOMAIN x)].c
High(x)  == Max({x[i].h : i \in DOMAIN x})
Low(x)   == Min({x[i].l : i \in DOMAIN x})

InReport(ts) == ts % DayLen \in SessStart..(SessEnd - 1)

\* load_days: one record per date with a bar in the session and a date before
\* it that has one, too.
LoadDays(bars) ==
    LET r == {i \in DOMAIN bars : InReport(bars[i].ts)}
        date(i) == bars[i].ts \div DayLen
        dates == {date(i) : i \in r}
        Intraday(q) == [i \in {i \in r : date(i) = q} |-> bars[i]]
        Day(x, prev) ==
          [open |-> Open(x), high |-> High(x), low |-> Low(x),
           close |-> Close(x), intraday |-> x, prev_high |-> High(prev),
           prev_low |-> Low(prev), prev_close |-> Close(prev)]
        Earlier(q) == {p \in dates : p < q}
    IN {Day(Intraday(q), Intraday(Max(Earlier(q)))) :
          q \in {q \in dates : Earlier(q) # {}}}

\* report_previous_days_range.
PreviousDaysRange(days) ==
    LET hi == {d \in days : d.high > d.prev_high}
        lo == {d \in days : d.low < d.prev_low}
        Green(D) == Cardinality({d \in D : d.close >= d.open})
    IN [pdh |-> Cardinality(hi), pdh_green |-> Green(hi),
        pdl |-> Cardinality(lo), pdl_red |-> Cardinality(lo) - Green(lo)]

\* report_opening_stats.
OpeningStats(days) ==
    LET above == Cardinality({d \in days : d.open > d.prev_high})
        below == Cardinality({d \in days : d.open < d.prev_low})
    IN [above |-> above, below |-> below,
        inside |-> Cardinality(days) - above - below]

Gap(d) == d.open - d.prev_close

Filled(d) == IF Gap(d) > 0 THEN d.low <= d.prev_close
             ELSE d.high >= d.prev_close

\* report_gap_fill, as counts.
GapFill(days) ==
    LET Count(D) == [n |-> Cardinality(D),
                     filled |-> Cardinality({d \in D : Filled(d)})]
    IN [up   |-> Count({d \in days : Gap(d) > 0}),
        down |-> Count({d \in days : Gap(d) < 0})]

\* Mutant of InBucket: both ends of a bucket belong to it.
InBucketClosed(d, lo, hi) ==
    1000 * Abs(Gap(d)) \in (lo * d.prev_close)..(hi * d.prev_close)

\* The size of the gap in 1/10 percent of the close before it is in [lo, hi).
InBucket(d, lo, hi) ==
    1000 * Abs(Gap(d)) \in (lo * d.prev_close)..(hi * d.prev_close - 1)

\* report_gap_fill_by_size.
GapFillBySize(days) ==
    [k \in DOMAIN Buckets |->
       GapFill({d \in days : InBucket(d, Buckets[k][1], Buckets[k][2])})]

\* report_orb, the days with bars on both sides of the end of the range.
OpeningRange(d) ==
    {i \in DOMAIN d.intraday : d.intraday[i].ts % DayLen < OrEnd}
Rest(d) == DOMAIN d.intraday \ OpeningRange(d)

Orb(days) ==
    LET orb(d) == [i \in OpeningRange(d) |-> d.intraday[i]]
        rest(d) == [i \in Rest(d) |-> d.intraday[i]]
        D == {d \in days : OpeningRange(d) # {} /\ Rest(d) # {}}
        up == {d \in D : High(rest(d)) > High(orb(d))}
        dn == {d \in D : Low(rest(d)) < Low(orb(d))}
    IN [n |-> Cardinality(D), up |-> Cardinality(up), dn |-> Cardinality(dn),
        cont |-> Cardinality({d \in up : d.close >= High(orb(d))})]

\* backtest_gap_fade, one day: against the gap from the open to the last close,
\* with a stop rr gaps away; a bar that reaches both counts as stopped.
Fade(d, rr) ==
    LET side == IF Gap(d) < 0 THEN 1 ELSE -1
        x == d.intraday
        stop == side * d.open - rr * Abs(Gap(d))
        stops == {j \in DOMAIN x : Near(x[j], side) <= stop}
        wins == {j \in DOMAIN x : Far(x[j], side) >= side * d.prev_close}
        points == IF stops \cup wins = {} THEN side * (d.close - d.open)
                  ELSE IF Min(stops \cup wins) \in stops
                  THEN -(rr * Abs(Gap(d)))
                  ELSE Abs(Gap(d))
    IN [day |-> d, points |-> points, pnl |-> points - FadeFriction,
        won |-> wins # {} /\ Min(stops \cup wins) \notin stops]

\* The trades of a sweep's cell: its sizes, directions and stop.
FadeTrades(days, cfg) ==
    {Fade(d, cfg.rr) :
       d \in {d \in days : /\ InBucket(d, cfg.min, cfg.max)
                           /\ \/ Gap(d) > 0 /\ "up" \in cfg.dirs
                              \/ Gap(d) < 0 /\ "down" \in cfg.dirs}}
=============================================================================
