-------------------------- MODULE FeedProperties --------------------------
(***************************************************************************)
(* What the consumers of Feed make of their stream, against the whole      *)
(* stream.                                                                 *)
(***************************************************************************)
EXTENDS Feed

\* A sub-bar is late for a timeframe if a later bucket has begun.
Late(i, step) ==
    \E j \in 1..(i - 1) : Bucket(seen[j].ts, step) > Bucket(seen[i].ts, step)

\* The file without the rows that were late.
OnTime(step) == [i \in {j \in DOMAIN seen : ~Late(j, step)} |-> seen[i]]

(* The bars a bridge hands to its engines, with the one in progress, are     *)
(* those resample.py makes of the same sub-bars without the late ones        *)
(* ("true OHLC (epoch-aligned, matches resample.py)",                        *)
(* multi_engine_bridge.py:9; "Mirrors src/data/resample.py",                 *)
(* ib_fade_bridge.py:62): each bucket once, in order, nothing lost.  On live *)
(* quotes, resampled one by one, nothing is late.                            *)
BarsMatchResample ==
    program \in {"aggregators", "live"} =>
      \A s \in Steps :
        /\ closed[s] \o (IF bucket[s] = Agg!NoBar THEN <<>> ELSE <<bucket[s]>>)
             = Resample(OnTime(s), s)
        /\ program = "live" => \A i \in DOMAIN seen : ~Late(i, s)
-----------------------------------------------------------------------------
RangeOf(I) ==
    IF I = {} THEN Ctx!NoRange
    ELSE [hi |-> Max({seen[i].h : i \in I}), lo |-> Min({seen[i].l : i \in I})]

SumOf(I) ==
    [pv |-> MapThenSumSet(LAMBDA i : (seen[i].h + seen[i].l + seen[i].c) * seen[i].v, I),
     v |-> MapThenSumSet(LAMBDA i : seen[i].v, I)]

DayOf(i) == Ctx!GlobexDay(seen[i].ts)
SessionOf(i) == Ctx!TagSession(seen[i].ts)
Today == {i \in DOMAIN seen : DayOf(i) = DayOf(Len(seen))}

\* The bars of I on the last earlier day that has any.
LastDay(I) ==
    LET before == I \ Today
    IN {i \in before : \A j \in before : DayOf(j) <= DayOf(i)}

\* The session that was running when today began, or none.
RanInto ==
    IF Min(Today) = 1 THEN "none" ELSE SessionOf(Min(Today) - 1)

(* What the context machine says about days and sessions is what their bars  *)
(* were: prior day, prior New York session and day sums always; Asia and     *)
(* London levels and the session's sums if the feed did not fall silent in   *)
(* one session and come back in the next day's same, or, for the levels, in  *)
(* Asia or London (context.py:51-56: the day's levels are cleared before the *)
(* session that ran is credited).                                            *)
LevelsMatchHistory ==
    program = "context" /\ seen # <<>> =>
      LET now == SessionOf(Len(seen))
          Was(s) == IF now = s THEN Ctx!NoRange
                    ELSE RangeOf({i \in Today : SessionOf(i) = s})
      IN /\ levels.prior_day = RangeOf(LastDay(DOMAIN seen))
         /\ levels.prior_ny =
              RangeOf(LastDay({i \in DOMAIN seen : SessionOf(i) \in Ctx!NewYork}))
         /\ day_sum = SumOf(Today)
         /\ RanInto \notin {"ASIA", "LONDON"} =>
              levels.asia = Was("ASIA") /\ levels.london = Was("LONDON")
         /\ RanInto # SessionOf(Min(Today)) =>
              sess_sum = SumOf({i \in Today : SessionOf(i) = now})
-----------------------------------------------------------------------------
(* Every shock event describes the bars of the window before it, and two     *)
(* shocks of one direction are at least a cooldown apart, whatever came in   *)
(* between (shock.py:98-130).                                                *)
ShocksMatchHistory ==
    \A n \in DOMAIN events :
      LET e == events[n]
          W == {i \in DOMAIN seen : seen[i].ts \in (e.ts - WindowLen)..e.ts}
          move == seen[Max(W)].c - seen[Min(W)].o
      IN /\ seen[Max(W)].ts = e.ts /\ Cardinality(W) >= 2
         /\ e.open = seen[Min(W)].o
         /\ e.range = move * e.dir /\ e.range >= Min(Thresholds)
         /\ e.extreme = (IF e.dir = 1 THEN RangeOf(W).hi ELSE RangeOf(W).lo)
         /\ SumOf(W).v > 0
         /\ \A m \in 1..(n - 1) :
              events[m].dir = e.dir => e.ts - events[m].ts >= Cooldown

ShockEntries == UNION {Shock!Entries(seen, events[n]) : n \in DOMAIN events}
ShockTrades == UNION {Shock!Trades(seen, events[n]) : n \in DOMAIN events}

(* The trades of the shock engine, which is run over all bars at once, are   *)
(* those a live one would have made ("The engine logic is identical to what  *)
(* a live feed would drive", shock_v1.py:12-13): a bar adds only entries on  *)
(* it, takes none away, and changes no trade that was over.                  *)
ShockTradesCausal ==
    [][/\ ShockEntries \subseteq ShockEntries'
       /\ \A x \in ShockEntries' \ ShockEntries : x.en.i = Len(seen')
       /\ {t \in ShockTrades : t.final} \subseteq ShockTrades']_vars

(* Unless the bars end with its entry, a trade loses at most 45% of the      *)
(* impulse and the friction, the hybrid as much of its legs; and it is over  *)
(* at the first bar that has reached the guard, or, without +1R, an hour.    *)
ShockTradesBounded ==
    \A n \in DOMAIN events :
      LET T == Shock!Trades(seen, events[n])
          worst == -((9 * events[n].range) \div 20) - Friction
          walked == {t \in T : t.exit > t.en.i}
      IN /\ \A t \in walked : t.pnl >= worst
         /\ walked = T => Shock!Hybrid(T) >= 2 * worst
         /\ \A t \in T : \A j \in (t.en.i + 1)..(t.exit - 1) :
              /\ seen[j].ts < Shock!Guard(seen[t.en.i].ts)
              /\ seen[j].ts - seen[t.en.i].ts >= ScratchAfter =>
                   \E k \in (t.en.i + 1)..j :
                     Far(seen[k], t.event.dir) - t.event.dir * t.en.px
                       >= t.event.range
-----------------------------------------------------------------------------
Days == Reports!LoadDays(seen)
Directions == {"up", "down"}

BucketsPartGaps ==
    LET bySize == Reports!GapFillBySize(Days)
        gaps == Reports!GapFill(Days)
    IN \A dir \in Directions :
         /\ gaps[dir].n = MapThenSumSet(LAMBDA k : bySize[k][dir].n, DOMAIN bySize)
         /\ gaps[dir].filled =
              MapThenSumSet(LAMBDA k : bySize[k][dir].filled, DOMAIN bySize)

FadesFollowGaps ==
    \A k \in DOMAIN Buckets, dir \in Directions, rr \in {1, 2} :
      LET T == Reports!FadeTrades(Days, [min |-> Buckets[k][1],
                 max |-> Buckets[k][2], dirs |-> {dir}, rr |-> rr])
          gaps == Reports!GapFillBySize(Days)[k][dir]
          Gap(t) == Abs(Reports!Gap(t.day))
          Lost(t) == t.points = -rr * Gap(t)
      IN /\ Cardinality(T) = gaps.n
         /\ Cardinality({t \in T : t.won}) <= gaps.filled
         /\ \A t \in T :
              /\ t.won => t.points = Gap(t)
              /\ ~t.won => t.points < Gap(t)
              /\ Reports!Filled(t.day) /\ ~t.won => Lost(t)
              /\ -rr * Gap(t) <= t.points

RangesFollowOpenings ==
    LET opening == Reports!OpeningStats(Days)
        range == Reports!PreviousDaysRange(Days)
        orb == Reports!Orb(Days)
    IN /\ opening.above <= range.pdh /\ opening.below <= range.pdl
       /\ opening.above <= Reports!GapFill(Days).up.n
       /\ opening.below <= Reports!GapFill(Days).down.n
       /\ opening.inside >= 0
       /\ orb.cont <= orb.up /\ orb.up <= orb.n

(* The reports of a list of days tell one story.  The buckets of gap sizes   *)
(* part the gaps and the filled ones, and the cells of a sweep over the same *)
(* sizes trade exactly the gaps the report counts; a fade wins on a filled   *)
(* day only, and one that does not win on a filled day was stopped; without  *)
(* a win or a stop it makes less than the gap either way.  A day that opens  *)
(* beyond the range of the day before has a gap and has broken that range.   *)
GapViewsAgree ==
    program = "days" =>
      BucketsPartGaps /\ FadesFollowGaps /\ RangesFollowOpenings
-----------------------------------------------------------------------------
(* A held entry makes at most what its excursion shows and loses at most     *)
(* what its adverse one does ("so the excursion window and exit are always   *)
(* well-defined", drift_control.py:88-89), long and short alike.             *)
DriftWithinExcursion ==
    chosen # <<>> =>
      \A d \in {-1, 1} :
        LET r == Drift!DriftResult(seen, d)
            paid == r.n * DriftFriction
        IN /\ -r.mae <= r.total + paid /\ r.total + paid <= r.mfe
           /\ r.total + Drift!DriftResult(seen, -d).total = -2 * paid
=============================================================================
