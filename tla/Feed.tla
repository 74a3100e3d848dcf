------------------------------- MODULE Feed -------------------------------
(***************************************************************************)
(* The consumers of a stream of bars, each run on its own: the aggregators *)
(* of a bridge on a replay and on live quotes, the session context, the    *)
(* shock detector and engine, the gap reports, the drift control.          *)
(*                                                                         *)
(* A replay meets sub-bars in any order (its file is not sorted), polled   *)
(* quotes come as the clock runs, the others get a sorted stream.  Any     *)
(* stream may have gaps.                                                   *)
(***************************************************************************)
EXTENDS Ohlc

CONSTANTS
    Shapes,      \* program -> o, h, l, c, v a bar can have
    Horizon,     \* program -> bound on the times of its bars
    MaxBars,     \* program -> bound on the length of its stream
    Steps,
    DayLen, AsiaEnd, LondonEnd, AmEnd, PmEnd,
    WindowLen, Cooldown, Thresholds, VolMultiple, Baselines,
    PullbackLen, BreakFrom, BreakLen, TwoTicks, SwingLen, ScratchAfter,
    GuardAt, Friction,
    SessStart, SessEnd, OrEnd, Buckets, FadeFriction,
    HorizonBars, DriftFriction, DriftSession, MaxDraws,
    Quotes,      \* the prices a poll can find
    Polls,       \* polls per sub-bar
    Lags         \* what the loop takes on top of its sleeps, in polls

Programs == {"aggregators", "live", "context", "shock", "days", "drift"}

\* The open and the close of a bar lie between its low and its high.
IsShape(s) ==
    /\ s \in [o : Nat, h : Nat, l : Nat, c : Nat, v : Nat]
    /\ s.l <= s.o /\ s.o <= s.h /\ s.l <= s.c /\ s.c <= s.h

\* The buckets of sizes follow one another, from no gap to more than any two
\* prices make (EDGEFUL_BUCKETS).
SizesCovered ==
    /\ Buckets \in Seq(Nat \X Nat) /\ Buckets # <<>> /\ Buckets[1][1] = 0
    /\ \A j, k \in DOMAIN Buckets :
         /\ k = j + 1 => Buckets[j][2] = Buckets[k][1]
         /\ j < k => Buckets[j][2] <= Buckets[k][1]
    /\ \A s, q \in Shapes["days"] :
         1000 * Abs(s.o - q.c) < Buckets[Len(Buckets)][2] * q.c

\* Sessions follow one another through the day; the floor of the detector's
\* threshold is a positive part of a positive price.
ASSUME FeedAssumption ==
    /\ Steps \subseteq Nat \ {0}
    /\ {AsiaEnd, LondonEnd, AmEnd, PmEnd, DayLen} \subseteq Nat
    /\ 0 < AsiaEnd /\ AsiaEnd < LondonEnd /\ LondonEnd < AmEnd
    /\ AmEnd < PmEnd /\ PmEnd < DayLen
    /\ WindowLen \in Nat /\ Cooldown \in Nat
    /\ Thresholds \subseteq Nat \ {0}
    /\ Baselines \subseteq Nat /\ VolMultiple \in Nat \ {0}
    /\ {PullbackLen, BreakFrom, BreakLen, TwoTicks, ScratchAfter} \subseteq Nat
    /\ SwingLen \in Nat \ {0} /\ GuardAt \in Nat /\ Friction \in Nat
    /\ HorizonBars \in Nat \ {0} /\ DriftFriction \in Nat
    /\ Polls \in Nat \ {0} /\ Lags \subseteq Nat /\ Quotes \subseteq Nat \ {0}
    /\ SizesCovered
    /\ Horizon \in [Programs -> Nat]
    /\ \A p \in Programs : \A s \in Shapes[p] : IsShape(s)

VARIABLES
    program,     \* the consumer
    seen,        \* the bars it was given, in order; of polls, the quotes
    ended,
    clock,       \* the time, in polls
    bucket, closed,
    cur_session, cur_day, day_range, ny_range, sess_range,
    day_sum, sess_sum, levels,
    window, cooldown, events,
    chosen

aggVars == <<bucket, closed>>
contextVars == <<cur_session, cur_day, day_range, ny_range, sess_range,
                 day_sum, sess_sum, levels>>
detectorVars == <<window, cooldown, events>>
vars == <<program, seen, ended, clock, aggVars, contextVars, detectorVars,
          chosen>>

Agg == INSTANCE BarAggregator
Ctx == INSTANCE SessionContext
Det == INSTANCE ShockDetector
Shock == INSTANCE ShockEngine
Reports == INSTANCE GapReports
Drift == INSTANCE DriftControl

Init ==
    /\ program \in Programs
    /\ seen = <<>> /\ ended = FALSE /\ clock = 0
    /\ Agg!AggInit /\ Ctx!ContextInit /\ Det!DetectorInit /\ Drift!DriftInit

Arrives(b) ==
    /\ ~ended /\ Len(seen) < MaxBars[program]
    /\ seen' = Append(seen, b)
    /\ UNCHANGED <<program, ended, clock>>

\* Sub-bars as they come.
Sub_Bar ==
    /\ program = "aggregators"
    /\ \E ts \in 0..Horizon[program], s \in Shapes[program] :
         /\ Arrives(Bar(ts, s))
         /\ Agg!FeedSubBar(Bar(ts, s))
    /\ UNCHANGED <<contextVars, detectorVars, chosen>>

\* The sub-bar of the quotes a turn of the loop found; only last or close, if
\* positive, is one.
PollOneMinute(label, quotes) ==
    LET found == {quotes[i] : i \in DOMAIN quotes}
    IN Bar(label, [o |-> quotes[1], h |-> Max(found), l |-> Min(found),
                   c |-> quotes[Len(quotes)], v |-> 0])

Quote(ts, px) == Bar(ts, [o |-> px, h |-> px, l |-> px, c |-> px, v |-> 0])

\* One turn of the polling loop: the sub-bar of the quotes, if any, with the
\* label of the time at which the last poll returned.
Poll ==
    /\ program = "live" /\ ~ended
    /\ \E n \in 0..Polls : \E quotes \in [1..n -> Quotes], lag \in Lags :
         LET label == clock' \div Polls
         IN /\ clock' = clock + Polls + lag
            /\ label <= Horizon[program]
            /\ seen' = seen \o [i \in 1..n |-> Quote(label, quotes[i])]
            /\ IF n = 0 THEN UNCHANGED aggVars
               ELSE Agg!FeedSubBar(PollOneMinute(label, quotes))
    /\ UNCHANGED <<program, ended, contextVars, detectorVars, chosen>>

Later(ts) == \A i \in DOMAIN seen : seen[i].ts < ts

Context_Bar ==
    /\ program = "context"
    /\ \E ts \in 0..Horizon[program], s \in Shapes[program] :
         /\ Later(ts) /\ Arrives(Bar(ts, s))
         /\ Ctx!ContextOnBar(Bar(ts, s))
    /\ UNCHANGED <<aggVars, detectorVars, chosen>>

Shock_Bar ==
    /\ program = "shock"
    /\ \E ts \in 0..Horizon[program], s \in Shapes[program],
          threshold \in Thresholds, baseline \in Baselines :
         /\ Later(ts) /\ Arrives(Bar(ts, s))
         /\ Det!DetectorOnBar(Bar(ts, s), threshold, baseline)
    /\ UNCHANGED <<aggVars, contextVars, chosen>>

\* load_bars, for the two programs that only read.
Loaded_Bar ==
    /\ program \in {"days", "drift"}
    /\ \E ts \in 0..Horizon[program], s \in Shapes[program] :
         Later(ts) /\ Arrives(Bar(ts, s))
    /\ UNCHANGED <<aggVars, contextVars, detectorVars, chosen>>

Drift_Run ==
    /\ program = "drift" /\ ~ended /\ ended' = TRUE
    /\ \E n \in 1..MaxDraws, replace \in BOOLEAN : Drift!Draw(seen, n, replace)
    /\ UNCHANGED <<program, seen, clock, aggVars, contextVars, detectorVars>>

\* A replay flushes its last bars.
End ==
    /\ program = "aggregators" /\ ~ended /\ ended' = TRUE
    /\ Agg!CloseFinal
    /\ UNCHANGED <<program, seen, clock, contextVars, detectorVars, chosen>>

\* The other streams can end with any bar.
Finished ==
    /\ program = "aggregators" => ended
    /\ UNCHANGED vars

Next ==
    \/ Sub_Bar \/ Poll \/ Context_Bar \/ Shock_Bar \/ Loaded_Bar \/ Drift_Run
    \/ End \/ Finished

Spec == Init /\ [][Next]_vars
=============================================================================
