---------------------------- MODULE RoundTrips ----------------------------
(***************************************************************************)
(* The walk of trade_log.py and session_report.py over the account's fills *)
(* in time order: a trip opens when the position leaves zero and closes    *)
(* when it is back.  One step is one turn of the loop.  A trip is labelled *)
(* with the strategy of a line the bridge logged for an entry of its side  *)
(* at about its time, if there is one.                                     *)
(***************************************************************************)
EXTENDS Amounts, SequencesExt

CONSTANT MatchWithin    \* three minutes

VARIABLES pos, op, trips,
          fills,       \* executions walked over
          now,         \* the time of the last
          enters,      \* the FILL ENTER lines of the bridge's log, in order
          cash,        \* history: what the executions paid and brought in
          scaled       \* history: a fill neither left nor reached zero

tripVars == <<pos, op, trips, fills, now, enters, cash, scaled>>

NoTrip == [qty |-> 0]

TripsInit ==
    /\ pos = 0 /\ op = NoTrip /\ trips = <<>>
    /\ fills = 0 /\ now = 0 /\ enters = <<>>
    /\ cash = 0 /\ scaled = FALSE

Sign(n) == IF n > 0 THEN 1 ELSE -1

\* Mutant of Points: a short trip earns what the price gained, too.
PointsUnsigned(o, px) == px - o.epx

Points(o, px) == IF o.side = 1 THEN px - o.epx ELSE o.epx - px

Closed(o, px) == [side |-> o.side, epx |-> o.epx, qty |-> o.qty,
                  etime |-> o.etime, no |-> o.no, pts |-> Points(o, px)]

\* no is the execution a trip began with.
Pair(signed, px, etime) ==
    LET after == pos + signed
    IN \/ /\ pos = 0 /\ after # 0
          /\ op' = [side |-> Sign(after), epx |-> px, qty |-> Abs(after),
                    etime |-> etime, no |-> fills']
          /\ UNCHANGED trips
       \/ /\ pos # 0 /\ after = 0 /\ op # NoTrip
          /\ trips' = Append(trips, Closed(op, px))
          /\ op' = NoTrip
       \/ /\ ~(pos = 0 /\ after # 0)
          /\ ~(pos # 0 /\ after = 0 /\ op # NoTrip)
          /\ UNCHANGED <<op, trips>>

Execution(signed, px, wait) ==
    /\ fills' = fills + 1 /\ now' = now + wait
    /\ Pair(signed, px, now')
    /\ pos' = pos + signed
    /\ cash' = cash - signed * px
    /\ scaled' = (scaled \/ (pos # 0 /\ pos' # 0))

\* The bridge logs nothing of an exit, a flatten, an entry whose call gave up,
\* or the trade of somebody else.
Unlogged == UNCHANGED enters

\* Mutant of LineOf: the line has the price of the signal.
LineOfSignal(signed, px, sig, ts) ==
    [ts |-> ts, side |-> Sign(signed), px |-> sig]

\* The entry= of the line is the broker's fill.
LineOf(signed, px, sig, ts) == [ts |-> ts, side |-> Sign(signed), px |-> px]

\* The bridge's own entry, logged when its call returned with the fill; the
\* bridge does one thing after another.
Logged(signed, px, sig, lag) ==
    /\ \A r \in ToSet(enters) : r.ts <= now'
    /\ LET line == LineOf(signed, px, sig, now' + lag)
       IN enters' = Append(enters, [ts |-> line.ts, side |-> line.side,
                                    px |-> line.px, etime |-> now', no |-> fills'])

External == [no |-> 0]    \* "(manual/external)"

\* Mutant of Match: of either side.
MatchAnySide(t) ==
    LET Off(i) == Abs(enters[i].ts - t.etime)
        near == {i \in DOMAIN enters : Off(i) < MatchWithin}
        best == {i \in near : \A j \in near : Off(i) <= Off(j)}
    IN IF near = {} THEN External ELSE enters[Min(best)]

\* label and match: the closest line, of equally close ones the first.
Match(t) ==
    LET Off(i) == Abs(enters[i].ts - t.etime)
        near == {i \in DOMAIN enters :
                   enters[i].side = t.side /\ Off(i) < MatchWithin}
        best == {i \in near : \A j \in near : Off(i) <= Off(j)}
    IN IF near = {} THEN External ELSE enters[Min(best)]

\* What the report prints as the cost of the entry, where it has a line.
Slip(t) == t.side * (t.epx - Match(t).px)

\* The total both programs print, in points times contracts.
TotalOf(T) ==
    LET AddTrip(sum, t) == sum + t.pts * t.qty
    IN FoldLeft(AddTrip, 0, T)
=============================================================================
