-------------------------- MODULE SessionContext --------------------------
(***************************************************************************)
(* src/session/context.py over the sessions of src/data/model.py: the      *)
(* running highs, lows and volume-weighted sums, and the levels a session  *)
(* or a Globex day leaves behind when it ends.                             *)
(*                                                                         *)
(* A (high, low) pair of the code is one record, None is NoRange.  The     *)
(* regime inputs, which nothing here reads, are left out.                  *)
(***************************************************************************)
EXTENDS Sessions, Ohlc

VARIABLES
    cur_session, cur_day,
    day_range, ny_range, sess_range,    \* _day_high/_low, _ny_*, _sess_*
    day_sum, sess_sum,                  \* _day_pv/_day_v, _sess_pv/_sess_v
    levels                              \* the LevelState

contextVars == <<cur_session, cur_day, day_range, ny_range, sess_range,
                 day_sum, sess_sum, levels>>

NoRange == [hi |-> -1, lo |-> -1]

Widen(r, b) ==
    IF r = NoRange THEN [hi |-> b.h, lo |-> b.l]
    ELSE [hi |-> Greatest(r.hi, b.h), lo |-> Least(r.lo, b.l)]

NoSum == [pv |-> 0, v |-> 0]

\* Three times the typical price stands for it.
AddTo(s, b) == [pv |-> s.pv + (b.h + b.l + b.c) * b.v, v |-> s.v + b.v]

ContextInit ==
    /\ cur_session = "none" /\ cur_day = -1
    /\ day_range = NoRange /\ ny_range = NoRange /\ sess_range = NoRange
    /\ day_sum = NoSum /\ sess_sum = NoSum
    /\ levels = [prior_day |-> NoRange, prior_ny |-> NoRange,
                 asia |-> NoRange, london |-> NoRange]

\* Mutant of RolledDay: the last day's Asia and London levels stay.
RolledDayOnly(L) ==
    [L EXCEPT !.prior_day = IF day_range = NoRange THEN @ ELSE day_range,
              !.prior_ny = IF ny_range = NoRange THEN @ ELSE ny_range]

\* _roll_day, what it does to the levels.
RolledDay(L) ==
    [L EXCEPT !.prior_day = IF day_range = NoRange THEN @ ELSE day_range,
              !.prior_ny = IF ny_range = NoRange THEN @ ELSE ny_range,
              !.asia = NoRange, !.london = NoRange]

\* _roll_session, likewise; cur_session is prev.
RolledSession(L) ==
    [L EXCEPT !.asia = IF cur_session = "ASIA" THEN sess_range ELSE @,
              !.london = IF cur_session = "LONDON" THEN sess_range ELSE @]

\* on_bar: the day rolls first, then the session, then the bar is added.
ContextOnBar(b) ==
    LET sess == TagSession(b.ts)
        day == GlobexDay(b.ts)
        rolledDay == day # cur_day
        rolledSession == sess # cur_session
        L == IF rolledDay THEN RolledDay(levels) ELSE levels
        ny == IF rolledDay THEN NoRange ELSE ny_range
    IN /\ cur_session' = sess
       /\ cur_day' = day
       /\ levels' = IF rolledSession THEN RolledSession(L) ELSE L
       /\ day_range' = Widen(IF rolledDay THEN NoRange ELSE day_range, b)
       /\ ny_range' = IF sess \in NewYork THEN Widen(ny, b) ELSE ny
       /\ sess_range' = Widen(IF rolledSession THEN NoRange ELSE sess_range, b)
       /\ day_sum' = AddTo(IF rolledDay THEN NoSum ELSE day_sum, b)
       /\ sess_sum' = AddTo(IF rolledSession THEN NoSum ELSE sess_sum, b)
=============================================================================
