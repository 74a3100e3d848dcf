------------------------------ MODULE ObNyOpen ------------------------------
(***************************************************************************)
(* src/engine/ob_nyopen.py: a long at the top of an order block of the New *)
(* York open, on its first tap of the same day, once.                      *)
(*                                                                         *)
(* on_bar is one step; the detection of a zone is a free choice, as in     *)
(* ObReentry.                                                              *)
(***************************************************************************)
EXTENDS EngineBars

VARIABLES
    zones,    \* self.zones
    formed,   \* zones formed so far; the id of a zone is its number (history)
    day,      \* self._cur_day
    held,     \* in_pos with stop, target and entry_ts as an age
    spent,    \* zones that gave an entry (history)
    dec       \* what on_bar returned

vars == <<zones, formed, day, held, spent, dec>>

\* in_pos = False.
Flat == [stop |-> 0, target |-> 0, age |-> 0, zid |-> 0]

Init ==
    /\ zones = {} /\ formed = 0 /\ day = 0 /\ held = Flat
    /\ spent = {} /\ dec = NoDecision

\* Mutant of OfDay: yesterday's zones stay.
OfDayAll(d) == zones

\* The zones a bar of day d meets: those of an earlier day have expired.
OfDay(d) == IF d = day THEN zones ELSE {}

\* 1) The stop, the target or the end of the hold.
Exits(p, b, dt) ==
    b.l <= p.stop \/ b.h >= p.target \/ p.age + dt >= MaxHold

Exit(b, dt, d) ==
    /\ held # Flat /\ Exits(held, b, dt)
    /\ held' = Flat /\ dec' = ExitLong
    /\ zones' = OfDay(d)
    /\ UNCHANGED <<formed, spent>>

Tapped(b, d) == {z \in OfDay(d) : z.day = d /\ b.l <= z.high}

\* self.zones.remove(z)
Without(S, z) == S \ {z}

\* 2) Flat, the first zone the bar reaches is entered at its top and dropped.
Enter(b, d) ==
    /\ held = Flat /\ Tapped(b, d) # {}
    /\ LET z == Oldest(Tapped(b, d)) IN
       /\ held' = [stop |-> z.low - StopPad,
                   target |-> z.high
                       + TargetR * Greatest(z.high - z.low, RiskFloor),
                   age |-> 0, zid |-> z.id]
       /\ zones' = Without(OfDay(d), z)
       /\ spent' = spent \cup {z.id}
    /\ dec' = EnterLong
    /\ UNCHANGED formed

\* 3) A displacement bar of the window leaves a zone, held or not.
Detect(d) ==
    \/ zones' = OfDay(d) /\ UNCHANGED formed
    \/ /\ formed < MaxZones /\ formed' = formed + 1
       /\ \E low, high \in Prices :
            /\ low < high
            /\ zones' = OfDay(d) \cup {[id |-> formed + 1, low |-> low,
                                        high |-> high, day |-> d]}

Hold(b, dt, d) ==
    /\ held # Flat /\ ~Exits(held, b, dt)
    /\ held' = [held EXCEPT !.age = @ + dt]
    /\ Detect(d) /\ dec' = NoDecision
    /\ UNCHANGED spent

Pass(b, d) ==
    /\ held = Flat /\ Tapped(b, d) = {}
    /\ Detect(d) /\ dec' = NoDecision
    /\ UNCHANGED <<held, spent>>

OnBar(b, dt, d) ==
    /\ day' = d
    /\ Exit(b, dt, d) \/ Enter(b, d) \/ Hold(b, dt, d) \/ Pass(b, d)

Next == \E b \in BarSet, dt \in Gaps, d \in {day, day + 1} \cap 0..MaxDays :
            OnBar(b, dt, d)

Spec == Init /\ [][Next]_vars
-----------------------------------------------------------------------------
Zones == [id : 1..MaxZones, low : Prices, high : Prices, day : 0..MaxDays]

Positions == [stop : Int, target : Int, age : 0..MaxHold, zid : 1..MaxZones]

NyOpenTypeOK ==
    /\ zones \subseteq Zones /\ \A z \in zones : z.day = day
    /\ formed \in 0..MaxZones /\ day \in 0..MaxDays
    /\ held = Flat \/ held \in Positions
    /\ spent \subseteq 1..MaxZones
    /\ dec \in {NoDecision, EnterLong, ExitLong}

(* No position outlives max_hold, also across a gap of the feed              *)
(* (ob_nyopen.py:97-103).                                                    *)
HeldWithinMaxHold == held # Flat => held.age < MaxHold

(* A zone entered is gone, and ids are not used again: why none is entered   *)
(* twice.                                                                    *)
ZonesOnce ==
    /\ \A y, z \in zones : y.id = z.id => y = z
    /\ \A z \in zones : z.id <= formed /\ z.id \notin spent
    /\ \A i \in spent : i <= formed
=============================================================================
