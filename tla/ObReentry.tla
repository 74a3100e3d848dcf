----------------------------- MODULE ObReentry -----------------------------
(***************************************************************************)
(* src/engine/ob_reentry.py: a long at the top of an order block, repeated *)
(* each time the price has left the block upwards and comes back.          *)
(*                                                                         *)
(* on_bar is one step.  Whether a bar of the formation window completes a  *)
(* zone is a free choice over ATR, body and breakout; the counter of       *)
(* skipped taps is left out.                                               *)
(***************************************************************************)
EXTENDS EngineBars

VARIABLES
    zones,    \* self.zones
    formed,   \* self._zid
    held,     \* in_pos with stop, target, entry_ts as an age, _entry_zid
    spent,    \* zones entered and not departed from since (history)
    broken,   \* zones a bar has closed below the low of (history)
    dec       \* what on_bar returned

vars == <<zones, formed, held, spent, broken, dec>>

\* in_pos = False, _entry_zid = None.
Flat == [stop |-> 0, target |-> 0, age |-> 0, zid |-> 0]

Init ==
    /\ zones = {} /\ formed = 0 /\ held = Flat
    /\ spent = {} /\ broken = {} /\ dec = NoDecision

\* The zones a bar trades wholly above (history).
Departed(b) == {z.id : z \in {y \in zones : b.l > y.high}}

\* Mutant of Exits: the position goes when the hold has been exceeded.
ExitsLate(p, b, dt) ==
    b.l <= p.stop \/ b.h >= p.target \/ p.age + dt > MaxHold

\* 1) The stop, the target or the end of the hold.
Exits(p, b, dt) ==
    b.l <= p.stop \/ b.h >= p.target \/ p.age + dt >= MaxHold

\* _finish: a close below its low ends a zone, but not the one held.
Finished(zs, b, zid) == {z \in zs : ~(b.c < z.low /\ z.id # zid)}

Exit(b, dt) ==
    /\ held # Flat /\ Exits(held, b, dt)
    /\ held' = Flat /\ dec' = ExitLong
    /\ zones' = Finished(zones, b, 0)
    /\ spent' = spent \ Departed(b)
    /\ UNCHANGED formed

\* Mutant of Rearmed: a bar that reaches above the zone is enough.
RearmedByHigh(b) == {[z EXCEPT !.armed = @ \/ b.h > z.high] : z \in zones}

\* 2) A bar wholly above a zone arms it again.
Rearmed(b) == {[z EXCEPT !.armed = @ \/ b.l > z.high] : z \in zones}

Tapped(b) == {z \in Rearmed(b) : z.armed /\ b.l <= z.high}

\* 3) Flat, the first armed zone the bar reaches is entered at its top.
Entered(z) ==
    [stop |-> z.low - StopPad,
     target |-> z.high + TargetR * Greatest(z.high - z.low, RiskFloor),
     age |-> 0, zid |-> z.id]

Disarmed(zs, z) == (zs \ {z}) \cup {[z EXCEPT !.armed = FALSE]}

\* 4) A displacement bar of the window leaves a zone.
Formed(low, high) ==
    [id |-> formed + 1, low |-> low, high |-> high, armed |-> TRUE]

\* The rest of the bar when nothing was closed: what is held at its end, the
\* zones it leaves, and the zone it forms, if any.
Carry(b, p, zs) ==
    /\ held' = p
    /\ \/ zones' = Finished(zs, b, p.zid) /\ UNCHANGED formed
       \/ /\ formed < MaxZones /\ formed' = formed + 1
          /\ \E low, high \in Prices :
               /\ low < high
               /\ zones' = Finished(zs \cup {Formed(low, high)}, b, p.zid)

Hold(b, dt) ==
    /\ held # Flat /\ ~Exits(held, b, dt)
    /\ Carry(b, [held EXCEPT !.age = @ + dt], Rearmed(b))
    /\ dec' = NoDecision
    /\ spent' = spent \ Departed(b)

Enter(b) ==
    /\ held = Flat /\ Tapped(b) # {}
    /\ LET z == Oldest(Tapped(b)) IN
       /\ Carry(b, Entered(z), Disarmed(Rearmed(b), z))
       /\ spent' = (spent \ Departed(b)) \cup {z.id}
    /\ dec' = EnterLong

Pass(b) ==
    /\ held = Flat /\ Tapped(b) = {}
    /\ Carry(b, Flat, Rearmed(b))
    /\ dec' = NoDecision
    /\ spent' = spent \ Departed(b)

OnBar(b, dt) ==
    /\ broken' = broken \cup {z.id : z \in {y \in zones : b.c < y.low}}
    /\ Exit(b, dt) \/ Hold(b, dt) \/ Enter(b) \/ Pass(b)

Next == \E b \in BarSet, dt \in Gaps : OnBar(b, dt)

Spec == Init /\ [][Next]_vars
-----------------------------------------------------------------------------
Zones == [id : 1..MaxZones, low : Prices, high : Prices, armed : BOOLEAN]

Positions == [stop : Int, target : Int, age : 0..MaxHold, zid : 1..MaxZones]

ReentryTypeOK ==
    /\ zones \subseteq Zones /\ formed \in 0..MaxZones
    /\ held = Flat \/ held \in Positions
    /\ spent \subseteq 1..MaxZones /\ broken \subseteq 1..MaxZones
    /\ dec \in {NoDecision, EnterLong, ExitLong}

(* No position outlives max_hold: the first bar at or past it closes it,     *)
(* also across a gap of the feed (ob_reentry.py:88-95).                      *)
HeldWithinMaxHold == held # Flat => held.age < MaxHold

(* A zone entered and not departed from is not armed, and ids are not used   *)
(* again: why no zone is entered twice without the price leaving it.         *)
ZonesOnce ==
    /\ \A y, z \in zones : y.id = z.id => y = z
    /\ \A z \in zones : z.id <= formed /\ (z.id \in spent => ~z.armed)
    /\ \A i \in spent : i <= formed
=============================================================================
