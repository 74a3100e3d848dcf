------------------------------- MODULE LvlImb -------------------------------
(***************************************************************************)
(* src/engine/lvl_imb.py: a long from the middle of an order-block zone,   *)
(* held under a structural stop and then under a trailing one.             *)
(*                                                                         *)
(* on_bar is one step.  Whether a bar completes a zone, and which candle   *)
(* is its order block, is a free choice over ATR, swing and imbalance; so  *)
(* is the EMA gate.  The fields of a position that only a held position    *)
(* reads live in the record held; instrumentation counters are left out.   *)
(***************************************************************************)
EXTENDS EngineBars, Sequences

VARIABLES
    zones,    \* self.zones
    formed,   \* zones formed so far; the id of a zone is its number (history)
    held,     \* in_pos with entry, stop, trail_active, trail and _lows6
    spent,    \* zones that gave an entry (history)
    broken,   \* zones a bar has closed below the low of (history)
    dec       \* what on_bar returned

\* in_pos = False, with the values of __init__.
Flat == [entry |-> 0, stop |-> 0, trail |-> 0, trail_active |-> FALSE,
         lows |-> <<>>, zid |-> 0]

vars == <<zones, formed, held, spent, broken, dec>>

Sessions == {"formation", "NY", "other"}

Mid(z)  == (z.low + z.high) \div 2
Stop(z) == z.low - (3 * (z.high - z.low)) \div 4

Lowest(s) == CHOOSE x \in {s[i] : i \in DOMAIN s} : \A i \in DOMAIN s : x <= s[i]

\* A deque of TrailSwing lows.
Push(s, x) == IF Len(s) < TrailSwing THEN Append(s, x) ELSE Append(Tail(s), x)

\* The stop a held position is under.
Level(p) == IF p.trail_active THEN Greatest(p.stop, p.trail) ELSE p.stop

Init ==
    /\ zones = {} /\ formed = 0 /\ held = Flat
    /\ spent = {} /\ broken = {} /\ dec = NoDecision

\* Mutant of Trailed: +1R has to be reached again on every bar.
TrailedUnlatched(p, b) ==
    LET active == b.h >= p.entry + (p.entry - p.stop)
    IN [p EXCEPT !.trail_active = active,
                 !.trail = IF active /\ p.lows # <<>>
                           THEN Greatest(@, Lowest(p.lows)) ELSE @]

\* From +1R on the position trails under the lowest of its last lows.
Trailed(p, b) ==
    LET active == p.trail_active \/ b.h >= p.entry + (p.entry - p.stop)
    IN [p EXCEPT !.trail_active = active,
                 !.trail = IF active /\ p.lows # <<>>
                           THEN Greatest(@, Lowest(p.lows)) ELSE @]

\* 1) A held position: nothing else of on_bar is reached, the zones included.
Manage(b) ==
    /\ held # Flat
    /\ LET p == Trailed(held, b) IN
       IF b.l <= Level(p)
       THEN held' = Flat /\ dec' = ExitLong
       ELSE /\ held' = [p EXCEPT !.lows = Push(@, b.l)]
            /\ dec' = NoDecision
    /\ UNCHANGED <<zones, formed, spent>>

\* 2) A close below its low ends a zone.
Valid(b) == {z \in zones : b.c >= z.low}

Tapped(b) == {z \in Valid(b) : ~z.tapped_ny /\ b.l <= Mid(z)}

\* The first tapped zone has had its NY tap.
Consume(b) ==
    LET z == Oldest(Tapped(b))
    IN (Valid(b) \ {z}) \cup {[z EXCEPT !.tapped_ny = TRUE]}

\* 3) The first NY tap of a zone enters at its middle if the gate lets it.
Tap(b, gate) ==
    /\ held = Flat /\ Tapped(b) # {}
    /\ zones' = Consume(b)
    /\ IF gate
       THEN LET z == Oldest(Tapped(b)) IN
            /\ held' = [entry |-> Mid(z), stop |-> Stop(z), trail |-> Stop(z),
                        trail_active |-> FALSE, lows |-> <<>>, zid |-> z.id]
            /\ spent' = spent \cup {z.id}
            /\ dec' = EnterLong
       ELSE UNCHANGED <<held, spent>> /\ dec' = NoDecision
    /\ UNCHANGED formed

\* 4) A displacement leg of the formation session leaves a zone.
Form(b) ==
    /\ held = Flat /\ formed < MaxZones
    /\ \E low, high \in Prices :
         /\ low < high
         /\ zones' = Valid(b) \cup {[id |-> formed + 1, low |-> low,
                                     high |-> high, tapped_ny |-> FALSE]}
    /\ formed' = formed + 1
    /\ dec' = NoDecision
    /\ UNCHANGED <<held, spent>>

Pass(b) ==
    /\ held = Flat /\ zones' = Valid(b) /\ dec' = NoDecision
    /\ UNCHANGED <<formed, held, spent>>

OnBar(b, sess, gate) ==
    /\ broken' = broken \cup {z.id : z \in zones \ Valid(b)}
    /\ \/ Manage(b)
       \/ sess = "NY" /\ Tap(b, gate)
       \/ sess = "formation" /\ Form(b)
       \/ (sess = "NY" => Tapped(b) = {}) /\ Pass(b)

Next == \E b \in BarSet, sess \in Sessions, gate \in BOOLEAN :
            OnBar(b, sess, gate)

Spec == Init /\ [][Next]_vars
-----------------------------------------------------------------------------
Zones == [id : 1..MaxZones, low : Prices, high : Prices, tapped_ny : BOOLEAN]

Positions == [entry : Int, stop : Int, trail : Int, trail_active : BOOLEAN,
              lows : Seq(Prices), zid : 1..MaxZones]

LvlTypeOK ==
    /\ zones \subseteq Zones /\ formed \in 0..MaxZones
    /\ held = Flat \/ held \in Positions
    /\ spent \subseteq 1..MaxZones /\ broken \subseteq 1..MaxZones
    /\ dec \in {NoDecision, EnterLong, ExitLong}

(* While a position is held the stop it is under never moves down, whatever  *)
(* the swing low does ("ratchet", lvl_imb.py:15 and :93).                    *)
LevelKept == held # Flat /\ held' # Flat => Level(held') >= Level(held)
StopNeverLoosens == [][LevelKept]_vars

(* A position survives only bars that stay above the stop it is under once   *)
(* the bar has moved it: the last low kept is above it (lvl_imb.py:91-100).  *)
LastLowAboveStop ==
    held # Flat /\ held.lows # <<>> => held.lows[Len(held.lows)] > Level(held)

(* A zone is one entry at most: what keeps it so is that the tap that enters  *)
(* marks it, that a mark is never undone, and that ids are not used again.   *)
ZonesOnce ==
    /\ \A y, z \in zones : y.id = z.id => y = z
    /\ \A z \in zones : z.id <= formed /\ (z.id \in spent => z.tapped_ny)
    /\ \A i \in spent : i <= formed

FreshEntry == held = Flat /\ held' # Flat => held'.zid \notin spent
NoEntryIntoSpentZone == [][FreshEntry]_vars

Contract == INSTANCE EngineContract
            WITH pos <- IF held = Flat THEN 0 ELSE 1, Sizes <- {1}
ContractSpec == Contract!Spec
=============================================================================
