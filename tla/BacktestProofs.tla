--------------------------- MODULE BacktestProofs ---------------------------
(***************************************************************************)
(* Theorems about the seven engines under the harness, for every set of    *)
(* prices, every gap of the feed and every limit of the configuration.     *)
(*                                                                         *)
(* Each engine is shown to make one of the moves of the contract at every  *)
(* bar, from an invariant of its own; what the harness records follows     *)
(* from the moves alone, for any engine that makes no other.               *)
(***************************************************************************)
EXTENDS Backtest, Sequences, WellFoundedInduction, TLAPS

\* What each engine keeps true.
LvlInv == kind = "lvl_imb" =>
    Lvl!LvlTypeOK /\ Lvl!ZonesOnce /\ Lvl!LastLowAboveStop
ReentryInv == kind = "ob_reentry" =>
    Reentry!ReentryTypeOK /\ Reentry!ZonesOnce /\ Reentry!HeldWithinMaxHold
NyOpenInv == kind = "ob_nyopen" =>
    NyOpen!NyOpenTypeOK /\ NyOpen!ZonesOnce /\ NyOpen!HeldWithinMaxHold
IndInv ==
    /\ Ind!IndicatorTypeOK
    /\ kind \in ZoneKinds => pos = 0
    /\ kind = "range_revert" /\ pos # 0 =>
         bars_held < MaxHoldBars /\ age = bars_held + idle_bars

\* The moves of the contract, as the position and the decision show them.
EngineMoves ==
    \/ dec' = NoDecision /\ EnginePos' = EnginePos
    \/ \E side \in {-1, 1}, qty \in {1, 2} :
         \/ /\ EnginePos = 0 /\ EnginePos' = side * qty
            /\ dec' = Decision("enter", side, qty)
         \/ /\ EnginePos = side * qty /\ EnginePos' = 0
            /\ dec' = Decision("exit", side, qty)

\* A zone entered is not one of the spent ones.
FreshEntry == held = NoPosition /\ held' # NoPosition => held'.zid \notin spent

Fixed == UNCHANGED <<kind, short>>

(* The parts of the assumption the arithmetic needs.                         *)
LEMMA EngineConstants ==
    /\ Prices \subseteq Int /\ MaxZones \in Nat /\ MaxDays \in Nat
    /\ Gaps \subseteq Nat /\ MaxHold \in Nat /\ MaxHold > 0
    /\ MaxHoldBars \in Nat /\ MaxHoldBars > 0 /\ MaxIdle \in Nat
    /\ StopPad \in Int /\ RiskFloor \in Int /\ TargetR \in Int
PROOF
<1>1. /\ Prices \subseteq Nat /\ Gaps \subseteq Nat \ {0}
      /\ MaxZones \in Nat /\ MaxDays \in Nat
      /\ MaxHold \in Nat \ {0} /\ MaxHoldBars \in Nat \ {0}
      /\ MaxIdle \in Nat /\ StopPad \in Nat /\ RiskFloor \in Nat /\ TargetR \in Nat
  BY EngineAssumption, Zenon DEF EngineAssumption
<1> QED BY <1>1

(* A non-empty set of naturals has a least element: what the CHOOSE of       *)
(* Lowest and of Oldest relies on.                                           *)
LEMMA LeastNat ==
    ASSUME NEW T \in SUBSET Nat, T # {}
    PROVE  \E x \in T : \A y \in T : x <= y
PROOF
<1> DEFINE R == {ss \in Nat \X Nat : ss[1] < ss[2]}
<1>1. IsWellFoundedOn(R, Nat)
  BY NatLessThanWellFounded DEF OpToRel
<1>2. PICK x \in T : \A y \in T : ~ (<<y, x>> \in R)
  BY <1>1, WFMin, Zenon
<1>3. \A m, n \in Nat : m < n => <<m, n>> \in R
  OBVIOUS
<1>4. \A y \in T : ~(y < x)
  BY <1>2, <1>3, Zenon
<1>5. \A y \in T : x <= y
  BY <1>4
<1> QED BY <1>5

(* Numbered records have an oldest one.                                      *)
LEMMA OldestIsOne ==
    ASSUME NEW S, \A z \in S : z.id \in Nat, S # {}
    PROVE  \E z \in S : \A y \in S : z.id <= y.id
PROOF
<1> DEFINE T == {z.id : z \in S}
<1>1. T \in SUBSET Nat /\ T # {}
  OBVIOUS
<1>2. PICK x \in T : \A y \in T : x <= y
  BY <1>1, LeastNat, Zenon
<1>3. PICK z \in S : z.id = x
  BY <1>2
<1> QED BY <1>2, <1>3
-----------------------------------------------------------------------------
(* A zone engine that enters or exits its one contract, and says so, makes a *)
(* move of the contract.                                                     *)
LEMMA ZoneMoves ==
    ASSUME kind \in ZoneKinds, Fixed,
           \/ dec' = NoDecision /\ (held' = NoPosition' <=> held = NoPosition)
           \/ dec' = EnterLong /\ held = NoPosition /\ held' # NoPosition'
           \/ dec' = ExitLong /\ held # NoPosition /\ held' = NoPosition'
    PROVE  EngineMoves
PROOF
<1>1. /\ EnginePos = IF held = NoPosition THEN 0 ELSE 1
      /\ EnginePos' = IF held' = NoPosition' THEN 0 ELSE 1
  BY DEF EnginePos, Fixed
<1>2. CASE dec' = NoDecision /\ (held' = NoPosition' <=> held = NoPosition)
  BY <1>1, <1>2 DEF EngineMoves
<1>3. CASE dec' = EnterLong /\ held = NoPosition /\ held' # NoPosition'
  <2>1. EnginePos = 0 /\ EnginePos' = 1 * 1 /\ dec' = Decision("enter", 1, 1)
    BY <1>1, <1>3 DEF EnterLong
  <2> QED BY <2>1 DEF EngineMoves
<1>4. CASE dec' = ExitLong /\ held # NoPosition /\ held' = NoPosition'
  <2>1. EnginePos = 1 * 1 /\ EnginePos' = 0 /\ dec' = Decision("exit", 1, 1)
    BY <1>1, <1>4 DEF ExitLong
  <2> QED BY <2>1 DEF EngineMoves
<1> QED BY <1>2, <1>3, <1>4
-----------------------------------------------------------------------------
(* Prices are integers, the parts of the assumption the arithmetic needs.    *)
LEMMA PriceIsInt == \A x \in Prices : x \in Nat /\ x \in Int
PROOF
<1>1. Prices \subseteq Nat
  BY EngineAssumption, Zenon DEF EngineAssumption
<1> QED BY <1>1


(* min(self._lows6) is one of the prices of the window.                      *)
LEMMA LvlLowestInPrices ==
    ASSUME NEW s \in Seq(Prices), s # <<>>
    PROVE  Lvl!Lowest(s) \in Prices
PROOF
<1> DEFINE T == {s[i] : i \in DOMAIN s}
<1>1. T \in SUBSET Prices
  OBVIOUS
<1>2. 1 \in DOMAIN s
  OBVIOUS
<1>3. T \in SUBSET Nat /\ T # {}
  BY <1>1, <1>2, EngineAssumption DEF EngineAssumption
<1>4. PICK x \in T : \A y \in T : x <= y
  BY <1>3, LeastNat, Zenon
<1>5. x \in T /\ \A i \in DOMAIN s : x <= s[i]
  BY <1>4
<1>6. Lvl!Lowest(s) \in T
  BY <1>5 DEF Lvl!Lowest
<1> QED BY <1>1, <1>6


(* The first zone a loop meets is one of the zones it runs over.             *)
LEMMA LvlOldestIsOne ==
    ASSUME NEW S, S \subseteq Lvl!Zones, S # {}
    PROVE  Lvl!Oldest(S) \in S
PROOF
<1> DEFINE T == {z.id : z \in S}
<1>1. T \in SUBSET Nat /\ T # {}
  BY EngineAssumption DEF EngineAssumption, Lvl!Zones
<1>2. PICK x \in T : \A y \in T : x <= y
  BY <1>1, LeastNat, Zenon
<1>3. PICK z \in S : z.id = x
  BY <1>2
<1>4. \A y \in S : z.id <= y.id
  BY <1>2, <1>3
<1> QED BY <1>3, <1>4 DEF Lvl!Oldest


(* A price appended to the window is its last low, and the window one of     *)
(* prices still.                                                             *)
LEMMA LvlPushKeeps ==
    ASSUME NEW s \in Seq(Prices), NEW x \in Prices
    PROVE  /\ Lvl!Push(s, x) \in Seq(Prices) /\ Lvl!Push(s, x) # <<>>
           /\ Lvl!Push(s, x)[Len(Lvl!Push(s, x))] = x
PROOF
<1>1. \A t \in Seq(Prices) :
        /\ Append(t, x) \in Seq(Prices) /\ Append(t, x) # <<>>
        /\ Append(t, x)[Len(Append(t, x))] = x
  OBVIOUS
<1>2. CASE Len(s) < TrailSwing
  BY <1>1, <1>2 DEF Lvl!Push
<1>3. CASE ~(Len(s) < TrailSwing)
  <2>1. Len(s) >= 1
    BY <1>3, EngineAssumption DEF EngineAssumption
  <2>2. Tail(s) \in Seq(Prices)
    BY <2>1
  <2>3. Lvl!Push(s, x) = Append(Tail(s), x)
    BY <1>3 DEF Lvl!Push
  <2> QED BY <1>1, <2>2, <2>3
<1> QED BY <1>2, <1>3


(* Trailing keeps a position one, and leaves it under a stop no lower.       *)
LEMMA LvlTrailedKeeps ==
    ASSUME NEW p \in Lvl!Positions, NEW b \in BarSet
    PROVE  /\ Lvl!Trailed(p, b) \in Lvl!Positions
           /\ Lvl!Trailed(p, b).lows = p.lows
           /\ Lvl!Level(p) \in Int /\ Lvl!Level(Lvl!Trailed(p, b)) \in Int
           /\ Lvl!Level(Lvl!Trailed(p, b)) >= Lvl!Level(p)
PROOF
<1> DEFINE q == Lvl!Trailed(p, b)
           active == p.trail_active \/ b.h >= p.entry + (p.entry - p.stop)
           t == IF active /\ p.lows # <<>>
                THEN Lvl!Greatest(p.trail, Lvl!Lowest(p.lows)) ELSE p.trail
<1>1. /\ p.entry \in Int /\ p.stop \in Int /\ p.trail \in Int
      /\ p.trail_active \in BOOLEAN /\ p.lows \in Seq(Prices)
  BY DEF Lvl!Positions
<1>2. p.lows # <<>> => Lvl!Lowest(p.lows) \in Int
  <2>1. p.lows # <<>> => Lvl!Lowest(p.lows) \in Prices
    BY <1>1, LvlLowestInPrices
  <2> QED BY <2>1, PriceIsInt
<1>3. t \in Int /\ t >= p.trail
  BY <1>1, <1>2 DEF Lvl!Greatest
<1>4. q = [p EXCEPT !.trail_active = active, !.trail = t]
  BY DEF Lvl!Trailed
<1>5. active \in BOOLEAN
  BY <1>1
<1> HIDE DEF t, active, q
<1>6. q \in Lvl!Positions
  BY <1>3, <1>4, <1>5 DEF Lvl!Positions
<1>7. /\ q.lows = p.lows /\ q.stop = p.stop
      /\ q.trail = t /\ q.trail_active = active
  BY <1>4 DEF Lvl!Positions
<1>8. p.trail_active => active
  BY DEF active
<1>9. /\ Lvl!Level(p) \in Int /\ Lvl!Level(q) \in Int
      /\ Lvl!Level(q) >= Lvl!Level(p)
  BY <1>1, <1>3, <1>7, <1>8 DEF Lvl!Level, Lvl!Greatest
<1> QED BY <1>6, <1>7, <1>9 DEF q


(* A price keeps its kind through the arithmetic of a zone.                  *)
LEMMA LvlZonePrices ==
    ASSUME NEW z \in Lvl!Zones
    PROVE  Lvl!Mid(z) \in Int /\ Lvl!Stop(z) \in Int
PROOF
<1>1. z.low \in Int /\ z.high \in Int
  BY PriceIsInt DEF Lvl!Zones
<1> QED BY <1>1 DEF Lvl!Mid, Lvl!Stop

-----------------------------------------------------------------------------
(* Type correctness of the engine, for every bar, session and gate.          *)
LEMMA LvlTypeStep == Lvl!LvlTypeOK /\ Lvl!Next => Lvl!LvlTypeOK'
PROOF
<1> SUFFICES ASSUME Lvl!LvlTypeOK,
                    NEW b \in BarSet, NEW sess \in Lvl!Sessions,
                    NEW gate \in BOOLEAN, Lvl!OnBar(b, sess, gate)
             PROVE  Lvl!LvlTypeOK'
  BY DEF Lvl!Next, Lvl!BarSet, BarSet
<1>0. /\ zones \subseteq Lvl!Zones /\ formed \in 0..MaxZones /\ MaxZones \in Nat
      /\ spent \subseteq 1..MaxZones /\ broken \subseteq 1..MaxZones
  BY EngineAssumption DEF Lvl!LvlTypeOK, EngineAssumption
<1>1. Lvl!Valid(b) \subseteq Lvl!Zones /\ Lvl!Tapped(b) \subseteq Lvl!Valid(b)
  BY <1>0 DEF Lvl!Valid, Lvl!Tapped
<1>2. broken' \subseteq 1..MaxZones
  <2>1. \A z \in zones : z.id \in 1..MaxZones
    BY <1>0 DEF Lvl!Zones
  <2> QED BY <1>0, <2>1 DEF Lvl!OnBar
<1>3. CASE Lvl!Manage(b)
  <2>1. held \in Lvl!Positions
    BY <1>3 DEF Lvl!Manage, Lvl!LvlTypeOK
  <2>2. /\ Lvl!Trailed(held, b) \in Lvl!Positions
        /\ b.l \in Prices
    BY <2>1, LvlTrailedKeeps DEF BarSet
  <2>3. [Lvl!Trailed(held, b) EXCEPT !.lows = Lvl!Push(@, b.l)]
          \in Lvl!Positions
    <3>1. Lvl!Trailed(held, b).lows \in Seq(Prices)
      BY <2>2 DEF Lvl!Positions
    <3>2. Lvl!Push(Lvl!Trailed(held, b).lows, b.l) \in Seq(Prices)
      BY <2>2, <3>1, LvlPushKeeps
    <3> QED BY <2>2, <3>2 DEF Lvl!Positions
  <2>4. held' = Lvl!Flat \/ held' \in Lvl!Positions
    BY <1>3, <2>3 DEF Lvl!Manage
  <2> QED BY <1>0, <1>2, <1>3, <2>4 DEF Lvl!Manage, Lvl!LvlTypeOK
<1>4. CASE Lvl!Tap(b, gate)
  <2> DEFINE z == Lvl!Oldest(Lvl!Tapped(b))
  <2>1. z \in Lvl!Valid(b) /\ z \in Lvl!Zones
    BY <1>1, <1>4, LvlOldestIsOne DEF Lvl!Tap
  <2> HIDE DEF z
  <2>2. Lvl!Consume(b) \subseteq Lvl!Zones
    <3>1. [z EXCEPT !.tapped_ny = TRUE] \in Lvl!Zones
      BY <2>1 DEF Lvl!Zones
    <3> QED BY <1>1, <3>1 DEF Lvl!Consume, z
  <2>3. /\ Lvl!Mid(z) \in Int /\ Lvl!Stop(z) \in Int /\ z.id \in 1..MaxZones
    BY <2>1, LvlZonePrices DEF Lvl!Zones
  <2>4. [entry |-> Lvl!Mid(z), stop |-> Lvl!Stop(z), trail |-> Lvl!Stop(z),
         trail_active |-> FALSE, lows |-> <<>>, zid |-> z.id] \in Lvl!Positions
    BY <2>3 DEF Lvl!Positions
  <2>5. /\ held' = Lvl!Flat \/ held' \in Lvl!Positions
        /\ spent' \subseteq 1..MaxZones
        /\ dec' \in {Lvl!NoDecision, Lvl!EnterLong}
    BY <1>0, <1>4, <2>3, <2>4 DEF Lvl!Tap, z
  <2> QED BY <1>0, <1>2, <1>4, <2>2, <2>5 DEF Lvl!Tap, Lvl!LvlTypeOK
<1>5. CASE Lvl!Form(b)
  <2>1. formed' \in 1..MaxZones /\ formed + 1 \in 1..MaxZones
    BY <1>0, <1>5 DEF Lvl!Form
  <2>2. zones' \subseteq Lvl!Zones
    <3>1. PICK low, high \in Prices :
             zones' = Lvl!Valid(b) \cup {[id |-> formed + 1, low |-> low,
                                      high |-> high, tapped_ny |-> FALSE]}
      BY <1>5 DEF Lvl!Form
    <3>2. [id |-> formed + 1, low |-> low, high |-> high,
           tapped_ny |-> FALSE] \in Lvl!Zones
      BY <2>1 DEF Lvl!Zones
    <3> QED BY <1>1, <3>1, <3>2
  <2> QED BY <1>0, <1>2, <1>5, <2>1, <2>2 DEF Lvl!Form, Lvl!LvlTypeOK
<1>6. CASE Lvl!Pass(b)
  BY <1>0, <1>1, <1>2, <1>6 DEF Lvl!Pass, Lvl!LvlTypeOK
<1> QED BY <1>3, <1>4, <1>5, <1>6 DEF Lvl!OnBar


-----------------------------------------------------------------------------
(* A bar under which a position stays held leaves the stop where it was or   *)
(* higher, and is itself above it.                                           *)
LEMMA LvlManageKeeps ==
    ASSUME Lvl!LvlTypeOK, NEW b \in BarSet, Lvl!Manage(b), held' # Lvl!Flat
    PROVE  /\ Lvl!Level(held') >= Lvl!Level(held)
           /\ held'.lows[Len(held'.lows)] > Lvl!Level(held')
PROOF
<1> DEFINE p == Lvl!Trailed(held, b)
<1>1. held \in Lvl!Positions
  BY DEF Lvl!Manage, Lvl!LvlTypeOK
<1>2. /\ p \in Lvl!Positions
      /\ Lvl!Level(p) \in Int /\ Lvl!Level(p) >= Lvl!Level(held)
      /\ b.l \in Prices /\ b.l \in Int
  BY <1>1, LvlTrailedKeeps, PriceIsInt DEF BarSet
<1>3. ~(b.l <= Lvl!Level(p)) /\ held' = [p EXCEPT !.lows = Lvl!Push(@, b.l)]
  BY DEF Lvl!Manage
<1> HIDE DEF p
<1>4. p.lows \in Seq(Prices)
  BY <1>2 DEF Lvl!Positions
<1>5. /\ held'.lows = Lvl!Push(p.lows, b.l) /\ held'.stop = p.stop
      /\ held'.trail = p.trail /\ held'.trail_active = p.trail_active
  BY <1>2, <1>3 DEF Lvl!Positions
<1>6. Lvl!Level(held') = Lvl!Level(p)
  BY <1>5 DEF Lvl!Level
<1>7. held'.lows[Len(held'.lows)] = b.l
  BY <1>2, <1>4, <1>5, LvlPushKeeps
<1> QED BY <1>2, <1>3, <1>6, <1>7


(* Only Manage runs while a position is held.                                *)
LEMMA LvlHeldIsManaged ==
    ASSUME NEW b \in BarSet, NEW sess \in Lvl!Sessions, NEW gate \in BOOLEAN,
           Lvl!OnBar(b, sess, gate), held # Lvl!Flat
    PROVE  Lvl!Manage(b)
BY DEF Lvl!OnBar, Lvl!Tap, Lvl!Form, Lvl!Pass


(* From flat a bar leaves none, or a position that has seen no bar yet, in   *)
(* the oldest tapped zone.                                                   *)
LEMMA LvlFlatToEntry ==
    ASSUME NEW b \in BarSet, NEW sess \in Lvl!Sessions, NEW gate \in BOOLEAN,
           Lvl!OnBar(b, sess, gate), held = Lvl!Flat, held' # Lvl!Flat
    PROVE  Lvl!Tap(b, gate) /\ gate /\ held'.lows = <<>>
           /\ held'.zid = Lvl!Oldest(Lvl!Tapped(b)).id
PROOF
<1>1. Lvl!Tap(b, gate)
  BY DEF Lvl!OnBar, Lvl!Manage, Lvl!Form, Lvl!Pass
<1>2. gate
  BY <1>1 DEF Lvl!Tap
<1> QED BY <1>1, <1>2 DEF Lvl!Tap


(* What a bar does to the stop and to the last low.                          *)
LEMMA LvlLevelStep == Lvl!LvlTypeOK /\ Lvl!Next => Lvl!LevelKept
PROOF
<1> SUFFICES ASSUME Lvl!LvlTypeOK, Lvl!Next, held # Lvl!Flat, held' # Lvl!Flat
             PROVE  Lvl!Level(held') >= Lvl!Level(held)
  BY DEF Lvl!LevelKept
<1>1. PICK b \in BarSet, sess \in Lvl!Sessions, gate \in BOOLEAN :
         Lvl!OnBar(b, sess, gate)
  BY DEF Lvl!Next, Lvl!BarSet, BarSet
<1> QED BY <1>1, LvlHeldIsManaged, LvlManageKeeps


LEMMA LvlLastLowStep == Lvl!LvlTypeOK /\ Lvl!Next => Lvl!LastLowAboveStop'
PROOF
<1> SUFFICES ASSUME Lvl!LvlTypeOK, Lvl!Next, held' # Lvl!Flat, held'.lows # <<>>
             PROVE  held'.lows[Len(held'.lows)] > Lvl!Level(held')
  BY DEF Lvl!LastLowAboveStop, Lvl!Level
<1>1. PICK b \in BarSet, sess \in Lvl!Sessions, gate \in BOOLEAN :
         Lvl!OnBar(b, sess, gate)
  BY DEF Lvl!Next, Lvl!BarSet, BarSet
<1>2. held # Lvl!Flat
  BY <1>1, LvlFlatToEntry
<1> QED BY <1>1, <1>2, LvlHeldIsManaged, LvlManageKeeps


-----------------------------------------------------------------------------
(* A zone the tap consumes is marked, and the others are as they were.       *)
LEMMA LvlConsumeMarks ==
    ASSUME Lvl!LvlTypeOK, NEW b \in BarSet, Lvl!Tapped(b) # {},
           NEW y \in Lvl!Consume(b)
    PROVE  /\ Lvl!Oldest(Lvl!Tapped(b)) \in zones
           /\ ~Lvl!Oldest(Lvl!Tapped(b)).tapped_ny
           /\ \/ y \in zones /\ y # Lvl!Oldest(Lvl!Tapped(b))
              \/ y.id = Lvl!Oldest(Lvl!Tapped(b)).id /\ y.tapped_ny
PROOF
<1> DEFINE z == Lvl!Oldest(Lvl!Tapped(b))
<1>1. Lvl!Tapped(b) \subseteq Lvl!Zones /\ Lvl!Tapped(b) \subseteq zones
  BY DEF Lvl!Tapped, Lvl!Valid, Lvl!LvlTypeOK
<1>2. z \in Lvl!Tapped(b)
  BY <1>1, LvlOldestIsOne
<1> HIDE DEF z
<1>3. z \in zones /\ ~z.tapped_ny /\ z \in Lvl!Zones
  BY <1>1, <1>2 DEF Lvl!Tapped
<1>4. y \in (Lvl!Valid(b) \ {z}) \cup {[z EXCEPT !.tapped_ny = TRUE]}
  BY DEF Lvl!Consume, z
<1>5. CASE y \in Lvl!Valid(b) \ {z}
  BY <1>3, <1>5 DEF Lvl!Valid, z
<1>6. CASE y = [z EXCEPT !.tapped_ny = TRUE]
  BY <1>3, <1>6 DEF Lvl!Zones, z
<1> QED BY <1>4, <1>5, <1>6


(* What makes a zone one entry at most is kept by every bar.                 *)
LEMMA LvlZonesOnceStep ==
    Lvl!LvlTypeOK /\ Lvl!ZonesOnce /\ Lvl!Next => Lvl!ZonesOnce'
PROOF
<1> SUFFICES ASSUME Lvl!LvlTypeOK, Lvl!ZonesOnce,
                    NEW b \in BarSet, NEW sess \in Lvl!Sessions,
                    NEW gate \in BOOLEAN, Lvl!OnBar(b, sess, gate)
             PROVE  Lvl!ZonesOnce'
  BY DEF Lvl!Next, Lvl!BarSet, BarSet
<1>0. /\ formed \in Nat
      /\ \A i \in spent : i \in Nat
      /\ \A z \in zones : z.id \in Nat
  <2>1. formed \in Nat /\ spent \subseteq Nat
    BY EngineAssumption DEF EngineAssumption, Lvl!LvlTypeOK
  <2> QED BY <2>1 DEF Lvl!LvlTypeOK, Lvl!Zones
<1>1. CASE Lvl!Manage(b)
  BY <1>1 DEF Lvl!Manage, Lvl!ZonesOnce
<1>2. CASE Lvl!Tap(b, gate)
  <2> DEFINE t == Lvl!Oldest(Lvl!Tapped(b))
  <2>1. \A y \in zones' : /\ t \in zones
                         /\ \/ y \in zones /\ y # t
                            \/ y.id = t.id /\ y.tapped_ny
    BY <1>2, LvlConsumeMarks DEF Lvl!Tap
  <2>2. spent' \subseteq spent \cup {t.id} /\ formed' = formed
    BY <1>2 DEF Lvl!Tap
  <2>3. t \in zones
    BY <2>1, <1>2 DEF Lvl!Tap, Lvl!Consume
  <2>4. zones' = (Lvl!Valid(b) \ {t}) \cup {[t EXCEPT !.tapped_ny = TRUE]}
    BY <1>2 DEF Lvl!Tap, Lvl!Consume
  <2> HIDE DEF t
  <2>5. t.id <= formed /\ t \in Lvl!Zones
    BY <2>3 DEF Lvl!ZonesOnce, Lvl!LvlTypeOK
  <2>6. \A y \in zones' : \/ y \in zones /\ y # t /\ y.id # t.id
                        \/ y = [t EXCEPT !.tapped_ny = TRUE]
    BY <2>3, <2>4 DEF Lvl!Valid, Lvl!ZonesOnce
  <2>7. [t EXCEPT !.tapped_ny = TRUE].id = t.id
        /\ [t EXCEPT !.tapped_ny = TRUE].tapped_ny
    BY <2>5 DEF Lvl!Zones
  <2>8. \A y, z \in zones' : y.id = z.id => y = z
    BY <2>6, <2>7 DEF Lvl!ZonesOnce
  <2>9. \A z \in zones' : z.id <= formed' /\ (z.id \in spent' => z.tapped_ny)
    BY <2>2, <2>5, <2>6, <2>7 DEF Lvl!ZonesOnce
  <2>10. \A i \in spent' : i <= formed'
    BY <2>2, <2>5 DEF Lvl!ZonesOnce
  <2> QED BY <2>8, <2>9, <2>10 DEF Lvl!ZonesOnce
<1>3. CASE Lvl!Form(b)
  <2>1. PICK low, high \in Prices :
           zones' = Lvl!Valid(b) \cup {[id |-> formed + 1, low |-> low,
                                    high |-> high, tapped_ny |-> FALSE]}
    BY <1>3 DEF Lvl!Form
  <2> DEFINE n == [id |-> formed + 1, low |-> low, high |-> high,
                   tapped_ny |-> FALSE]
  <2>2. n.id = formed + 1 /\ formed' = formed + 1 /\ spent' = spent
    BY <1>3 DEF Lvl!Form
  <2>3. \A y \in zones' : y \in zones \/ y = n
    BY <2>1 DEF Lvl!Valid
  <2> HIDE DEF n
  <2>4. \A y \in zones : y.id # n.id
    BY <1>0, <2>2 DEF Lvl!ZonesOnce
  <2>5. n.id \notin spent
    BY <1>0, <2>2 DEF Lvl!ZonesOnce
  <2>6. \A y, z \in zones' : y.id = z.id => y = z
    BY <2>3, <2>4 DEF Lvl!ZonesOnce
  <2>7. \A z \in zones' : z.id <= formed' /\ (z.id \in spent' => z.tapped_ny)
    BY <1>0, <2>2, <2>3, <2>5 DEF Lvl!ZonesOnce
  <2>8. \A i \in spent' : i <= formed'
    BY <1>0, <2>2 DEF Lvl!ZonesOnce
  <2> QED BY <2>6, <2>7, <2>8 DEF Lvl!ZonesOnce
<1>4. CASE Lvl!Pass(b)
  BY <1>4 DEF Lvl!Pass, Lvl!Valid, Lvl!ZonesOnce
<1> QED BY <1>1, <1>2, <1>3, <1>4 DEF Lvl!OnBar


LEMMA LvlFreshStep ==
    Lvl!LvlTypeOK /\ Lvl!ZonesOnce /\ Lvl!Next => Lvl!FreshEntry
PROOF
<1> SUFFICES ASSUME Lvl!LvlTypeOK, Lvl!ZonesOnce, Lvl!Next,
                    held = Lvl!Flat, held' # Lvl!Flat
             PROVE  held'.zid \notin spent
  BY DEF Lvl!FreshEntry
<1>1. PICK b \in BarSet, sess \in Lvl!Sessions, gate \in BOOLEAN :
         Lvl!OnBar(b, sess, gate)
  BY DEF Lvl!Next, Lvl!BarSet, BarSet
<1>2. Lvl!Tap(b, gate) /\ held'.zid = Lvl!Oldest(Lvl!Tapped(b)).id
  BY <1>1, LvlFlatToEntry
<1>3. Lvl!Tapped(b) # {} /\ Lvl!Tapped(b) \subseteq Lvl!Zones
  BY <1>2 DEF Lvl!Tap, Lvl!Tapped, Lvl!Valid, Lvl!LvlTypeOK
<1>4. Lvl!Oldest(Lvl!Tapped(b)) \in Lvl!Tapped(b)
  BY <1>3, LvlOldestIsOne
<1>5. Lvl!Oldest(Lvl!Tapped(b)).id \notin spent
  BY <1>4 DEF Lvl!Tapped, Lvl!Valid, Lvl!ZonesOnce
<1> QED BY <1>2, <1>5


(* What a bar does to the position, and what it says of it: nothing, an      *)
(* entry from flat, or an exit of what was held.                             *)
LEMMA LvlMoves ==
    Lvl!LvlTypeOK /\ Lvl!Next =>
        \/ dec' = Lvl!NoDecision /\ (held' = Lvl!Flat <=> held = Lvl!Flat)
        \/ dec' = Lvl!EnterLong /\ held = Lvl!Flat /\ held' # Lvl!Flat
        \/ dec' = Lvl!ExitLong /\ held # Lvl!Flat /\ held' = Lvl!Flat
PROOF
<1> SUFFICES ASSUME Lvl!LvlTypeOK, Lvl!Next
             PROVE  \/ dec' = Lvl!NoDecision /\ (held' = Lvl!Flat <=> held = Lvl!Flat)
                    \/ dec' = Lvl!EnterLong /\ held = Lvl!Flat /\ held' # Lvl!Flat
                    \/ dec' = Lvl!ExitLong /\ held # Lvl!Flat /\ held' = Lvl!Flat
  OBVIOUS
<1>1. PICK b \in BarSet, sess \in Lvl!Sessions, gate \in BOOLEAN :
         Lvl!OnBar(b, sess, gate)
  BY DEF Lvl!Next, Lvl!BarSet, BarSet
<1>2. CASE Lvl!Manage(b)
  <2>1. CASE held' = Lvl!Flat /\ dec' = Lvl!ExitLong
    BY <1>2, <2>1 DEF Lvl!Manage
  <2>2. CASE ~(held' = Lvl!Flat /\ dec' = Lvl!ExitLong)
    <3>1. held' = [Lvl!Trailed(held, b) EXCEPT !.lows = Lvl!Push(@, b.l)]
          /\ dec' = Lvl!NoDecision /\ held # Lvl!Flat
      BY <1>2, <2>2 DEF Lvl!Manage
    <3>2. held \in Lvl!Positions
      BY <3>1 DEF Lvl!LvlTypeOK
    <3>3. Lvl!Trailed(held, b) \in Lvl!Positions
      BY <3>2, LvlTrailedKeeps
    <3>4. held'.zid = Lvl!Trailed(held, b).zid
      BY <3>1, <3>3 DEF Lvl!Positions
    <3>5. held'.zid # 0
      BY <3>3, <3>4, EngineAssumption DEF EngineAssumption, Lvl!Positions
    <3> QED BY <3>1, <3>5 DEF Lvl!Flat
  <2> QED BY <2>1, <2>2
<1>3. CASE Lvl!Tap(b, gate)
  <2>1. CASE gate
    <3>1. Lvl!Tapped(b) # {} /\ Lvl!Tapped(b) \subseteq Lvl!Zones
      BY <1>3 DEF Lvl!Tap, Lvl!Tapped, Lvl!Valid, Lvl!LvlTypeOK
    <3>2. Lvl!Oldest(Lvl!Tapped(b)) \in Lvl!Zones
      BY <3>1, LvlOldestIsOne
    <3>3. /\ held'.zid = Lvl!Oldest(Lvl!Tapped(b)).id
          /\ dec' = Lvl!EnterLong /\ held = Lvl!Flat
      BY <1>3, <2>1 DEF Lvl!Tap
    <3>4. held'.zid # 0
      BY <3>2, <3>3, EngineAssumption DEF EngineAssumption, Lvl!Zones
    <3> QED BY <3>3, <3>4 DEF Lvl!Flat
  <2>2. CASE ~gate
    BY <1>3, <2>2 DEF Lvl!Tap
  <2> QED BY <2>1, <2>2
<1>4. CASE Lvl!Form(b) \/ Lvl!Pass(b)
  BY <1>4 DEF Lvl!Form, Lvl!Pass
<1> QED BY <1>1, <1>2, <1>3, <1>4 DEF Lvl!OnBar

(* LvlImb under the harness is LvlImb.                                       *)
LEMMA LvlBar ==
    ASSUME Lvl_OnBar
    PROVE  Lvl!Next
BY DEF Lvl_OnBar, Lvl!Next, BarSet, Lvl!BarSet

(* A bar of LvlImb keeps its invariant, makes a move of the contract and     *)
(* enters no spent zone.                                                     *)
LEMMA LvlStep ==
    ASSUME kind = "lvl_imb", LvlInv, Lvl_OnBar, Fixed
    PROVE  LvlInv' /\ EngineMoves /\ FreshEntry /\ Lvl!LevelKept
PROOF
<1>1. Lvl!LvlTypeOK /\ Lvl!ZonesOnce /\ Lvl!LastLowAboveStop
  BY DEF LvlInv
<1>2. Lvl!Next
  BY LvlBar
<1>3. Lvl!LvlTypeOK' /\ Lvl!ZonesOnce' /\ Lvl!LastLowAboveStop'
  BY <1>1, <1>2, LvlTypeStep, LvlZonesOnceStep, LvlLastLowStep
<1>4. LvlInv'
  BY <1>3 DEF LvlInv
<1>5. NoPosition = Lvl!Flat /\ NoPosition' = Lvl!Flat
  BY DEF NoPosition, Lvl!Flat, Fixed
<1>6. Lvl!FreshEntry /\ Lvl!LevelKept
  BY <1>1, <1>2, LvlFreshStep, LvlLevelStep
<1>7. FreshEntry
  BY <1>5, <1>6 DEF FreshEntry, Lvl!FreshEntry
<1>8. \/ dec' = NoDecision /\ (held' = NoPosition' <=> held = NoPosition)
      \/ dec' = EnterLong /\ held = NoPosition /\ held' # NoPosition'
      \/ dec' = ExitLong /\ held # NoPosition /\ held' = NoPosition'
  BY <1>1, <1>2, <1>5, LvlMoves
     DEF NoDecision, EnterLong, ExitLong, Decision, Lvl!NoDecision,
         Lvl!EnterLong, Lvl!ExitLong, Lvl!Decision
<1>9. EngineMoves
  BY <1>8, ZoneMoves DEF ZoneKinds
<1> QED BY <1>4, <1>6, <1>7, <1>9
-----------------------------------------------------------------------------
(* The zones of ObReentry after arming and disarming, by id and by mark.     *)
LEMMA ReentryRearmed ==
    ASSUME Reentry!ReentryTypeOK, Reentry!ZonesOnce, NEW b \in BarSet
    PROVE  /\ Reentry!Rearmed(b) \subseteq Reentry!Zones
           /\ \A y, z \in Reentry!Rearmed(b) : y.id = z.id => y = z
           /\ \A z \in Reentry!Rearmed(b) :
                /\ z.id <= formed
                /\ z.id \in spent \ Reentry!Departed(b) => ~z.armed
                /\ z.armed /\ b.l <= z.high => z.id \notin spent
PROOF
<1> DEFINE Up(z) == [z EXCEPT !.armed = @ \/ b.l > z.high]
<1>1. \A z \in zones : /\ Up(z) \in Reentry!Zones
                       /\ Up(z).id = z.id /\ Up(z).high = z.high
                       /\ Up(z).armed = (z.armed \/ b.l > z.high)
  <2> SUFFICES ASSUME NEW z \in zones
               PROVE  /\ Up(z) \in Reentry!Zones
                      /\ Up(z).id = z.id /\ Up(z).high = z.high
                      /\ Up(z).armed = (z.armed \/ b.l > z.high)
    OBVIOUS
  <2>1. z \in Reentry!Zones
    BY DEF Reentry!ReentryTypeOK
  <2>2. (z.armed \/ b.l > z.high) \in BOOLEAN
    OBVIOUS
  <2> QED BY <2>1, <2>2 DEF Reentry!Zones
<1>2. \A y \in Reentry!Rearmed(b) : \E z \in zones : y = Up(z)
  BY DEF Reentry!Rearmed
<1> HIDE DEF Up
<1>3. Reentry!Rearmed(b) \subseteq Reentry!Zones
  BY <1>1, <1>2
<1>4. \A y, z \in Reentry!Rearmed(b) : y.id = z.id => y = z
  BY <1>1, <1>2 DEF Reentry!ZonesOnce
<1>5. ASSUME NEW y \in Reentry!Rearmed(b)
      PROVE  /\ y.id <= formed
             /\ y.id \in spent \ Reentry!Departed(b) => ~y.armed
             /\ y.armed /\ b.l <= y.high => y.id \notin spent
  <2>1. PICK z \in zones : y = Up(z)
    BY <1>2
  <2>2. /\ y.id = z.id /\ y.high = z.high
        /\ y.armed = (z.armed \/ b.l > z.high)
    BY <1>1, <2>1
  <2>3. z.id <= formed /\ (z.id \in spent => ~z.armed)
    BY DEF Reentry!ZonesOnce
  <2>4. b.l > z.high => z.id \in Reentry!Departed(b)
    BY DEF Reentry!Departed
  <2>5. /\ b.l \in Int /\ z.high \in Int
        /\ z.armed \in BOOLEAN /\ y.armed \in BOOLEAN
    <3>1. z \in Reentry!Zones /\ y \in Reentry!Zones
      BY <1>3 DEF Reentry!ReentryTypeOK
    <3> QED BY <3>1, EngineConstants DEF BarSet, Reentry!Zones
  <2>6. y.armed /\ b.l <= y.high => z.armed
    <3>1. CASE z.armed
      BY <3>1
    <3>2. CASE b.l > z.high
      BY <2>2, <2>5, <3>2
    <3>3. y.armed => z.armed \/ b.l > z.high
      BY <2>2, Zenon
    <3> QED BY <3>1, <3>2, <3>3
  <2> QED BY <2>2, <2>3, <2>4, <2>6
<1> QED BY <1>3, <1>4, <1>5

\* Zones that may be carried to the next bar, with the ids spent by then.
Carriable(zs, sp) ==
    /\ zs \subseteq Reentry!Zones
    /\ \A y, z \in zs : y.id = z.id => y = z
    /\ \A z \in zs : z.id <= formed /\ (z.id \in sp => ~z.armed)

(* The end of a bar: the zones that broke go, the one it forms is new.       *)
LEMMA ReentryCarry ==
    ASSUME Reentry!ReentryTypeOK, Reentry!ZonesOnce,
           NEW b \in BarSet, NEW p, NEW zs, Reentry!Carry(b, p, zs),
           NEW sp \in SUBSET (1..MaxZones), spent' = sp,
           Carriable(zs, sp), \A i \in sp : i <= formed
    PROVE  /\ zones' \subseteq Reentry!Zones /\ formed' \in 0..MaxZones
           /\ Reentry!ZonesOnce'
PROOF
<1>0. formed \in 0..MaxZones /\ MaxZones \in Nat
  BY EngineConstants DEF Reentry!ReentryTypeOK
<1>1. \A zz : Reentry!Finished(zz, b, p.zid) \subseteq zz
  BY DEF Reentry!Finished
<1>2. CASE zones' = Reentry!Finished(zs, b, p.zid) /\ UNCHANGED formed
  <2>1. zones' \subseteq zs
    BY <1>1, <1>2
  <2> QED BY <1>0, <1>2, <2>1 DEF Carriable, Reentry!ZonesOnce
<1>3. CASE /\ formed < MaxZones /\ formed' = formed + 1
           /\ \E low, high \in Prices :
                /\ low < high
                /\ zones' = Reentry!Finished(zs \cup {Reentry!Formed(low, high)},
                                             b, p.zid)
  <2>1. PICK low, high \in Prices :
           zones' = Reentry!Finished(zs \cup {Reentry!Formed(low, high)}, b, p.zid)
    BY <1>3
  <2> DEFINE n == Reentry!Formed(low, high)
  <2>2. zones' \subseteq zs \cup {n}
    BY <1>1, <2>1
  <2>3. formed + 1 \in 1..MaxZones /\ formed' = formed + 1
    BY <1>0, <1>3
  <2>4. n.id = formed + 1 /\ n \in Reentry!Zones
    BY <2>3 DEF Reentry!Formed, Reentry!Zones
  <2> HIDE DEF n
  <2>5. \A y \in zs : y.id \in Nat /\ y.id <= formed /\ y.id # n.id
    BY <1>0, <2>4 DEF Carriable, Reentry!Zones
  <2>6. \A i \in sp : i \in Nat /\ i <= formed /\ i # n.id
    BY <1>0, <2>4
  <2>7. \A y, z \in zones' : y.id = z.id => y = z
    BY <2>2, <2>5 DEF Carriable
  <2>8. \A z \in zones' : z.id <= formed' /\ (z.id \in spent' => ~z.armed)
    BY <1>0, <2>2, <2>3, <2>4, <2>5, <2>6 DEF Carriable
  <2>9. \A i \in spent' : i <= formed'
    BY <1>0, <2>3, <2>6
  <2>10. zones' \subseteq Reentry!Zones
    BY <2>2, <2>4 DEF Carriable
  <2> QED BY <2>3, <2>7, <2>8, <2>9, <2>10 DEF Reentry!ZonesOnce
<1> QED BY <1>2, <1>3 DEF Reentry!Carry

(* What each way through ObReentry's on_bar leaves.                          *)
LEMMA ReentryStep ==
    ASSUME kind = "ob_reentry", ReentryInv, Reentry_OnBar, Fixed
    PROVE  ReentryInv' /\ EngineMoves /\ FreshEntry
PROOF
<1>0. /\ Reentry!ReentryTypeOK /\ Reentry!ZonesOnce /\ Reentry!HeldWithinMaxHold
      /\ NoPosition = Reentry!Flat /\ NoPosition' = Reentry!Flat
      /\ kind \in ZoneKinds
  BY DEF ReentryInv, NoPosition, Fixed, ZoneKinds
<1>1. PICK b \in BarSet, dt \in Gaps : Reentry!OnBar(b, dt)
  BY DEF Reentry_OnBar
<1>2. /\ zones \subseteq Reentry!Zones /\ spent \subseteq 1..MaxZones
      /\ broken \subseteq 1..MaxZones /\ formed \in 0..MaxZones
      /\ held = Reentry!Flat \/ held \in Reentry!Positions
  BY <1>0 DEF Reentry!ReentryTypeOK
<1>3. broken' \subseteq 1..MaxZones
  <2>1. \A z \in zones : z.id \in 1..MaxZones
    BY <1>2 DEF Reentry!Zones
  <2> QED BY <1>1, <1>2, <2>1 DEF Reentry!OnBar
<1>4. \A p \in Reentry!Positions : p # Reentry!Flat
  <2> SUFFICES ASSUME NEW p \in Reentry!Positions PROVE p.zid # 0
    BY DEF Reentry!Flat
  <2> QED BY EngineConstants DEF Reentry!Positions
<1>5. ASSUME \/ dec' = NoDecision /\ (held' = NoPosition' <=> held = NoPosition)
             \/ dec' = EnterLong /\ held = NoPosition /\ held' # NoPosition'
             \/ dec' = ExitLong /\ held # NoPosition /\ held' = NoPosition',
             zones' \subseteq Reentry!Zones, formed' \in 0..MaxZones,
             Reentry!ZonesOnce', spent' \subseteq 1..MaxZones,
             \/ held' = Reentry!Flat
             \/ held' \in Reentry!Positions /\ held'.age < MaxHold,
             held = Reentry!Flat /\ held' # Reentry!Flat => held'.zid \notin spent
      PROVE  ReentryInv' /\ EngineMoves /\ FreshEntry
  <2>1. dec' \in {Reentry!NoDecision, Reentry!EnterLong, Reentry!ExitLong}
    BY <1>5 DEF NoDecision, EnterLong, ExitLong, Decision, Reentry!NoDecision,
                Reentry!EnterLong, Reentry!ExitLong, Reentry!Decision
  <2>2. Reentry!ReentryTypeOK' /\ Reentry!HeldWithinMaxHold'
    BY <1>3, <1>5, <2>1 DEF Reentry!ReentryTypeOK, Reentry!HeldWithinMaxHold
  <2>3. EngineMoves
    BY <1>0, <1>5, ZoneMoves
  <2> QED BY <1>0, <1>5, <2>2, <2>3 DEF ReentryInv, FreshEntry
<1>6. \A i \in spent : i <= formed
  BY <1>0 DEF Reentry!ZonesOnce
<1>8. CASE Reentry!Exit(b, dt)
  <2>1. zones' \subseteq zones /\ formed' = formed /\ spent' \subseteq spent
    BY <1>8 DEF Reentry!Exit, Reentry!Finished
  <2>2. Reentry!ZonesOnce'
    BY <1>0, <2>1 DEF Reentry!ZonesOnce
  <2>3. dec' = ExitLong /\ held # NoPosition /\ held' = NoPosition'
    BY <1>0, <1>8 DEF Reentry!Exit, ExitLong, Reentry!ExitLong, Decision,
                      Reentry!Decision
  <2>4. /\ zones' \subseteq Reentry!Zones /\ formed' \in 0..MaxZones
        /\ spent' \subseteq 1..MaxZones /\ held' = Reentry!Flat
    BY <1>0, <1>2, <2>1, <2>3
  <2> QED BY <1>5, <2>2, <2>3, <2>4
<1>9. CASE Reentry!Hold(b, dt)
  <2> DEFINE p == [held EXCEPT !.age = @ + dt]
             sp == spent \ Reentry!Departed(b)
  <2>1. /\ held \in Reentry!Positions /\ held # Reentry!Flat
        /\ ~Reentry!Exits(held, b, dt)
        /\ Reentry!Carry(b, p, Reentry!Rearmed(b)) /\ spent' = sp
        /\ dec' = NoDecision
    BY <1>2, <1>9 DEF Reentry!Hold, NoDecision, Reentry!NoDecision, Decision,
                      Reentry!Decision
  <2>2. p \in Reentry!Positions /\ p.age < MaxHold
    <3>1. held.age + dt < MaxHold /\ held.age \in Nat /\ dt \in Nat
      BY <2>1, EngineConstants DEF Reentry!Exits, Reentry!Positions
    <3>2. held.age + dt \in 0..MaxHold
      BY <3>1, EngineConstants
    <3> QED BY <2>1, <3>1, <3>2 DEF Reentry!Positions
  <2>3. held' = p
    BY <2>1 DEF Reentry!Carry
  <2>4. Carriable(Reentry!Rearmed(b), sp)
    BY <1>0, ReentryRearmed DEF Carriable
  <2>5. sp \in SUBSET (1..MaxZones) /\ \A i \in sp : i <= formed
    BY <1>2, <1>6
  <2> HIDE DEF p, sp
  <2>6. /\ zones' \subseteq Reentry!Zones /\ formed' \in 0..MaxZones
        /\ Reentry!ZonesOnce'
    BY <1>0, <2>1, <2>4, <2>5, ReentryCarry
  <2>7. held' # Reentry!Flat
    BY <1>4, <2>2, <2>3
  <2> QED BY <1>0, <1>5, <2>1, <2>2, <2>3, <2>5, <2>6, <2>7
<1>10. CASE Reentry!Enter(b)
  <2> DEFINE z == Reentry!Oldest(Reentry!Tapped(b))
             p == Reentry!Entered(z)
             zs == Reentry!Disarmed(Reentry!Rearmed(b), z)
             sp == (spent \ Reentry!Departed(b)) \cup {z.id}
  <2>1. /\ held = Reentry!Flat /\ Reentry!Tapped(b) # {}
        /\ Reentry!Carry(b, p, zs) /\ spent' = sp /\ dec' = EnterLong
    BY <1>10 DEF Reentry!Enter, EnterLong, Reentry!EnterLong, Decision,
                 Reentry!Decision
  <2>2. z \in Reentry!Tapped(b)
    <3>1. \A y \in Reentry!Tapped(b) : y.id \in Nat
      BY <1>0, ReentryRearmed DEF Reentry!Tapped, Reentry!Zones
    <3>2. \E y \in Reentry!Tapped(b) : \A x \in Reentry!Tapped(b) : y.id <= x.id
      BY <2>1, <3>1, OldestIsOne
    <3> QED BY <3>2 DEF Reentry!Oldest
  <2> HIDE DEF z
  <2>3. /\ z \in Reentry!Rearmed(b) /\ z \in Reentry!Zones
        /\ z.id <= formed /\ z.id \notin spent
    BY <1>0, <2>2, ReentryRearmed DEF Reentry!Tapped
  <2>4. p \in Reentry!Positions /\ p.age < MaxHold /\ p.zid = z.id
    <3>1. z.low \in Int /\ z.high \in Int /\ z.id \in 1..MaxZones
      BY <2>3, EngineConstants DEF Reentry!Zones
    <3>2. Reentry!Greatest(z.high - z.low, RiskFloor) \in Int
      BY <3>1, EngineConstants DEF Reentry!Greatest
    <3>3. \A r \in Int : TargetR * r \in Int
      BY EngineConstants
    <3>4. /\ z.low - StopPad \in Int
          /\ z.high + TargetR * Reentry!Greatest(z.high - z.low, RiskFloor) \in Int
      BY <3>1, <3>2, <3>3, EngineConstants
    <3>5. 0 \in 0..MaxHold /\ 0 < MaxHold
      BY EngineConstants
    <3> QED BY <3>1, <3>4, <3>5 DEF Reentry!Entered, Reentry!Positions
  <2>5. held' = p
    BY <2>1 DEF Reentry!Carry
  <2>6. Carriable(zs, sp)
    <3> DEFINE off == [z EXCEPT !.armed = FALSE]
    <3>1. off \in Reentry!Zones /\ off.id = z.id /\ ~off.armed
      BY <2>3 DEF Reentry!Zones
    <3>2. zs = (Reentry!Rearmed(b) \ {z}) \cup {off}
      BY DEF Reentry!Disarmed
    <3> HIDE DEF off, zs
    <3>3. /\ Reentry!Rearmed(b) \subseteq Reentry!Zones
          /\ \A y, x \in Reentry!Rearmed(b) : y.id = x.id => y = x
          /\ \A y \in Reentry!Rearmed(b) :
               y.id <= formed /\ (y.id \in spent \ Reentry!Departed(b) => ~y.armed)
      BY <1>0, ReentryRearmed
    <3>4. \A y \in zs : (y \in Reentry!Rearmed(b) /\ y.id # z.id) \/ y = off
      BY <2>3, <3>2, <3>3
    <3>5. zs \subseteq Reentry!Zones
      BY <3>1, <3>3, <3>4
    <3>6. \A y, x \in zs : y.id = x.id => y = x
      BY <3>1, <3>3, <3>4
    <3>7. \A y \in zs : y.id <= formed /\ (y.id \in sp => ~y.armed)
      BY <2>3, <3>1, <3>3, <3>4
    <3> QED BY <3>5, <3>6, <3>7 DEF Carriable
  <2>7. sp \in SUBSET (1..MaxZones) /\ \A i \in sp : i <= formed
    <3>1. z.id \in 1..MaxZones
      BY <2>3 DEF Reentry!Zones
    <3> QED BY <1>2, <1>6, <2>3, <3>1
  <2> HIDE DEF p, sp, zs
  <2>8. /\ zones' \subseteq Reentry!Zones /\ formed' \in 0..MaxZones
        /\ Reentry!ZonesOnce'
    BY <1>0, <2>1, <2>6, <2>7, ReentryCarry
  <2>9. held' # Reentry!Flat
    BY <1>4, <2>4, <2>5
  <2> QED BY <1>0, <1>5, <2>1, <2>3, <2>4, <2>5, <2>7, <2>8, <2>9
<1>11. CASE Reentry!Pass(b)
  <2> DEFINE sp == spent \ Reentry!Departed(b)
  <2>1. /\ held = Reentry!Flat /\ spent' = sp /\ dec' = NoDecision
        /\ Reentry!Carry(b, Reentry!Flat, Reentry!Rearmed(b))
    BY <1>11 DEF Reentry!Pass, NoDecision, Reentry!NoDecision, Decision,
                 Reentry!Decision
  <2>2. held' = Reentry!Flat
    BY <2>1 DEF Reentry!Carry
  <2>3. Carriable(Reentry!Rearmed(b), sp)
    BY <1>0, ReentryRearmed DEF Carriable
  <2>4. sp \in SUBSET (1..MaxZones) /\ \A i \in sp : i <= formed
    BY <1>2, <1>6
  <2> HIDE DEF sp
  <2>5. /\ zones' \subseteq Reentry!Zones /\ formed' \in 0..MaxZones
        /\ Reentry!ZonesOnce'
    BY <1>0, <2>1, <2>3, <2>4, ReentryCarry
  <2>6. /\ dec' = NoDecision /\ (held' = NoPosition' <=> held = NoPosition)
        /\ spent' \subseteq 1..MaxZones
    BY <1>0, <2>1, <2>2, <2>4
  <2> QED BY <1>5, <2>2, <2>5, <2>6
<1> QED BY <1>1, <1>8, <1>9, <1>10, <1>11 DEF Reentry!OnBar
-----------------------------------------------------------------------------
(* The zones of ObNyOpen when a bar has dropped yesterday's, and has added   *)
(* the one it forms.                                                         *)
LEMMA NyOpenDetect ==
    ASSUME NyOpen!NyOpenTypeOK, NyOpen!ZonesOnce,
           NEW d \in 0..MaxDays, day' = d, NyOpen!Detect(d), spent' = spent
    PROVE  /\ zones' \subseteq NyOpen!Zones /\ (\A z \in zones' : z.day = day')
           /\ formed' \in 0..MaxZones /\ NyOpen!ZonesOnce'
PROOF
<1>0. /\ formed \in 0..MaxZones /\ MaxZones \in Nat /\ spent \subseteq 1..MaxZones
      /\ zones \subseteq NyOpen!Zones /\ \A z \in zones : z.day = day
  BY EngineConstants DEF NyOpen!NyOpenTypeOK
<1>1. /\ NyOpen!OfDay(d) \subseteq zones
      /\ \A z \in NyOpen!OfDay(d) : z.day = d
  BY <1>0 DEF NyOpen!OfDay
<1>2. CASE zones' = NyOpen!OfDay(d) /\ UNCHANGED formed
  <2>1. NyOpen!ZonesOnce'
    BY <1>1, <1>2 DEF NyOpen!ZonesOnce
  <2> QED BY <1>0, <1>1, <1>2, <2>1
<1>3. CASE /\ formed < MaxZones /\ formed' = formed + 1
           /\ \E low, high \in Prices :
                /\ low < high
                /\ zones' = NyOpen!OfDay(d) \cup
                       {[id |-> formed + 1, low |-> low, high |-> high, day |-> d]}
  <2>1. PICK low, high \in Prices :
           zones' = NyOpen!OfDay(d) \cup
                       {[id |-> formed + 1, low |-> low, high |-> high, day |-> d]}
    BY <1>3
  <2> DEFINE n == [id |-> formed + 1, low |-> low, high |-> high, day |-> d]
  <2>2. zones' = NyOpen!OfDay(d) \cup {n}
    BY <2>1
  <2>3. formed + 1 \in 1..MaxZones /\ formed' = formed + 1
    BY <1>0, <1>3
  <2>4. n.id = formed + 1 /\ n.day = d /\ n \in NyOpen!Zones
    BY <2>3 DEF NyOpen!Zones
  <2> HIDE DEF n
  <2>5. \A y \in zones : y.id \in Nat /\ y.id <= formed /\ y.id # n.id
                         /\ y.id \notin spent
    BY <1>0, <2>4 DEF NyOpen!ZonesOnce, NyOpen!Zones
  <2>6. \A i \in spent : i \in Nat /\ i <= formed /\ i # n.id
    BY <1>0, <2>4 DEF NyOpen!ZonesOnce
  <2>7. \A y \in zones' : y \in zones \/ y = n
    BY <1>1, <2>2
  <2>8. \A y, z \in zones' : y.id = z.id => y = z
    BY <2>5, <2>7 DEF NyOpen!ZonesOnce
  <2>9. \A z \in zones' : z.id <= formed' /\ z.id \notin spent'
    BY <1>0, <2>3, <2>4, <2>5, <2>6, <2>7
  <2>10. \A i \in spent' : i <= formed'
    BY <1>0, <2>3, <2>6
  <2>11. zones' \subseteq NyOpen!Zones /\ \A z \in zones' : z.day = day'
    BY <1>0, <1>1, <2>2, <2>4
  <2> QED BY <2>3, <2>8, <2>9, <2>10, <2>11 DEF NyOpen!ZonesOnce
<1> QED BY <1>2, <1>3 DEF NyOpen!Detect

(* What each way through ObNyOpen's on_bar leaves.                           *)
LEMMA NyOpenStep ==
    ASSUME kind = "ob_nyopen", NyOpenInv, NyOpen_OnBar, Fixed
    PROVE  NyOpenInv' /\ EngineMoves /\ FreshEntry
PROOF
<1>0. /\ NyOpen!NyOpenTypeOK /\ NyOpen!ZonesOnce /\ NyOpen!HeldWithinMaxHold
      /\ NoPosition = NyOpen!Flat /\ NoPosition' = NyOpen!Flat
      /\ kind \in ZoneKinds
  BY DEF NyOpenInv, NoPosition, Fixed, ZoneKinds
<1>1. PICK b \in BarSet, dt \in Gaps, d \in 0..MaxDays : NyOpen!OnBar(b, dt, d)
  BY DEF NyOpen_OnBar
<1>2. /\ zones \subseteq NyOpen!Zones /\ spent \subseteq 1..MaxZones
      /\ (\A z \in zones : z.day = day) /\ formed \in 0..MaxZones
      /\ held = NyOpen!Flat \/ held \in NyOpen!Positions
  BY <1>0 DEF NyOpen!NyOpenTypeOK
<1>3. day' = d
  BY <1>1 DEF NyOpen!OnBar
<1>4. /\ NyOpen!OfDay(d) \subseteq zones
      /\ \A z \in NyOpen!OfDay(d) : z.day = d
  BY <1>2 DEF NyOpen!OfDay
<1>5. ASSUME \/ dec' = NoDecision /\ (held' = NoPosition' <=> held = NoPosition)
             \/ dec' = EnterLong /\ held = NoPosition /\ held' # NoPosition'
             \/ dec' = ExitLong /\ held # NoPosition /\ held' = NoPosition',
             zones' \subseteq NyOpen!Zones, \A z \in zones' : z.day = day',
             formed' \in 0..MaxZones,
             NyOpen!ZonesOnce', spent' \subseteq 1..MaxZones,
             \/ held' = NyOpen!Flat
             \/ held' \in NyOpen!Positions /\ held'.age < MaxHold,
             held = NyOpen!Flat /\ held' # NyOpen!Flat => held'.zid \notin spent
      PROVE  NyOpenInv' /\ EngineMoves /\ FreshEntry
  <2>1. dec' \in {NyOpen!NoDecision, NyOpen!EnterLong, NyOpen!ExitLong}
    BY <1>5 DEF NoDecision, EnterLong, ExitLong, Decision, NyOpen!NoDecision,
                NyOpen!EnterLong, NyOpen!ExitLong, NyOpen!Decision
  <2>2. NyOpen!NyOpenTypeOK' /\ NyOpen!HeldWithinMaxHold'
    BY <1>3, <1>5, <2>1 DEF NyOpen!NyOpenTypeOK, NyOpen!HeldWithinMaxHold
  <2>3. EngineMoves
    BY <1>0, <1>5, ZoneMoves
  <2> QED BY <1>0, <1>5, <2>2, <2>3 DEF NyOpenInv, FreshEntry
<1>6. \A p \in NyOpen!Positions : p # NyOpen!Flat
  <2> SUFFICES ASSUME NEW p \in NyOpen!Positions PROVE p.zid # 0
    BY DEF NyOpen!Flat
  <2> QED BY EngineConstants DEF NyOpen!Positions
<1>7. CASE NyOpen!Exit(b, dt, d)
  <2>1. zones' = NyOpen!OfDay(d) /\ formed' = formed /\ spent' = spent
    BY <1>7 DEF NyOpen!Exit
  <2>2. NyOpen!ZonesOnce'
    BY <1>0, <1>4, <2>1 DEF NyOpen!ZonesOnce
  <2>3. dec' = ExitLong /\ held # NoPosition /\ held' = NoPosition'
    BY <1>0, <1>7 DEF NyOpen!Exit, ExitLong, NyOpen!ExitLong, Decision,
                      NyOpen!Decision
  <2>4. /\ zones' \subseteq NyOpen!Zones /\ formed' \in 0..MaxZones
        /\ (\A z \in zones' : z.day = day')
        /\ spent' \subseteq 1..MaxZones /\ held' = NyOpen!Flat
    BY <1>0, <1>2, <1>3, <1>4, <2>1, <2>3
  <2> QED BY <1>5, <2>2, <2>3, <2>4
<1>8. CASE NyOpen!Hold(b, dt, d)
  <2> DEFINE p == [held EXCEPT !.age = @ + dt]
  <2>1. /\ held \in NyOpen!Positions /\ held # NyOpen!Flat
        /\ ~NyOpen!Exits(held, b, dt)
        /\ NyOpen!Detect(d) /\ spent' = spent /\ held' = p
        /\ dec' = NoDecision
    BY <1>2, <1>8 DEF NyOpen!Hold, NoDecision, NyOpen!NoDecision, Decision,
                      NyOpen!Decision
  <2>2. p \in NyOpen!Positions /\ p.age < MaxHold
    <3>1. held.age + dt < MaxHold /\ held.age \in Nat /\ dt \in Nat
      BY <2>1, EngineConstants DEF NyOpen!Exits, NyOpen!Positions
    <3>2. held.age + dt \in 0..MaxHold
      BY <3>1, EngineConstants
    <3> QED BY <2>1, <3>1, <3>2 DEF NyOpen!Positions
  <2> HIDE DEF p
  <2>3. /\ zones' \subseteq NyOpen!Zones /\ (\A z \in zones' : z.day = day')
        /\ formed' \in 0..MaxZones /\ NyOpen!ZonesOnce'
    BY <1>0, <1>3, <2>1, NyOpenDetect
  <2>4. held' # NyOpen!Flat
    BY <1>6, <2>1, <2>2
  <2>5. /\ dec' = NoDecision /\ (held' = NoPosition' <=> held = NoPosition)
        /\ spent' \subseteq 1..MaxZones
    BY <1>0, <1>2, <2>1, <2>4
  <2> QED BY <1>5, <2>1, <2>2, <2>3, <2>5
<1>9. CASE NyOpen!Enter(b, d)
  <2> DEFINE z == NyOpen!Oldest(NyOpen!Tapped(b, d))
             p == [stop |-> z.low - StopPad,
                   target |-> z.high
                       + TargetR * NyOpen!Greatest(z.high - z.low, RiskFloor),
                   age |-> 0, zid |-> z.id]
  <2>1. /\ held = NyOpen!Flat /\ NyOpen!Tapped(b, d) # {}
        /\ held' = p /\ zones' = NyOpen!OfDay(d) \ {z}
        /\ spent' = spent \cup {z.id} /\ dec' = EnterLong /\ formed' = formed
    BY <1>9 DEF NyOpen!Enter, NyOpen!Without, EnterLong, NyOpen!EnterLong,
                Decision, NyOpen!Decision
  <2>2. z \in NyOpen!Tapped(b, d)
    <3>1. \A y \in NyOpen!Tapped(b, d) : y.id \in Nat
      BY <1>2, <1>4 DEF NyOpen!Tapped, NyOpen!Zones
    <3>2. \E y \in NyOpen!Tapped(b, d) : \A x \in NyOpen!Tapped(b, d) : y.id <= x.id
      BY <2>1, <3>1, OldestIsOne
    <3> QED BY <3>2 DEF NyOpen!Oldest
  <2> HIDE DEF z
  <2>3. z \in zones /\ z \in NyOpen!Zones /\ z.id <= formed /\ z.id \notin spent
    BY <1>0, <1>2, <1>4, <2>2 DEF NyOpen!Tapped, NyOpen!ZonesOnce
  <2>4. p \in NyOpen!Positions /\ p.age < MaxHold /\ p.zid = z.id
    <3>1. z.low \in Int /\ z.high \in Int /\ z.id \in 1..MaxZones
      BY <2>3, EngineConstants DEF NyOpen!Zones
    <3>2. NyOpen!Greatest(z.high - z.low, RiskFloor) \in Int
      BY <3>1, EngineConstants DEF NyOpen!Greatest
    <3>3. \A r \in Int : TargetR * r \in Int
      BY EngineConstants
    <3>4. /\ z.low - StopPad \in Int
          /\ z.high + TargetR * NyOpen!Greatest(z.high - z.low, RiskFloor) \in Int
      BY <3>1, <3>2, <3>3, EngineConstants
    <3>5. 0 \in 0..MaxHold /\ 0 < MaxHold
      BY EngineConstants
    <3> QED BY <3>1, <3>4, <3>5 DEF NyOpen!Positions
  <2> HIDE DEF p
  <2>5. NyOpen!ZonesOnce'
    <3>1. \A y \in zones' : y \in zones /\ y # z /\ y.id # z.id
      BY <1>0, <1>4, <2>1, <2>3 DEF NyOpen!ZonesOnce
    <3>2. \A y \in zones' : y.id <= formed' /\ y.id \notin spent'
      BY <1>0, <2>1, <3>1 DEF NyOpen!ZonesOnce
    <3>3. \A i \in spent' : i <= formed'
      BY <1>0, <2>1, <2>3 DEF NyOpen!ZonesOnce
    <3>4. \A y, x \in zones' : y.id = x.id => y = x
      BY <1>0, <3>1 DEF NyOpen!ZonesOnce
    <3> QED BY <3>2, <3>3, <3>4 DEF NyOpen!ZonesOnce
  <2>6. /\ dec' = EnterLong /\ held = NoPosition /\ held' # NoPosition'
        /\ held'.zid \notin spent
    BY <1>0, <1>6, <2>1, <2>3, <2>4
  <2>7. /\ zones' \subseteq NyOpen!Zones /\ (\A y \in zones' : y.day = day')
        /\ formed' \in 0..MaxZones
    BY <1>2, <1>3, <1>4, <2>1
  <2>8. spent' \subseteq 1..MaxZones
    BY <1>2, <2>1, <2>3 DEF NyOpen!Zones
  <2> QED BY <1>5, <2>1, <2>4, <2>5, <2>6, <2>7, <2>8
<1>10. CASE NyOpen!Pass(b, d)
  <2>1. /\ held = NyOpen!Flat /\ held' = NyOpen!Flat /\ spent' = spent
        /\ NyOpen!Detect(d) /\ dec' = NoDecision
    BY <1>10 DEF NyOpen!Pass, NoDecision, NyOpen!NoDecision, Decision,
                 NyOpen!Decision
  <2>2. /\ zones' \subseteq NyOpen!Zones /\ (\A z \in zones' : z.day = day')
        /\ formed' \in 0..MaxZones /\ NyOpen!ZonesOnce'
    BY <1>0, <1>3, <2>1, NyOpenDetect
  <2>3. /\ dec' = NoDecision /\ (held' = NoPosition' <=> held = NoPosition)
        /\ spent' \subseteq 1..MaxZones
    BY <1>0, <1>2, <2>1
  <2> QED BY <1>5, <2>1, <2>2, <2>3
<1> QED BY <1>1, <1>7, <1>8, <1>9, <1>10 DEF NyOpen!OnBar
-----------------------------------------------------------------------------
DecisionSet == [act : {"none", "enter", "exit"}, side : {-1, 0, 1}, qty : 0..2]

(* The three moves of the indicator engines are moves of the contract.       *)
LEMMA IndEnter ==
    ASSUME kind \notin ZoneKinds, Fixed, NEW side \in {-1, 1}, NEW qty \in {1, 2},
           Ind!Enter(side, qty)
    PROVE  EngineMoves /\ pos' \in -2..2 /\ pos' # 0 /\ dec' \in DecisionSet
PROOF
<1>1. pos = 0 /\ pos' = side * qty /\ dec' = Decision("enter", side, qty)
  BY DEF Ind!Enter, Ind!Decision, Decision
<1>2. side * qty \in -2..2 /\ side * qty # 0
  OBVIOUS
<1>3. EnginePos = pos /\ EnginePos' = pos'
  BY DEF EnginePos, Fixed
<1>4. EngineMoves
  BY <1>1, <1>3 DEF EngineMoves
<1>5. dec' \in DecisionSet
  BY <1>1 DEF Decision, DecisionSet
<1> QED BY <1>1, <1>2, <1>4, <1>5

LEMMA IndLeave ==
    ASSUME kind \notin ZoneKinds, Fixed, pos \in -2..2, Ind!Leave
    PROVE  EngineMoves /\ pos' = 0 /\ dec' \in DecisionSet
PROOF
<1> DEFINE side == IF pos > 0 THEN 1 ELSE -1
           qty  == side * pos
<1>1. pos # 0 /\ pos' = 0 /\ dec' = Decision("exit", side, qty)
  BY DEF Ind!Leave, Ind!Decision, Decision
<1>2. side \in {-1, 1} /\ qty \in {1, 2} /\ pos = side * qty
  BY <1>1
<1>3. EnginePos = pos /\ EnginePos' = pos'
  BY DEF EnginePos, Fixed
<1> HIDE DEF side, qty
<1>4. EngineMoves
  BY <1>1, <1>2, <1>3 DEF EngineMoves
<1>5. dec' \in DecisionSet
  BY <1>1, <1>2 DEF Decision, DecisionSet
<1> QED BY <1>1, <1>4, <1>5

LEMMA IndQuiet ==
    ASSUME kind \notin ZoneKinds, Fixed, Ind!NoDecision = dec', pos' = pos
    PROVE  EngineMoves /\ dec' \in DecisionSet
PROOF
<1>1. dec' = NoDecision /\ dec' \in DecisionSet
  BY DEF Ind!NoDecision, Ind!Decision, NoDecision, Decision, DecisionSet
<1>2. EnginePos' = EnginePos
  BY DEF EnginePos, Fixed
<1> QED BY <1>1, <1>2 DEF EngineMoves

IndOnBar == V4_OnBar \/ EmaCross_OnBar \/ RangeRevert_OnBar \/ MeanRev_OnBar

(* A bar of an indicator engine keeps its type, the limit of the range       *)
(* trade, and makes a move of the contract.                                  *)
LEMMA IndStep ==
    ASSUME IndInv, kind \in Kinds, short \in BOOLEAN, IndOnBar, Fixed
    PROVE  IndInv' /\ EngineMoves /\ FreshEntry /\ kind \notin ZoneKinds
PROOF
<1>1. kind \notin ZoneKinds /\ held' = held
  BY DEF IndOnBar, V4_OnBar, EmaCross_OnBar, RangeRevert_OnBar, MeanRev_OnBar,
         ZoneKinds, zoneVars
<1>2. FreshEntry
  BY <1>1 DEF FreshEntry
<1>3. /\ pos \in -2..2 /\ bars_held \in 0..MaxHoldBars /\ warm \in BOOLEAN
      /\ dec \in DecisionSet
      /\ idle_bars \in 0..MaxIdle /\ age \in 0..(MaxHoldBars + MaxIdle)
      /\ kind = "range_revert" /\ pos # 0 =>
           bars_held < MaxHoldBars /\ age = bars_held + idle_bars
  BY DEF IndInv, Ind!IndicatorTypeOK, DecisionSet
<1>4. ASSUME EngineMoves, dec' \in DecisionSet, pos' \in -2..2,
             bars_held' \in 0..MaxHoldBars, warm' \in BOOLEAN,
             idle_bars' \in 0..MaxIdle, age' \in 0..(MaxHoldBars + MaxIdle),
             kind = "range_revert" /\ pos' # 0 =>
               bars_held' < MaxHoldBars /\ age' = bars_held' + idle_bars'
      PROVE  IndInv' /\ EngineMoves
  BY <1>1, <1>4 DEF IndInv, Ind!IndicatorTypeOK, DecisionSet, Fixed
<1>5. Ind!Side(short) \in {-1, 1}
  BY DEF Ind!Side
<1>6. CASE Ind!Warming
  <2>1. /\ dec' = Ind!NoDecision /\ pos' = pos /\ bars_held' = bars_held
        /\ warm' \in BOOLEAN /\ age' = age /\ idle_bars' = idle_bars
    BY <1>6 DEF Ind!Warming, Ind!ageVars
  <2>2. EngineMoves /\ dec' \in DecisionSet
    BY <1>1, <2>1, IndQuiet
  <2>3. IndInv' /\ EngineMoves
    BY <1>3, <1>4, <2>1, <2>2
  <2> QED BY <1>1, <1>2, <2>3
<1>7. CASE ~Ind!Warming
  <2>1. CASE /\ warm' = warm /\ bars_held' = bars_held /\ kind # "range_revert"
             /\ age' = age /\ idle_bars' = idle_bars
             /\ \/ \E side \in {-1, 1}, qty \in {1, 2} : Ind!Enter(side, qty)
                \/ Ind!Leave
                \/ Ind!Quiet
    <3>1. CASE \E side \in {-1, 1}, qty \in {1, 2} : Ind!Enter(side, qty)
      <4>1. EngineMoves /\ pos' \in -2..2 /\ dec' \in DecisionSet
        BY <1>1, <3>1, IndEnter
      <4> QED BY <1>1, <1>2, <1>3, <1>4, <2>1, <4>1
    <3>2. CASE Ind!Leave
      <4>1. EngineMoves /\ pos' \in -2..2 /\ dec' \in DecisionSet
        BY <1>1, <1>3, <3>2, IndLeave
      <4> QED BY <1>1, <1>2, <1>3, <1>4, <2>1, <4>1
    <3>3. CASE Ind!Quiet
      <4>1. EngineMoves /\ pos' = pos /\ dec' \in DecisionSet
        BY <1>1, <3>3, IndQuiet DEF Ind!Quiet
      <4> QED BY <1>1, <1>2, <1>3, <1>4, <2>1, <4>1
    <3> QED BY <2>1, <3>1, <3>2, <3>3
  <2>2. CASE V4_OnBar
    <3>1. PICK converging, aligned, stopped, crossing \in BOOLEAN :
             Ind!V4OnBar(short, converging, aligned, stopped, crossing)
      BY <2>2 DEF V4_OnBar
    <3>2. /\ warm' = warm /\ bars_held' = bars_held
          /\ age' = age /\ idle_bars' = idle_bars
          /\ \/ Ind!Enter(Ind!Side(short), IF aligned THEN 2 ELSE 1)
             \/ Ind!Leave \/ Ind!Quiet
      BY <1>7, <3>1 DEF Ind!V4OnBar, Ind!ageVars
    <3>3. kind # "range_revert"
      BY <2>2 DEF V4_OnBar
    <3>4. (IF aligned THEN 2 ELSE 1) \in {1, 2}
      OBVIOUS
    <3> QED BY <1>1, <1>2, <1>5, <2>1, <3>2, <3>3, <3>4
  <2>3. CASE EmaCross_OnBar
    <3>1. PICK trend \in {-1, 0, 1} : Ind!EmaCrossOnBar(trend)
      BY <2>3 DEF EmaCross_OnBar
    <3>2. /\ warm' = warm /\ bars_held' = bars_held
          /\ age' = age /\ idle_bars' = idle_bars
          /\ \/ trend # 0 /\ Ind!Enter(trend, 1)
             \/ Ind!Leave \/ Ind!Quiet
      BY <1>7, <3>1 DEF Ind!EmaCrossOnBar, Ind!ageVars
    <3>3. kind # "range_revert"
      BY <2>3 DEF EmaCross_OnBar
    <3> QED BY <1>1, <1>2, <2>1, <3>1, <3>2, <3>3
  <2>4. CASE MeanRev_OnBar
    <3>1. PICK stretched, reverted \in BOOLEAN :
             Ind!MeanRevOnBar(short, stretched, reverted)
      BY <2>4 DEF MeanRev_OnBar
    <3>2. /\ warm' = warm /\ bars_held' = bars_held
          /\ age' = age /\ idle_bars' = idle_bars
          /\ \/ Ind!Enter(Ind!Side(short), 1)
             \/ Ind!Leave \/ Ind!Quiet
      BY <1>7, <3>1 DEF Ind!MeanRevOnBar, Ind!ageVars
    <3>3. kind # "range_revert"
      BY <2>4 DEF MeanRev_OnBar
    <3> QED BY <1>1, <1>2, <1>5, <2>1, <3>2, <3>3
  <2>5. CASE RangeRevert_OnBar
    <3>1. PICK near, back \in BOOLEAN : Ind!RangeRevertOnBar(short, near, back)
      BY <2>5 DEF RangeRevert_OnBar
    <3>2. /\ kind = "range_revert" /\ MaxHoldBars \in Nat /\ MaxHoldBars > 0
          /\ MaxIdle \in Nat
      BY <2>5, EngineConstants DEF RangeRevert_OnBar
    <3>3. CASE Ind!Idle
      <4>1. Ind!Quiet /\ bars_held' = bars_held /\ warm' = warm
        BY <3>3 DEF Ind!Idle
      <4>2. EngineMoves /\ pos' = pos /\ dec' \in DecisionSet
        BY <1>1, <4>1, IndQuiet DEF Ind!Quiet
      <4>3. CASE pos = 0
        <5>1. age' = age /\ idle_bars' = idle_bars
          BY <3>3, <4>3 DEF Ind!Idle, Ind!ageVars
        <5> QED BY <1>1, <1>2, <1>3, <1>4, <4>1, <4>2, <4>3, <5>1
      <4>4. CASE pos # 0
        <5>1. /\ idle_bars < MaxIdle /\ idle_bars' = idle_bars + 1
              /\ age' = age + 1
          BY <3>3, <4>4 DEF Ind!Idle
        <5>2. bars_held < MaxHoldBars /\ age = bars_held + idle_bars
          BY <1>3, <3>2, <4>4
        <5>3. /\ idle_bars' \in 0..MaxIdle
              /\ age' \in 0..(MaxHoldBars + MaxIdle)
              /\ age' = bars_held + idle_bars'
          BY <1>3, <3>2, <5>1, <5>2
        <5>4. pos' \in -2..2 /\ bars_held' \in 0..MaxHoldBars
              /\ warm' \in BOOLEAN
          BY <1>3, <4>1, <4>2
        <5>5. bars_held' < MaxHoldBars /\ age' = bars_held' + idle_bars'
          BY <4>1, <5>2, <5>3
        <5>6. IndInv' /\ EngineMoves
          BY <1>4, <4>2, <5>3, <5>4, <5>5
        <5> QED BY <1>1, <1>2, <5>6
      <4> QED BY <4>3, <4>4
    <3>4. CASE pos = 0 /\ Ind!Enter(Ind!Side(short), 1) /\ bars_held' = 0
               /\ age' = 0 /\ idle_bars' = 0 /\ warm' = warm
      <4>1. EngineMoves /\ pos' \in -2..2 /\ dec' \in DecisionSet
        BY <1>1, <1>5, <3>4, IndEnter
      <4>2. IndInv' /\ EngineMoves
        BY <1>3, <1>4, <3>2, <3>4, <4>1
      <4> QED BY <1>1, <1>2, <4>2
    <3>5. CASE pos = 0 /\ Ind!Quiet /\ bars_held' = bars_held /\ warm' = warm
               /\ age' = age /\ idle_bars' = idle_bars
      <4>1. EngineMoves /\ pos' = 0 /\ dec' \in DecisionSet
        BY <1>1, <3>5, IndQuiet DEF Ind!Quiet
      <4>2. IndInv' /\ EngineMoves
        BY <1>3, <1>4, <3>2, <3>5, <4>1
      <4> QED BY <1>1, <1>2, <4>2
    <3>6. CASE pos # 0 /\ bars_held' = bars_held + 1 /\ age' = age + 1
               /\ idle_bars' = idle_bars /\ warm' = warm
               /\ (Ind!Leave \/ (~Ind!HeldLongEnough(bars_held') /\ Ind!Quiet))
      <4>1. bars_held < MaxHoldBars /\ age = bars_held + idle_bars
        BY <1>3, <3>2, <3>6
      <4>2. /\ bars_held' \in 0..MaxHoldBars /\ age' = bars_held' + idle_bars'
            /\ age' \in 0..(MaxHoldBars + MaxIdle)
        BY <1>3, <3>2, <3>6, <4>1
      <4>3. CASE Ind!Leave
        <5>1. EngineMoves /\ pos' = 0 /\ dec' \in DecisionSet
          BY <1>1, <1>3, <4>3, IndLeave
        <5>2. IndInv' /\ EngineMoves
          BY <1>3, <1>4, <3>6, <4>2, <5>1
        <5> QED BY <1>1, <1>2, <5>2
      <4>4. CASE ~Ind!HeldLongEnough(bars_held') /\ Ind!Quiet
        <5>1. EngineMoves /\ pos' = pos /\ dec' \in DecisionSet
          BY <1>1, <4>4, IndQuiet DEF Ind!Quiet
        <5>2. bars_held' < MaxHoldBars
          BY <3>2, <4>2, <4>4 DEF Ind!HeldLongEnough
        <5>3. IndInv' /\ EngineMoves
          BY <1>3, <1>4, <3>6, <4>2, <5>1, <5>2
        <5> QED BY <1>1, <1>2, <5>3
      <4> QED BY <3>6, <4>3, <4>4
    <3> QED BY <1>7, <3>1, <3>3, <3>4, <3>5, <3>6
            DEF Ind!RangeRevertOnBar, Ind!ageVars
  <2> QED BY <2>2, <2>3, <2>4, <2>5 DEF IndOnBar
<1> QED BY <1>6, <1>7
-----------------------------------------------------------------------------
\* What the harness keeps of the open trade.
RecordInv ==
    /\ entry_side \in {-1, 0, 1} /\ entry_qty \in {1, 2} /\ trade \in 0..2
    /\ RecordMatchesEngine

(* The harness's record follows any engine that makes the contract's moves   *)
(* alone.                                                                    *)
LEMMA RecordStep ==
    ASSUME RecordInv, EngineMoves, Record(dec')
    PROVE  RecordInv'
PROOF
<1>1. /\ entry_side \in {-1, 0, 1} /\ entry_qty \in {1, 2}
      /\ EnginePos = entry_side * entry_qty
  BY DEF RecordInv, RecordMatchesEngine
<1>2. CASE dec' = NoDecision /\ EnginePos' = EnginePos
  <2>1. dec'.act = "none"
    BY <1>2 DEF NoDecision, Decision
  <2>2. trade' = 0 /\ entry_side' = entry_side /\ entry_qty' = entry_qty
    BY <2>1 DEF Record, Closes
  <2> QED BY <1>1, <1>2, <2>1, <2>2 DEF RecordInv, RecordMatchesEngine
<1>3. CASE \E side \in {-1, 1}, qty \in {1, 2} :
             /\ EnginePos = 0 /\ EnginePos' = side * qty
             /\ dec' = Decision("enter", side, qty)
  <2>1. PICK side \in {-1, 1}, qty \in {1, 2} :
             /\ EnginePos' = side * qty
             /\ dec' = Decision("enter", side, qty)
    BY <1>3
  <2>2. dec'.act = "enter" /\ dec'.side = side /\ dec'.qty = qty
    BY <2>1 DEF Decision
  <2>3. entry_side' = side /\ entry_qty' = qty /\ trade' = 0
    BY <2>2 DEF Record, Closes
  <2> QED BY <2>1, <2>2, <2>3 DEF RecordInv, RecordMatchesEngine
<1>4. CASE \E side \in {-1, 1}, qty \in {1, 2} :
             /\ EnginePos = side * qty /\ EnginePos' = 0
             /\ dec' = Decision("exit", side, qty)
  <2>1. PICK side \in {-1, 1}, qty \in {1, 2} :
             /\ EnginePos = side * qty /\ EnginePos' = 0
             /\ dec' = Decision("exit", side, qty)
    BY <1>4
  <2>2. dec'.act = "exit" /\ dec'.side = side /\ dec'.qty = qty
    BY <2>1 DEF Decision
  <2>3. entry_side = side /\ entry_qty = qty
    BY <1>1, <2>1
  <2>4. entry_side' = 0 /\ entry_qty' = 1 /\ trade' = entry_qty
    BY <2>2, <2>3 DEF Record, Closes
  <2> QED BY <2>1, <2>2, <2>3, <2>4 DEF RecordInv, RecordMatchesEngine
<1> QED BY <1>2, <1>3, <1>4 DEF EngineMoves

(* The inductive invariant: what each engine keeps, and the record.          *)
BTInv ==
    /\ kind \in Kinds /\ short \in BOOLEAN
    /\ LvlInv /\ ReentryInv /\ NyOpenInv /\ IndInv /\ RecordInv

LEMMA BTInit == Init => BTInv
PROOF
<1> SUFFICES ASSUME Init PROVE BTInv
  OBVIOUS
<1>1. /\ kind \in Kinds /\ short \in BOOLEAN
      /\ zones = {} /\ formed = 0 /\ held = NoPosition
      /\ spent = {} /\ broken = {} /\ day = 0
      /\ pos = 0 /\ bars_held = 0 /\ warm = FALSE /\ dec = NoDecision
      /\ age = 0 /\ idle_bars = 0
      /\ entry_side = 0 /\ entry_qty = 1 /\ trade = 0
  BY DEF Init, Ind!Init, Ind!NoDecision, Ind!Decision, NoDecision, Decision
<1>2. LvlInv
  BY <1>1, EngineConstants
     DEF LvlInv, Lvl!LvlTypeOK, Lvl!ZonesOnce, Lvl!LastLowAboveStop,
         NoPosition, Lvl!Flat, NoDecision, Decision, Lvl!NoDecision,
         Lvl!Decision
<1>3. ReentryInv
  BY <1>1, EngineConstants
     DEF ReentryInv, Reentry!ReentryTypeOK, Reentry!ZonesOnce,
         Reentry!HeldWithinMaxHold, NoPosition, NoDecision, Decision,
         Reentry!NoDecision, Reentry!Decision
<1>4. NyOpenInv
  BY <1>1, EngineConstants
     DEF NyOpenInv, NyOpen!NyOpenTypeOK, NyOpen!ZonesOnce,
         NyOpen!HeldWithinMaxHold, NoPosition, NoDecision, Decision,
         NyOpen!NoDecision, NyOpen!Decision
<1>5. IndInv
  <2>1. dec \in [act : {"none", "enter", "exit"}, side : {-1, 0, 1}, qty : 0..2]
    BY <1>1 DEF NoDecision, Decision
  <2>2. /\ pos \in -2..2 /\ bars_held \in 0..MaxHoldBars
        /\ idle_bars \in 0..MaxIdle /\ age \in 0..(MaxHoldBars + MaxIdle)
    BY <1>1, EngineConstants
  <2>3. warm \in BOOLEAN
    BY <1>1
  <2> QED BY <1>1, <2>1, <2>2, <2>3 DEF IndInv, Ind!IndicatorTypeOK
<1>6. EnginePos = 0
  BY <1>1 DEF EnginePos
<1>7. RecordInv
  BY <1>1, <1>6 DEF RecordInv, RecordMatchesEngine, NoDecision, Decision
<1> QED BY <1>1, <1>2, <1>3, <1>4, <1>5, <1>7 DEF BTInv

(* A bar of the engine under test leaves the other engines' parts idle.      *)
LEMMA ZoneBarKeepsInd ==
    ASSUME IndInv, kind \in ZoneKinds, Fixed, UNCHANGED indicatorVars, EngineMoves
    PROVE  IndInv'
PROOF
<1>1. kind # "range_revert" /\ EnginePos \in {0, 1}
  BY DEF ZoneKinds, EnginePos
<1>2. /\ dec' \in [act : {"none", "enter", "exit"}, side : {-1, 0, 1}, qty : 0..2]
  BY DEF EngineMoves, NoDecision, Decision
<1> QED BY <1>1, <1>2 DEF IndInv, Ind!IndicatorTypeOK, indicatorVars, Fixed

(* A bar keeps the invariant; the engine makes a move of the contract and    *)
(* enters no spent zone.                                                     *)
LEMMA BTStep ==
    ASSUME BTInv, Next
    PROVE  /\ BTInv' /\ EngineMoves /\ FreshEntry
           /\ kind = "lvl_imb" => Lvl!LevelKept
PROOF
<1>1. Fixed /\ OnBar /\ Record(dec')
  BY DEF Next, Fixed
<1>2. /\ kind' = kind /\ short' = short /\ kind \in Kinds /\ short \in BOOLEAN
      /\ LvlInv /\ ReentryInv /\ NyOpenInv /\ IndInv /\ RecordInv
  BY <1>1 DEF BTInv, Fixed
<1>3. EngineMoves => RecordInv'
  BY <1>1, <1>2, RecordStep
<1>4. CASE Lvl_OnBar
  <2>1. kind = "lvl_imb" /\ kind \in ZoneKinds /\ UNCHANGED indicatorVars
    BY <1>4 DEF Lvl_OnBar, ZoneKinds
  <2>2. LvlInv' /\ EngineMoves /\ FreshEntry /\ Lvl!LevelKept
    BY <1>1, <1>2, <1>4, <2>1, LvlStep
  <2>3. IndInv'
    BY <1>1, <1>2, <2>1, <2>2, ZoneBarKeepsInd
  <2> QED BY <1>2, <1>3, <2>1, <2>2, <2>3 DEF BTInv, ReentryInv, NyOpenInv
<1>5. CASE Reentry_OnBar
  <2>1. kind = "ob_reentry" /\ kind \in ZoneKinds /\ UNCHANGED indicatorVars
    BY <1>5 DEF Reentry_OnBar, ZoneKinds
  <2>2. ReentryInv' /\ EngineMoves /\ FreshEntry
    BY <1>1, <1>2, <1>5, <2>1, ReentryStep
  <2>3. IndInv'
    BY <1>1, <1>2, <2>1, <2>2, ZoneBarKeepsInd
  <2> QED BY <1>2, <1>3, <2>1, <2>2, <2>3 DEF BTInv, LvlInv, NyOpenInv
<1>6. CASE NyOpen_OnBar
  <2>1. kind = "ob_nyopen" /\ kind \in ZoneKinds /\ UNCHANGED indicatorVars
    BY <1>6 DEF NyOpen_OnBar, ZoneKinds
  <2>2. NyOpenInv' /\ EngineMoves /\ FreshEntry
    BY <1>1, <1>2, <1>6, <2>1, NyOpenStep
  <2>3. IndInv'
    BY <1>1, <1>2, <2>1, <2>2, ZoneBarKeepsInd
  <2> QED BY <1>2, <1>3, <2>1, <2>2, <2>3 DEF BTInv, LvlInv, ReentryInv
<1>7. CASE IndOnBar
  <2>1. IndInv' /\ EngineMoves /\ FreshEntry /\ kind \notin ZoneKinds
    BY <1>1, <1>2, <1>7, IndStep
  <2> QED BY <1>2, <1>3, <2>1 DEF BTInv, LvlInv, ReentryInv, NyOpenInv, ZoneKinds
<1> QED BY <1>1, <1>4, <1>5, <1>6, <1>7 DEF OnBar, IndOnBar

LEMMA BTStutter == BTInv /\ UNCHANGED vars => BTInv'
PROOF
<1> SUFFICES ASSUME BTInv, UNCHANGED vars PROVE BTInv'
  OBVIOUS
<1>1. /\ kind' = kind /\ short' = short /\ zones' = zones /\ formed' = formed
      /\ held' = held /\ spent' = spent /\ broken' = broken /\ day' = day
      /\ pos' = pos /\ bars_held' = bars_held /\ warm' = warm /\ dec' = dec
      /\ age' = age /\ idle_bars' = idle_bars
      /\ entry_side' = entry_side /\ entry_qty' = entry_qty /\ trade' = trade
  BY DEF vars, engineVars, zoneVars, indicatorVars, recordVars
<1>2. LvlInv'
  BY <1>1 DEF BTInv, LvlInv, Lvl!LvlTypeOK, Lvl!ZonesOnce,
              Lvl!LastLowAboveStop, Lvl!Level
<1>3. ReentryInv' /\ NyOpenInv'
  BY <1>1 DEF BTInv, ReentryInv, Reentry!ReentryTypeOK, Reentry!ZonesOnce,
              Reentry!HeldWithinMaxHold, NyOpenInv, NyOpen!NyOpenTypeOK,
              NyOpen!ZonesOnce, NyOpen!HeldWithinMaxHold
<1>4. IndInv'
  BY <1>1 DEF BTInv, IndInv, Ind!IndicatorTypeOK
<1>5. RecordInv'
  BY <1>1 DEF BTInv, RecordInv, RecordMatchesEngine, EnginePos, NoPosition
<1> QED BY <1>1, <1>2, <1>3, <1>4, <1>5 DEF BTInv

(* The invariant holds of every run of any engine.                           *)
THEOREM BTInductive == Spec => []BTInv
PROOF
<1>1. BTInv /\ [Next]_vars => BTInv'
  BY BTStep, BTStutter
<1> QED BY <1>1, BTInit, PTL DEF Spec
-----------------------------------------------------------------------------
(* Types: the engines' own, under the harness, and what it records.          *)
THEOREM EnginesTypeCorrect == Spec => []EnginesTypeOK
PROOF
<1>1. BTInv => EnginesTypeOK
  BY DEF BTInv, EnginesTypeOK, LvlInv, ReentryInv, NyOpenInv, IndInv, RecordInv
<1> QED BY <1>1, BTInductive, PTL

(* The harness's open trade is the engine's position and a trade is recorded *)
(* exactly when the engine leaves one: of the seven engines none makes a     *)
(* decision that run_backtest passes over.                                   *)
THEOREM HarnessFollowsEngine == Spec => []RecordMatchesEngine
PROOF
<1>1. BTInv => RecordMatchesEngine
  BY DEF BTInv, RecordInv
<1> QED BY <1>1, BTInductive, PTL

(* The time limits of the two order-block engines hold at every bar, gaps of *)
(* the feed included; a range trade outlives its limit by no more bars than  *)
(* had no range, on which range_revert.py:50 returns before it counts.       *)
THEOREM HoldsAreBounded == Spec => []HeldWithinMaxHold
PROOF
<1>1. BTInv => (kind = "range_revert" => Ind!HeldWithinMaxHold)
  <2> SUFFICES ASSUME BTInv, kind = "range_revert", pos # 0
               PROVE  age < MaxHoldBars + idle_bars
    BY DEF Ind!HeldWithinMaxHold
  <2>1. /\ bars_held < MaxHoldBars /\ age = bars_held + idle_bars
        /\ bars_held \in 0..MaxHoldBars /\ idle_bars \in 0..MaxIdle
    BY DEF BTInv, IndInv, Ind!IndicatorTypeOK
  <2> QED BY <2>1, EngineConstants
<1>2. BTInv => HeldWithinMaxHold
  BY <1>1 DEF BTInv, ReentryInv, NyOpenInv, HeldWithinMaxHold
<1> QED BY <1>2, BTInductive, PTL

(* LvlImb keeps a position only over bars that stay above its stop.          *)
THEOREM LowsStayAboveStop == Spec => []LastLowAboveStop
PROOF
<1>1. BTInv => LastLowAboveStop
  BY DEF BTInv, LvlInv, LastLowAboveStop
<1> QED BY <1>1, BTInductive, PTL

(* The stop LvlImb holds a position under never moves down.                  *)
THEOREM StopsOnlyTighten == Spec => StopNeverLoosens
PROOF
<1>1. BTInv /\ [Next]_vars => [kind = "lvl_imb" => Lvl!LevelKept]_vars
  BY BTStep
<1> QED BY <1>1, BTInductive, PTL DEF Spec, StopNeverLoosens

(* No engine enters a zone twice, ObReentry only after the price has traded  *)
(* wholly above it in between.                                               *)
THEOREM ZonesAreNotReentered == Spec => NoEntryIntoSpentZone
PROOF
<1>1. BTInv /\ [Next]_vars =>
        [held = NoPosition /\ held' # NoPosition => held'.zid \notin spent]_vars
  BY BTStep DEF FreshEntry
<1> QED BY <1>1, BTInductive, PTL DEF Spec, NoEntryIntoSpentZone

(* Each of the seven engines implements the contract the bridges rely on.    *)
THEOREM EnginesKeepContract == Spec => ContractSpec
PROOF
<1>1. Init => Contract!Init
  BY DEF Init, EnginePos, Contract!Init, Ind!Init, Ind!NoDecision, Ind!Decision,
         Contract!NoDecision, Contract!Decision
<1>2. BTInv /\ [Next]_vars => [Contract!Next]_<<EnginePos, dec>>
  <2>1. ASSUME BTInv, Next PROVE Contract!Next
    <3>1. EngineMoves
      BY <2>1, BTStep
    <3>2. CASE dec' = NoDecision /\ EnginePos' = EnginePos
      BY <3>2 DEF Contract!Next, Contract!Quiet, NoDecision, Decision,
                  Contract!NoDecision, Contract!Decision
    <3>3. ASSUME NEW side \in {-1, 1}, NEW qty \in {1, 2},
                 EnginePos = 0, EnginePos' = side * qty,
                 dec' = Decision("enter", side, qty)
          PROVE  Contract!Next
      <4>1. Contract!Enter(side, qty)
        BY <3>3 DEF Contract!Enter, Decision, Contract!Decision
      <4> QED BY <4>1 DEF Contract!Next
    <3>4. ASSUME NEW side \in {-1, 1}, NEW qty \in {1, 2},
                 EnginePos = side * qty, EnginePos' = 0,
                 dec' = Decision("exit", side, qty)
          PROVE  Contract!Next
      <4>1. Contract!Exit(side, qty)
        BY <3>4 DEF Contract!Exit, Decision, Contract!Decision
      <4> QED BY <4>1 DEF Contract!Next
    <3> QED BY <3>1, <3>2, <3>3, <3>4 DEF EngineMoves
  <2>2. ASSUME UNCHANGED vars PROVE UNCHANGED <<EnginePos, dec>>
    BY <2>2 DEF vars, engineVars, zoneVars, indicatorVars, EnginePos, NoPosition
  <2> QED BY <2>1, <2>2
<1> QED BY <1>1, <1>2, BTInductive, PTL DEF Spec, ContractSpec, Contract!Spec
=============================================================================
