------------------------------ MODULE Backtest ------------------------------
(***************************************************************************)
(* src/backtest/harness.py driving one engine, any of the seven: each bar  *)
(* goes to on_bar, its decision to the harness's record of the open trade. *)
(*                                                                         *)
(* The engine is the one whose module takes the step; prices, profits and  *)
(* the statistics over the finished trades are left out.  The bars end     *)
(* whenever they end: an open trade is then dropped, never recorded.       *)
(***************************************************************************)
EXTENDS EngineBars

VARIABLES
    kind,         \* the engine under test
    short,        \* its cfg.direction = "short", where it has one
    zones, formed, held, spent, broken, day,   \* of the zone engines
    pos, bars_held, warm, age, idle_bars,     \* of the indicator engines
    dec,          \* the last decision
    entry_side,   \* run_backtest's entry_side, 0 when flat
    entry_qty,    \* run_backtest's entry_qty
    trade         \* qty of the trade the last bar appended, 0 if none

zoneVars == <<zones, formed, held, spent, broken, day>>
indicatorVars == <<pos, bars_held, warm, age, idle_bars>>
engineVars == <<zoneVars, indicatorVars, dec>>
recordVars == <<entry_side, entry_qty, trade>>
vars == <<kind, short, engineVars, recordVars>>

Lvl     == INSTANCE LvlImb
Reentry == INSTANCE ObReentry
NyOpen  == INSTANCE ObNyOpen
Ind     == INSTANCE IndicatorEngines

ZoneKinds == {"lvl_imb", "ob_reentry", "ob_nyopen"}
Kinds == ZoneKinds \cup {"v4", "ema_cross", "range_revert", "meanrev_fade"}

NoPosition ==
    IF kind = "lvl_imb" THEN Lvl!Flat
    ELSE IF kind = "ob_reentry" THEN Reentry!Flat ELSE NyOpen!Flat

\* The position the engine under test believes it holds.
EnginePos ==
    IF kind \in ZoneKinds THEN (IF held = NoPosition THEN 0 ELSE 1) ELSE pos

Contract == INSTANCE EngineContract WITH pos <- EnginePos, Sizes <- {1, 2}

Init ==
    /\ kind \in Kinds
    /\ short \in (IF kind \in ZoneKinds THEN {FALSE} ELSE BOOLEAN)
    /\ zones = {} /\ formed = 0 /\ held = NoPosition
    /\ spent = {} /\ broken = {} /\ day = 0
    /\ Ind!Init
    /\ entry_side = 0 /\ entry_qty = 1 /\ trade = 0

Lvl_OnBar ==
    /\ kind = "lvl_imb"
    /\ \E b \in BarSet, sess \in Lvl!Sessions, gate \in BOOLEAN :
         Lvl!OnBar(b, sess, gate)
    /\ UNCHANGED <<day, indicatorVars>>

Reentry_OnBar ==
    /\ kind = "ob_reentry"
    /\ \E b \in BarSet, dt \in Gaps : Reentry!OnBar(b, dt)
    /\ UNCHANGED <<day, indicatorVars>>

NyOpen_OnBar ==
    /\ kind = "ob_nyopen"
    /\ \E b \in BarSet, dt \in Gaps, d \in {day, day + 1} \cap 0..MaxDays :
         NyOpen!OnBar(b, dt, d)
    /\ UNCHANGED <<broken, indicatorVars>>

V4_OnBar ==
    /\ kind = "v4"
    /\ \E converging, aligned, stopped, crossing \in BOOLEAN :
         Ind!V4OnBar(short, converging, aligned, stopped, crossing)
    /\ UNCHANGED zoneVars

EmaCross_OnBar ==
    /\ kind = "ema_cross"
    /\ \E trend \in {-1, 0, 1} : Ind!EmaCrossOnBar(trend)
    /\ UNCHANGED zoneVars

RangeRevert_OnBar ==
    /\ kind = "range_revert"
    /\ \E near, back \in BOOLEAN : Ind!RangeRevertOnBar(short, near, back)
    /\ UNCHANGED zoneVars

MeanRev_OnBar ==
    /\ kind = "meanrev_fade"
    /\ \E stretched, reverted \in BOOLEAN :
         Ind!MeanRevOnBar(short, stretched, reverted)
    /\ UNCHANGED zoneVars

OnBar == \/ Lvl_OnBar \/ Reentry_OnBar \/ NyOpen_OnBar \/ V4_OnBar
         \/ EmaCross_OnBar \/ RangeRevert_OnBar \/ MeanRev_OnBar

\* Mutant of Closes: a long's exit alone is looked for.
ClosesLong(d) == d.act = "exit" /\ d.side = 1 /\ entry_side = 1

\* An exit is taken for the trade it matches, else passed over.
Closes(d) == d.act = "exit" /\ entry_side = d.side

\* What the loop of run_backtest does with the decision of a bar.
Record(d) ==
    \/ /\ d.act = "enter"
       /\ entry_side' = d.side /\ entry_qty' = d.qty /\ trade' = 0
    \/ /\ Closes(d)
       /\ entry_side' = 0 /\ entry_qty' = 1 /\ trade' = entry_qty
    \/ /\ d.act # "enter" /\ ~Closes(d)
       /\ trade' = 0 /\ UNCHANGED <<entry_side, entry_qty>>

Next == OnBar /\ Record(dec') /\ UNCHANGED <<kind, short>>

Spec == Init /\ [][Next]_vars
-----------------------------------------------------------------------------
EnginesTypeOK ==
    /\ kind \in Kinds /\ short \in BOOLEAN
    /\ kind = "lvl_imb" => Lvl!LvlTypeOK
    /\ kind = "ob_reentry" => Reentry!ReentryTypeOK
    /\ kind = "ob_nyopen" => NyOpen!NyOpenTypeOK
    /\ Ind!IndicatorTypeOK
    /\ entry_side \in {-1, 0, 1} /\ entry_qty \in {1, 2} /\ trade \in 0..2

(* Every engine keeps to the contract the bridges and the harness rely on.   *)
ContractSpec == Contract!Spec

(* The harness's open trade is the engine's position, in side and size, and  *)
(* a trade is recorded exactly when the engine leaves one, with its size:    *)
(* no decision falls through run_backtest's chain (harness.py:45-58).        *)
RecordMatchesEngine ==
    /\ EnginePos = entry_side * entry_qty
    /\ IF dec.act = "exit" THEN trade = dec.qty ELSE trade = 0

(* While LvlImb holds a position the stop it is under never moves down       *)
(* ("ratchet", lvl_imb.py:15 and :93).                                       *)
StopNeverLoosens ==
    [][kind = "lvl_imb" => Lvl!LevelKept]_vars

(* LvlImb keeps a position only over bars that stay above its stop           *)
(* (lvl_imb.py:91-100).                                                      *)
LastLowAboveStop == kind = "lvl_imb" => Lvl!LastLowAboveStop

(* No engine enters a zone twice, but ObReentry after the price has traded   *)
(* wholly above it in between.                                               *)
NoEntryIntoSpentZone ==
    [][held = NoPosition /\ held' # NoPosition
         => held'.zid \notin spent]_vars

(* The engines with a time limit never hold past it: minutes for the order   *)
(* blocks; for the range its bars, and as many more as had no range.         *)
HeldWithinMaxHold ==
    /\ kind = "ob_reentry" => Reentry!HeldWithinMaxHold
    /\ kind = "ob_nyopen" => NyOpen!HeldWithinMaxHold
    /\ kind = "range_revert" => Ind!HeldWithinMaxHold

(* No zone is entered that a bar has closed below the low of, in the engines *)
(* whose docs keep a zone to that ("valid until a 5m CLOSE below its far     *)
(* edge", lvl_imb.py:10-11; "VALID until a 1m CLOSE below zone low",         *)
(* ob_reentry.py:6).                                                         *)
NoEntryIntoBrokenZone ==
    [][/\ kind \in {"lvl_imb", "ob_reentry"}
       /\ held = NoPosition /\ held' # NoPosition
       => held'.zid \notin broken]_vars
=============================================================================
