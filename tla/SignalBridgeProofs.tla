------------------------- MODULE SignalBridgeProofs -------------------------
(***************************************************************************)
(* Safety of SignalBridge for every configuration of the limits, every set *)
(* of signals and any number of orders.  LossesBounded is not inductive:   *)
(* what has to be kept while a bracket works is the room for its loss,     *)
(* which is the room evaluate leaves below the drawdown limit.             *)
(***************************************************************************)
EXTENDS SignalBridge, TLAPS

USE RiskAssumption, SignalAssumption

-----------------------------------------------------------------------------
(* The orders of a run in which none was sent while another was live. *)

\* Nothing is held without a working bracket, and no two orders are live.
OneAtATime ==
    /\ Live = {} => acct.open_position = 0
    /\ \A i, j \in Live : i = j
    /\ \A i \in Live :
          /\ orders[i].kind = "entry"
          /\ acct.open_position = IF orders[i].st = "open"
                                  THEN Size(orders[i]) ELSE 0

\* The live bracket's loss still fits under both limits.
RoomForTheLoss ==
    \A i \in Live :
        /\ Drawdown(acct) + orders[i].qty * orders[i].risk < TrailingDD
        /\ acct.session > -DailyHalt

WithinLimits ==
    /\ Drawdown(acct) < TrailingDD
    /\ acct.session > -(DailyHalt + MaxRisk)

\* A HALT answered when idle: still idle, and still no entry is approved.
StaysStopped == stopped => Idle /\ (acct.halted \/ Halts(acct))

\* A target can only win: evaluate rejects a stop at or beyond the entry.
RisksPositive ==
    \A i \in DOMAIN orders : orders[i].kind = "entry" => orders[i].risk > 0

Inv ==
    /\ SignalTypeOK
    /\ EntriesWithinCeiling
    /\ RisksPositive
    /\ ~overlapped => OneAtATime /\ RoomForTheLoss /\ WithinLimits
    /\ StaysStopped

-----------------------------------------------------------------------------
(* The risk manager. *)

LEMMA QuotientFits ==
    ASSUME NEW a \in Nat, NEW b \in Nat \ {0}, NEW n \in Int, n <= a \div b
    PROVE  n * b <= a
  <1>1. (a \div b) \in Int /\ b * (a \div b) <= a
    BY Z3
  <1>2. n * b <= (a \div b) * b
    BY <1>1, Z3
  <1> QED  BY <1>1, <1>2, Z3

\* An entry is approved only within every limit (evaluate, lines 77-107).
LEMMA ApprovedWithinLimits ==
    ASSUME NEW p \in Entries, NEW a \in Accounts,
           Evaluate(p, a).verdict \in {"ALLOW", "DOWNSIZE"},
           Evaluate(p, a).approved_qty > 0
    PROVE  /\ ~a.halted /\ ~Halts(a)
           /\ p.risk \in 1 .. MaxRisk
           /\ Evaluate(p, a).approved_qty \in 1 .. MaxContracts
           /\ Evaluate(p, a).approved_qty * p.risk <= MaxRisk
  <1>1. p.risk \in Int /\ p.requested_qty \in Int /\ p.action # "FLAT"
    BY DEF Entries
  <1>2. ~a.halted /\ ~Halts(a) /\ p.risk \in 1 .. MaxRisk
    BY <1>1 DEF Evaluate, Decision
  <1>3. Evaluate(p, a) = Sized(p, a)
    BY <1>1, <1>2 DEF Evaluate
  <1>4. Tier(p, a) \in Int /\ Tier(p, a) <= MaxContracts
    BY <1>1 DEF Tier, Least, Accounts
  <1>5. Affordable(p) \in Int
    BY <1>2 DEF Affordable
  <1>6. /\ Evaluate(p, a).approved_qty \in Int
        /\ Evaluate(p, a).approved_qty <= MaxContracts
        /\ Evaluate(p, a).approved_qty <= MaxRisk \div p.risk
    BY <1>3, <1>4, <1>5 DEF Sized, Decision, Least, Affordable
  <1>7. Evaluate(p, a).approved_qty * p.risk <= MaxRisk
    BY <1>2, <1>6, QuotientFits
  <1> QED  BY <1>2, <1>6, <1>7

\* Realizing a result moves the total by it and lets the drawdown grow by at
\* most its loss.
LEMMA RealizeMoves ==
    ASSUME NEW a \in Accounts, NEW pnl \in Int
    PROVE  /\ Realize(a, pnl) \in Accounts
           /\ Realize(a, pnl).session = a.session + pnl
           /\ Realize(a, pnl).open_position = a.open_position
           /\ Realize(a, pnl).halted = a.halted
           /\ Drawdown(Realize(a, pnl)) <= Greatest(Drawdown(a) - pnl, 0)
  <1> DEFINE r == Realize(a, pnl)
             high == Greatest(a.high_water, a.total + pnl)
  <1>1. high \in Int /\ high >= a.high_water /\ high >= a.total + pnl
        /\ (high = a.high_water \/ high = a.total + pnl)
    BY DEF Greatest, Accounts
  <1>2. r = [session |-> a.session + pnl, total |-> a.total + pnl,
             high_water |-> high, open_position |-> a.open_position,
             halted |-> a.halted]
    <2>1. r = [a EXCEPT !.session = a.session + pnl, !.total = a.total + pnl,
                        !.high_water = high]
      BY DEF Realize
    <2> HIDE DEF r, high
    <2>2. DOMAIN a = {"session", "total", "high_water", "open_position",
                      "halted"}
      BY DEF Accounts
    <2> QED  BY <2>1, <2>2 DEF Accounts
  <1> HIDE DEF r, high
  <1>3. r \in Accounts
    BY <1>1, <1>2 DEF Accounts
  <1>4. Drawdown(r) <= Greatest(Drawdown(a) - pnl, 0)
    <2>1. Drawdown(r) = high - (a.total + pnl)
      BY <1>2 DEF Drawdown
    <2>2. a.total \in Int /\ a.high_water \in Int
      BY DEF Accounts
    <2>3. high - (a.total + pnl) <= Greatest((a.high_water - a.total) - pnl, 0)
      BY <1>1, <2>2 DEF Greatest
    <2> QED  BY <2>1, <2>3 DEF Drawdown
  <1> QED  BY <1>2, <1>3, <1>4 DEF r

-----------------------------------------------------------------------------
(* What sending and executing do to the orders. *)

LEMMA SendAppends ==
    ASSUME SignalTypeOK, NEW kind \in Kinds, NEW side \in Sides,
           NEW qty \in Nat, NEW risk \in Int, Send(kind, side, qty, risk)
    PROVE  /\ SignalTypeOK'
           /\ DOMAIN orders' = DOMAIN orders \cup {Len(orders) + 1}
           /\ orders'[Len(orders) + 1] = [kind |-> kind, side |-> side,
                    qty |-> qty, risk |-> risk, st |-> "sent"]
           /\ \A i \in DOMAIN orders :
                 i # Len(orders) + 1 /\ orders'[i] = orders[i]
           /\ Live' = Live \cup {Len(orders) + 1}
  <1> DEFINE new == [kind |-> kind, side |-> side, qty |-> qty, risk |-> risk,
                     st |-> "sent"]
             n == Len(orders) + 1
  <1>1. orders' = Append(orders, new) /\ orders \in Seq(OrderRecords)
    BY DEF Send, SignalTypeOK
  <1>2. new \in OrderRecords
    BY DEF OrderRecords, Kinds, States
  <1>3. /\ orders' \in Seq(OrderRecords)
        /\ DOMAIN orders' = DOMAIN orders \cup {n}
        /\ orders'[n] = new
        /\ \A i \in DOMAIN orders : i # n /\ orders'[i] = orders[i]
    BY <1>1, <1>2
  <1>4. SignalTypeOK'
    BY <1>3 DEF Send, SignalTypeOK
  <1>5. new.st = "sent"
    OBVIOUS
  <1> HIDE DEF new, n
  <1>6. Live' = Live \cup {n}
    BY <1>3, <1>5 DEF Live
  <1> QED  BY <1>3, <1>4, <1>6 DEF new, n

LEMMA StateChanges ==
    ASSUME SignalTypeOK, NEW i \in DOMAIN orders, NEW st \in States,
           orders' = [orders EXCEPT ![i].st = st]
    PROVE  /\ orders' \in Seq(OrderRecords)
           /\ DOMAIN orders' = DOMAIN orders /\ Len(orders') = Len(orders)
           /\ \A j \in DOMAIN orders :
                 /\ orders'[j].kind = orders[j].kind
                 /\ orders'[j].side = orders[j].side
                 /\ orders'[j].qty = orders[j].qty
                 /\ orders'[j].risk = orders[j].risk
                 /\ orders'[j].st = IF j = i THEN st ELSE orders[j].st
           /\ Live' = IF st \in {"sent", "open"} THEN Live \cup {i}
                      ELSE Live \ {i}
  <1>1. orders \in Seq(OrderRecords)
    BY DEF SignalTypeOK
  <1>2. \A j \in DOMAIN orders : orders[j] \in OrderRecords
    BY <1>1
  <1>3. /\ DOMAIN orders' = DOMAIN orders
        /\ \A j \in DOMAIN orders :
              orders'[j] = IF j = i THEN [orders[i] EXCEPT !.st = st]
                           ELSE orders[j]
    BY <1>1
  <1>4. [orders[i] EXCEPT !.st = st] \in OrderRecords
    BY <1>2 DEF OrderRecords
  <1>5. orders' \in Seq(OrderRecords) /\ Len(orders') = Len(orders)
    BY <1>1, <1>4
  <1>6. \A j \in DOMAIN orders :
                 /\ orders'[j].kind = orders[j].kind
                 /\ orders'[j].side = orders[j].side
                 /\ orders'[j].qty = orders[j].qty
                 /\ orders'[j].risk = orders[j].risk
                 /\ orders'[j].st = IF j = i THEN st ELSE orders[j].st
    BY <1>2, <1>3 DEF OrderRecords
  <1>7. Live' = IF st \in {"sent", "open"} THEN Live \cup {i} ELSE Live \ {i}
    BY <1>3, <1>6 DEF Live
  <1> QED  BY <1>3, <1>5, <1>6, <1>7

-----------------------------------------------------------------------------
(* The invariant. *)

LEMMA InitInv == SignalInit => Inv
  <1> SUFFICES ASSUME SignalInit PROVE Inv
    OBVIOUS
  <1>1. orders = <<>> /\ Live = {}
    BY DEF SignalInit, Live
  <1>2. acct \in Accounts /\ Drawdown(acct) = 0 /\ acct.session = 0
        /\ acct.open_position = 0
    BY DEF SignalInit, NewAccount, Accounts, Drawdown
  <1>3. orders \in Seq(OrderRecords) /\ DOMAIN orders = {}
    BY <1>1
  <1>4. SignalTypeOK
    BY <1>2, <1>3 DEF SignalInit, SignalTypeOK
  <1>5. EntriesWithinCeiling /\ RisksPositive
    BY <1>3 DEF EntriesWithinCeiling, RisksPositive
  <1> QED
    BY <1>1, <1>2, <1>4, <1>5
       DEF SignalInit, Inv, OneAtATime, RoomForTheLoss, WithinLimits,
           StaysStopped

LEMMA SubmitEntryInv ==
    ASSUME Inv, NEW p \in Entries, EntrySubmitted(p)
    PROVE  Inv'
  <1> DEFINE d == Evaluate(p, acct)
             n == Len(orders) + 1
             new == [kind |-> "entry", side |-> SideOf(p),
                     qty |-> d.approved_qty, risk |-> p.risk, st |-> "sent"]
  <1>1. acct \in Accounts
    BY DEF Inv, SignalTypeOK
  <1>2. /\ ~acct.halted /\ ~Halts(acct)
        /\ p.risk \in 1 .. MaxRisk
        /\ d.approved_qty \in 1 .. MaxContracts
        /\ d.approved_qty * p.risk <= MaxRisk
    BY <1>1, ApprovedWithinLimits DEF EntrySubmitted
  <1>3. SideOf(p) \in Sides
    BY DEF SideOf, Sides
  <1> HIDE DEF d
  <1>4. Send("entry", SideOf(p), d.approved_qty, p.risk)
    BY DEF EntrySubmitted, d
  <1>5. /\ SignalTypeOK'
        /\ DOMAIN orders' = DOMAIN orders \cup {n}
        /\ orders'[n] = new
        /\ \A i \in DOMAIN orders : i # n /\ orders'[i] = orders[i]
        /\ Live' = Live \cup {n}
    <2>1. SignalTypeOK /\ "entry" \in Kinds
      BY DEF Inv, Kinds
    <2>2. d.approved_qty \in Nat /\ p.risk \in Int
      BY <1>2
    <2> QED  BY ONLY <1>3, <1>4, <2>1, <2>2, SendAppends, Zenon
  <1>6. new.kind = "entry" /\ new.qty = d.approved_qty /\ new.risk = p.risk
        /\ new.st = "sent"
    OBVIOUS
  <1>7. acct' = acct /\ stopped' = stopped
        /\ overlapped' = (overlapped \/ Live # {})
    BY <1>4 DEF Send
  <1> HIDE DEF n, new
  <1>8. EntriesWithinCeiling' /\ RisksPositive'
    BY <1>2, <1>5, <1>6 DEF Inv, EntriesWithinCeiling, RisksPositive
  <1>9. StaysStopped' /\ ~stopped
    BY <1>2, <1>7 DEF Inv, StaysStopped
  <1>10. ASSUME ~overlapped'
         PROVE  (OneAtATime /\ RoomForTheLoss /\ WithinLimits)'
    <2>1. Live = {} /\ ~overlapped /\ Live' = {n}
      BY <1>5, <1>7, <1>10
    <2>2. acct.open_position = 0 /\ WithinLimits
      BY <2>1 DEF Inv, OneAtATime
    <2>3. OneAtATime'
      BY <1>5, <1>6, <1>7, <2>1, <2>2 DEF OneAtATime
    <2>4. /\ TrailingDD - Drawdown(acct) > MaxRisk
          /\ acct.session > -DailyHalt
      BY <1>1, <1>2 DEF Halts, Accounts, Drawdown
    <2>5. RoomForTheLoss'
      BY <1>1, <1>2, <1>5, <1>6, <1>7, <2>1, <2>4
         DEF RoomForTheLoss, Drawdown, Accounts
    <2>6. WithinLimits'
      BY <1>7, <2>2 DEF WithinLimits, Drawdown
    <2> QED  BY <2>3, <2>5, <2>6
  <1> QED  BY <1>5, <1>8, <1>9, <1>10 DEF Inv

LEMMA SubmitFlatInv ==
    ASSUME Inv, FlatSubmitted
    PROVE  Inv'
  <1> DEFINE n == Len(orders) + 1
             side == IF acct.open_position > 0 THEN -1 ELSE 1
             qty == Abs(acct.open_position)
  <1>1. acct.open_position \in Int /\ acct.open_position # 0
    BY DEF Inv, SignalTypeOK, Accounts, FlatSubmitted
  <1>2. qty \in Nat /\ side \in Sides /\ Send("flat", side, qty, 0)
    BY <1>1 DEF Abs, Sides, FlatSubmitted
  <1> HIDE DEF side, qty
  <1>3. /\ SignalTypeOK'
        /\ DOMAIN orders' = DOMAIN orders \cup {n}
        /\ orders'[n].kind = "flat"
        /\ \A i \in DOMAIN orders : i # n /\ orders'[i] = orders[i]
    <2>1. SignalTypeOK /\ "flat" \in Kinds /\ 0 \in Int
      BY DEF Inv, Kinds
    <2> DEFINE new == [kind |-> "flat", side |-> side, qty |-> qty,
                       risk |-> 0, st |-> "sent"]
    <2>2. /\ SignalTypeOK'
          /\ DOMAIN orders' = DOMAIN orders \cup {n}
          /\ orders'[n] = new
          /\ \A i \in DOMAIN orders : i # n /\ orders'[i] = orders[i]
      BY ONLY <1>2, <2>1, SendAppends, Zenon
    <2>3. new.kind = "flat"
      OBVIOUS
    <2> HIDE DEF n, new
    <2> QED  BY <2>2, <2>3
  <1> HIDE DEF n
  <1>4. EntriesWithinCeiling' /\ RisksPositive'
    BY <1>3 DEF Inv, EntriesWithinCeiling, RisksPositive
  <1>5. acct' = acct /\ stopped' = stopped
        /\ overlapped' = (overlapped \/ Live # {})
    BY <1>2 DEF Send
  \* A flatten always overlaps: the position it closes has a working bracket.
  <1>6. overlapped'
    BY <1>1, <1>5 DEF Inv, OneAtATime
  <1>7. StaysStopped'
    BY <1>1, <1>5 DEF Inv, StaysStopped, Idle
  <1> QED  BY <1>3, <1>4, <1>6, <1>7 DEF Inv

LEMMA DroppedInv ==
    ASSUME Inv, NEW p \in Entries, EntryDropped(p)
    PROVE  Inv'
  <1>1. /\ acct' = acct /\ orders' = orders /\ overlapped' = overlapped
        /\ stopped' = (stopped \/ (Evaluate(p, acct).verdict = "HALT" /\ Idle))
    BY DEF EntryDropped
  <1>2. Evaluate(p, acct).verdict = "HALT" => Halts(acct)
    <2>1. p.action # "FLAT"
      BY DEF Entries
    <2> QED  BY <2>1 DEF Evaluate, Decision, Sized
  <1>3. Live' = Live /\ Idle' = Idle
    BY <1>1 DEF Live, Idle
  <1>4. StaysStopped'
    <2>1. StaysStopped
      BY DEF Inv
    <2>2. Halts(acct)' = Halts(acct)
      BY <1>1 DEF Halts, Drawdown
    <2> QED  BY <1>1, <1>2, <1>3, <2>1, <2>2, Zenon DEF StaysStopped
  <1>5. SignalTypeOK'
    BY <1>1 DEF Inv, SignalTypeOK
  <1>6. EntriesWithinCeiling' /\ RisksPositive'
    BY <1>1 DEF Inv, EntriesWithinCeiling, RisksPositive
  <1>7. ASSUME ~overlapped'
        PROVE  (OneAtATime /\ RoomForTheLoss /\ WithinLimits)'
    BY <1>1, <1>3, <1>7
       DEF Inv, OneAtATime, RoomForTheLoss, WithinLimits, Size, Drawdown
  <1> QED  BY <1>4, <1>5, <1>6, <1>7 DEF Inv

LEMMA HaltedInv ==
    ASSUME Inv, AccountHalted
    PROVE  Inv'
  <1>1. acct \in Accounts
    BY DEF Inv, SignalTypeOK
  <1>2. /\ acct' \in Accounts /\ acct'.halted
        /\ acct'.session = acct.session /\ acct'.total = acct.total
        /\ acct'.high_water = acct.high_water
        /\ acct'.open_position = acct.open_position
        /\ orders' = orders /\ overlapped' = overlapped /\ stopped' = stopped
    BY <1>1 DEF AccountHalted, Accounts
  <1>3. Live' = Live /\ Idle' = Idle /\ Drawdown(acct)' = Drawdown(acct)
    BY <1>2 DEF Live, Idle, Drawdown
  <1>4. StaysStopped'
    BY <1>2, <1>3 DEF Inv, StaysStopped
  <1>5. SignalTypeOK'
    BY <1>2 DEF Inv, SignalTypeOK
  <1>6. EntriesWithinCeiling' /\ RisksPositive'
    BY <1>2 DEF Inv, EntriesWithinCeiling, RisksPositive
  <1>7. ASSUME ~overlapped'
        PROVE  (OneAtATime /\ RoomForTheLoss /\ WithinLimits)'
    BY <1>2, <1>3, <1>7
       DEF Inv, OneAtATime, RoomForTheLoss, WithinLimits, Size
  <1> QED  BY <1>4, <1>5, <1>6, <1>7 DEF Inv

-----------------------------------------------------------------------------
(* Executions. *)

LEMMA OrderSizes ==
    ASSUME SignalTypeOK, NEW i \in DOMAIN orders
    PROVE  /\ Size(orders[i]) \in Int
           /\ orders[i].qty \in Nat /\ orders[i].risk \in Int
           /\ orders[i].qty * orders[i].risk \in Int
  <1>1. orders[i] \in OrderRecords
    BY DEF SignalTypeOK
  <1>2. orders[i].qty \in Nat /\ orders[i].risk \in Int
        /\ orders[i].side \in Int
    BY <1>1 DEF OrderRecords, Sides
  <1>3. Size(orders[i]) \in Int
    BY <1>2 DEF Size
  <1>4. orders[i].qty * orders[i].risk \in Int
    BY <1>2
  <1> QED  BY <1>2, <1>3, <1>4

\* What the orders keep when order i, still live, changes state.
LEMMA OrderChanges ==
    ASSUME Inv, NEW i \in DOMAIN orders, i \in Live, NEW st \in States,
           orders' = [orders EXCEPT ![i].st = st],
           acct' \in Accounts, UNCHANGED <<overlapped, stopped>>,
           ~overlapped => (OneAtATime /\ RoomForTheLoss /\ WithinLimits)'
    PROVE  Inv'
  <1>1. SignalTypeOK'
    BY StateChanges DEF Inv, SignalTypeOK
  <1>2. EntriesWithinCeiling' /\ RisksPositive'
    BY StateChanges DEF Inv, EntriesWithinCeiling, RisksPositive
  <1>3. StaysStopped' 
    BY DEF Inv, StaysStopped, Idle
  <1> QED  BY <1>1, <1>2, <1>3 DEF Inv

\* What an execution does to the account.
LEMMA ExecuteMoves ==
    ASSUME SignalTypeOK, NEW i, NEW st, NEW contracts \in Int,
           NEW pnl \in Int, Execute(i, st, contracts, pnl)
    PROVE  /\ acct' \in Accounts
           /\ acct'.session = acct.session + pnl
           /\ acct'.open_position = acct.open_position + contracts
           /\ Drawdown(acct)' <= Greatest(Drawdown(acct) - pnl, 0)
  <1> DEFINE a == [acct EXCEPT !.open_position = @ + contracts]
  <1>1. acct \in Accounts
    BY DEF SignalTypeOK
  <1>2. /\ a \in Accounts /\ a.session = acct.session
        /\ a.open_position = acct.open_position + contracts
        /\ a.total = acct.total /\ a.high_water = acct.high_water
    BY <1>1 DEF Accounts
  <1>3. acct' = Realize(a, pnl)
    BY DEF Execute
  <1> HIDE DEF a
  <1>4. Drawdown(acct)' = Drawdown(Realize(a, pnl))
    BY <1>3 DEF Drawdown
  <1>5. Drawdown(a) = Drawdown(acct)
    BY <1>2 DEF Drawdown
  <1> QED  BY <1>2, <1>3, <1>4, <1>5, RealizeMoves

\* The live order of a run without overlap, and what its loss can do.
LEMMA TheLiveOrder ==
    ASSUME Inv, ~overlapped, NEW i \in Live
    PROVE  /\ Live = {i} /\ orders[i].kind = "entry"
           /\ acct.open_position = IF orders[i].st = "open"
                                   THEN Size(orders[i]) ELSE 0
           /\ Size(orders[i]) \in Int
           /\ orders[i].qty * orders[i].risk \in 0 .. MaxRisk
           /\ Drawdown(acct) \in Int /\ acct.session \in Int
           /\ Drawdown(acct) + orders[i].qty * orders[i].risk < TrailingDD
           /\ acct.session > -DailyHalt
           /\ Drawdown(acct) < TrailingDD
  <1>1. i \in DOMAIN orders /\ orders[i] \in OrderRecords
    BY DEF Live, Inv, SignalTypeOK
  <1>2. /\ Live = {i} /\ orders[i].kind = "entry"
        /\ acct.open_position = IF orders[i].st = "open"
                                THEN Size(orders[i]) ELSE 0
    BY DEF Inv, OneAtATime
  <1>3. orders[i].qty \in Nat /\ orders[i].risk \in Int
        /\ orders[i].side \in Int
    BY <1>1 DEF OrderRecords, Sides
  <1>4. orders[i].risk > 0 /\ orders[i].qty * orders[i].risk <= MaxRisk
    BY <1>1, <1>2 DEF Inv, RisksPositive, EntriesWithinCeiling
  <1>5. orders[i].qty * orders[i].risk \in 0 .. MaxRisk
    <2>1. \A q \in Nat, r \in Nat : q * r \in Nat
      BY Z3
    <2>2. orders[i].qty * orders[i].risk \in Nat
      BY <1>3, <1>4, <2>1
    <2> QED  BY <1>4, <2>2
  <1>6. Size(orders[i]) \in Int
    BY <1>3 DEF Size
  <1>7. Drawdown(acct) \in Int /\ acct.session \in Int
    BY DEF Inv, SignalTypeOK, Accounts, Drawdown
  <1>8. /\ Drawdown(acct) + orders[i].qty * orders[i].risk < TrailingDD
        /\ acct.session > -DailyHalt /\ Drawdown(acct) < TrailingDD
    BY DEF Inv, RoomForTheLoss, WithinLimits
  <1> QED  BY <1>2, <1>5, <1>6, <1>7, <1>8

LEMMA EntryFillsInv ==
    ASSUME Inv, NEW i \in DOMAIN orders, EntryFills(i)
    PROVE  Inv'
  <1>1. SignalTypeOK /\ i \in Live /\ "open" \in States
    BY DEF Inv, Live, EntryFills, States
  <1>2. orders' = [orders EXCEPT ![i].st = "open"]
        /\ UNCHANGED <<overlapped, stopped>>
    BY DEF EntryFills, Execute
  <1>3. Size(orders[i]) \in Int
    BY <1>1, OrderSizes
  <1>4. /\ acct' \in Accounts
        /\ acct'.session = acct.session + 0
        /\ acct'.open_position = acct.open_position + Size(orders[i])
        /\ Drawdown(acct)' <= Greatest(Drawdown(acct) - 0, 0)
    BY <1>1, <1>3, ExecuteMoves DEF EntryFills
  <1>5. ASSUME ~overlapped
        PROVE  (OneAtATime /\ RoomForTheLoss /\ WithinLimits)'
    <2>1. /\ Live = {i} /\ acct.open_position = 0
          /\ orders[i].kind = "entry"
          /\ orders[i].qty * orders[i].risk \in 0 .. MaxRisk
          /\ Drawdown(acct) \in Int /\ acct.session \in Int
          /\ Drawdown(acct) + orders[i].qty * orders[i].risk < TrailingDD
          /\ acct.session > -DailyHalt
          /\ Drawdown(acct) < TrailingDD
      BY <1>1, <1>5, TheLiveOrder DEF EntryFills
    <2>2. /\ Live' = {i} /\ orders'[i].st = "open"
          /\ orders'[i].kind = "entry"
          /\ orders'[i].qty = orders[i].qty /\ orders'[i].risk = orders[i].risk
          /\ orders'[i].side = orders[i].side
      <3>1. Live' = IF "open" \in {"sent", "open"} THEN Live \cup {i}
                    ELSE Live \ {i}
        BY <1>1, <1>2, StateChanges
      <3>2. orders'[i].st = "open" /\ orders'[i].kind = orders[i].kind
        <4>1. \A j \in DOMAIN orders :
                 /\ orders'[j].kind = orders[j].kind
                 /\ orders'[j].st = IF j = i THEN "open" ELSE orders[j].st
          BY <1>1, <1>2, StateChanges
        <4> QED  BY <4>1
      <3>3. orders'[i].qty = orders[i].qty /\ orders'[i].risk = orders[i].risk
            /\ orders'[i].side = orders[i].side
        BY <1>1, <1>2, StateChanges
      <3> QED  BY <2>1, <3>1, <3>2, <3>3
    <2>3. OneAtATime'
      BY <1>3, <1>4, <2>1, <2>2 DEF OneAtATime, Size
    <2>4. Drawdown(acct)' \in Int
      BY <1>4 DEF Accounts, Drawdown
    <2>5. RoomForTheLoss'
      <3> DEFINE loss == orders[i].qty * orders[i].risk
      <3>1. orders'[i].qty * orders'[i].risk = loss
        BY <2>2
      <3>2. loss \in 0 .. MaxRisk /\ Drawdown(acct) + loss < TrailingDD
        BY <2>1
      <3> HIDE DEF loss
      <3>3. Drawdown(acct)' + loss < TrailingDD
        BY <1>4, <2>1, <2>4, <3>2 DEF Greatest
      <3> QED
        BY <1>4, <2>1, <2>2, <3>1, <3>3 DEF RoomForTheLoss
    <2>6. WithinLimits'
      BY <1>4, <2>1, <2>4 DEF WithinLimits, Greatest
    <2> QED  BY <2>3, <2>5, <2>6
  <1> QED  BY <1>1, <1>2, <1>4, <1>5, OrderChanges

\* A leg that realizes no less than the bracket's loss leaves the account flat
\* and within its limits.
LEMMA LegFillsInv ==
    ASSUME Inv, NEW i \in DOMAIN orders,
           orders[i].kind = "entry", orders[i].st = "open",
           NEW pnl \in Int, pnl >= -(orders[i].qty * orders[i].risk),
           Execute(i, "done", -Size(orders[i]), pnl)
    PROVE  Inv'
  <1>1. SignalTypeOK /\ i \in Live /\ "done" \in States
    BY DEF Inv, Live, States
  <1>2. orders' = [orders EXCEPT ![i].st = "done"]
        /\ UNCHANGED <<overlapped, stopped>>
    BY DEF Execute
  <1>3. Size(orders[i]) \in Int
    BY <1>1, OrderSizes
  <1>4. /\ acct' \in Accounts
        /\ acct'.session = acct.session + pnl
        /\ acct'.open_position = acct.open_position + -Size(orders[i])
        /\ Drawdown(acct)' <= Greatest(Drawdown(acct) - pnl, 0)
    <2>1. -Size(orders[i]) \in Int
      BY <1>3
    <2> QED  BY <1>1, <2>1, ExecuteMoves
  <1>5. ASSUME ~overlapped
        PROVE  (OneAtATime /\ RoomForTheLoss /\ WithinLimits)'
    <2> DEFINE loss == orders[i].qty * orders[i].risk
    <2>1. /\ Live = {i} /\ acct.open_position = Size(orders[i])
          /\ loss \in 0 .. MaxRisk
          /\ Drawdown(acct) \in Int /\ acct.session \in Int
          /\ Drawdown(acct) + loss < TrailingDD
          /\ acct.session > -DailyHalt
      BY <1>1, <1>5, TheLiveOrder
    <2>2. pnl >= -loss
      OBVIOUS
    <2> HIDE DEF loss
    <2>3. Live' = {}
      <3>1. Live' = IF "done" \in {"sent", "open"} THEN Live \cup {i}
                    ELSE Live \ {i}
        BY <1>1, <1>2, StateChanges
      <3> QED  BY <2>1, <3>1
    <2>4. acct'.open_position = 0
      BY <1>3, <1>4, <2>1
    <2>5. OneAtATime' /\ RoomForTheLoss'
      BY <2>3, <2>4 DEF OneAtATime, RoomForTheLoss
    <2>6. Drawdown(acct)' \in Int
      BY <1>4 DEF Accounts, Drawdown
    <2>7. WithinLimits'
      BY <1>4, <2>1, <2>2, <2>6 DEF WithinLimits, Greatest
    <2> QED  BY <2>5, <2>7
  <1> QED  BY <1>1, <1>2, <1>4, <1>5, OrderChanges

LEMMA StopFillsInv ==
    ASSUME Inv, NEW i \in DOMAIN orders, StopFills(i)
    PROVE  Inv'
  <1> DEFINE loss == orders[i].qty * orders[i].risk
  <1>1. loss \in Int
    <2>1. SignalTypeOK
      BY DEF Inv
    <2> QED  BY <2>1, OrderSizes
  <1>2. -loss \in Int /\ -loss >= -loss
    <2> HIDE DEF loss
    <2> QED  BY <1>1
  <1> QED  BY <1>2, LegFillsInv DEF StopFills

LEMMA TargetFillsInv ==
    ASSUME Inv, NEW i \in DOMAIN orders, TargetFills(i)
    PROVE  Inv'
  <1> DEFINE loss == orders[i].qty * orders[i].risk
  <1>1. orders[i].qty \in Nat /\ orders[i].risk \in Nat
    <2>1. SignalTypeOK /\ orders[i].risk > 0
      BY DEF Inv, RisksPositive, TargetFills
    <2> QED  BY <2>1, OrderSizes
  <1>2. \A q \in Nat, r \in Nat : q * r \in Nat
    BY Z3
  <1>3. loss \in Nat
    BY <1>1, <1>2
  <1>4. TargetR * loss \in Nat
    <2> HIDE DEF loss
    <2> QED  BY <1>2, <1>3
  <1>5. TargetR * loss \in Int /\ TargetR * loss >= -loss
    <2> DEFINE win == TargetR * loss
    <2>1. win \in Nat /\ loss \in Nat
      BY <1>3, <1>4
    <2> HIDE DEF win, loss
    <2>2. win \in Int /\ win >= -loss
      BY <2>1
    <2> QED  BY <2>2 DEF win
  <1> QED  BY <1>5, LegFillsInv DEF TargetFills

\* A flatten is only ever live in a run with an overlap.
LEMMA FlatFillsInv ==
    ASSUME Inv, NEW i \in DOMAIN orders, FlatFills(i)
    PROVE  Inv'
  <1>1. SignalTypeOK /\ i \in Live /\ "done" \in States
    BY DEF Inv, Live, FlatFills, States
  <1>2. Size(orders[i]) \in Int
    BY <1>1, OrderSizes
  <1>3. PICK pnl \in Swings : Execute(i, "done", Size(orders[i]), pnl)
    BY DEF FlatFills
  <1>4. pnl \in Int
    OBVIOUS
  <1>5. acct' \in Accounts
    BY <1>1, <1>2, <1>3, <1>4, ExecuteMoves
  <1>6. orders' = [orders EXCEPT ![i].st = "done"]
        /\ UNCHANGED <<overlapped, stopped>>
    BY <1>3 DEF Execute
  <1>7. overlapped
    BY <1>1 DEF Inv, OneAtATime, FlatFills
  <1> QED  BY <1>1, <1>5, <1>6, <1>7, OrderChanges

LEMMA OrderDiesInv ==
    ASSUME Inv, NEW i \in DOMAIN orders, OrderDies(i)
    PROVE  Inv'
  <1>1. SignalTypeOK /\ i \in Live /\ "dead" \in States
    BY DEF Inv, Live, OrderDies, States
  <1>2. orders' = [orders EXCEPT ![i].st = "dead"] /\ acct' = acct
        /\ UNCHANGED <<overlapped, stopped>>
    BY DEF OrderDies
  <1>3. acct' \in Accounts
    BY <1>1, <1>2 DEF SignalTypeOK
  <1>4. ASSUME ~overlapped
        PROVE  (OneAtATime /\ RoomForTheLoss /\ WithinLimits)'
    <2>1. Live = {i} /\ acct.open_position = 0
      BY <1>1, <1>4, TheLiveOrder DEF OrderDies
    <2>2. Live' = {}
      <3>1. Live' = IF "dead" \in {"sent", "open"} THEN Live \cup {i}
                    ELSE Live \ {i}
        BY <1>1, <1>2, StateChanges
      <3> QED  BY <2>1, <3>1
    <2>3. OneAtATime' /\ RoomForTheLoss'
      BY <1>2, <2>1, <2>2 DEF OneAtATime, RoomForTheLoss
    <2>4. WithinLimits'
      BY <1>2, <1>4 DEF Inv, WithinLimits, Drawdown
    <2> QED  BY <2>3, <2>4
  <1> QED  BY <1>1, <1>2, <1>3, <1>4, OrderChanges

-----------------------------------------------------------------------------
(* The theorems. *)

LEMMA StutterInv ==
    ASSUME Inv, UNCHANGED signalVars
    PROVE  Inv'
  <1>1. /\ acct' = acct /\ orders' = orders
        /\ overlapped' = overlapped /\ stopped' = stopped
    BY DEF signalVars
  <1>2. Live' = Live /\ Idle' = Idle /\ Drawdown(acct)' = Drawdown(acct)
    BY <1>1 DEF Live, Idle, Drawdown
  <1>3. StaysStopped'
    BY <1>1, <1>2 DEF Inv, StaysStopped, Halts
  <1>4. SignalTypeOK'
    BY <1>1 DEF Inv, SignalTypeOK
  <1>5. EntriesWithinCeiling' /\ RisksPositive'
    BY <1>1 DEF Inv, EntriesWithinCeiling, RisksPositive
  <1>6. ASSUME ~overlapped'
        PROVE  (OneAtATime /\ RoomForTheLoss /\ WithinLimits)'
    BY <1>1, <1>2, <1>6
       DEF Inv, OneAtATime, RoomForTheLoss, WithinLimits, Size
  <1> QED  BY <1>3, <1>4, <1>5, <1>6 DEF Inv

LEMMA NextInv == Inv /\ [SignalNext]_signalVars => Inv'
  <1> SUFFICES ASSUME Inv, [SignalNext]_signalVars PROVE Inv'
    OBVIOUS
  <1>1. CASE FlatSubmitted
    BY <1>1, SubmitFlatInv
  <1>2. ASSUME NEW p \in Entries, EntryDropped(p) PROVE Inv'
    BY <1>2, DroppedInv
  <1>3. ASSUME NEW p \in Entries, EntrySubmitted(p) PROVE Inv'
    BY <1>3, SubmitEntryInv
  <1>4. ASSUME NEW i \in DOMAIN orders,
               \/ EntryFills(i) \/ StopFills(i) \/ TargetFills(i)
               \/ FlatFills(i) \/ OrderDies(i)
        PROVE  Inv'
    BY <1>4, EntryFillsInv, StopFillsInv, TargetFillsInv, FlatFillsInv,
       OrderDiesInv
  <1>5. CASE AccountHalted
    BY <1>5, HaltedInv
  <1>6. CASE UNCHANGED signalVars
    BY <1>6, StutterInv
  <1> QED  BY <1>1, <1>2, <1>3, <1>4, <1>5, <1>6 DEF SignalNext, Signal, Fill

LEMMA InvHolds == SignalSpec => []Inv
  BY InitInv, NextInv, PTL DEF SignalSpec

\* Every state of the account and of the orders is of its type: in particular
\* no order carries a negative quantity (bridge.py, on_signal).
THEOREM SignalTypeCorrect == SignalSpec => []SignalTypeOK
  <1>1. Inv => SignalTypeOK
    BY DEF Inv
  <1> QED  BY <1>1, InvHolds, PTL

\* The firm's limits hold while orders do not overlap, whatever the limits, the
\* sizes and the risks (manager.py 84-99).
THEOREM LimitsHold == SignalSpec => []LossesBounded
  <1>1. Inv => LossesBounded
    BY DEF Inv, LossesBounded, WithinLimits
  <1> QED  BY <1>1, InvHolds, PTL

\* Every order sent for an entry is within the per-trade ceiling and
\* max_contracts (manager.py 95-107).
THEOREM CeilingHolds == SignalSpec => []EntriesWithinCeiling
  <1>1. Inv => EntriesWithinCeiling
    BY DEF Inv
  <1> QED  BY <1>1, InvHolds, PTL

\* The position of a run without overlap is at most max_contracts, long or
\* short (manager.py 99).
THEOREM ExposureHolds == SignalSpec => []ExposureWithinMax
  <1>1. ASSUME Inv, ~overlapped PROVE Abs(acct.open_position) <= MaxContracts
    <2>1. CASE Live = {}
      BY <1>1, <2>1 DEF Inv, OneAtATime, Abs
    <2>2. CASE Live # {}
      <3>1. PICK i \in Live : TRUE
        BY <2>2
      <3>2. /\ acct.open_position = IF orders[i].st = "open"
                                    THEN Size(orders[i]) ELSE 0
            /\ orders[i].kind = "entry"
        BY <1>1, TheLiveOrder
      <3>3. i \in DOMAIN orders
        BY DEF Live
      <3>4. orders[i].qty \in 1 .. MaxContracts
        BY <1>1, <3>2, <3>3 DEF Inv, EntriesWithinCeiling
      <3>5. orders[i].side \in {-1, 1}
        <4>1. orders[i] \in OrderRecords
          BY <1>1, <3>3 DEF Inv, SignalTypeOK
        <4> QED  BY <4>1 DEF OrderRecords, Sides
      <3>6. Size(orders[i]) = orders[i].qty \/ Size(orders[i]) = -orders[i].qty
        BY <3>4, <3>5 DEF Size
      <3> QED  BY <3>2, <3>4, <3>6 DEF Abs
    <2> QED  BY <2>1, <2>2
  <1>2. Inv => ExposureWithinMax
    BY <1>1 DEF ExposureWithinMax
  <1> QED  BY <1>2, InvHolds, PTL

\* After a HALT answered with nothing held or live no order is sent any more
\* (manager.py 18, 84-93: nothing can change the account it was judged by).
THEOREM HaltHolds == SignalSpec => HaltIsFinal
  <1>1. ASSUME Inv, SignalNext, stopped PROVE Len(orders') = Len(orders)
    <2>1. Idle /\ (acct.halted \/ Halts(acct)) /\ SignalTypeOK
      BY <1>1 DEF Inv, StaysStopped
    <2>2. ~FlatSubmitted
      BY <2>1 DEF Idle, FlatSubmitted
    <2>3. ASSUME NEW p \in Entries PROVE ~EntrySubmitted(p)
      BY <2>1, ApprovedWithinLimits DEF EntrySubmitted, SignalTypeOK
    <2>4. ~Fill
      BY <2>1 DEF Idle, Live, Fill, EntryFills, StopFills, TargetFills,
                  FlatFills, OrderDies
    <2>5. orders' = orders
      BY <1>1, <2>2, <2>3, <2>4
         DEF SignalNext, Signal, EntryDropped, AccountHalted
    <2> QED  BY <2>5
  <1>2. Inv /\ [SignalNext]_signalVars
            => [stopped => Len(orders') = Len(orders)]_signalVars
    BY <1>1
  <1> QED  BY <1>2, InvHolds, PTL DEF SignalSpec, HaltIsFinal
=============================================================================
