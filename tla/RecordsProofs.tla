---------------------------- MODULE RecordsProofs ---------------------------
(***************************************************************************)
(* Theorems about the programs that keep the record, for any executions,   *)
(* lines, delays, bars and trades.                                         *)
(*                                                                         *)
(* The ledger of trade_log.py and session_report.py is a sum over the      *)
(* trips so far; that one more trip adds what it made is a fact of sums    *)
(* (TotalAppend), and the rest is what one execution does to the position, *)
(* the open trip and the cash.                                             *)
(*                                                                         *)
(* The forward log is right because a run writes only trades whose key it  *)
(* did not find, and any two trades of one run can be told apart; what it  *)
(* needs to know between its steps is Scoped, what the file always is,     *)
(* Filed, and what the engines can have made, Kept.                        *)
(*                                                                         *)
(* The tally sums the trades in the file because each is there once.  That *)
(* portfolio's file is in the order of the exits needs to be known between *)
(* the runs: there is a time c up to which bars have been seen, and of the *)
(* trades that ended by then each has its line or comes after all lines    *)
(* (Timely).  forward_log sorts; that a stable sort by entry lists the     *)
(* trades by their entries is a fact of sorting (SortsByEntry).            *)
(*                                                                         *)
(* The concurrency is the peak of a walk over the sorted entries and exits *)
(* (MarkKey is what they are sorted by): at an entry the walk counts no    *)
(* more trades than are open (EntryWithin), and at the last mark of that   *)
(* time it counts all of them (EntryReached).                              *)
(***************************************************************************)
EXTENDS Records, FoldTheorems, SequenceTheorems

OpenTrips == [side : {-1, 1}, epx : Nat, qty : Nat \ {0}, etime : Nat,
              no : Nat \ {0}]
DoneTrips == [side : {-1, 1}, epx : Nat, qty : Nat \ {0}, etime : Nat,
              no : Nat \ {0}, pts : Int]

LEMMA OpenIsTrip == \A o \in OpenTrips : o # Trips!NoTrip
  BY DEF OpenTrips, Trips!NoTrip
-----------------------------------------------------------------------------
(* The total. *)

\* The total of the trips is a sum over them, whatever the order.
LEMMA TotalIsSum ==
    ASSUME NEW T, IsFiniteSet(DOMAIN T), DOMAIN T \subseteq Int, NEW f,
           \A i \in DOMAIN T : f[i] \in Int /\ f[i] = T[i].pts * T[i].qty
    PROVE  Trips!TotalOf(T) = SumOver(f, DOMAIN T)
  <1> DEFINE D == DOMAIN T
             R(g) == g = [s \in SUBSET D |->
                            IF s = {} THEN 0
                            ELSE g[s \ {Max(s)}] + T[Max(s)].pts * T[Max(s)].qty]
             largest == [s \in SUBSET D |-> Max(s)]
  <1>1. Trips!TotalOf(T) = (CHOOSE g : R(g))[D]
    BY DEF Trips!TotalOf, Trips!FoldLeft, Trips!MapThenFoldSet, Trips!Max, Max
  <1>2. \A s \in SUBSET D : s # {} => Max(s) \in s
    <2> SUFFICES ASSUME NEW s \in SUBSET D, s # {} PROVE Max(s) \in s
      OBVIOUS
    <2>1. IsFiniteSet(s) /\ s \subseteq Int
      BY FS_Subset
    <2> QED
      BY <2>1, MaxIsLargest
  <1>3. ASSUME NEW g PROVE R(g) <=> SumsInOrder(g, f, D, largest)
    BY <1>2 DEF SumsInOrder
  <1>4. /\ SumsInOrder(Sums(f, D), f, D, largest)
        /\ \A g : SumsInOrder(g, f, D, largest) =>
                    \A s \in SUBSET D : g[s] = SumOver(f, s)
    <2>1. \A s \in SUBSET D : s # {} => largest[s] \in s
      BY <1>2
    <2>2. IsFiniteSet(D) /\ \A i \in D : f[i] \in Int
      OBVIOUS
    <2> HIDE DEF D, largest
    <2> QED
      BY <2>1, <2>2, SumAnyOrder
  <1> HIDE DEF R
  <1>5. R(CHOOSE g : R(g))
    BY <1>3, <1>4
  <1>6. (CHOOSE g : R(g))[D] = SumOver(f, D)
    BY <1>3, <1>4, <1>5
  <1> QED
    BY <1>1, <1>6

\* One more trip adds what it made.
LEMMA TotalAppend ==
    ASSUME NEW T \in Seq(DoneTrips), NEW t \in DoneTrips
    PROVE  /\ Trips!TotalOf(T) \in Int
           /\ Trips!TotalOf(Append(T, t)) = Trips!TotalOf(T) + t.pts * t.qty
  <1> DEFINE n == Len(T)
             U == Append(T, t)
             f == [i \in 1..n |-> T[i].pts * T[i].qty]
             h == [i \in 1..(n + 1) |-> U[i].pts * U[i].qty]
  <1>0. \A r \in DoneTrips : r.pts * r.qty \in Int
    BY DEF DoneTrips
  <1>1. /\ n \in Nat /\ DOMAIN T = 1..n /\ DOMAIN U = 1..(n + 1)
        /\ \A i \in 1..n : T[i] \in DoneTrips /\ U[i] = T[i]
        /\ U[n + 1] = t
    OBVIOUS
  <1>2. IsFiniteSet(1..n) /\ IsFiniteSet(1..(n + 1))
    BY <1>1, FS_Interval
  <1> HIDE DEF n, U
  <1>3. \A i \in 1..n : f[i] \in Int /\ f[i] = T[i].pts * T[i].qty
    BY <1>0, <1>1
  <1>4. /\ \A i \in 1..(n + 1) : h[i] \in Int /\ h[i] = U[i].pts * U[i].qty
        /\ \A i \in 1..n : h[i] = f[i]
        /\ h[n + 1] = t.pts * t.qty
    BY <1>0, <1>1
  <1> HIDE DEF f, h
  <1>5. Trips!TotalOf(T) = SumOver(f, 1..n)
    BY <1>1, <1>2, <1>3, TotalIsSum
  <1>6. Trips!TotalOf(U) = SumOver(h, 1..(n + 1))
    BY <1>1, <1>2, <1>4, TotalIsSum
  <1>7. n + 1 \in 1..(n + 1) /\ (1..(n + 1)) \ {n + 1} = 1..n
    BY <1>1
  <1>8. SumOver(h, 1..(n + 1)) = h[n + 1] + SumOver(h, 1..n)
    <2>1. \A i \in 1..(n + 1) : h[i] \in Int
      BY <1>4
    <2>2. SumOver(h, 1..(n + 1)) = h[n + 1] + SumOver(h, (1..(n + 1)) \ {n + 1})
      BY <1>2, <1>7, <2>1, SumOverRemove
    <2> QED
      BY <1>7, <2>2
  <1>9. SumOver(h, 1..n) = SumOver(f, 1..n)
    BY <1>1, <1>2, <1>3, <1>4, SumOverSame
  <1>10. SumOver(f, 1..n) \in Int
    BY <1>2, <1>3, SumOverInt
  <1>11. t.pts * t.qty \in Int
    BY <1>0
  <1>12. Trips!TotalOf(T) \in Int
    BY <1>5, <1>10
  <1>13. Trips!TotalOf(U) = Trips!TotalOf(T) + t.pts * t.qty
    BY <1>4, <1>5, <1>6, <1>7, <1>8, <1>9, <1>10, <1>11
  <1> QED
    BY <1>12, <1>13 DEF U

LEMMA TotalInt ==
    ASSUME NEW T \in Seq(DoneTrips)
    PROVE  Trips!TotalOf(T) \in Int
  <1> DEFINE t == [side |-> 1, epx |-> 0, qty |-> 1, etime |-> 0, no |-> 1, pts |-> 0]
  <1>1. t \in DoneTrips
    BY DEF DoneTrips
  <1> QED
    BY <1>1, TotalAppend

LEMMA TotalOfNone == Trips!TotalOf(<<>>) = 0
  <1>1. DOMAIN <<>> = {}
    OBVIOUS
  <1>2. IsFiniteSet({})
    BY FS_EmptySet
  <1>3. \A i \in DOMAIN <<>> : <<>>[i] \in Int /\ <<>>[i] = <<>>[i].pts * <<>>[i].qty
    BY <1>1
  <1>4. Trips!TotalOf(<<>>) = SumOver(<<>>, DOMAIN <<>>)
    BY <1>1, <1>2, <1>3, TotalIsSum
  <1> QED
    BY <1>1, <1>4, SumOverNone
-----------------------------------------------------------------------------
(* The ledger. *)

Ledger ==
    /\ pos \in Int /\ cash \in Int /\ scaled \in BOOLEAN
    /\ fills \in Nat /\ now \in Nat
    /\ trips \in Seq(DoneTrips)
    /\ op \in OpenTrips \cup {Trips!NoTrip}
    /\ op = Trips!NoTrip <=> pos = 0
    /\ ~scaled /\ pos # 0 => pos = op.side * op.qty
    /\ ~scaled => cash = Trips!TotalOf(trips) -
                           (IF pos = 0 THEN 0 ELSE pos * op.epx)

LEMMA ClosedTrip ==
    ASSUME NEW o \in OpenTrips, NEW px \in Nat
    PROVE  /\ Trips!Closed(o, px) \in DoneTrips
           /\ Trips!Closed(o, px).qty = o.qty
           /\ o.side = 1 => Trips!Closed(o, px).pts = px - o.epx
           /\ o.side = -1 => Trips!Closed(o, px).pts = o.epx - px
  BY DEF OpenTrips, DoneTrips, Trips!Closed, Trips!Points

\* What a whole position cost and brought in is what its trip made.
LEMMA ClosedPays ==
    ASSUME NEW side \in {-1, 1}, NEW qty \in Nat, NEW epx \in Nat, NEW px \in Nat,
           NEW pts, pts = IF side = 1 THEN px - epx ELSE epx - px
    PROVE  pts * qty = (side * qty) * px - (side * qty) * epx
  <1>1. CASE side = 1
    <2>1. (px - epx) * qty = qty * px - qty * epx
      OBVIOUS
    <2>2. side * qty = qty
      BY <1>1
    <2> QED
      BY <1>1, <2>1, <2>2
  <1>2. CASE side = -1
    <2>1. (epx - px) * qty = (-qty) * px - (-qty) * epx
      OBVIOUS
    <2>2. side * qty = -qty
      BY <1>2
    <2> QED
      BY <1>2, <2>1, <2>2
  <1> QED
    BY <1>1, <1>2

LEMMA LedgerStep ==
    ASSUME Ledger, NEW signed \in Int \ {0}, NEW px \in Nat, NEW wait \in Nat,
           Trips!Execution(signed, px, wait)
    PROVE  Ledger'
  <1>0. /\ fills' = fills + 1 /\ now' = now + wait /\ pos' = pos + signed
        /\ cash' = cash - signed * px
        /\ scaled' = (scaled \/ (pos # 0 /\ pos' # 0))
    BY DEF Trips!Execution
  <1>1. /\ fills' \in Nat /\ fills' # 0 /\ now' \in Nat /\ pos' \in Int
        /\ cash' \in Int /\ scaled' \in BOOLEAN
    <2>1. signed * px \in Int
      OBVIOUS
    <2> QED
      BY <1>0, <2>1 DEF Ledger
  <1>2. CASE pos = 0
    <2>1. /\ op' = [side |-> Trips!Sign(signed), epx |-> px, qty |-> Trips!Abs(signed),
                    etime |-> now', no |-> fills']
          /\ trips' = trips /\ pos' = signed
      BY <1>0, <1>2 DEF Trips!Execution, Trips!Pair
    <2>2. /\ Trips!Sign(signed) \in {-1, 1} /\ Trips!Abs(signed) \in Nat \ {0}
          /\ signed = Trips!Sign(signed) * Trips!Abs(signed)
      BY DEF Trips!Sign, Trips!Abs
    <2> HIDE DEF Trips!Sign
    <2>3. op' \in OpenTrips /\ op'.side * op'.qty = signed /\ op'.epx = px
      BY <1>1, <2>1, <2>2 DEF OpenTrips
    <2>4. op' # Trips!NoTrip
      BY <2>3, OpenIsTrip
    <2>5. (scaled' <=> scaled) /\ Trips!TotalOf(trips') = Trips!TotalOf(trips)
      BY <1>0, <1>2, <2>1 DEF Ledger
    <2>6. ~scaled => cash' = Trips!TotalOf(trips) - signed * px
      <3>1. ~scaled => cash = Trips!TotalOf(trips) - 0
        BY <1>2 DEF Ledger
      <3>2. trips \in Seq(DoneTrips) /\ cash \in Int /\ signed * px \in Int
        BY DEF Ledger
      <3>3. ~scaled => cash = Trips!TotalOf(trips)
        BY <3>1, <3>2, TotalInt
      <3> QED
        BY <1>0, <3>3
    <2> QED
      BY <1>1, <2>1, <2>3, <2>4, <2>5, <2>6 DEF Ledger, Trips!NoTrip
  <1>3. CASE pos # 0 /\ pos' = 0
    <2>1. op \in OpenTrips /\ op # Trips!NoTrip
      BY <1>3 DEF Ledger
    <2>2. trips' = Append(trips, Trips!Closed(op, px)) /\ op' = Trips!NoTrip
      BY <1>0, <1>3, <2>1 DEF Trips!Execution, Trips!Pair
    <2> DEFINE t == Trips!Closed(op, px)
    <2>3. /\ t \in DoneTrips /\ t.qty = op.qty
          /\ t.pts = IF op.side = 1 THEN px - op.epx ELSE op.epx - px
      BY <2>1, ClosedTrip DEF OpenTrips
    <2> HIDE DEF t
    <2>4. trips \in Seq(DoneTrips) /\ trips' \in Seq(DoneTrips)
      BY <2>2, <2>3 DEF Ledger, t
    <2>5. /\ Trips!TotalOf(trips) \in Int
          /\ Trips!TotalOf(trips') = Trips!TotalOf(trips) + t.pts * t.qty
      <3>1. trips' = Append(trips, t)
        BY <2>2 DEF t
      <3> QED
        BY <2>3, <2>4, <3>1, TotalAppend
    <2>6. ASSUME ~scaled
          PROVE  cash' = Trips!TotalOf(trips')
      <3>1. pos = op.side * op.qty /\ signed = -pos /\ pos \in Int
        <4>1. pos \in Int /\ pos + signed = 0
          BY <1>0, <1>3 DEF Ledger
        <4>2. pos = op.side * op.qty
          BY <1>3, <2>6 DEF Ledger
        <4> QED
          BY <4>1, <4>2
      <3>2. cash = Trips!TotalOf(trips) - pos * op.epx /\ cash \in Int
        BY <1>3, <2>6 DEF Ledger
      <3>3. t.pts * t.qty = pos * px - pos * op.epx
        BY <2>1, <2>3, <3>1, ClosedPays DEF OpenTrips
      <3>4. cash' = cash + pos * px
        <4>1. signed * px = -(pos * px) /\ pos * px \in Int
          BY <3>1
        <4> QED
          BY <1>0, <3>2, <4>1
      <3>5. pos * op.epx \in Int /\ pos * px \in Int
        BY <2>1, <3>1 DEF OpenTrips
      <3> QED
        BY <2>5, <3>2, <3>3, <3>4, <3>5
    <2>7. scaled' <=> scaled
      BY <1>0, <1>3 DEF Ledger
    <2>8. ~scaled' => cash' = Trips!TotalOf(trips') - 0
      <3>1. t.pts * t.qty \in Int
        BY <2>3 DEF DoneTrips
      <3> QED
        BY <2>5, <2>6, <2>7, <3>1
    <2> QED
      BY <1>1, <1>3, <2>2, <2>4, <2>7, <2>8 DEF Ledger
  <1>4. CASE pos # 0 /\ pos' # 0
    <2>1. op' = op /\ trips' = trips /\ scaled'
      BY <1>0, <1>4 DEF Trips!Execution, Trips!Pair
    <2> QED
      BY <1>1, <1>4, <2>1 DEF Ledger
  <1> QED
    BY <1>2, <1>3, <1>4
-----------------------------------------------------------------------------
(* The labels. *)

EnterLines == [ts : Nat, side : {-1, 1}, px : Nat, etime : Nat, no : Nat \ {0}]

\* A line and a trip of one execution.
SameEntry(r, t) == r.side = t.side /\ r.px = t.epx /\ r.etime = t.etime

Labels ==
    /\ program \notin Reports => trips = <<>>
    /\ enters \in Seq(EnterLines)
    /\ \A i \in DOMAIN enters :
         /\ enters[i].no <= fills
         /\ \E lag \in Lags[program] : enters[i].ts = enters[i].etime + lag
         /\ pos # 0 /\ enters[i].no = op.no => SameEntry(enters[i], op)
         /\ \A j \in DOMAIN trips :
              enters[i].no = trips[j].no => SameEntry(enters[i], trips[j])
    /\ pos # 0 => op.no <= fills
    /\ \A j \in DOMAIN trips : trips[j].no <= fills

\* What one execution does to the open trip and the trips, by number.
LEMMA PairNumbers ==
    ASSUME Ledger, NEW signed \in Int \ {0}, NEW px \in Nat, NEW wait \in Nat,
           Trips!Execution(signed, px, wait)
    PROVE  /\ fills' = fills + 1 /\ now' \in Nat
           /\ pos' # 0 => \/ /\ op'.no = fills' /\ op'.side = Trips!Sign(signed)
                             /\ op'.epx = px /\ op'.etime = now'
                          \/ pos # 0 /\ op' = op
           /\ \/ trips' = trips
              \/ \E t \in DoneTrips :
                   /\ trips' = Append(trips, t)
                   /\ pos # 0 /\ t.no = op.no /\ t.side = op.side
                   /\ t.epx = op.epx /\ t.etime = op.etime
  <1>0. /\ fills' = fills + 1 /\ now' = now + wait /\ pos' = pos + signed
        /\ pos \in Int /\ now \in Nat
    BY DEF Trips!Execution, Ledger
  <1>1. CASE pos = 0
    <2>1. /\ op' = [side |-> Trips!Sign(signed), epx |-> px, qty |-> Trips!Abs(signed),
                    etime |-> now', no |-> fills']
          /\ trips' = trips
      BY <1>0, <1>1 DEF Trips!Execution, Trips!Pair
    <2> QED
      BY <1>0, <2>1
  <1>2. CASE pos # 0 /\ pos' = 0
    <2>1. op \in OpenTrips /\ op # Trips!NoTrip
      BY <1>2 DEF Ledger
    <2>2. trips' = Append(trips, Trips!Closed(op, px))
      BY <1>0, <1>2, <2>1 DEF Trips!Execution, Trips!Pair
    <2>3. Trips!Closed(op, px) \in DoneTrips
      BY <2>1, ClosedTrip
    <2>4. /\ Trips!Closed(op, px).no = op.no /\ Trips!Closed(op, px).side = op.side
          /\ Trips!Closed(op, px).epx = op.epx
          /\ Trips!Closed(op, px).etime = op.etime
      BY DEF Trips!Closed
    <2> HIDE DEF Trips!Closed
    <2> QED
      BY <1>0, <1>2, <2>2, <2>3, <2>4
  <1>3. CASE pos # 0 /\ pos' # 0
    <2>1. op' = op /\ trips' = trips
      BY <1>0, <1>3 DEF Trips!Execution, Trips!Pair
    <2> QED
      BY <1>0, <1>3, <2>1
  <1> QED
    BY <1>1, <1>2, <1>3

\* The lines there were keep agreeing with the trips.
LEMMA OldLinesStep ==
    ASSUME Ledger, Labels, program \in Reports, program' = program,
           NEW signed \in Int \ {0}, NEW px \in Nat, NEW wait \in Nat,
           Trips!Execution(signed, px, wait), NEW i \in DOMAIN enters
    PROVE  LET r == enters[i] IN
           /\ r.no <= fills'
           /\ pos' # 0 /\ r.no = op'.no => SameEntry(r, op')
           /\ \A j \in DOMAIN trips' : r.no = trips'[j].no => SameEntry(r, trips'[j])
  <1> DEFINE r == enters[i]
  <1>1. /\ fills \in Nat /\ r.no \in Nat /\ r.no <= fills /\ trips \in Seq(DoneTrips)
        /\ pos # 0 /\ r.no = op.no => SameEntry(r, op)
        /\ \A j \in DOMAIN trips : r.no = trips[j].no => SameEntry(r, trips[j])
    <2>1. enters[i] \in EnterLines
      BY DEF Labels
    <2>2. r.no \in Nat
      BY <2>1 DEF EnterLines
    <2> QED
      BY <2>2 DEF Ledger, Labels
  <1> HIDE DEF r
  <1>2. fills' = fills + 1
    BY PairNumbers
  <1>3. pos' # 0 /\ r.no = op'.no => SameEntry(r, op')
    <2>1. CASE op'.no = fills'
      BY <1>1, <1>2, <2>1
    <2>2. CASE pos # 0 /\ op' = op
      BY <1>1, <2>2
    <2> QED
      BY <2>1, <2>2, PairNumbers
  <1>4. \A j \in DOMAIN trips' : r.no = trips'[j].no => SameEntry(r, trips'[j])
    <2>1. CASE trips' = trips
      BY <1>1, <2>1
    <2>2. ASSUME NEW t \in DoneTrips, trips' = Append(trips, t), pos # 0,
                 t.no = op.no, t.side = op.side, t.epx = op.epx,
                 t.etime = op.etime
          PROVE  \A j \in DOMAIN trips' : r.no = trips'[j].no => SameEntry(r, trips'[j])
      <3>1. r.no = t.no => SameEntry(r, t)
        BY <1>1, <2>2 DEF SameEntry
      <3>2. \A j \in DOMAIN trips' :
            \/ j \in DOMAIN trips /\ trips'[j] = trips[j]
            \/ trips'[j] = t
        BY <1>1, <2>2
      <3> QED
        BY <1>1, <3>1, <3>2
    <2> QED
      BY <2>1, <2>2, PairNumbers
  <1> QED
    BY <1>1, <1>2, <1>3, <1>4 DEF r

LEMMA TripNumbersStep ==
    ASSUME Ledger, Labels, NEW signed \in Int \ {0}, NEW px \in Nat,
           NEW wait \in Nat, Trips!Execution(signed, px, wait)
    PROVE  /\ pos' # 0 => op'.no <= fills'
           /\ \A j \in DOMAIN trips' : trips'[j].no <= fills /\ trips'[j].no \in Nat
  <1>0. /\ fills \in Nat /\ trips \in Seq(DoneTrips) /\ (pos # 0 => op.no <= fills)
        /\ \A j \in DOMAIN trips : trips[j].no <= fills /\ trips[j].no \in Nat
        /\ pos # 0 => op.no \in Nat
    <2>1. \A j \in DOMAIN trips : trips[j] \in DoneTrips
      BY DEF Ledger
    <2>2. \A j \in DOMAIN trips : trips[j].no \in Nat
      BY <2>1 DEF DoneTrips
    <2>3. pos # 0 => op \in OpenTrips
      BY DEF Ledger
    <2>4. pos # 0 => op.no \in Nat
      BY <2>3 DEF OpenTrips
    <2> QED
      BY <2>2, <2>4 DEF Ledger, Labels
  <1>1. pos' # 0 => op'.no <= fills'
    <2>1. fills' = fills + 1
      BY PairNumbers
    <2>2. CASE op'.no = fills'
      BY <1>0, <2>1, <2>2
    <2>3. CASE pos # 0 /\ op' = op
      BY <1>0, <2>1, <2>3
    <2> QED
      BY <2>2, <2>3, PairNumbers
  <1>2. \A j \in DOMAIN trips' : trips'[j].no <= fills /\ trips'[j].no \in Nat
    <2>1. CASE trips' = trips
      BY <1>0, <2>1
    <2>2. ASSUME NEW t \in DoneTrips, trips' = Append(trips, t), pos # 0, t.no = op.no
          PROVE  \A j \in DOMAIN trips' : trips'[j].no <= fills /\ trips'[j].no \in Nat
      <3>1. \A j \in DOMAIN trips' :
            \/ j \in DOMAIN trips /\ trips'[j] = trips[j]
            \/ trips'[j] = t
        BY <1>0, <2>2
      <3> QED
        BY <1>0, <2>2, <3>1
    <2> QED
      BY <2>1, <2>2, PairNumbers
  <1> QED
    BY <1>1, <1>2

LEMMA LabelsStep ==
    ASSUME Ledger, Labels, Fill
    PROVE  Labels'
  <1>0. program \in Reports /\ program' = program
    BY DEF Fill
  <1>1. PICK signed \in Shares[program], px \in Levels[program],
             wait \in Waits[program] :
               /\ Trips!Execution(signed, px, wait)
               /\ \/ Trips!Unlogged
                  \/ \E lag \in Lags[program], sig \in Levels[program] :
                       Trips!Logged(signed, px, sig, lag)
    BY DEF Fill
  <1>2. /\ signed \in Int \ {0} /\ px \in Nat /\ wait \in Nat
        /\ Lags[program] \subseteq Nat
    BY <1>0, <1>1, RecordsAssumption DEF Reports
  <1>3. /\ pos' # 0 => op'.no <= fills'
        /\ \A j \in DOMAIN trips' : trips'[j].no <= fills /\ trips'[j].no \in Nat
    BY <1>1, <1>2, TripNumbersStep
  <1>4. /\ fills \in Nat /\ fills' = fills + 1 /\ now' \in Nat
        /\ enters \in Seq(EnterLines)
    BY <1>1, <1>2, PairNumbers DEF Ledger, Labels
  <1>5. \A i \in DOMAIN enters :
          /\ enters[i].no <= fills'
          /\ \E lag \in Lags[program] : enters[i].ts = enters[i].etime + lag
          /\ pos' # 0 /\ enters[i].no = op'.no => SameEntry(enters[i], op')
          /\ \A j \in DOMAIN trips' :
               enters[i].no = trips'[j].no => SameEntry(enters[i], trips'[j])
    BY <1>0, <1>1, <1>2, OldLinesStep DEF Labels
  <1>6. \A j \in DOMAIN trips' : trips'[j].no <= fills'
    BY <1>3, <1>4
  <1>7. CASE Trips!Unlogged
    <2>1. enters' = enters
      BY <1>7 DEF Trips!Unlogged
    <2> QED
      BY <1>0, <1>3, <1>4, <1>5, <1>6, <2>1 DEF Labels
  <1>8. ASSUME NEW lag \in Lags[program], NEW sig, Trips!Logged(signed, px, sig, lag)
        PROVE  Labels'
    <2> DEFINE r == [ts |-> now' + lag, side |-> Trips!Sign(signed), px |-> px,
                     etime |-> now', no |-> fills']
    <2>1. enters' = Append(enters, r)
      BY <1>8 DEF Trips!Logged, Trips!LineOf
    <2>2. /\ r \in EnterLines /\ r.no = fills' /\ r.ts = r.etime + lag
          /\ r.px = px /\ r.side = Trips!Sign(signed) /\ r.etime = now'
      BY <1>2, <1>4, <1>8 DEF EnterLines, Trips!Sign
    <2> HIDE DEF r
    <2>3. pos' # 0 /\ r.no = op'.no => SameEntry(r, op')
      <3>1. CASE /\ op'.no = fills' /\ op'.side = Trips!Sign(signed)
                 /\ op'.epx = px /\ op'.etime = now'
        BY <2>2, <3>1 DEF SameEntry
      <3>2. CASE pos # 0 /\ op' = op
        <4>1. op.no <= fills /\ op.no \in Nat
          BY <3>2 DEF Labels, Ledger, OpenTrips
        <4> QED
          BY <1>4, <2>2, <3>2, <4>1
      <3> QED
        BY <1>1, <1>2, <3>1, <3>2, PairNumbers
    <2>4. \A j \in DOMAIN trips' : r.no # trips'[j].no
      BY <1>3, <1>4, <2>2
    <2>5. \A i \in DOMAIN enters' :
            \/ i \in DOMAIN enters /\ enters'[i] = enters[i]
            \/ enters'[i] = r
      BY <1>4, <2>1
    <2>6. enters' \in Seq(EnterLines)
      BY <1>4, <2>1, <2>2
    <2>7. \A i \in DOMAIN enters' :
            /\ enters'[i].no <= fills'
            /\ \E l \in Lags[program] : enters'[i].ts = enters'[i].etime + l
            /\ pos' # 0 /\ enters'[i].no = op'.no => SameEntry(enters'[i], op')
            /\ \A j \in DOMAIN trips' :
                 enters'[i].no = trips'[j].no => SameEntry(enters'[i], trips'[j])
      <3> SUFFICES ASSUME NEW i \in DOMAIN enters'
                   PROVE  /\ enters'[i].no <= fills'
                          /\ \E l \in Lags[program] : enters'[i].ts = enters'[i].etime + l
                          /\ pos' # 0 /\ enters'[i].no = op'.no => SameEntry(enters'[i], op')
                          /\ \A j \in DOMAIN trips' :
                               enters'[i].no = trips'[j].no => SameEntry(enters'[i], trips'[j])
        OBVIOUS
      <3>1. CASE enters'[i] = r
        BY <1>4, <1>8, <2>2, <2>3, <2>4, <3>1
      <3>2. CASE i \in DOMAIN enters /\ enters'[i] = enters[i]
        BY <1>5, <3>2
      <3> QED
        BY <2>5, <3>1, <3>2
    <2> QED
      BY <1>0, <1>3, <1>6, <2>6, <2>7 DEF Labels
  <1> QED
    BY <1>1, <1>7, <1>8

\* Where a line of the trip's side is near enough, Match finds a closest one.
LEMMA Matching ==
    ASSUME enters \in Seq(EnterLines), NEW t \in DoneTrips
    PROVE  LET Off(i) == Trips!Abs(enters[i].ts - t.etime)
               near == {i \in DOMAIN enters :
                          enters[i].side = t.side /\ Off(i) < MatchWithin}
           IN /\ near = {} => Trips!Match(t) = Trips!External
              /\ near # {} => \E k \in near :
                                /\ Trips!Match(t) = enters[k]
                                /\ \A i \in near : Off(k) <= Off(i)
  <1> DEFINE Off(i) == Trips!Abs(enters[i].ts - t.etime)
             near == {i \in DOMAIN enters :
                        enters[i].side = t.side /\ Off(i) < MatchWithin}
             best == {i \in near : \A j \in near : Off(i) <= Off(j)}
             f == [i \in near |-> Off(i)]
  <1>1. near = {} => Trips!Match(t) = Trips!External
    BY DEF Trips!Match
  <1>2. near # {} => Trips!Match(t) = enters[Min(best)]
    BY DEF Trips!Match, Trips!Min, Min
  <1>3. ASSUME near # {} PROVE Min(best) \in best
    <2>1. \A i \in near : Off(i) \in Int
      <3> SUFFICES ASSUME NEW i \in near PROVE Off(i) \in Int
        OBVIOUS
      <3>1. enters[i] \in EnterLines
        OBVIOUS
      <3>2. enters[i].ts \in Nat /\ t.etime \in Nat
        BY <3>1 DEF EnterLines, DoneTrips
      <3> QED
        BY <3>2 DEF Trips!Abs
    <2>2. near \subseteq 1..Len(enters) /\ Len(enters) \in Nat
      OBVIOUS
    <2>3. IsFiniteSet(near)
      BY <2>2, FS_Interval, FS_Subset
    <2> HIDE DEF near, Off
    <2>4. \A i \in near : f[i] \in Int
      BY <2>1
    <2> HIDE DEF f
    <2>5. PICK m \in near : \A i \in near : f[m] =< f[i]
      BY <1>3, <2>3, <2>4, ArgMinExists
    <2>6. m \in best
      BY <2>5 DEF f
    <2>7. best \subseteq near
      OBVIOUS
    <2> HIDE DEF best
    <2>8. IsFiniteSet(best) /\ best \subseteq Int
      <3>1. near \subseteq Int
        BY <2>2
      <3>2. IsFiniteSet(best)
        BY <2>3, <2>7, FS_Subset
      <3> QED
        BY <2>7, <3>1, <3>2
    <2> QED
      BY <2>6, <2>8, MinIsLeast
  <1> QED
    BY <1>1, <1>2, <1>3

\* The delays of a program are bounded, and less than MatchWithin.
LEMMA LagBound ==
    ASSUME program \in Reports
    PROVE  LET lag == Max({0} \cup Lags[program]) IN
           /\ lag \in Nat
           /\ \A l \in Lags[program] : l \in Nat /\ l <= lag /\ l < MatchWithin
  <1> DEFINE L == {0} \cup Lags[program]
  <1>1. Lags[program] \subseteq 0..(MatchWithin - 1) /\ MatchWithin \in Nat
    BY RecordsAssumption DEF Reports
  <1>2. L \subseteq 0..MatchWithin
    BY <1>1
  <1>3. IsFiniteSet(L)
    <2> HIDE DEF L
    <2>1. IsFiniteSet(0..MatchWithin)
      BY <1>1, FS_Interval
    <2> QED
      BY <1>2, <2>1, FS_Subset
  <1>4. L \subseteq Int /\ L # {}
    BY <1>2
  <1>5. Max(L) \in L /\ \A x \in L : Max(L) >= x
    BY <1>3, <1>4, MaxIsLargest
  <1> QED
    BY <1>1, <1>2, <1>5

\* How far off a line is: by its delay from its own entry, and from another by
\* no less than the time between the two, less its delay.
LEMMA LineOff ==
    ASSUME NEW etime \in Nat, NEW other \in Nat, NEW l \in Nat
    PROVE  /\ Trips!Abs((etime + l) - etime) = l
           /\ Trips!Abs((other + l) - etime) >= Abs(other - etime) - l
           /\ Abs(other - etime) \in Nat /\ Trips!Abs((other + l) - etime) \in Nat
  BY DEF Trips!Abs, Abs

LEMMA LabelsMatch == Ledger /\ Labels => LabelsMatchEntries
  <1> SUFFICES ASSUME Ledger, Labels, NEW t \in ToSet(trips)
               PROVE
      LET Apart(r) == Abs(r.etime - t.etime)
          others == {r \in ToSet(enters) : r.side = t.side /\ r.no # t.no}
          lag == Max({0} \cup Lags[program])
      IN IF \E r \in ToSet(enters) : r.no = t.no
         THEN /\ Trips!Match(t) # Trips!External
              /\ (\A r \in others : Apart(r) > 2 * lag) =>
                   Trips!Match(t).no = t.no /\ Trips!Slip(t) = 0
         ELSE (\A r \in others : Apart(r) >= MatchWithin + lag) =>
                Trips!Match(t) = Trips!External
    BY DEF LabelsMatchEntries
  <1> DEFINE Apart(r) == Abs(r.etime - t.etime)
             others == {r \in ToSet(enters) : r.side = t.side /\ r.no # t.no}
             lag == Max({0} \cup Lags[program])
             Off(i) == Trips!Abs(enters[i].ts - t.etime)
             near == {i \in DOMAIN enters :
                        enters[i].side = t.side /\ Off(i) < MatchWithin}
  <1>1. PICK j \in DOMAIN trips : t = trips[j]
    BY DEF ToSet
  <1>2. /\ t \in DoneTrips /\ enters \in Seq(EnterLines)
        /\ program \in Reports
    BY <1>1 DEF Ledger, Labels
  <1>3. /\ lag \in Nat
        /\ \A l \in Lags[program] : l \in Nat /\ l <= lag /\ l < MatchWithin
    BY <1>2, LagBound
  <1> HIDE DEF lag
  <1>4. \A i \in DOMAIN enters :
          /\ enters[i] \in EnterLines /\ enters[i] \in ToSet(enters)
          /\ \E l \in Lags[program] : enters[i].ts = enters[i].etime + l
          /\ enters[i].no = t.no => SameEntry(enters[i], t)
    BY <1>1, <1>2 DEF Labels, ToSet
  <1>5. /\ near = {} => Trips!Match(t) = Trips!External
        /\ near # {} => \E k \in near :
                          /\ Trips!Match(t) = enters[k]
                          /\ \A i \in near : Off(k) <= Off(i)
    BY <1>2, Matching
  <1>6. t.etime \in Nat /\ t.side \in {-1, 1} /\ t.epx \in Nat /\ MatchWithin \in Nat
    BY <1>2, RecordsAssumption DEF DoneTrips
  <1>7. \A i \in DOMAIN enters :
          /\ enters[i].etime \in Nat /\ enters[i].no \in Nat \ {0}
          /\ Off(i) \in Nat /\ Apart(enters[i]) \in Nat
          /\ Off(i) >= Apart(enters[i]) - lag
          /\ enters[i].no = t.no => Off(i) <= lag /\ Off(i) < MatchWithin
    <2> SUFFICES ASSUME NEW i \in DOMAIN enters
                 PROVE  /\ enters[i].etime \in Nat /\ enters[i].no \in Nat \ {0}
                        /\ Off(i) \in Nat /\ Apart(enters[i]) \in Nat
                        /\ Off(i) >= Apart(enters[i]) - lag
                        /\ enters[i].no = t.no => Off(i) <= lag /\ Off(i) < MatchWithin
      OBVIOUS
    <2>1. PICK l \in Lags[program] : enters[i].ts = enters[i].etime + l
      BY <1>4
    <2>2. enters[i].etime \in Nat /\ enters[i].no \in Nat \ {0}
      BY <1>4 DEF EnterLines
    <2>3. l \in Nat /\ l <= lag /\ l < MatchWithin
      BY <1>3, <2>1
    <2>4. /\ Off(i) >= Apart(enters[i]) - l
          /\ Off(i) \in Nat /\ Apart(enters[i]) \in Nat
      <3> DEFINE e == enters[i].etime
      <3>1. e \in Nat /\ t.etime \in Nat
        BY <1>6, <2>2
      <3>2. Off(i) = Trips!Abs((e + l) - t.etime) /\ Apart(enters[i]) = Abs(e - t.etime)
        BY <2>1
      <3> HIDE DEF e, Off, Apart
      <3>3. /\ Trips!Abs((e + l) - t.etime) >= Abs(e - t.etime) - l
            /\ Abs(e - t.etime) \in Nat /\ Trips!Abs((e + l) - t.etime) \in Nat
        BY <2>3, <3>1, LineOff
      <3> QED
        BY <3>2, <3>3
    <2>5. ASSUME enters[i].no = t.no PROVE Off(i) = l
      <3>1. enters[i].etime = t.etime
        BY <1>4, <2>5 DEF SameEntry
      <3> QED
        BY <1>6, <2>1, <2>3, <3>1, LineOff
    <2> QED
      BY <1>3, <2>2, <2>3, <2>4, <2>5
  <1> HIDE DEF Off, Apart
  <1>8. ASSUME NEW own \in ToSet(enters), own.no = t.no
        PROVE  /\ Trips!Match(t) # Trips!External
               /\ (\A r \in others : Apart(r) > 2 * lag) =>
                     Trips!Match(t).no = t.no /\ Trips!Slip(t) = 0
    <2>1. PICK m \in DOMAIN enters : own = enters[m]
      BY DEF ToSet
    <2>2. m \in near /\ Off(m) <= lag
      BY <1>4, <1>7, <1>8, <2>1 DEF SameEntry
    <2>3. PICK k \in near : /\ Trips!Match(t) = enters[k]
                           /\ \A i \in near : Off(k) <= Off(i)
      BY <1>5, <2>2
    <2>4. Trips!Match(t) # Trips!External
      <3>1. enters[k].no # 0
        BY <1>7, <2>3
      <3> QED
        BY <2>3, <3>1 DEF Trips!External
    <2>5. ASSUME \A r \in others : Apart(r) > 2 * lag
          PROVE  enters[k].no = t.no
      <3> SUFFICES ASSUME enters[k].no # t.no PROVE FALSE
        OBVIOUS
      <3>1. enters[k] \in others
        BY <1>4, <2>3
      <3>2. Apart(enters[k]) > 2 * lag
        BY <2>5, <3>1
      <3>3. Off(k) >= Apart(enters[k]) - lag /\ Off(k) <= lag
            /\ Off(k) \in Nat /\ Apart(enters[k]) \in Nat
        <4>1. k \in DOMAIN enters /\ m \in DOMAIN enters /\ Off(k) <= Off(m)
          BY <2>1, <2>2, <2>3
        <4>2. Off(k) \in Nat /\ Off(m) \in Nat
          BY <1>7, <4>1
        <4> QED
          BY <1>3, <1>7, <2>2, <4>1, <4>2
      <3> QED
        BY <1>3, <3>2, <3>3
    <2>6. enters[k].no = t.no => Trips!Slip(t) = 0
      <3>1. enters[k].no = t.no => enters[k].px = t.epx
        BY <1>4, <2>3 DEF SameEntry
      <3> QED
        BY <1>6, <2>3, <3>1 DEF Trips!Slip
    <2> QED
      BY <2>3, <2>4, <2>5, <2>6
  <1>9. ASSUME ~\E r \in ToSet(enters) : r.no = t.no,
               \A r \in others : Apart(r) >= MatchWithin + lag
        PROVE  Trips!Match(t) = Trips!External
    <2>1. near = {}
      <3> SUFFICES ASSUME NEW k \in near PROVE FALSE
        OBVIOUS
      <3>1. k \in DOMAIN enters /\ enters[k] \in others /\ Off(k) < MatchWithin
        BY <1>4, <1>9
      <3>2. Apart(enters[k]) >= MatchWithin + lag
        BY <1>9, <3>1
      <3>3. /\ Off(k) >= Apart(enters[k]) - lag
            /\ Off(k) \in Nat /\ Apart(enters[k]) \in Nat
        BY <1>7, <3>1
      <3> QED
        BY <1>3, <1>6, <3>1, <3>2, <3>3
    <2> QED
      BY <1>5, <2>1
  <1> QED
    BY <1>8, <1>9 DEF lag, Apart
-----------------------------------------------------------------------------
(* The invariant of the round trips, and the theorems it gives. *)

TripsInv == Ledger /\ Labels

LEMMA TripsInitInv == Init => TripsInv
  <1> SUFFICES ASSUME Init PROVE TripsInv
    OBVIOUS
  <1>1. /\ pos = 0 /\ op = Trips!NoTrip /\ trips = <<>> /\ fills = 0 /\ now = 0
        /\ enters = <<>> /\ cash = 0 /\ scaled = FALSE
    BY DEF Init, Trips!TripsInit
  <1>2. Ledger
    <2>1. trips \in Seq(DoneTrips)
      BY <1>1
    <2>2. Trips!TotalOf(trips) = 0
      BY <1>1, TotalOfNone
    <2>3. cash = Trips!TotalOf(trips) - 0 /\ cash \in Int /\ pos \in Int
      BY <1>1, <2>2
    <2>4. op \in OpenTrips \cup {Trips!NoTrip} /\ (op = Trips!NoTrip <=> pos = 0)
      BY <1>1
    <2>5. scaled \in BOOLEAN /\ fills \in Nat /\ now \in Nat
      BY <1>1
    <2> QED
      BY <1>1, <2>1, <2>3, <2>4, <2>5 DEF Ledger
  <1>3. Labels
    BY <1>1 DEF Labels
  <1> QED
    BY <1>2, <1>3 DEF TripsInv

LEMMA TripsStepInv == TripsInv /\ [Next]_vars => TripsInv'
  <1> SUFFICES ASSUME TripsInv, [Next]_vars PROVE TripsInv'
    OBVIOUS
  <1>0. Ledger /\ Labels
    BY DEF TripsInv
  <1>1. CASE Fill
    <2>1. PICK signed \in Shares[program], px \in Levels[program],
               wait \in Waits[program] : Trips!Execution(signed, px, wait)
      BY <1>1 DEF Fill
    <2>2. signed \in Int \ {0} /\ px \in Nat /\ wait \in Nat
      BY <1>1, <2>1, RecordsAssumption DEF Fill, Reports
    <2> QED
      BY <1>0, <1>1, <2>1, <2>2, LedgerStep, LabelsStep DEF TripsInv
  <1>2. CASE UNCHANGED <<program, tripVars>>
    <2>1. UNCHANGED <<program, pos, op, trips, fills, now, enters, cash, scaled>>
      BY <1>2 DEF tripVars
    <2>2. Ledger'
      BY <1>0, <2>1 DEF Ledger
    <2>3. Labels'
      BY <1>0, <2>1 DEF Labels, SameEntry
    <2> QED
      BY <2>2, <2>3 DEF TripsInv
  <1> QED
    BY <1>1, <1>2 DEF Next, Data, Run, Finished, vars

LEMMA SpecTripsInv == Spec => []TripsInv
  BY TripsInitInv, TripsStepInv, PTL DEF Spec

LEMMA LedgerMatches == Ledger => LedgerIsCash
  <1> SUFFICES ASSUME Ledger PROVE LedgerIsCash
    OBVIOUS
  <1>1. (op = Trips!NoTrip) = (pos = 0)
    BY DEF Ledger
  <1> QED
    BY <1>1 DEF Ledger, LedgerIsCash

\* Whatever is executed at whatever price, the totals of the two reports are
\* what the executions paid, as long as each of them opened or closed a whole
\* position.
THEOREM LedgerFollowsCash == Spec => []LedgerIsCash
  BY SpecTripsInv, LedgerMatches, PTL DEF TripsInv

\* Whatever the delays of the bridge's lines are below the three minutes, a
\* trip has the label of its own entry where no other is near, and none where
\* there is none.
THEOREM LabelsFollowEntries == Spec => []LabelsMatchEntries
  BY SpecTripsInv, LabelsMatch, PTL DEF TripsInv
-----------------------------------------------------------------------------
(* The files. *)

TradeType == [sleeve : Nat, entry : Nat, no : Nat \ {0}, exit : Nat,
              over : BOOLEAN, pnl : Int]

\* The trades T of sleeve s when its last bar is c and its open trade began at
\* e: an engine's do not overlap, and the open one begins after them; two of
\* SHOCK differ in their entry or their number.
Sleeve(s, T, c, e) ==
    /\ T \subseteq TradeType /\ IsFiniteSet(T) /\ c \in Nat /\ e \in 0..c
    /\ \A t \in T :
         /\ t.sleeve = s /\ 1 <= t.entry /\ t.exit <= c
         /\ IF s = ShockSleeve THEN t.exit = t.entry
            ELSE /\ t.over /\ t.no = 1 /\ t.entry < t.exit
                 /\ e # 0 => t.exit < e
    /\ \A t, u \in T :
         t # u => IF s = ShockSleeve THEN t.entry # u.entry \/ t.no # u.no
                  ELSE t.exit < u.entry \/ u.exit < t.entry

Kept ==
    /\ DOMAIN clock \subseteq Nat /\ IsFiniteSet(DOMAIN clock)
    /\ clock = [s \in DOMAIN clock |-> clock[s]]
    /\ entered = [s \in DOMAIN clock |-> entered[s]]
    /\ trades = [s \in DOMAIN clock |-> trades[s]]
    /\ \A s \in DOMAIN clock : Sleeve(s, trades[s], clock[s], entered[s])

\* r is a trade as the bars of today make it.
Today(r) ==
    \E t \in AllTrades : IF r.over THEN t = r ELSE Paper!Id(t) = Paper!Id(r)

Right(r) ==
    /\ r \in TradeType /\ Paper!Forward(r) /\ r.sleeve \in DOMAIN clock
    /\ r.sleeve # ShockSleeve => r.over /\ r.no = 1
    /\ revised = 0 => Today(r)

HasLine(t) == \E r \in Written(log) : Paper!Key(r) = Paper!Key(t)
Recorded(k) == \E r \in Written(log) : Paper!Key(r) = k

Apart(T) ==
    \A t, u \in T : t # u => /\ Paper!Id(t) # Paper!Id(u)
                             /\ Paper!Sooner(t, u) \/ Paper!Sooner(u, t)

\* The order in which a run appends matters only in that it has all of them,
\* each once.
Lists(q, T) ==
    /\ q \in Seq(T)
    /\ \A t \in T : \E i \in DOMAIN q : q[i] = t
    /\ \A i, j \in DOMAIN q : i # j => q[i] # q[j]

\* What a run knows at each of its steps.
Scoped ==
    /\ IsFiniteSet(scope) /\ Apart(scope) /\ \A t \in scope : Right(t)
    /\ pc = "append" => Paper!Torn \notin ToSet(log) /\ Lists(new, Paper!Missing)
    /\ pc = "tally" => \A t \in scope : HasLine(t)

Filed ==
    /\ revised \in Nat
    /\ log \in Seq(TradeType \cup {Paper!Torn})
    /\ \A i, j \in DOMAIN log :
         i # j /\ log[i] # Paper!Torn /\ log[j] # Paper!Torn
           => Paper!Id(log[i]) # Paper!Id(log[j])
    /\ \A r \in Written(log) : Right(r)
    /\ \A x \in logged : Recorded(x)

FilesInv == Kept /\ Scoped /\ Filed

LEMMA TornIsNoTrade == \A t \in TradeType : t # Paper!Torn
  BY DEF TradeType, Paper!Torn

\* Sooner is a strict order, and of the trades at hand any two are in it.
LEMMA SoonerOrders ==
    \A t, u, v \in TradeType :
       /\ ~Paper!Sooner(t, t)
       /\ Paper!Sooner(t, u) /\ Paper!Sooner(u, v) => Paper!Sooner(t, v)
  BY DEF TradeType, Paper!Sooner

LEMMA SameCount == \A S : Paper!Cardinality(S) = Cardinality(S)
  BY DEF Paper!Cardinality, Cardinality

\* The pairs of trades in the order of the append, and its lists.
SoonerPairs(T) == {p \in T \X T : Paper!Sooner(p[1], p[2])}
BySooner(T) == Paper!InOrder(T, Paper!Sooner)
Ordered(L) == \A i, j \in DOMAIN L : i < j => Paper!Sooner(L[i], L[j])

LEMMA SoonerOrdering ==
    ASSUME NEW T, T \subseteq TradeType, Apart(T)
    PROVE  /\ Ordering(SoonerPairs(T), T)
           /\ \A t, u \in T : <<t, u>> \in SoonerPairs(T) <=> Paper!Sooner(t, u)
  <1>1. \A t, u \in T : <<t, u>> \in SoonerPairs(T) <=> Paper!Sooner(t, u)
    BY DEF SoonerPairs
  <1>2. \A t \in T : t \in TradeType
    OBVIOUS
  <1>3. \A t, u \in T : t # u => Paper!Sooner(t, u) \/ Paper!Sooner(u, t)
    BY DEF Apart
  <1>4. \A x \in T : <<x, x>> \notin SoonerPairs(T)
    BY <1>1, <1>2, SoonerOrders
  <1>5. ASSUME NEW x \in T, NEW y \in T, NEW z \in T,
               <<x, y>> \in SoonerPairs(T), <<y, z>> \in SoonerPairs(T)
        PROVE  <<x, z>> \in SoonerPairs(T)
    BY <1>1, <1>2, <1>5, SoonerOrders
  <1>6. \A x, y \in T : x # y => <<x, y>> \in SoonerPairs(T) \/ <<y, x>> \in SoonerPairs(T)
    BY <1>1, <1>3
  <1> QED
    BY <1>1, <1>4, <1>5, <1>6 DEF Ordering

\* InOrder lists all of them, each once and in that order.
LEMMA InOrderLists ==
    ASSUME NEW T, IsFiniteSet(T), T \subseteq TradeType, Apart(T)
    PROVE  /\ Enumerates(BySooner(T), T) /\ Ascends(BySooner(T), SoonerPairs(T))
           /\ Lists(BySooner(T), T) /\ Ordered(BySooner(T))
  <1> DEFINE R == SoonerPairs(T)
             P == {<<Paper!Cardinality({u \in T : Paper!Sooner(u, t)}) + 1, t>> : t \in T}
             q == BySooner(T)
  <1>1. q = ByPlace(P, Cardinality(T))
    <2>1. q = ByPlace(P, Paper!Cardinality(T))
      BY DEF BySooner, Paper!InOrder, ByPlace
    <2> HIDE DEF P, q
    <2> QED
      BY <2>1, SameCount
  <1>2. Ordering(R, T) /\ \A t, u \in T : <<t, u>> \in R <=> Paper!Sooner(t, u)
    BY SoonerOrdering
  <1>3. P = {<<Rank(R, T, t), t>> : t \in T}
    <2>1. ASSUME NEW t \in T
          PROVE  Paper!Cardinality({u \in T : Paper!Sooner(u, t)}) + 1 = Rank(R, T, t)
      <3>1. {u \in T : Paper!Sooner(u, t)} = Below(R, T, t)
        <4> HIDE DEF R
        <4> QED
          BY <1>2 DEF Below
      <3> QED
        BY <3>1, SameCount DEF Rank
    <2> QED
      BY <2>1
  <1> HIDE DEF P, q, R
  <1>4. Enumerates(q, T) /\ Ascends(q, R)
    BY <1>1, <1>2, <1>3, PlacesList
  <1>5. Lists(q, T)
    <2>1. q = [i \in 1..Cardinality(T) |-> q[i]]
      BY <1>1 DEF ByPlace
    <2>2. Cardinality(T) \in Nat /\ \A i \in 1..Cardinality(T) : q[i] \in T
      BY <1>4, FS_CardinalityType DEF Enumerates
    <2>3. q \in Seq(T)
      BY <2>1, <2>2
    <2> QED
      BY <1>4, <2>3 DEF Lists, Enumerates
  <1>6. Ordered(q)
    BY <1>2, <1>4 DEF Ordered, Ascends, Enumerates
  <1> QED
    BY <1>4, <1>5, <1>6 DEF q, R

LEMMA ConcatIs ==
    ASSUME NEW W, NEW a \in Seq(W), NEW b \in Seq(W)
    PROVE  /\ a \o b \in Seq(W) /\ DOMAIN (a \o b) = 1..(Len(a) + Len(b))
           /\ \A i \in 1..(Len(a) + Len(b)) :
                (a \o b)[i] = IF i <= Len(a) THEN a[i] ELSE b[i - Len(a)]
  BY ConcatProperties, LenProperties

\* M is the list L, then the first k of q, then perhaps z.
Extends(M, L, q, k, z) ==
    /\ DOMAIN L = 1..Len(L) /\ Len(L) \in Nat
    /\ \A i \in DOMAIN L : i \in DOMAIN M /\ M[i] = L[i]
    /\ \A i \in 1..k : Len(L) + i \in DOMAIN M /\ M[Len(L) + i] = q[i]
    /\ \A i \in DOMAIN M :
         \/ i \in DOMAIN L /\ M[i] = L[i]
         \/ i - Len(L) \in 1..k /\ M[i] = q[i - Len(L)]
         \/ M[i] = z

LEMMA Appending ==
    ASSUME NEW W, NEW L \in Seq(W), NEW q \in Seq(W), NEW k \in 0..Len(q),
           NEW z \in W, NEW tail, tail = <<>> \/ tail = <<z>>
    PROVE  /\ L \o SubSeq(q, 1, k) \o tail \in Seq(W)
           /\ Extends(L \o SubSeq(q, 1, k) \o tail, L, q, k, z)
  <1> DEFINE S == SubSeq(q, 1, k)
             M == L \o SubSeq(q, 1, k) \o tail
  <1>1. Len(q) \in Nat /\ DOMAIN q = 1..Len(q) /\ \A i \in 1..Len(q) : q[i] \in W
    OBVIOUS
  <1>2. S = [i \in 1..k |-> q[i]]
    BY <1>1
  <1>3. S \in Seq(W) /\ Len(S) = k /\ \A i \in 1..k : S[i] = q[i]
    BY <1>1, <1>2
  <1>4. L \in Seq(W) /\ Len(L) \in Nat /\ DOMAIN L = 1..Len(L)
    BY LenProperties
  <1>5. tail \in Seq(W) /\ Len(tail) \in Nat /\ DOMAIN tail = 1..Len(tail)
        /\ \A i \in 1..Len(tail) : tail[i] = z
    <2>1. CASE tail = <<>>
      BY <2>1
    <2>2. CASE tail = <<z>>
      BY <2>2
    <2> QED
      BY <2>1, <2>2
  <1> HIDE DEF S, M
  <1>6. L \o S \in Seq(W) /\ Len(L \o S) = Len(L) + k
        /\ \A i \in 1..(Len(L) + k) :
             (L \o S)[i] = IF i <= Len(L) THEN L[i] ELSE S[i - Len(L)]
    BY <1>3, <1>4, ConcatProperties
  <1> DEFINE P == L \o S
  <1> HIDE DEF P
  <1>7. M \in Seq(W) /\ DOMAIN M = 1..(Len(P) + Len(tail))
        /\ \A i \in 1..(Len(P) + Len(tail)) :
             M[i] = IF i <= Len(P) THEN P[i] ELSE tail[i - Len(P)]
    <2>1. M = P \o tail
      BY DEF M, P, S
    <2>2. P \in Seq(W)
      BY <1>6 DEF P
    <2> QED
      <3>1. tail \in Seq(W)
        BY <1>5
      <3>2. /\ P \o tail \in Seq(W) /\ DOMAIN (P \o tail) = 1..(Len(P) + Len(tail))
            /\ \A i \in 1..(Len(P) + Len(tail)) :
                 (P \o tail)[i] = IF i <= Len(P) THEN P[i] ELSE tail[i - Len(P)]
        BY <2>2, <3>1, ConcatIs
      <3> QED
        BY <2>1, <3>2
  <1>8. Len(P) = Len(L) + k
        /\ \A i \in 1..(Len(L) + k) : P[i] = IF i <= Len(L) THEN L[i] ELSE S[i - Len(L)]
    BY <1>6 DEF P
  <1>9. \A i \in DOMAIN L : i \in DOMAIN M /\ M[i] = L[i]
    BY <1>4, <1>5, <1>7, <1>8
  <1>10. ASSUME NEW i \in 1..k
         PROVE  Len(L) + i \in DOMAIN M /\ M[Len(L) + i] = q[i]
    <2>1. Len(L) \in Nat /\ Len(tail) \in Nat /\ k \in Nat /\ i \in 1..k
      BY <1>1, <1>4, <1>5
    <2>2. Len(L) + i \in 1..(Len(L) + k) /\ ~(Len(L) + i <= Len(L))
          /\ (Len(L) + i) - Len(L) = i /\ Len(L) + i <= Len(P)
          /\ Len(L) + i \in 1..(Len(P) + Len(tail))
      BY <1>8, <2>1
    <2>3. M[Len(L) + i] = P[Len(L) + i]
      BY <1>7, <2>2
    <2>4. P[Len(L) + i] = S[i]
      BY <1>8, <2>2
    <2> QED
      BY <1>3, <1>7, <2>2, <2>3, <2>4
  <1>11. ASSUME NEW i \in DOMAIN M
         PROVE  \/ i \in DOMAIN L /\ M[i] = L[i]
                \/ i - Len(L) \in 1..k /\ M[i] = q[i - Len(L)]
                \/ M[i] = z
    <2>1. Len(L) \in Nat /\ Len(tail) \in Nat /\ k \in Nat /\ Len(P) = Len(L) + k
          /\ i \in 1..(Len(P) + Len(tail))
      BY <1>4, <1>5, <1>7, <1>8
    <2>2. CASE i <= Len(L)
      BY <1>4, <1>7, <1>8, <2>1, <2>2
    <2>3. CASE Len(L) < i /\ i <= Len(L) + k
      <3>1. i - Len(L) \in 1..k
        BY <2>1, <2>3
      <3>2. M[i] = P[i] /\ P[i] = S[i - Len(L)]
        BY <1>7, <1>8, <2>1, <2>3
      <3> QED
        BY <1>3, <3>1, <3>2
    <2>4. CASE Len(L) + k < i
      <3>1. i - Len(P) \in 1..Len(tail) /\ ~(i <= Len(P))
        BY <2>1, <2>4
      <3> QED
        BY <1>5, <1>7, <2>1, <3>1
    <2> QED
      BY <2>1, <2>2, <2>3, <2>4
  <1> QED
    BY <1>4, <1>7, <1>9, <1>10, <1>11 DEF Extends, M

\* The image of a finite set under a function is finite.
LEMMA ImageFinite ==
    ASSUME NEW D, IsFiniteSet(D), NEW f
    PROVE  IsFiniteSet({f[x] : x \in D})
  <1> DEFINE g == [x \in D |-> f[x]]
             R == {f[x] : x \in D}
  <1>1. g \in Surjection(D, R)
    BY DEF Surjection
  <1> QED
    BY <1>1, FS_Surjection
-----------------------------------------------------------------------------
(* The bars. *)

LEMMA PaperSleeves == Paper!Sleeves = DOMAIN clock
  BY DEF Paper!Sleeves

\* The trades S of a sleeve have become T: those that were over are still there,
\* the others at least under their numbers.
Stays(S, T) ==
    \A t \in S : \E u \in T : IF t.over THEN u = t ELSE Paper!Id(u) = Paper!Id(t)

\* What a change of one sleeve has to respect.
LEMMA OneSleeve ==
    ASSUME Kept, NEW s \in DOMAIN clock, NEW T, NEW c, NEW e,
           clock' = [clock EXCEPT ![s] = c], entered' = [entered EXCEPT ![s] = e],
           trades' = [trades EXCEPT ![s] = T], Sleeve(s, T, c, e)
    PROVE  /\ Kept'
           /\ Stays(trades[s], T) => \A r : Today(r) => Today(r)'
  <1>1. DOMAIN clock' = DOMAIN clock /\ DOMAIN trades = DOMAIN clock
        /\ \A x \in DOMAIN clock :
             /\ clock'[x] = IF x = s THEN c ELSE clock[x]
             /\ entered'[x] = IF x = s THEN e ELSE entered[x]
             /\ trades'[x] = IF x = s THEN T ELSE trades[x]
    BY DEF Kept
  <1>2. Kept'
    <2>1. \A x \in DOMAIN clock : Sleeve(x, trades'[x], clock'[x], entered'[x])
      BY <1>1 DEF Kept
    <2>2. /\ clock' = [x \in DOMAIN clock |-> clock'[x]]
          /\ entered' = [x \in DOMAIN clock |-> entered'[x]]
          /\ trades' = [x \in DOMAIN clock |-> trades'[x]]
      BY DEF Kept
    <2>3. DOMAIN clock \subseteq Nat /\ IsFiniteSet(DOMAIN clock)
      BY DEF Kept
    <2>4. \A x, S, a, b : Sleeve(x, S, a, b)' <=> Sleeve(x, S, a, b)
      BY DEF Sleeve
    <2> QED
      BY <1>1, <2>1, <2>2, <2>3, <2>4 DEF Kept
  <1>3. ASSUME Stays(trades[s], T), NEW r, Today(r) PROVE Today(r)'
    <2>1. PICK t \in AllTrades : IF r.over THEN t = r ELSE Paper!Id(t) = Paper!Id(r)
      BY <1>3 DEF Today
    <2>2. PICK x \in DOMAIN clock : t \in trades[x]
      BY <2>1 DEF AllTrades, Paper!Sleeves
    <2>3. \E u \in trades'[x] : IF r.over THEN u = r ELSE Paper!Id(u) = Paper!Id(r)
      <3>1. CASE x # s
        BY <1>1, <2>1, <2>2, <3>1
      <3>2. CASE x = s
        <4>1. PICK u \in T : IF t.over THEN u = t ELSE Paper!Id(u) = Paper!Id(t)
          BY <1>3, <2>2, <3>2 DEF Stays
        <4>2. IF r.over THEN u = r ELSE Paper!Id(u) = Paper!Id(r)
          BY <2>1, <4>1
        <4> QED
          BY <1>1, <3>2, <4>1, <4>2
      <3> QED
        BY <3>1, <3>2
    <2>4. (\A u : u \in AllTrades <=> \E y \in DOMAIN clock : u \in trades[y])'
      BY DEF AllTrades, Paper!Sleeves
    <2>5. PICK u \in trades'[x] : IF r.over THEN u = r ELSE Paper!Id(u) = Paper!Id(r)
      BY <2>3
    <2>6. u \in AllTrades'
      BY <1>1, <2>2, <2>4, <2>5
    <2>7. \A v : Paper!Id(v)' = Paper!Id(v)
      BY DEF Paper!Id
    <2> QED
      BY <2>5, <2>6, <2>7 DEF Today
  <1> QED
    BY <1>2, <1>3

LEMMA NewBarKeeps ==
    ASSUME Kept, NEW s \in Paper!Sleeves, Paper!NewBar(s)
    PROVE  Kept' /\ \A r : Today(r) => Today(r)'
  <1> DEFINE S == trades[s]
             c == clock[s] + 1
             t(pnl) == [sleeve |-> s, entry |-> entered[s], no |-> 1,
                        exit |-> c, over |-> TRUE, pnl |-> pnl]
  <1>1. s \in DOMAIN clock /\ s \in Nat /\ s # ShockSleeve
    BY DEF Kept, Paper!Sleeves, Paper!NewBar
  <1>2. Sleeve(s, S, clock[s], entered[s])
    BY <1>1 DEF Kept
  <1>3. clock' = [clock EXCEPT ![s] = c] /\ clock'[s] = c
    BY <1>1 DEF Paper!NewBar, Kept
  <1>4. trades = [trades EXCEPT ![s] = S] /\ entered = [entered EXCEPT ![s] = entered[s]]
    BY <1>1 DEF Kept
  <1>5. Stays(S, S)
    BY DEF Stays
  <1>6. CASE UNCHANGED <<entered, trades>>
    <2>1. Sleeve(s, S, c, entered[s])
      BY <1>2 DEF Sleeve, TradeType
    <2> QED
      BY <1>1, <1>3, <1>4, <1>5, <1>6, <2>1, OneSleeve
  <1>7. CASE entered[s] = 0 /\ entered' = [entered EXCEPT ![s] = c] /\ UNCHANGED trades
    <2>1. Sleeve(s, S, c, c)
      BY <1>2 DEF Sleeve, TradeType
    <2> QED
      BY <1>1, <1>3, <1>4, <1>5, <1>7, <2>1, OneSleeve
  <1>8. CASE /\ entered[s] # 0
             /\ \E pnl \in Pnls : trades' = [trades EXCEPT ![s] = S \cup {t(pnl)}]
             /\ entered' = [entered EXCEPT ![s] = 0]
    <2>1. PICK pnl \in Pnls : trades' = [trades EXCEPT ![s] = S \cup {t(pnl)}]
      BY <1>8
    <2> DEFINE T == S \cup {t(pnl)}
    <2>2. IsFiniteSet(T)
      BY <1>2, FS_AddElement DEF Sleeve
    <2>3. t(pnl) \in TradeType
      BY <1>1, <1>2, <1>8, RecordsAssumption DEF TradeType, Sleeve
    <2>4. Sleeve(s, T, c, 0)
      <3>1. T \subseteq TradeType /\ c \in Nat /\ 0 \in 0..c
        <4>1. c \in Nat /\ 0 \in 0..c /\ S \subseteq TradeType
          BY <1>2 DEF Sleeve
        <4> HIDE DEF t, c
        <4> QED
          BY <2>3, <4>1
      <3>2. ASSUME NEW u \in T
            PROVE  /\ u.sleeve = s /\ 1 <= u.entry /\ u.exit <= c
                   /\ u.over /\ u.no = 1 /\ u.entry < u.exit
        BY <1>1, <1>2, <1>8, <2>3 DEF Sleeve, TradeType
      <3>3. \A u \in S : u.exit < t(pnl).entry
        BY <1>1, <1>2, <1>8 DEF Sleeve
      <3>4. \A u, v \in T : u # v => u.exit < v.entry \/ v.exit < u.entry
        BY <1>1, <1>2, <3>3 DEF Sleeve
      <3> QED
        BY <1>1, <2>2, <3>1, <3>2, <3>4 DEF Sleeve
    <2>5. Stays(S, T)
      BY DEF Stays
    <2> QED
      BY <1>1, <1>3, <1>8, <2>1, <2>4, <2>5, OneSleeve
  <1> QED
    BY <1>3, <1>6, <1>7, <1>8 DEF Paper!NewBar

LEMMA ShockBarKeeps ==
    ASSUME Kept, NEW s \in Paper!Sleeves, Paper!ShockBar(s)
    PROVE  Kept' /\ \A r : Today(r) => Today(r)'
  <1> DEFINE S == trades[s]
             c == clock[s] + 1
             Mark(held, t) ==
               IF t.over THEN t
               ELSE [t EXCEPT !.pnl = held[t].pnl, !.over = held[t].over]
             Entry(pnl, no) == [sleeve |-> s, entry |-> clock'[s], no |-> no,
                                exit |-> clock'[s], over |-> FALSE, pnl |-> pnl[no]]
  <1>1. s \in DOMAIN clock /\ s \in Nat /\ s = ShockSleeve
    BY DEF Kept, Paper!Sleeves, Paper!ShockBar
  <1>2. Sleeve(s, S, clock[s], entered[s])
    BY <1>1 DEF Kept
  <1>3. clock' = [clock EXCEPT ![s] = c] /\ clock'[s] = c
    BY <1>1 DEF Paper!ShockBar, Kept
  <1>4. entered' = [entered EXCEPT ![s] = entered[s]]
    BY <1>1 DEF Kept, Paper!ShockBar
  <1>5. PICK held \in [{t \in S : ~t.over} -> [pnl : Pnls, over : BOOLEAN]],
             n \in 0..Paper!Least(2, MaxShocks - Paper!Cardinality(S)) :
          \E pnl \in [1..n -> Pnls] :
            trades' = [trades EXCEPT ![s] = {Mark(held, t) : t \in S}
                                              \cup {Entry(pnl, no) : no \in 1..n}]
    BY DEF Paper!ShockBar
  <1>6. PICK pnl \in [1..n -> Pnls] :
          trades' = [trades EXCEPT ![s] = {Mark(held, t) : t \in S}
                                            \cup {Entry(pnl, no) : no \in 1..n}]
    BY <1>5
  <1>7. n \in Nat
    <2>1. Paper!Cardinality(S) \in Nat
      BY <1>2, FS_CardinalityType, SameCount DEF Sleeve
    <2> QED
      BY <2>1, RecordsAssumption DEF Paper!Least
  <1> DEFINE M == {Mark(held, t) : t \in S}
             N == {Entry(pnl, no) : no \in 1..n}
  <1>8. ASSUME NEW t \in S
        PROVE  /\ Mark(held, t) \in TradeType /\ Mark(held, t).sleeve = t.sleeve
               /\ Mark(held, t).entry = t.entry /\ Mark(held, t).no = t.no
               /\ Mark(held, t).exit = t.exit
    <2>1. t \in TradeType
      BY <1>2 DEF Sleeve
    <2>2. CASE t.over
      BY <2>1, <2>2
    <2>3. CASE ~t.over
      <3>1. held[t] \in [pnl : Pnls, over : BOOLEAN]
        BY <1>5, <2>3
      <3>2. held[t].pnl \in Int /\ held[t].over \in BOOLEAN
        BY <3>1, RecordsAssumption
      <3>3. Mark(held, t) = [t EXCEPT !.pnl = held[t].pnl, !.over = held[t].over]
        BY <2>3
      <3> HIDE DEF Mark
      <3> QED
        BY <2>1, <3>2, <3>3 DEF TradeType
    <2> QED
      BY <2>2, <2>3
  <1>9. ASSUME NEW no \in 1..n
        PROVE  /\ Entry(pnl, no) \in TradeType /\ Entry(pnl, no).sleeve = s
               /\ Entry(pnl, no).entry = c /\ Entry(pnl, no).no = no
               /\ Entry(pnl, no).exit = c
    <2>1. pnl[no] \in Int
      BY <1>6, RecordsAssumption
    <2>2. no \in Nat \ {0}
      BY <1>7
    <2>3. c \in Nat
      BY <1>2 DEF Sleeve
    <2> QED
      BY <1>1, <1>3, <2>1, <2>2, <2>3 DEF TradeType
  <1>10. IsFiniteSet(M) /\ IsFiniteSet(N)
    <2> DEFINE f == [t \in S |-> Mark(held, t)]
               g == [no \in 1..n |-> Entry(pnl, no)]
    <2>1. M = {f[t] : t \in S} /\ N = {g[no] : no \in 1..n}
      OBVIOUS
    <2>2. IsFiniteSet(S) /\ IsFiniteSet(1..n)
      BY <1>2, <1>7, FS_Interval DEF Sleeve
    <2> HIDE DEF f, g, M, N
    <2> QED
      BY <2>1, <2>2, ImageFinite
  <1> HIDE DEF Mark, Entry
  <1>11. Sleeve(s, M \cup N, c, entered[s])
    <2>1. M \cup N \subseteq TradeType
      BY <1>8, <1>9
    <2>2. IsFiniteSet(M \cup N)
      BY <1>10, FS_Union
    <2>3. c \in Nat /\ entered[s] \in 0..c
      BY <1>2 DEF Sleeve
    <2>4. ASSUME NEW t \in S
          PROVE  /\ t \in TradeType /\ t.sleeve = s /\ 1 <= t.entry
                 /\ t.exit <= clock[s] /\ t.exit = t.entry
      BY <1>1, <1>2 DEF Sleeve
    <2>5. ASSUME NEW u \in M \cup N
          PROVE  u.sleeve = s /\ 1 <= u.entry /\ u.exit <= c /\ u.exit = u.entry
      <3>1. CASE u \in M
        BY <1>2, <1>8, <2>4, <3>1 DEF Sleeve, TradeType
      <3>2. CASE u \in N
        BY <1>2, <1>9, <3>2 DEF Sleeve
      <3> QED
        BY <3>1, <3>2
    <2>6. ASSUME NEW u \in M \cup N, NEW v \in M \cup N, u # v
          PROVE  u.entry # v.entry \/ u.no # v.no
      <3>1. ASSUME NEW x \in M PROVE x.entry <= clock[s] /\ x.entry # c
        BY <1>2, <1>8, <2>4 DEF Sleeve, TradeType
      <3>2. ASSUME NEW x \in N PROVE x.entry = c
        BY <1>9
      <3>3. CASE u \in M /\ v \in M
        <4>1. PICK t \in S, w \in S : u = Mark(held, t) /\ v = Mark(held, w)
          BY <3>3
        <4>2. t # w
          BY <2>6, <4>1
        <4>3. t.entry # w.entry \/ t.no # w.no
          BY <1>1, <1>2, <4>2 DEF Sleeve
        <4> QED
          BY <1>8, <4>1, <4>3
      <3>4. CASE u \in N /\ v \in N
        <4>1. PICK i \in 1..n, j \in 1..n : u = Entry(pnl, i) /\ v = Entry(pnl, j)
          BY <3>4
        <4> QED
          BY <1>9, <2>6, <4>1
      <3> QED
        BY <2>6, <3>1, <3>2, <3>3, <3>4
    <2> HIDE DEF M, N
    <2> QED
      BY <1>1, <2>1, <2>2, <2>3, <2>5, <2>6 DEF Sleeve
  <1>12. Stays(S, M \cup N)
    <2>1. ASSUME NEW t \in S
          PROVE  IF t.over THEN Mark(held, t) = t
                 ELSE Paper!Id(Mark(held, t)) = Paper!Id(t)
      BY <1>8 DEF Mark, Paper!Id
    <2> QED
      BY <2>1 DEF Stays
  <1> HIDE DEF M, N
  <1> QED
    BY <1>1, <1>3, <1>4, <1>6, <1>11, <1>12, OneSleeve DEF M, N

LEMMA ReviseKeeps ==
    ASSUME Kept, NEW s \in Paper!Sleeves, Paper!Revise(s)
    PROVE  Kept'
  <1> DEFINE S == trades[s]
  <1>1. s \in DOMAIN clock /\ s \in Nat
    BY DEF Kept, Paper!Sleeves
  <1>2. Sleeve(s, S, clock[s], entered[s])
    BY <1>1 DEF Kept
  <1>3. clock' = [clock EXCEPT ![s] = clock[s]]
        /\ entered' = [entered EXCEPT ![s] = entered[s]]
    BY <1>1 DEF Kept, Paper!Revise
  <1>4. ASSUME NEW T, trades' = [trades EXCEPT ![s] = T],
               Sleeve(s, T, clock[s], entered[s])
        PROVE  Kept'
    BY <1>1, <1>3, <1>4, OneSleeve
  <1>5. CASE Paper!Appears(s)
    <2>1. PICK en \in 1..clock[s], ex \in 1..clock[s] :
            /\ IF s = ShockSleeve THEN en = ex
               ELSE /\ en < ex
                    /\ \A u \in S : u.exit < en \/ ex < u.entry
                    /\ entered[s] # 0 => ex < entered[s]
            /\ \E no \in (IF s = ShockSleeve THEN 1..MaxShocks ELSE {1}),
                  over \in (IF s = ShockSleeve THEN BOOLEAN ELSE {TRUE}),
                  pnl \in Pnls :
                 /\ \A u \in S : u.entry = en => u.no # no
                 /\ trades' = [trades EXCEPT ![s] = S \cup
                      {[sleeve |-> s, entry |-> en, no |-> no, exit |-> ex,
                        over |-> over, pnl |-> pnl]}]
      BY <1>5 DEF Paper!Appears
    <2>7. PICK no \in (IF s = ShockSleeve THEN 1..MaxShocks ELSE {1}),
               over \in (IF s = ShockSleeve THEN BOOLEAN ELSE {TRUE}),
               pnl \in Pnls :
            /\ \A u \in S : u.entry = en => u.no # no
            /\ trades' = [trades EXCEPT ![s] = S \cup
                 {[sleeve |-> s, entry |-> en, no |-> no, exit |-> ex,
                   over |-> over, pnl |-> pnl]}]
      BY <2>1
    <2> DEFINE t == [sleeve |-> s, entry |-> en, no |-> no, exit |-> ex,
                     over |-> over, pnl |-> pnl]
    <2>2. /\ no \in Nat \ {0} /\ over \in BOOLEAN /\ pnl \in Int
          /\ s # ShockSleeve => no = 1 /\ over
      <3>1. MaxShocks \in Nat /\ Pnls \subseteq Int
        BY RecordsAssumption
      <3>2. CASE s = ShockSleeve
        <4>1. no \in 1..MaxShocks /\ over \in BOOLEAN /\ pnl \in Pnls
          BY <3>2
        <4> QED
          BY <3>1, <3>2, <4>1
      <3>3. CASE s # ShockSleeve
        <4>1. no \in {1} /\ over \in {TRUE} /\ pnl \in Pnls
          BY <3>3
        <4> QED
          BY <3>1, <3>3, <4>1
      <3> QED
        BY <3>2, <3>3
    <2>3. t \in TradeType
      BY <1>1, <1>2, <2>2 DEF TradeType, Sleeve
    <2>4. IsFiniteSet(S \cup {t})
      BY <1>2, FS_AddElement DEF Sleeve
    <2>5. /\ t.sleeve = s /\ t.entry = en /\ t.no = no /\ t.exit = ex /\ t.over = over
      OBVIOUS
    <2> HIDE DEF t
    <2>6. Sleeve(s, S \cup {t}, clock[s], entered[s])
      BY <1>2, <2>1, <2>2, <2>3, <2>4, <2>5, <2>7 DEF Sleeve
    <2> QED
      BY <1>4, <2>6, <2>7 DEF t
  <1>6. CASE \E t \in S : trades' = [trades EXCEPT ![s] = S \ {t}]
    <2>1. PICK t \in S : trades' = [trades EXCEPT ![s] = S \ {t}]
      BY <1>6
    <2>2. IsFiniteSet(S \ {t})
      BY <1>2, FS_RemoveElement DEF Sleeve
    <2>3. Sleeve(s, S \ {t}, clock[s], entered[s])
      BY <1>2, <2>2 DEF Sleeve
    <2> QED
      BY <1>4, <2>1, <2>3
  <1>7. CASE \E t \in S, pnl \in Pnls :
               trades' = [trades EXCEPT ![s] = (S \ {t}) \cup {[t EXCEPT !.pnl = pnl]}]
    <2>1. PICK t \in S, pnl \in Pnls :
            trades' = [trades EXCEPT ![s] = (S \ {t}) \cup {[t EXCEPT !.pnl = pnl]}]
      BY <1>7
    <2> DEFINE u == [t EXCEPT !.pnl = pnl]
               T == (S \ {t}) \cup {u}
    <2>2. IsFiniteSet(T)
      BY <1>2, FS_RemoveElement, FS_AddElement DEF Sleeve
    <2>3. t \in TradeType /\ pnl \in Int
      BY <1>2, RecordsAssumption DEF Sleeve
    <2>4. /\ u \in TradeType /\ u.sleeve = t.sleeve /\ u.entry = t.entry
          /\ u.no = t.no /\ u.exit = t.exit /\ u.over = t.over
      BY <2>3 DEF TradeType
    <2> HIDE DEF u
    <2>5. Sleeve(s, T, clock[s], entered[s])
      BY <1>2, <2>2, <2>4 DEF Sleeve
    <2> QED
      BY <1>4, <2>1, <2>5 DEF u
  <1> QED
    BY <1>5, <1>6, <1>7 DEF Paper!Revise
-----------------------------------------------------------------------------
(* The runs. *)

\* What a step that leaves the file alone and changes trades only in the
\* direction of time leaves as it was.
LEMMA FilesUnchanged ==
    ASSUME Filed, UNCHANGED <<log, logged, DOMAIN clock>>, revised' \in Nat,
           revised' = 0 => revised = 0 /\ \A r : Today(r) => Today(r)'
    PROVE  Filed' /\ \A t : (Right(t) => Right(t)') /\ (HasLine(t) => HasLine(t)')
  <1>1. ASSUME NEW t, Right(t) PROVE Right(t)'
    BY <1>1 DEF Right, Paper!Forward
  <1>2. Written(log)' = Written(log)
    BY DEF Written
  <1>3. \A t : HasLine(t) => HasLine(t)'
    BY <1>2 DEF HasLine, Paper!Key
  <1>4. Filed'
    <2>1. \A i, j \in DOMAIN log :
            i # j /\ log[i] # Paper!Torn /\ log[j] # Paper!Torn
              => Paper!Id(log[i])' # Paper!Id(log[j])'
      BY DEF Filed, Paper!Id
    <2>2. (\A i, j \in DOMAIN log :
             i # j /\ log[i] # Paper!Torn /\ log[j] # Paper!Torn
               => Paper!Id(log[i]) # Paper!Id(log[j]))'
      BY <2>1
    <2>3. (\A r \in Written(log) : Right(r))'
      BY <1>1, <1>2 DEF Filed
    <2>4. (\A x \in logged : Recorded(x))'
      BY <1>2 DEF Filed, Recorded, Paper!Key
    <2> QED
      BY <2>2, <2>3, <2>4 DEF Filed
  <1> QED
    BY <1>1, <1>3, <1>4

\* The same of the run in progress.
LEMMA RunUnchanged ==
    ASSUME Scoped, Filed, UNCHANGED <<pc, scope, new, log, logged, DOMAIN clock>>,
           revised' \in Nat,
           revised' = 0 => revised = 0 /\ \A r : Today(r) => Today(r)'
    PROVE  Scoped' /\ Filed'
  <1>1. Filed' /\ \A t : (Right(t) => Right(t)') /\ (HasLine(t) => HasLine(t)')
    BY FilesUnchanged
  <1>2. Apart(scope)'
    BY DEF Scoped, Apart, Paper!Id, Paper!Sooner
  <1>3. (pc = "append" => Paper!Torn \notin ToSet(log) /\ Lists(new, Paper!Missing))'
    <2>1. Paper!Missing' = Paper!Missing
      BY DEF Paper!Missing, Paper!Key
    <2> QED
      BY <2>1 DEF Scoped, Lists
  <1> QED
    BY <1>1, <1>2, <1>3 DEF Scoped

\* A run that is over knows nothing.
LEMMA NothingScoped == ASSUME Paper!Ends PROVE Scoped'
  <1>1. pc' = "idle" /\ scope' = {}
    BY DEF Paper!Ends
  <1>2. IsFiniteSet({})
    BY FS_EmptySet
  <1> QED
    BY <1>1, <1>2 DEF Scoped, Apart

LEMMA DataKeeps ==
    ASSUME FilesInv, Paper!PaperData
    PROVE  FilesInv'
  <1>1. PICK s \in Paper!Sleeves : Paper!NewBar(s) \/ Paper!ShockBar(s) \/ Paper!Revise(s)
    BY DEF Paper!PaperData
  <1>2. revised \in Nat /\ Kept
    BY DEF FilesInv, Filed
  <1>3. CASE Paper!NewBar(s)
    <2>1. Kept' /\ \A r : Today(r) => Today(r)'
      BY <1>2, <1>3, NewBarKeeps
    <2>2. UNCHANGED <<pc, scope, new, log, logged, revised, DOMAIN clock>>
      BY <1>3 DEF Paper!NewBar, Paper!runVars, Paper!fileVars, Paper!histVars
    <2> QED
      BY <1>2, <2>1, <2>2, RunUnchanged DEF FilesInv
  <1>4. CASE Paper!ShockBar(s)
    <2>1. Kept' /\ \A r : Today(r) => Today(r)'
      BY <1>2, <1>4, ShockBarKeeps
    <2>2. UNCHANGED <<pc, scope, new, log, logged, revised, DOMAIN clock>>
      BY <1>4 DEF Paper!ShockBar, Paper!runVars, Paper!fileVars, Paper!histVars
    <2> QED
      BY <1>2, <2>1, <2>2, RunUnchanged DEF FilesInv
  <1>5. CASE Paper!Revise(s)
    <2>1. Kept'
      BY <1>2, <1>5, ReviseKeeps
    <2>2. UNCHANGED <<pc, scope, new, log, logged, DOMAIN clock>> /\ revised' = revised + 1
      BY <1>5 DEF Paper!Revise, Paper!runVars, Paper!fileVars
    <2>3. revised' \in Nat /\ revised' # 0
      BY <1>2, <2>2
    <2> QED
      BY <2>1, <2>2, <2>3, RunUnchanged DEF FilesInv
  <1> QED
    BY <1>1, <1>3, <1>4, <1>5

\* Any two trades of today are apart, be they of one sleeve or of two.
LEMMA TradesApart ==
    ASSUME Kept
    PROVE  /\ IsFiniteSet(AllTrades) /\ AllTrades \subseteq TradeType
           /\ Apart(AllTrades)
           /\ \A t \in AllTrades : /\ t.sleeve \in DOMAIN clock
                                   /\ t.sleeve # ShockSleeve => t.over /\ t.no = 1
  <1>1. AllTrades = UNION {trades[s] : s \in DOMAIN clock}
    BY DEF AllTrades, Paper!Sleeves
  <1>2. IsFiniteSet(AllTrades)
    <2>1. IsFiniteSet({trades[s] : s \in DOMAIN clock})
      BY ImageFinite DEF Kept
    <2>2. \A T \in {trades[s] : s \in DOMAIN clock} : IsFiniteSet(T)
      BY DEF Kept, Sleeve
    <2> QED
      BY <1>1, <2>1, <2>2, FS_UNION
  <1>3. ASSUME NEW t \in AllTrades
        PROVE  \E s \in DOMAIN clock : t \in trades[s] /\ t.sleeve = s /\ t \in TradeType
    BY <1>1 DEF Kept, Sleeve
  <1>4. Apart(AllTrades)
    <2> SUFFICES ASSUME NEW t \in AllTrades, NEW u \in AllTrades, t # u
                 PROVE  /\ Paper!Id(t) # Paper!Id(u)
                        /\ Paper!Sooner(t, u) \/ Paper!Sooner(u, t)
      BY DEF Apart
    <2>1. PICK s \in DOMAIN clock : t \in trades[s] /\ t.sleeve = s /\ t \in TradeType
      BY <1>3
    <2>2. PICK r \in DOMAIN clock : u \in trades[r] /\ u.sleeve = r /\ u \in TradeType
      BY <1>3
    <2>3. CASE s # r
      BY <2>1, <2>2, <2>3 DEF Paper!Id, Paper!Sooner, TradeType
    <2>4. CASE s = r
      <3>1. Sleeve(s, trades[s], clock[s], entered[s])
        BY DEF Kept
      <3>2. CASE s = ShockSleeve
        <4>1. /\ t.exit = t.entry /\ u.exit = u.entry
              /\ t.entry # u.entry \/ t.no # u.no
          BY <2>1, <2>2, <2>4, <3>1, <3>2 DEF Sleeve
        <4> QED
          BY <2>1, <2>2, <2>4, <4>1 DEF Paper!Id, Paper!Sooner, TradeType
      <3>3. CASE s # ShockSleeve
        <4>1. /\ t.entry < t.exit /\ u.entry < u.exit
              /\ t.exit < u.entry \/ u.exit < t.entry
          BY <2>1, <2>2, <2>4, <3>1, <3>3 DEF Sleeve
        <4> QED
          BY <2>1, <2>2, <2>4, <4>1 DEF Paper!Id, Paper!Sooner, TradeType
      <3> QED
        BY <3>2, <3>3
    <2> QED
      BY <2>3, <2>4
  <1>5. \A t \in AllTrades : /\ t.sleeve \in DOMAIN clock
                             /\ t.sleeve # ShockSleeve => t.over /\ t.no = 1
    BY <1>3 DEF Kept, Sleeve
  <1> QED
    BY <1>2, <1>3, <1>4, <1>5

LEMMA LoadKeeps ==
    ASSUME FilesInv, NEW since, Paper!Load(since)
    PROVE  FilesInv'
  <1>1. /\ pc' = "keys" /\ scope' = Paper!InScope(since)
        /\ UNCHANGED <<clock, entered, trades, log, logged, revised>>
    BY DEF Paper!Load, Paper!dataVars, Paper!fileVars
  <1>2. scope' \subseteq AllTrades /\ \A t \in scope' : Paper!Forward(t)
    BY <1>1 DEF Paper!InScope, AllTrades
  <1>3. Kept' /\ \A r : Today(r)' <=> Today(r)
    BY <1>1 DEF FilesInv, Kept, Sleeve, Today, AllTrades, Paper!Sleeves, Paper!Id
  <1>4. Filed'
    BY <1>1, <1>3, FilesUnchanged DEF FilesInv, Filed
  <1>5. Scoped'
    <2>1. IsFiniteSet(scope')
      BY <1>2, TradesApart, FS_Subset DEF FilesInv
    <2>2. Apart(scope)'
      BY <1>2, TradesApart DEF FilesInv, Apart, Paper!Id, Paper!Sooner
    <2>3. \A t \in AllTrades : Today(t)
      BY DEF Today
    <2>5. \A t \in AllTrades : t \in TradeType /\ t.sleeve \in DOMAIN clock
                                /\ (t.sleeve # ShockSleeve => t.over /\ t.no = 1)
      BY TradesApart DEF FilesInv
    <2>4. \A t \in scope' : Right(t)'
      BY <1>1, <1>2, <1>3, <2>3, <2>5 DEF Right, Paper!Forward
    <2> QED
      BY <1>1, <2>1, <2>2, <2>4 DEF Scoped
  <1> QED
    BY <1>3, <1>4, <1>5 DEF FilesInv

\* A step of a run changes none of the trades.
LEMMA SameTrades ==
    ASSUME FilesInv, UNCHANGED <<clock, entered, trades, revised>>
    PROVE  Kept' /\ \A r : (Today(r)' <=> Today(r)) /\ (Right(r)' <=> Right(r))
  <1>1. Kept'
    BY DEF FilesInv, Kept, Sleeve
  <1>2. \A r : Today(r)' <=> Today(r)
    BY DEF Today, AllTrades, Paper!Sleeves, Paper!Id
  <1> QED
    BY <1>1, <1>2 DEF Right, Paper!Forward

LEMMA ReadKeysKeeps ==
    ASSUME FilesInv, Paper!ReadKeys
    PROVE  FilesInv'
  <1>1. UNCHANGED <<clock, entered, trades, log, logged, revised>>
    BY DEF Paper!ReadKeys, Paper!dataVars, Paper!fileVars, Paper!histVars
  <1>2. Kept' /\ Filed' /\ \A r : Right(r)' <=> Right(r)
    BY <1>1, SameTrades, FilesUnchanged DEF FilesInv, Filed
  <1>3. CASE Paper!Ends
    BY <1>2, <1>3, NothingScoped DEF FilesInv
  <1>4. CASE /\ ~Paper!Unreadable /\ pc' = "append"
             /\ new' = BySooner(Paper!Missing) /\ UNCHANGED scope
    <2>1. IsFiniteSet(scope) /\ Apart(scope) /\ \A t \in scope : Right(t)
      BY DEF FilesInv, Scoped
    <2>2. Paper!Missing \in SUBSET scope
      BY DEF Paper!Missing
    <2>3. /\ IsFiniteSet(Paper!Missing) /\ Apart(Paper!Missing)
          /\ Paper!Missing \subseteq TradeType
      BY <2>1, <2>2, FS_Subset DEF Apart, Right
    <2>4. Lists(new', Paper!Missing)
      BY <1>4, <2>3, InOrderLists
    <2>5. Paper!Missing' = Paper!Missing
      BY <1>1, <1>4 DEF Paper!Missing, Paper!Key
    <2>6. (Lists(new, Paper!Missing))'
      BY <2>4, <2>5 DEF Lists
    <2>7. (Paper!Torn \notin ToSet(log))'
      BY <1>1, <1>4 DEF ToSet, Paper!ToSet, Paper!Unreadable
    <2>8. Apart(scope)' /\ IsFiniteSet(scope') /\ \A t \in scope' : Right(t)'
      BY <1>2, <1>4, <2>1 DEF Apart, Paper!Id, Paper!Sooner
    <2>9. Scoped'
      BY <1>4, <2>6, <2>7, <2>8 DEF Scoped
    <2> QED
      BY <1>2, <2>9 DEF FilesInv
  <1> QED
    BY <1>3, <1>4 DEF Paper!ReadKeys, BySooner

\* Some of the new lines, or all, are written, and perhaps part of one more.
LEMMA Appended ==
    ASSUME FilesInv, pc = "append", NEW k \in 0..Len(new),
           NEW tail \in {<<>>, <<Paper!Torn>>},
           log' = log \o SubSeq(new, 1, k) \o tail,
           UNCHANGED <<clock, entered, trades, revised, logged>>
    PROVE  Kept' /\ Filed' /\ (k = Len(new) => \A t \in scope : HasLine(t)')
  <1> DEFINE Line == TradeType \cup {Paper!Torn}
  <1>1. /\ Paper!Torn \notin ToSet(log) /\ Lists(new, Paper!Missing)
        /\ \A t \in scope : Right(t)
        /\ log \in Seq(Line)
        /\ \A i, j \in DOMAIN log :
             i # j /\ log[i] # Paper!Torn /\ log[j] # Paper!Torn
               => Paper!Id(log[i]) # Paper!Id(log[j])
        /\ \A r \in Written(log) : Right(r)
        /\ revised \in Nat
    BY DEF FilesInv, Scoped, Filed
  <1>2. /\ new \in Seq(Paper!Missing) /\ DOMAIN new = 1..Len(new) /\ Len(new) \in Nat
        /\ \A i, j \in DOMAIN new : i # j => new[i] # new[j]
        /\ \A t \in Paper!Missing : \E i \in DOMAIN new : new[i] = t
        /\ \A i \in DOMAIN new : new[i] \in Paper!Missing
    BY <1>1 DEF Lists
  <1>3. ASSUME NEW t \in Paper!Missing
        PROVE  t \in scope /\ Right(t) /\ t \in TradeType /\ t # Paper!Torn
               /\ \A i \in DOMAIN log : Paper!Key(log[i]) # Paper!Key(t)
    BY <1>1, TornIsNoTrade DEF Paper!Missing, Paper!ToSet, Right
  <1>4. log' \in Seq(Line) /\ Extends(log', log, new, k, Paper!Torn)
    <2>1. Paper!Missing \subseteq Line
      BY <1>3
    <2>2. log \in Seq(Line) /\ new \in Seq(Line) /\ Paper!Torn \in Line
      BY <1>1, <1>2, <2>1, SeqMonotonic
    <2>3. tail = <<>> \/ tail = <<Paper!Torn>>
      OBVIOUS
    <2> HIDE DEF Line
    <2> QED
      BY <2>2, <2>3, Appending
  <1>5. /\ \A i \in DOMAIN log : i \in DOMAIN log' /\ log'[i] = log[i]
        /\ \A i \in 1..k : Len(log) + i \in DOMAIN log' /\ log'[Len(log) + i] = new[i]
        /\ \A i \in DOMAIN log' :
             \/ i \in DOMAIN log /\ log'[i] = log[i]
             \/ i - Len(log) \in 1..k /\ log'[i] = new[i - Len(log)]
             \/ log'[i] = Paper!Torn
        /\ DOMAIN log = 1..Len(log) /\ Len(log) \in Nat
    BY <1>4 DEF Extends
  <1>6. Kept' /\ \A r : Right(r)' <=> Right(r)
    BY SameTrades
  <1>7. \A r \in Written(log') : r \in Written(log) \/ r \in Paper!Missing
    <2> SUFFICES ASSUME NEW i \in DOMAIN log', log'[i] # Paper!Torn
                 PROVE  \/ \E j \in DOMAIN log : log[j] = log'[i]
                        \/ log'[i] \in Paper!Missing
      BY DEF Written, ToSet
    <2>1. \A j \in 1..k : new[j] \in Paper!Missing
      BY <1>2
    <2> QED
      BY <1>5, <2>1
  <1>8. Written(log) \subseteq Written(log')
    BY <1>5 DEF Written, ToSet
  <1>9. ASSUME NEW i \in DOMAIN log', NEW j \in DOMAIN log', i # j,
               log'[i] # Paper!Torn, log'[j] # Paper!Torn
        PROVE  Paper!Id(log'[i]) # Paper!Id(log'[j])
    <2>1. CASE i \in DOMAIN log /\ j \in DOMAIN log
      BY <1>1, <1>5, <1>9, <2>1
    <2>2. ASSUME NEW x \in DOMAIN log, NEW y \in 1..k
          PROVE  Paper!Id(log[x]) # Paper!Id(new[y])
      <3>1. Paper!Key(log[x]) # Paper!Key(new[y])
        BY <1>2, <1>3
      <3> QED
        BY <3>1 DEF Paper!Key, Paper!Id
    <2>3. CASE i - Len(log) \in 1..k /\ j - Len(log) \in 1..k
               /\ log'[i] = new[i - Len(log)] /\ log'[j] = new[j - Len(log)]
      <3>1. i - Len(log) # j - Len(log)
        BY <1>5, <1>4, <1>9
      <3>2. new[i - Len(log)] # new[j - Len(log)]
        BY <1>2, <2>3, <3>1
      <3>3. new[i - Len(log)] \in scope /\ new[j - Len(log)] \in scope
        BY <1>2, <1>3, <2>3
      <3>4. Apart(scope)
        BY DEF FilesInv, Scoped
      <3> QED
        BY <2>3, <3>2, <3>3, <3>4 DEF Apart
    <2> DEFINE Old(x) == x \in DOMAIN log /\ log'[x] = log[x]
               New(x) == x - Len(log) \in 1..k /\ log'[x] = new[x - Len(log)]
    <2>4. (Old(i) \/ New(i)) /\ (Old(j) \/ New(j))
      BY <1>5, <1>9
    <2>5. CASE Old(i) /\ New(j)
      BY <2>2, <2>5
    <2>6. CASE New(i) /\ Old(j)
      BY <2>2, <2>6
    <2>7. CASE New(i) /\ New(j)
      BY <2>3, <2>7
    <2> QED
      BY <2>1, <2>4, <2>5, <2>6, <2>7
  <1>10. Filed'
    <2>1. (\A i, j \in DOMAIN log :
             i # j /\ log[i] # Paper!Torn /\ log[j] # Paper!Torn
               => Paper!Id(log[i]) # Paper!Id(log[j]))'
      BY <1>9 DEF Paper!Id
    <2>2. (\A r \in Written(log) : Right(r))'
      BY <1>1, <1>3, <1>6, <1>7 DEF Written
    <2>3. (\A x \in logged : Recorded(x))'
      BY <1>8 DEF FilesInv, Filed, Recorded, Paper!Key, Written
    <2>4. log' \in Seq(TradeType \cup {Paper!Torn}) /\ revised' \in Nat
      BY <1>1, <1>4
    <2> QED
      BY <2>1, <2>2, <2>3, <2>4 DEF Filed
  <1>11. ASSUME k = Len(new), NEW t \in scope PROVE HasLine(t)'
    <2>1. CASE t \in Paper!Missing
      <3>1. PICK i \in 1..k : new[i] = t
        BY <1>2, <1>11, <2>1
      <3>2. t \in Written(log')
        BY <1>3, <1>5, <2>1, <3>1 DEF Written, ToSet
      <3> QED
        BY <3>2 DEF HasLine, Written
    <2>2. CASE t \notin Paper!Missing
      <3>1. PICK r \in ToSet(log) : Paper!Key(r) = Paper!Key(t)
        BY <2>2 DEF Paper!Missing, Paper!ToSet, ToSet
      <3>2. r \in Written(log')
        BY <1>1, <1>8, <3>1 DEF Written
      <3> QED
        BY <3>1, <3>2 DEF HasLine, Written, Paper!Key
    <2> QED
      BY <2>1, <2>2
  <1> QED
    BY <1>6, <1>10, <1>11

LEMMA AppendRowsKeeps ==
    ASSUME FilesInv, Paper!AppendRows
    PROVE  FilesInv'
  <1>1. /\ pc = "append" /\ pc' = "tally" /\ log' = log \o new
        /\ UNCHANGED <<clock, entered, trades, scope, new, logged, revised>>
    BY DEF Paper!AppendRows, Paper!dataVars, Paper!histVars
  <1>2. log \in Seq(TradeType \cup {Paper!Torn}) /\ new \in Seq(Paper!Missing)
        /\ Len(new) \in 0..Len(new)
    BY <1>1 DEF FilesInv, Scoped, Filed, Lists
  <1>3. log' = log \o SubSeq(new, 1, Len(new)) \o <<>>
    <2>1. SubSeq(new, 1, Len(new)) = new
      BY <1>2, SubSeqFull
    <2> DEFINE W == TradeType \cup {Paper!Torn} \cup Paper!Missing
    <2>2. log \in Seq(W) /\ new \in Seq(W)
      BY <1>2, SeqMonotonic
    <2>3. log \o new \in Seq(W)
      BY <2>2, ConcatProperties
    <2> HIDE DEF W
    <2> QED
      BY <1>1, <2>1, <2>3, ConcatEmptySeq
  <1>4. Kept' /\ Filed' /\ \A t \in scope : HasLine(t)'
    BY <1>1, <1>2, <1>3, Appended
  <1>5. \A r : Right(r)' <=> Right(r)
    BY <1>1, SameTrades
  <1>6. Scoped'
    <2>1. IsFiniteSet(scope) /\ Apart(scope) /\ \A t \in scope : Right(t)
      BY DEF FilesInv, Scoped
    <2> QED
      BY <1>1, <1>4, <1>5, <2>1 DEF Scoped, Apart, Paper!Id, Paper!Sooner
  <1> QED
    BY <1>4, <1>6 DEF FilesInv

LEMMA KilledInAppendKeeps ==
    ASSUME FilesInv, Paper!KilledInAppend
    PROVE  FilesInv'
  <1>1. /\ pc = "append" /\ Paper!Ends
        /\ UNCHANGED <<clock, entered, trades, logged, revised>>
    BY DEF Paper!KilledInAppend, Paper!dataVars, Paper!histVars
  <1>2. PICK k \in 0..Len(new), last \in {"whole", "bare", "torn"} :
          log' = log \o SubSeq(new, 1, k)
                     \o (IF last = "torn" THEN <<Paper!Torn>> ELSE <<>>)
    BY DEF Paper!KilledInAppend
  <1>3. PICK tail \in {<<>>, <<Paper!Torn>>} : log' = log \o SubSeq(new, 1, k) \o tail
    BY <1>2
  <1>4. Kept' /\ Filed'
    BY <1>1, <1>3, Appended
  <1> QED
    BY <1>1, <1>4, NothingScoped DEF FilesInv

LEMMA KilledKeeps ==
    ASSUME FilesInv, Paper!Killed
    PROVE  FilesInv'
  <1>1. Paper!Ends /\ UNCHANGED <<clock, entered, trades, log, logged, revised>>
    BY DEF Paper!Killed, Paper!dataVars, Paper!histVars
  <1>2. Kept' /\ Filed'
    BY <1>1, SameTrades, FilesUnchanged DEF FilesInv, Filed
  <1> QED
    BY <1>1, <1>2, NothingScoped DEF FilesInv

LEMMA WriteTallyKeeps ==
    ASSUME FilesInv, Paper!WriteTally
    PROVE  FilesInv'
  <1>1. /\ Paper!Ends /\ logged' \subseteq logged \cup {Paper!Key(t) : t \in scope}
        /\ pc = "tally" /\ UNCHANGED <<clock, entered, trades, log, revised>>
    BY DEF Paper!WriteTally, Paper!dataVars
  <1>2. Kept' /\ \A r : Right(r)' <=> Right(r)
    BY <1>1, SameTrades
  <1>3. Written(log)' = Written(log) /\ \A t : HasLine(t)' <=> HasLine(t)
    BY <1>1 DEF HasLine, Written, Paper!Key
  <1>4. \A x \in logged' : Recorded(x)'
    <2>1. \A k : Recorded(k)' <=> Recorded(k)
      BY <1>3 DEF Recorded, Paper!Key
    <2>2. \A t \in scope : Recorded(Paper!Key(t))
      BY <1>1 DEF FilesInv, Scoped, HasLine, Recorded
    <2> QED
      BY <1>1, <2>1, <2>2 DEF FilesInv, Filed
  <1>5. Filed'
    <2>1. (\A i, j \in DOMAIN log :
             i # j /\ log[i] # Paper!Torn /\ log[j] # Paper!Torn
               => Paper!Id(log[i]) # Paper!Id(log[j]))'
      BY <1>1 DEF FilesInv, Filed, Paper!Id
    <2>2. (\A r \in Written(log) : Right(r))'
      BY <1>2, <1>3 DEF FilesInv, Filed
    <2>3. revised' \in Nat /\ log' \in Seq(TradeType \cup {Paper!Torn})
      BY <1>1 DEF FilesInv, Filed
    <2> QED
      BY <1>4, <2>1, <2>2, <2>3 DEF Filed
  <1> QED
    BY <1>1, <1>2, <1>5, NothingScoped DEF FilesInv

LEMMA FilesInitInv == Init => FilesInv
  <1> SUFFICES ASSUME Init PROVE FilesInv
    OBVIOUS
  <1>1. PICK sleeves \in {{1}, Portfolio["portfolio"], Portfolio["aggregate"], {}} :
          Paper!PaperInit(sleeves)
    BY DEF Init
  <1>2. sleeves \subseteq Nat /\ IsFiniteSet(sleeves)
    <2>1. IsFiniteSet({1}) /\ IsFiniteSet({})
      BY FS_Singleton, FS_EmptySet
    <2>2. ASSUME NEW p \in {"portfolio", "aggregate"}
          PROVE  Portfolio[p] \subseteq Nat /\ IsFiniteSet(Portfolio[p])
      BY RecordsAssumption
    <2>3. \/ sleeves = {1} \/ sleeves = {}
          \/ \E p \in {"portfolio", "aggregate"} : sleeves = Portfolio[p]
      OBVIOUS
    <2>4. IsFiniteSet(sleeves)
      BY <2>1, <2>2, <2>3, Zenon
    <2>5. sleeves \subseteq Nat
      BY <2>2, <2>3
    <2> QED
      BY <2>4, <2>5
  <1>3. IsFiniteSet({})
    BY FS_EmptySet
  <1>4. /\ clock = [s \in sleeves |-> 0] /\ entered = [s \in sleeves |-> 0]
        /\ trades = [s \in sleeves |-> {}]
        /\ pc = "idle" /\ scope = {} /\ log = <<>> /\ revised = 0 /\ logged = {}
    BY <1>1 DEF Paper!PaperInit
  <1>5. Kept
    BY <1>2, <1>3, <1>4 DEF Kept, Sleeve
  <1>6. Scoped
    BY <1>3, <1>4 DEF Scoped, Apart
  <1>7. Filed
    BY <1>4 DEF Filed, Written, ToSet
  <1> QED
    BY <1>5, <1>6, <1>7 DEF FilesInv

LEMMA FilesStepInv == FilesInv /\ [Next]_vars => FilesInv'
  <1> SUFFICES ASSUME FilesInv, [Next]_vars PROVE FilesInv'
    OBVIOUS
  <1>1. CASE Data
    BY <1>1, DataKeeps DEF Data
  <1>2. CASE Run
    <2>1. CASE \E since \in 0..LastBar[program] : Paper!Load(since)
      BY <2>1, LoadKeeps
    <2>2. CASE Paper!ReadKeys
      BY <2>2, ReadKeysKeeps
    <2>3. CASE Paper!AppendRows
      BY <2>3, AppendRowsKeeps
    <2>4. CASE Paper!KilledInAppend
      BY <2>4, KilledInAppendKeeps
    <2>5. CASE Paper!Killed
      BY <2>5, KilledKeeps
    <2>6. CASE Paper!WriteTally
      BY <2>6, WriteTallyKeeps
    <2> QED
      BY <1>2, <2>1, <2>2, <2>3, <2>4, <2>5, <2>6 DEF Run, Paper!PaperRun
  <1>3. CASE UNCHANGED paperVars
    <2>1. UNCHANGED <<clock, entered, trades, pc, scope, new, log, revised, logged>>
      BY <1>3 DEF paperVars
    <2>2. Kept' /\ \A r : Today(r)' <=> Today(r)
      BY <2>1, SameTrades
    <2> QED
      BY <2>1, <2>2, RunUnchanged DEF FilesInv, Filed
  <1> QED
    BY <1>1, <1>2, <1>3 DEF Next, Fill, Finished, vars
-----------------------------------------------------------------------------
(* The order of the lines, as far as runs and bars keep it. *)

\* t and u have one entry and one exit: a line marks a trade that its bars
\* may since have ended.
Twins(t, u) == Paper!Id(u) = Paper!Id(t) /\ u.exit = t.exit

\* If t has no line, it comes after those that have.
Waiting(t) == ~HasLine(t) => \A r \in Written(log) : Paper!Sooner(r, t)

\* c is the time up to which the last run has seen the bars, of all sleeves:
\* what ended later is in no scope and no line; and of what ended by then each
\* trade has its line or comes after all of them, and is in the scope of the run
\* if one is in progress.
Timely(c) ==
    /\ c \in Nat /\ \A s \in DOMAIN clock : c <= clock[s]
    /\ Ordered(log) /\ \A i \in DOMAIN log : log[i].exit <= c
    /\ \A t \in AllTrades : t.exit <= c /\ Paper!Forward(t) => Waiting(t)
    /\ \A t \in scope : t.exit <= c /\ Waiting(t)
    /\ pc # "idle" =>
         \A t \in AllTrades :
           t.exit <= c /\ Paper!Forward(t) => \E u \in scope : Twins(t, u)
    /\ pc = "append" => Ordered(new)

\* The portfolio's bars ended together at every run, no trade of the past was
\* changed and no run died in the middle of a line.
Punctual ==
    /\ program = "portfolio" /\ ~uneven /\ revised = 0
    /\ Paper!Torn \notin ToSet(log)

Orderly == Punctual => \E c : Timely(c)

\* Twins have one key and one place in the order of the append.
LEMMA TwinsAlike ==
    ASSUME NEW t, NEW u, Twins(t, u)
    PROVE  /\ Paper!Key(t) = Paper!Key(u)
           /\ Paper!Forward(t) <=> Paper!Forward(u)
           /\ \A r : Paper!Sooner(r, t) <=> Paper!Sooner(r, u)
           /\ HasLine(t) <=> HasLine(u)
           /\ Waiting(t) <=> Waiting(u)
  <1>1. t.sleeve = u.sleeve /\ t.entry = u.entry /\ t.no = u.no /\ t.exit = u.exit
    BY DEF Twins, Paper!Id
  <1>2. Paper!Key(t) = Paper!Key(u)
    BY <1>1 DEF Paper!Key
  <1>3. \A r : Paper!Sooner(r, t) <=> Paper!Sooner(r, u)
    BY <1>1 DEF Paper!Sooner
  <1>4. HasLine(t) <=> HasLine(u)
    BY <1>2 DEF HasLine
  <1> QED
    BY <1>1, <1>2, <1>3, <1>4 DEF Waiting, Paper!Forward

\* The operators of a trade and of the lines mean the same after a step that
\* leaves the file alone.
LEMMA SameLines ==
    ASSUME UNCHANGED log
    PROVE  /\ Written(log)' = Written(log) /\ ToSet(log)' = ToSet(log)
           /\ Ordered(log)' <=> Ordered(log)
           /\ \A t : /\ HasLine(t)' <=> HasLine(t)
                     /\ Waiting(t)' <=> Waiting(t)
  <1>1. Written(log)' = Written(log) /\ ToSet(log)' = ToSet(log)
    BY DEF Written, ToSet
  <1>2. \A t : HasLine(t)' <=> HasLine(t)
    BY <1>1 DEF HasLine, Paper!Key
  <1> QED
    BY <1>1, <1>2 DEF Waiting, Ordered, Paper!Sooner

\* Steps of the bars, that bring only trades that end after c.
LEMMA TimelyStays ==
    ASSUME NEW c, Timely(c), UNCHANGED <<pc, scope, new, log>>,
           \A s \in DOMAIN clock' : c <= clock'[s],
           \A t \in AllTrades' : t.exit <= c => \E u \in AllTrades : Twins(t, u)
    PROVE  Timely(c)'
  <1>1. /\ Ordered(log)' /\ \A t : Waiting(t)' <=> Waiting(t)
    BY SameLines DEF Timely
  <1>2. \A t \in AllTrades' : t.exit <= c /\ Paper!Forward(t) => Waiting(t)'
    <2> SUFFICES ASSUME NEW t \in AllTrades', t.exit <= c, Paper!Forward(t)
                 PROVE  Waiting(t)
      BY <1>1
    <2>1. PICK u \in AllTrades : Twins(t, u)
      OBVIOUS
    <2>2. Waiting(u)
      BY <2>1, TwinsAlike DEF Timely, Twins
    <2> QED
      BY <2>1, <2>2, TwinsAlike
  <1>3. ASSUME pc # "idle", NEW t \in AllTrades', t.exit <= c, Paper!Forward(t)
        PROVE  \E u \in scope : Twins(t, u)
    <2>1. PICK u \in AllTrades : Twins(t, u)
      BY <1>3
    <2>2. PICK v \in scope : Twins(u, v)
      BY <1>3, <2>1, TwinsAlike DEF Timely, Twins
    <2> QED
      BY <2>1, <2>2 DEF Twins
  <1>4. \A t, u : Twins(t, u)' <=> Twins(t, u)
    BY DEF Twins, Paper!Id
  <1>5. \A t : Paper!Forward(t)' <=> Paper!Forward(t)
    BY DEF Paper!Forward
  <1>6. (\A t \in AllTrades : t.exit <= c /\ Paper!Forward(t) => Waiting(t))'
    BY <1>2, <1>5
  <1>7. (\A t \in scope : t.exit <= c /\ Waiting(t))'
    BY <1>1 DEF Timely
  <1>8. (pc # "idle" =>
          \A t \in AllTrades :
            t.exit <= c /\ Paper!Forward(t) => \E u \in scope : Twins(t, u))'
    BY <1>3, <1>4, <1>5
  <1>9. (pc = "append" => Ordered(new))'
    BY DEF Timely, Ordered, Paper!Sooner
  <1> QED
    BY <1>1, <1>6, <1>7, <1>8, <1>9 DEF Timely

\* A change of one sleeve brings trades of that sleeve only.
LEMMA OtherSleeves ==
    ASSUME Kept, NEW s \in DOMAIN clock, NEW T,
           trades' = [trades EXCEPT ![s] = T], UNCHANGED DOMAIN clock,
           NEW t \in AllTrades'
    PROVE  t \in AllTrades \/ t \in T
  <1>1. DOMAIN trades = DOMAIN clock
    BY DEF Kept
  <1>2. (\A u : u \in AllTrades <=> \E x \in DOMAIN clock : u \in trades[x])'
    BY DEF AllTrades, Paper!Sleeves
  <1>3. PICK x \in DOMAIN clock : t \in trades'[x]
    BY <1>2
  <1>4. x # s => t \in trades[x]
    BY <1>1, <1>3
  <1>5. x = s => t \in T
    BY <1>1, <1>3
  <1> QED
    BY <1>3, <1>4, <1>5 DEF AllTrades, Paper!Sleeves

\* What a bar ends or enters ends later than all that a run has seen.
LEMMA NewBarLater ==
    ASSUME Kept, NEW s \in Paper!Sleeves, Paper!NewBar(s), NEW c \in Nat,
           \A x \in DOMAIN clock : c <= clock[x]
    PROVE  /\ \A x \in DOMAIN clock' : c <= clock'[x]
           /\ \A t \in AllTrades' : t.exit <= c => \E u \in AllTrades : Twins(t, u)
  <1>1. s \in DOMAIN clock /\ clock' = [clock EXCEPT ![s] = clock[s] + 1]
        /\ clock[s] \in Nat /\ c <= clock[s]
    BY DEF Kept, Sleeve, Paper!NewBar, Paper!Sleeves
  <1>2. DOMAIN clock' = DOMAIN clock /\ clock'[s] = clock[s] + 1
    BY <1>1
  <1>3. \A x \in DOMAIN clock' : c <= clock'[x]
    BY <1>1, <1>2 DEF Kept
  <1>4. ASSUME NEW t \in AllTrades', t.exit <= c PROVE t \in AllTrades
    <2>1. CASE UNCHANGED trades
      BY <1>2, <2>1 DEF AllTrades, Paper!Sleeves
    <2>2. CASE \E pnl \in Pnls :
                 trades' = [trades EXCEPT ![s] = trades[s] \cup
                   {[sleeve |-> s, entry |-> entered[s], no |-> 1,
                     exit |-> clock'[s], over |-> TRUE, pnl |-> pnl]}]
      <3>1. PICK pnl \in Pnls :
                 trades' = [trades EXCEPT ![s] = trades[s] \cup
                   {[sleeve |-> s, entry |-> entered[s], no |-> 1,
                     exit |-> clock'[s], over |-> TRUE, pnl |-> pnl]}]
        BY <2>2
      <3> DEFINE v == [sleeve |-> s, entry |-> entered[s], no |-> 1,
                       exit |-> clock'[s], over |-> TRUE, pnl |-> pnl]
      <3>2. t \in AllTrades \/ t \in trades[s] \cup {v}
        BY <1>1, <1>2, <3>1, OtherSleeves
      <3>3. t # v
        <4>1. v.exit = clock[s] + 1
          BY <1>2
        <4> HIDE DEF v
        <4> QED
          BY <1>1, <1>4, <4>1
      <3> QED
        BY <1>1, <3>2, <3>3 DEF AllTrades, Paper!Sleeves
    <2> QED
      BY <2>1, <2>2 DEF Paper!NewBar
  <1> QED
    BY <1>3, <1>4 DEF Twins

\* The same for the SHOCK sleeve, whose trades keep their entry when they are
\* marked.
LEMMA ShockBarLater ==
    ASSUME Kept, NEW s \in Paper!Sleeves, Paper!ShockBar(s), NEW c \in Nat,
           \A x \in DOMAIN clock : c <= clock[x]
    PROVE  /\ \A x \in DOMAIN clock' : c <= clock'[x]
           /\ \A t \in AllTrades' : t.exit <= c => \E u \in AllTrades : Twins(t, u)
  <1>1. s \in DOMAIN clock /\ clock' = [clock EXCEPT ![s] = clock[s] + 1]
        /\ clock[s] \in Nat /\ c <= clock[s] /\ trades[s] \subseteq TradeType
    BY DEF Kept, Sleeve, Paper!ShockBar, Paper!Sleeves
  <1>2. DOMAIN clock' = DOMAIN clock /\ clock'[s] = clock[s] + 1
    BY <1>1
  <1>3. \A x \in DOMAIN clock' : c <= clock'[x]
    BY <1>1, <1>2 DEF Kept
  <1>4. PICK held \in [{t \in trades[s] : ~t.over} -> [pnl : Pnls, over : BOOLEAN]],
             n \in 0..Paper!Least(2, MaxShocks - Paper!Cardinality(trades[s])) :
          \E pnl \in [1..n -> Pnls] :
             LET Marked(t) ==
                   IF t.over THEN t
                   ELSE [t EXCEPT !.pnl = held[t].pnl, !.over = held[t].over]
                 Entry(no) == [sleeve |-> s, entry |-> clock'[s], no |-> no,
                               exit |-> clock'[s], over |-> FALSE, pnl |-> pnl[no]]
             IN trades' = [trades EXCEPT ![s] = {Marked(t) : t \in trades[s]}
                             \cup {Entry(no) : no \in 1..n}]
    BY <1>1 DEF Paper!ShockBar
  <1>5. PICK pnl \in [1..n -> Pnls] :
             LET Marked(t) ==
                   IF t.over THEN t
                   ELSE [t EXCEPT !.pnl = held[t].pnl, !.over = held[t].over]
                 Entry(no) == [sleeve |-> s, entry |-> clock'[s], no |-> no,
                               exit |-> clock'[s], over |-> FALSE, pnl |-> pnl[no]]
             IN trades' = [trades EXCEPT ![s] = {Marked(t) : t \in trades[s]}
                             \cup {Entry(no) : no \in 1..n}]
    BY <1>4
  <1> DEFINE Marked(t) == IF t.over THEN t
                          ELSE [t EXCEPT !.pnl = held[t].pnl, !.over = held[t].over]
             Entry(no) == [sleeve |-> s, entry |-> clock'[s], no |-> no,
                           exit |-> clock'[s], over |-> FALSE, pnl |-> pnl[no]]
             M == {Marked(t) : t \in trades[s]}
             N == {Entry(no) : no \in 1..n}
  <1>6. trades' = [trades EXCEPT ![s] = M \cup N]
    BY <1>5
  <1>7. ASSUME NEW t \in M PROVE \E u \in AllTrades : Twins(t, u)
    <2>1. PICK u \in trades[s] : t = Marked(u)
      OBVIOUS
    <2>2. u \in TradeType
      BY <1>1
    <2>3. /\ Marked(u).sleeve = u.sleeve /\ Marked(u).entry = u.entry
          /\ Marked(u).no = u.no /\ Marked(u).exit = u.exit
      BY <2>2 DEF TradeType
    <2>4. u \in AllTrades
      BY <1>1 DEF AllTrades, Paper!Sleeves
    <2> HIDE DEF Marked
    <2> QED
      BY <2>1, <2>3, <2>4 DEF Twins, Paper!Id
  <1>8. ASSUME NEW t \in N PROVE ~(t.exit <= c)
    <2>1. PICK no \in 1..n : t = Entry(no)
      OBVIOUS
    <2>2. Entry(no).exit = clock[s] + 1
      BY <1>2
    <2> HIDE DEF Entry
    <2> QED
      BY <1>1, <2>1, <2>2
  <1> HIDE DEF M, N
  <1>9. ASSUME NEW t \in AllTrades', t.exit <= c
        PROVE  \E u \in AllTrades : Twins(t, u)
    <2>1. t \in AllTrades \/ t \in M \cup N
      BY <1>1, <1>2, <1>6, OtherSleeves
    <2>2. t \in AllTrades => Twins(t, t)
      BY DEF Twins
    <2> QED
      BY <1>7, <1>8, <1>9, <2>1, <2>2
  <1> QED
    BY <1>3, <1>9

\* A run that is over keeps nothing in mind.
LEMMA TimelyEnds ==
    ASSUME NEW c, Timely(c), Paper!Ends, UNCHANGED <<clock, trades, log>>
    PROVE  Timely(c)'
  <1>1. pc' = "idle" /\ scope' = {}
    BY DEF Paper!Ends
  <1>2. /\ Ordered(log)' /\ \A t : Waiting(t)' <=> Waiting(t)
    BY SameLines DEF Timely
  <1>3. AllTrades' = AllTrades /\ \A t : Paper!Forward(t)' <=> Paper!Forward(t)
    BY DEF AllTrades, Paper!Sleeves, Paper!Forward
  <1>4. (\A t \in AllTrades : t.exit <= c /\ Paper!Forward(t) => Waiting(t))'
    BY <1>2, <1>3 DEF Timely
  <1> QED
    BY <1>1, <1>2, <1>4 DEF Timely

\* A run that meets all bars ending together moves c up to their end.
LEMMA LoadTimely ==
    ASSUME FilesInv, NEW since, Paper!Load(since), Punctual', Orderly,
           program' = program
    PROVE  \E c : Timely(c)'
  <1>1. /\ pc' = "keys" /\ scope' = Paper!InScope(since)
        /\ UNCHANGED <<clock, entered, trades, log, new, revised>>
        /\ uneven' = (uneven \/ \E s, r \in Paper!Sleeves : clock[s] # clock[r])
        /\ program = "portfolio" => since = 0 /\ Paper!InScope(0) # {}
    BY DEF Paper!Load, Paper!dataVars, Paper!fileVars
  <1>2. /\ program = "portfolio" /\ revised = 0 /\ ~uneven
        /\ \A s, r \in DOMAIN clock : clock[s] = clock[r]
    BY <1>1 DEF Punctual, Paper!Sleeves
  <1>3. Written(log)' = Written(log) /\ ToSet(log)' = ToSet(log)
        /\ (Ordered(log)' <=> Ordered(log)) /\ \A t : Waiting(t)' <=> Waiting(t)
    BY <1>1, SameLines
  <1>4. Punctual
    BY <1>2, <1>3 DEF Punctual
  <1>5. PICK c : Timely(c)
    BY <1>4 DEF Orderly
  <1>6. scope' = {t \in AllTrades : Paper!Forward(t) /\ t.entry >= 0}
    BY <1>1, <1>2 DEF Paper!InScope, AllTrades
  <1>7. scope' # {}
    BY <1>1, <1>2
  <1>8. PICK s \in DOMAIN clock : TRUE
    BY <1>6, <1>7 DEF AllTrades, Paper!Sleeves
  <1>20. clock[s] \in Nat
    BY <1>8 DEF FilesInv, Kept, Sleeve
  <1>21. PICK d \in Nat : d = clock[s]
    BY <1>20
  <1>9. d \in Nat /\ c \in Nat /\ c <= d /\ \A r \in DOMAIN clock : clock[r] = d
    <2>1. c \in Nat /\ c <= clock[s]
      BY <1>5, <1>8 DEF Timely
    <2>2. \A r \in DOMAIN clock : clock[r] = clock[s]
      BY <1>2, <1>8
    <2> QED
      BY <1>21, <2>1, <2>2
  <1>10. \A t \in AllTrades : /\ t \in TradeType /\ t.exit <= d
                              /\ t.entry >= 0 /\ t.exit \in Nat
    <2> SUFFICES ASSUME NEW t \in AllTrades
                 PROVE  /\ t \in TradeType /\ t.exit <= d
                        /\ t.entry >= 0 /\ t.exit \in Nat
      OBVIOUS
    <2>1. PICK r \in DOMAIN clock : t \in trades[r]
      BY DEF AllTrades, Paper!Sleeves
    <2>2. Sleeve(r, trades[r], clock[r], entered[r])
      BY DEF FilesInv, Kept
    <2>3. t \in TradeType /\ t.exit <= clock[r]
      BY <2>1, <2>2 DEF Sleeve
    <2> QED
      BY <1>9, <2>3 DEF TradeType
  <1>11. /\ log \in Seq(TradeType \cup {Paper!Torn})
         /\ \A r \in Written(log) : r \in TradeType /\ r.exit <= c
    <2>1. log \in Seq(TradeType \cup {Paper!Torn})
      BY DEF FilesInv, Filed
    <2>2. \A r \in Written(log) : r.exit <= c
      BY <1>5 DEF Timely, Written, ToSet
    <2>3. \A r \in Written(log) : r \in TradeType
      BY DEF FilesInv, Filed, Right
    <2> QED
      BY <2>1, <2>2, <2>3
  <1>12. ASSUME NEW t \in AllTrades, Paper!Forward(t) PROVE Waiting(t)
    <2>1. CASE t.exit <= c
      BY <1>5, <1>12, <2>1 DEF Timely
    <2>2. CASE ~(t.exit <= c)
      <3>1. ASSUME NEW r \in Written(log) PROVE Paper!Sooner(r, t)
        <4>1. r.exit \in Nat /\ r.exit <= c /\ t.exit \in Nat
          BY <1>10, <1>11 DEF TradeType
        <4>2. r.exit < t.exit
          BY <1>9, <2>2, <4>1
        <4> QED
          BY <4>2 DEF Paper!Sooner
      <3> QED
        BY <3>1 DEF Waiting
    <2> QED
      BY <2>1, <2>2
  <1>13. \A i \in DOMAIN log : log[i].exit <= d
    <2> SUFFICES ASSUME NEW i \in DOMAIN log PROVE log[i].exit <= d
      OBVIOUS
    <2>1. log[i] # Paper!Torn
      BY <1>4 DEF Punctual, ToSet
    <2>2. log[i] \in Written(log)
      BY <2>1 DEF Written, ToSet
    <2>3. log[i].exit \in Nat /\ log[i].exit <= c
      BY <1>11, <2>2 DEF TradeType
    <2> QED
      BY <1>9, <2>3
  <1>14. AllTrades' = AllTrades /\ \A t : Paper!Forward(t)' <=> Paper!Forward(t)
    BY <1>1 DEF AllTrades, Paper!Sleeves, Paper!Forward
  <1>15. \A t \in scope' : t.exit <= d /\ Waiting(t)'
    BY <1>3, <1>6, <1>10, <1>12
  <1>16. \A t \in AllTrades : Paper!Forward(t) => \E u \in scope' : Twins(t, u)'
    <2>1. \A t : Twins(t, t)'
      BY DEF Twins
    <2> QED
      BY <1>6, <1>10, <2>1
  <1>17. \A t \in AllTrades' : Paper!Forward(t)' => Waiting(t)'
    BY <1>3, <1>12, <1>14
  <1>18. Ordered(log)' /\ \A r \in DOMAIN clock' : d <= clock'[r]
    BY <1>1, <1>3, <1>5, <1>9 DEF Timely
  <1>19. Timely(d)'
    BY <1>1, <1>9, <1>13, <1>14, <1>15, <1>16, <1>17, <1>18 DEF Timely
  <1> QED
    BY <1>19

\* What the run is about to append is in order.
LEMMA ReadKeysTimely ==
    ASSUME FilesInv, Paper!ReadKeys, NEW c, Timely(c)
    PROVE  Timely(c)'
  <1>1. pc = "keys" /\ UNCHANGED <<clock, entered, trades, log>>
    BY DEF Paper!ReadKeys, Paper!dataVars, Paper!fileVars
  <1>2. CASE Paper!Ends
    BY <1>1, <1>2, TimelyEnds
  <1>3. CASE /\ pc' = "append" /\ new' = BySooner(Paper!Missing) /\ UNCHANGED scope
    <2>1. IsFiniteSet(scope) /\ Apart(scope) /\ \A t \in scope : Right(t)
      BY DEF FilesInv, Scoped
    <2>2. Paper!Missing \in SUBSET scope
      BY DEF Paper!Missing
    <2>3. /\ IsFiniteSet(Paper!Missing) /\ Apart(Paper!Missing)
          /\ Paper!Missing \subseteq TradeType
      BY <2>1, <2>2, FS_Subset DEF Apart, Right
    <2>4. Ordered(new')
      BY <1>3, <2>3, InOrderLists
    <2>5. Ordered(new)'
      BY <2>4 DEF Ordered, Paper!Sooner
    <2>6. /\ Ordered(log)' /\ \A t : Waiting(t)' <=> Waiting(t)
      BY <1>1, SameLines DEF Timely
    <2>7. AllTrades' = AllTrades /\ \A t : Paper!Forward(t)' <=> Paper!Forward(t)
      BY <1>1 DEF AllTrades, Paper!Sleeves, Paper!Forward
    <2>8. \A t, u : Twins(t, u)' <=> Twins(t, u)
      BY DEF Twins, Paper!Id
    <2>9. (\A t \in AllTrades : t.exit <= c /\ Paper!Forward(t) => Waiting(t))'
      BY <2>6, <2>7 DEF Timely
    <2>10. (\A t \in scope : t.exit <= c /\ Waiting(t))'
      BY <1>3, <2>6 DEF Timely
    <2>11. (pc # "idle" =>
             \A t \in AllTrades :
               t.exit <= c /\ Paper!Forward(t) => \E u \in scope : Twins(t, u))'
      BY <1>1, <1>3, <2>7, <2>8 DEF Timely
    <2> QED
      BY <1>1, <2>5, <2>6, <2>9, <2>10, <2>11 DEF Timely
  <1> QED
    BY <1>2, <1>3 DEF Paper!ReadKeys, BySooner

\* Part of the new lines has been written, or all of them.
LEMMA AppendTimely ==
    ASSUME FilesInv, NEW c, Timely(c), pc = "append", NEW k \in 0..Len(new),
           NEW tail \in {<<>>, <<Paper!Torn>>},
           log' = log \o SubSeq(new, 1, k) \o tail,
           Paper!Torn \notin ToSet(log'),
           UNCHANGED <<clock, entered, trades, revised, logged>>
    PROVE  /\ Ordered(log)' /\ \A i \in DOMAIN log' : log'[i].exit <= c
           /\ \A t \in AllTrades : t.exit <= c /\ Paper!Forward(t) => Waiting(t)'
           /\ \A i \in DOMAIN log : i \in DOMAIN log' /\ log'[i] = log[i]
  <1> DEFINE Line == TradeType \cup {Paper!Torn}
             m == Len(log)
  <1>1. /\ Lists(new, Paper!Missing) /\ \A t \in scope : Right(t)
        /\ log \in Seq(Line) /\ \A r \in Written(log) : Right(r)
    BY DEF FilesInv, Scoped, Filed
  <1>2. /\ new \in Seq(Paper!Missing) /\ DOMAIN new = 1..Len(new) /\ Len(new) \in Nat
        /\ \A t \in Paper!Missing : \E i \in DOMAIN new : new[i] = t
        /\ \A i \in DOMAIN new : new[i] \in Paper!Missing
    BY <1>1 DEF Lists
  <1>3. ASSUME NEW t \in Paper!Missing
        PROVE  /\ t \in scope /\ t \in TradeType /\ t.exit <= c
               /\ ~HasLine(t) /\ \A r \in Written(log) : Paper!Sooner(r, t)
    <2>1. t \in scope /\ \A r \in ToSet(log) : Paper!Key(r) # Paper!Key(t)
      BY DEF Paper!Missing, Paper!ToSet, ToSet
    <2>2. ~HasLine(t)
      BY <2>1 DEF HasLine, Written
    <2>3. t.exit <= c /\ Waiting(t)
      BY <2>1 DEF Timely
    <2> QED
      BY <1>1, <2>1, <2>2, <2>3 DEF Waiting, Right
  <1>4. Extends(log', log, new, k, Paper!Torn)
    <2>1. Paper!Missing \subseteq Line
      BY <1>3
    <2>2. log \in Seq(Line) /\ new \in Seq(Line) /\ Paper!Torn \in Line
      BY <1>1, <1>2, <2>1, SeqMonotonic
    <2>3. tail = <<>> \/ tail = <<Paper!Torn>>
      OBVIOUS
    <2> HIDE DEF Line
    <2> QED
      BY <2>2, <2>3, Appending
  <1> DEFINE Old(i) == i \in DOMAIN log /\ log'[i] = log[i]
             New(i) == i - m \in 1..k /\ log'[i] = new[i - m]
  <1>5. /\ \A i \in DOMAIN log : i \in DOMAIN log' /\ log'[i] = log[i]
        /\ \A i \in 1..k : m + i \in DOMAIN log' /\ log'[m + i] = new[i]
        /\ \A i \in DOMAIN log' : Old(i) \/ New(i)
        /\ DOMAIN log = 1..m /\ m \in Nat
    <2>1. \A i \in DOMAIN log' : log'[i] # Paper!Torn
      BY DEF ToSet
    <2> QED
      BY <1>4, <2>1 DEF Extends
  <1>6. \A i \in 1..k : i \in DOMAIN new /\ new[i] \in Paper!Missing
    BY <1>2
  <1>7. Ordered(new) /\ Ordered(log) /\ \A i \in DOMAIN log : log[i].exit <= c
    BY DEF Timely
  <1>8. \A i \in DOMAIN log : log[i] \in Written(log)
    <2>1. \A i \in DOMAIN log : log[i] # Paper!Torn
      BY <1>5 DEF ToSet
    <2> QED
      BY <2>1 DEF Written, ToSet
  <1>9. ASSUME NEW i \in DOMAIN log', NEW j \in DOMAIN log', i < j
        PROVE  Paper!Sooner(log'[i], log'[j])
    <2>1. CASE Old(i) /\ Old(j)
      BY <1>7, <1>9, <2>1 DEF Ordered
    <2>2. CASE Old(i) /\ New(j)
      BY <1>3, <1>6, <1>8, <2>2
    <2>3. CASE New(i) /\ Old(j)
      <3>1. i \in Int /\ i > m /\ j <= m /\ j \in Int
        <4>1. log' \in Seq(Line) /\ DOMAIN log' = 1..Len(log') /\ Len(log') \in Nat
          <5>1. Filed'
            BY Appended
          <5> QED
            BY <5>1 DEF Filed
        <4>2. i \in Int /\ j \in Int
          BY <4>1
        <4> QED
          BY <1>5, <2>3, <4>2
      <3> QED
        BY <1>5, <1>9, <3>1
    <2>4. CASE New(i) /\ New(j)
      <3>1. i - m < j - m
        <4>1. log' \in Seq(Line) /\ DOMAIN log' = 1..Len(log') /\ Len(log') \in Nat
          <5>1. Filed'
            BY Appended
          <5> QED
            BY <5>1 DEF Filed
        <4> QED
          BY <1>5, <1>9, <4>1
      <3>2. Paper!Sooner(new[i - m], new[j - m])
        BY <1>6, <1>7, <2>4, <3>1 DEF Ordered
      <3> QED
        BY <2>4, <3>2
    <2> QED
      BY <1>5, <2>1, <2>2, <2>3, <2>4
  <1>10. \A i \in DOMAIN log' : log'[i].exit <= c
    BY <1>3, <1>5, <1>6, <1>7
  <1>11. ASSUME NEW r \in Written(log)'
         PROVE  r \in Written(log) \/ \E y \in 1..k : r = new[y]
    <2>1. PICK i \in DOMAIN log' : log'[i] = r
      BY <1>11 DEF Written, ToSet
    <2> QED
      BY <1>5, <1>8, <2>1
  <1>12. \A r \in Written(log) : r \in Written(log)'
    BY <1>5 DEF Written, ToSet
  <1>13. \A y \in 1..k : new[y] \in Written(log)'
    <2> SUFFICES ASSUME NEW y \in 1..k PROVE new[y] \in Written(log)'
      OBVIOUS
    <2>1. m + y \in DOMAIN log' /\ log'[m + y] = new[y]
      BY <1>5
    <2>2. new[y] # Paper!Torn
      BY <2>1 DEF ToSet
    <2> QED
      BY <2>1, <2>2 DEF Written, ToSet
  <1>14. ASSUME NEW t \in AllTrades, t.exit <= c, Paper!Forward(t)
         PROVE  Waiting(t)'
    <2>1. PICK u \in scope : Twins(t, u)
      BY <1>14 DEF Timely
    <2>2. Paper!Key(t) = Paper!Key(u) /\ \A r : Paper!Sooner(r, t) <=> Paper!Sooner(r, u)
      BY <2>1, TwinsAlike
    <2>3. CASE u \notin Paper!Missing
      <3>1. PICK r \in ToSet(log) : Paper!Key(r) = Paper!Key(u)
        BY <2>3 DEF Paper!Missing, Paper!ToSet, ToSet
      <3>2. r \in Written(log)
        BY <1>8, <3>1 DEF ToSet
      <3>3. HasLine(t)'
        BY <1>12, <2>2, <3>1, <3>2 DEF HasLine, Paper!Key
      <3> QED
        BY <3>3 DEF Waiting
    <2>4. CASE u \in Paper!Missing
      <3>1. PICK x \in DOMAIN new : new[x] = u
        BY <1>2, <2>4
      <3>2. CASE x <= k
        <4>1. x \in 1..k
          BY <1>2, <3>2
        <4>2. HasLine(t)'
          BY <1>13, <2>2, <3>1, <4>1 DEF HasLine, Paper!Key
        <4> QED
          BY <4>2 DEF Waiting
      <3>3. CASE ~(x <= k)
        <4>1. ASSUME NEW r \in Written(log)' PROVE Paper!Sooner(r, t)
          <5>1. CASE r \in Written(log)
            BY <1>3, <2>2, <2>4, <5>1
          <5>2. CASE \E y \in 1..k : r = new[y]
            <6>1. PICK y \in 1..k : r = new[y]
              BY <5>2
            <6>2. y < x /\ y \in DOMAIN new
              BY <1>2, <1>6, <3>3
            <6> QED
              BY <1>7, <2>2, <3>1, <6>1, <6>2 DEF Ordered
          <5> QED
            BY <1>11, <4>1, <5>1, <5>2
        <4>2. (\A r \in Written(log) : Paper!Sooner(r, t))'
          BY <4>1 DEF Paper!Sooner
        <4> QED
          BY <4>2 DEF Waiting
      <3> QED
        BY <3>2, <3>3
    <2> QED
      BY <2>3, <2>4
  <1>15. Ordered(log)'
    BY <1>9 DEF Ordered, Paper!Sooner
  <1> QED
    BY <1>5, <1>10, <1>14, <1>15

\* The step of the file: it grows, or it stays.
Grows == /\ DOMAIN log \subseteq DOMAIN log' /\ \A i \in DOMAIN log : log'[i] = log[i]
         /\ \A i \in DOMAIN log : i \in Nat

\* A torn line is never mended.
LEMMA TornStays ==
    ASSUME Grows, Paper!Torn \notin ToSet(log)'
    PROVE  Paper!Torn \notin ToSet(log)
  BY DEF Grows, ToSet

\* With all of them written the file is in order, and each of the scope has
\* its line.
LEMMA AppendRowsOrderly ==
    ASSUME FilesInv, Paper!AppendRows, NEW c, Timely(c), Paper!Torn \notin ToSet(log')
    PROVE  Timely(c)'
  <1>1. /\ pc = "append" /\ pc' = "tally" /\ log' = log \o new
        /\ UNCHANGED <<clock, entered, trades, scope, new, logged, revised>>
    BY DEF Paper!AppendRows, Paper!dataVars, Paper!histVars
  <1>2. log \in Seq(TradeType \cup {Paper!Torn}) /\ new \in Seq(Paper!Missing)
        /\ Len(new) \in 0..Len(new)
    BY <1>1 DEF FilesInv, Scoped, Filed, Lists
  <1>3. log' = log \o SubSeq(new, 1, Len(new)) \o <<>>
    <2>1. SubSeq(new, 1, Len(new)) = new
      BY <1>2, SubSeqFull
    <2> DEFINE W == TradeType \cup {Paper!Torn} \cup Paper!Missing
    <2>2. log \in Seq(W) /\ new \in Seq(W)
      BY <1>2, SeqMonotonic
    <2>3. log \o new \in Seq(W)
      BY <2>2, ConcatProperties
    <2> HIDE DEF W
    <2> QED
      BY <1>1, <2>1, <2>3, ConcatEmptySeq
  <1>4. \A t \in scope : HasLine(t)'
    BY <1>1, <1>2, <1>3, Appended
  <1>5. /\ Ordered(log)' /\ \A i \in DOMAIN log' : log'[i].exit <= c
        /\ \A t \in AllTrades : t.exit <= c /\ Paper!Forward(t) => Waiting(t)'
    BY <1>1, <1>2, <1>3, AppendTimely
  <1>6. AllTrades' = AllTrades /\ \A t : Paper!Forward(t)' <=> Paper!Forward(t)
    BY <1>1 DEF AllTrades, Paper!Sleeves, Paper!Forward
  <1>7. \A t, u : Twins(t, u)' <=> Twins(t, u)
    BY DEF Twins, Paper!Id
  <1>8. (\A t \in AllTrades : t.exit <= c /\ Paper!Forward(t) => Waiting(t))'
    BY <1>5, <1>6
  <1>9. (\A t \in scope : t.exit <= c /\ Waiting(t))'
    BY <1>1, <1>4 DEF Waiting, Timely
  <1>10. (pc # "idle" =>
           \A t \in AllTrades :
             t.exit <= c /\ Paper!Forward(t) => \E u \in scope : Twins(t, u))'
    BY <1>1, <1>6, <1>7 DEF Timely
  <1> QED
    BY <1>1, <1>5, <1>8, <1>9, <1>10 DEF Timely

\* With the first of them written the others still come later.
LEMMA KilledInAppendOrderly ==
    ASSUME FilesInv, Paper!KilledInAppend, NEW c, Timely(c),
           Paper!Torn \notin ToSet(log')
    PROVE  Timely(c)'
  <1>1. /\ pc = "append" /\ Paper!Ends /\ pc' = "idle" /\ scope' = {}
        /\ UNCHANGED <<clock, entered, trades, logged, revised>>
    BY DEF Paper!KilledInAppend, Paper!dataVars, Paper!histVars, Paper!Ends
  <1>2. PICK k \in 0..Len(new), last \in {"whole", "bare", "torn"} :
          log' = log \o SubSeq(new, 1, k)
                     \o (IF last = "torn" THEN <<Paper!Torn>> ELSE <<>>)
    BY DEF Paper!KilledInAppend
  <1>3. PICK tail \in {<<>>, <<Paper!Torn>>} : log' = log \o SubSeq(new, 1, k) \o tail
    BY <1>2
  <1>5. /\ Ordered(log)' /\ \A i \in DOMAIN log' : log'[i].exit <= c
        /\ \A t \in AllTrades : t.exit <= c /\ Paper!Forward(t) => Waiting(t)'
    BY <1>1, <1>3, AppendTimely
  <1>6. AllTrades' = AllTrades /\ \A t : Paper!Forward(t)' <=> Paper!Forward(t)
    BY <1>1 DEF AllTrades, Paper!Sleeves, Paper!Forward
  <1>8. (\A t \in AllTrades : t.exit <= c /\ Paper!Forward(t) => Waiting(t))'
    BY <1>5, <1>6
  <1> QED
    BY <1>1, <1>5, <1>8 DEF Timely

\* Every step leaves the lines there are.
LEMMA FileGrows == ASSUME FilesInv, [Next]_vars PROVE Grows
  <1>0. \A i \in DOMAIN log : i \in Nat
    BY DEF FilesInv, Filed
  <1>1. CASE UNCHANGED log
    BY <1>0, <1>1 DEF Grows
  <1>2. CASE pc = "append" /\ (Paper!AppendRows \/ Paper!KilledInAppend)
    <2>1. log \in Seq(TradeType \cup {Paper!Torn}) /\ new \in Seq(Paper!Missing)
          /\ \A t \in scope : t \in TradeType
      BY <1>2 DEF FilesInv, Scoped, Filed, Lists, Right
    <2> DEFINE W == TradeType \cup {Paper!Torn}
    <2>2. Paper!Missing \subseteq W
      BY <2>1 DEF Paper!Missing
    <2>3. log \in Seq(W) /\ new \in Seq(W) /\ Paper!Torn \in W
      BY <2>1, <2>2, SeqMonotonic
    <2> HIDE DEF W
    <2>4. CASE log' = log \o new
      <3>1. \A i \in 1..(Len(log) + Len(new)) :
              (log \o new)[i] = IF i <= Len(log) THEN log[i] ELSE new[i - Len(log)]
        BY <2>3, ConcatIs
      <3>2. DOMAIN (log \o new) = 1..(Len(log) + Len(new))
        BY <2>3, ConcatIs
      <3>3. Len(log) \in Nat /\ Len(new) \in Nat /\ DOMAIN log = 1..Len(log)
        BY <2>3
      <3> QED
        BY <1>0, <2>4, <3>1, <3>2, <3>3 DEF Grows
    <2>5. ASSUME NEW k \in 0..Len(new), NEW tail, tail = <<>> \/ tail = <<Paper!Torn>>,
                 log' = log \o SubSeq(new, 1, k) \o tail
          PROVE  Grows
      <3>1. Extends(log', log, new, k, Paper!Torn)
        BY <2>3, <2>5, Appending
      <3> QED
        BY <1>0, <3>1 DEF Grows, Extends
    <2>6. CASE Paper!KilledInAppend
      <3>1. PICK k \in 0..Len(new), last \in {"whole", "bare", "torn"} :
              log' = log \o SubSeq(new, 1, k)
                         \o (IF last = "torn" THEN <<Paper!Torn>> ELSE <<>>)
        BY <2>6 DEF Paper!KilledInAppend
      <3> DEFINE tail == IF last = "torn" THEN <<Paper!Torn>> ELSE <<>>
      <3>2. tail = <<>> \/ tail = <<Paper!Torn>>
        OBVIOUS
      <3>3. log' = log \o SubSeq(new, 1, k) \o tail
        BY <3>1
      <3> HIDE DEF tail
      <3> QED
        BY <2>5, <3>2, <3>3
    <2> QED
      BY <1>2, <2>4, <2>6 DEF Paper!AppendRows
  <1>3. CASE Data
    BY <1>1, <1>3 DEF Data, Paper!PaperData, Paper!NewBar, Paper!ShockBar,
                      Paper!Revise, Paper!fileVars
  <1>4. CASE Run
    <2>1. \/ UNCHANGED log
          \/ pc = "append" /\ (Paper!AppendRows \/ Paper!KilledInAppend)
      BY <1>4 DEF Run, Paper!PaperRun, Paper!Load, Paper!ReadKeys, Paper!AppendRows,
                  Paper!KilledInAppend, Paper!Killed, Paper!WriteTally, Paper!fileVars
    <2> QED
      BY <1>1, <1>2, <2>1
  <1> QED
    BY <1>1, <1>3, <1>4 DEF Next, Fill, Finished, vars, paperVars

-----------------------------------------------------------------------------
(* The row without its newline. *)

\* As long as a row lacks its newline, what the finished runs had in their
\* scope was written up to that row: the next row makes the file unreadable.
Whence ==
    /\ cut \in 0..Len(log)
    /\ cut # 0 => \A x \in logged :
                    \E i \in DOMAIN log :
                      i <= cut /\ log[i] # Paper!Torn /\ Paper!Key(log[i]) = x
    /\ pc = "append" => ~Paper!Glued

LEMMA FileLength == ASSUME FilesInv PROVE DOMAIN log = 1..Len(log) /\ Len(log) \in Nat
  BY DEF FilesInv, Filed

\* What a key was written by stays.
LEMMA WhenceStays ==
    ASSUME FilesInv, FilesInv', Grows, Whence, UNCHANGED <<cut, logged>>
    PROVE  /\ cut' \in 0..Len(log')
           /\ (cut # 0 => \A x \in logged :
                  \E i \in DOMAIN log :
                    i <= cut /\ log[i] # Paper!Torn /\ Paper!Key(log[i]) = x)'
  <1>1. /\ DOMAIN log = 1..Len(log) /\ Len(log) \in Nat
        /\ DOMAIN log' = 1..Len(log') /\ Len(log') \in Nat
    BY FileLength DEF FilesInv, Filed
  <1>2. DOMAIN log \subseteq DOMAIN log' /\ \A i \in DOMAIN log : log'[i] = log[i]
    BY DEF Grows
  <1>3. cut' \in 0..Len(log')
    <2>1. Len(log) <= Len(log')
      BY <1>1, <1>2
    <2>2. cut \in 0..Len(log) /\ cut' = cut
      BY DEF Whence
    <2> QED
      BY <1>1, <2>1, <2>2
  <1>4. ASSUME NEW x \in logged', cut' # 0
        PROVE  \E i \in DOMAIN log' :
                 i <= cut' /\ log'[i] # Paper!Torn /\ Paper!Key(log'[i]) = x
    <2>1. PICK i \in DOMAIN log :
            i <= cut /\ log[i] # Paper!Torn /\ Paper!Key(log[i]) = x
      BY <1>4 DEF Whence
    <2> QED
      BY <1>2, <2>1
  <1>5. (cut # 0 => \A x \in logged :
           \E i \in DOMAIN log :
             i <= cut /\ log[i] # Paper!Torn /\ Paper!Key(log[i]) = x)'
    BY <1>4 DEF Paper!Key
  <1> QED
    BY <1>3, <1>5

\* When the row is the last one everything there is was written up to it.
LEMMA WhenceAtEnd ==
    ASSUME FilesInv', cut' = Len(log') \/ cut' = 0, pc' = "idle"
    PROVE  Whence'
  <1>1. DOMAIN log' = 1..Len(log') /\ Len(log') \in Nat
    BY DEF FilesInv, Filed
  <1>2. ASSUME NEW x \in logged', cut' # 0
        PROVE  \E i \in DOMAIN log' :
                 i <= cut' /\ log'[i] # Paper!Torn /\ Paper!Key(log'[i]) = x
    <2>1. Recorded(x)'
      BY <1>2 DEF FilesInv, Filed
    <2>2. PICK i \in DOMAIN log' : log'[i] # Paper!Torn /\ Paper!Key(log'[i]) = x
      BY <2>1 DEF Recorded, Written, ToSet, Paper!Key
    <2>3. i <= cut'
      BY <1>1, <1>2
    <2> QED
      BY <2>2, <2>3
  <1>3. (cut # 0 => \A x \in logged :
           \E i \in DOMAIN log :
             i <= cut /\ log[i] # Paper!Torn /\ Paper!Key(log[i]) = x)'
    BY <1>2 DEF Paper!Key
  <1>4. cut' \in 0..Len(log')
    BY <1>1
  <1> QED
    BY <1>3, <1>4 DEF Whence

LEMMA WhenceInit == Init => Whence
  <1> SUFFICES ASSUME Init PROVE Whence
    OBVIOUS
  <1>1. pc = "idle" /\ log = <<>> /\ cut = 0
    BY DEF Init, Paper!PaperInit
  <1> QED
    BY <1>1 DEF Whence

LEMMA WhenceStep ==
    ASSUME FilesInv, FilesInv', Whence, [Next]_vars
    PROVE  Whence'
  <1>1. Grows
    BY FileGrows
  <1>2. CASE UNCHANGED <<log, cut, logged>> /\ (pc' = "append" => ~Paper!Glued)
    <2>1. (pc = "append" => ~Paper!Glued)'
      BY <1>2 DEF Paper!Glued
    <2> QED
      BY <1>1, <1>2, <2>1, WhenceStays DEF Whence
  <1>3. CASE UNCHANGED <<log, cut, logged, pc>>
    BY <1>2, <1>3 DEF Whence
  <1>4. CASE Data
    BY <1>3, <1>4 DEF Data, Paper!PaperData, Paper!NewBar, Paper!ShockBar,
                      Paper!Revise, Paper!runVars, Paper!fileVars, Paper!histVars
  <1>5. CASE \E since \in 0..LastBar[program] : Paper!Load(since)
    BY <1>2, <1>5 DEF Paper!Load, Paper!fileVars
  <1>6. CASE Paper!ReadKeys
    BY <1>2, <1>6 DEF Paper!ReadKeys, Paper!Ends, Paper!Unreadable, Paper!fileVars,
                      Paper!histVars
  <1>7. CASE Paper!AppendRows
    <2>1. pc' = "tally" /\ UNCHANGED <<cut, logged>>
      BY <1>7 DEF Paper!AppendRows, Paper!histVars
    <2> QED
      BY <1>1, <2>1, WhenceStays DEF Whence
  <1>8. CASE Paper!KilledInAppend
    <2>1. pc' = "idle" /\ UNCHANGED logged
      BY <1>8 DEF Paper!KilledInAppend, Paper!Ends, Paper!histVars
    <2>2. cut' = Len(log') \/ cut' = cut
      BY <1>8 DEF Paper!KilledInAppend
    <2>3. CASE cut' = Len(log')
      BY <2>1, <2>3, WhenceAtEnd
    <2>4. CASE cut' = cut
      BY <1>1, <2>1, <2>4, WhenceStays DEF Whence
    <2> QED
      BY <2>2, <2>3, <2>4
  <1>9. CASE Paper!Killed
    BY <1>2, <1>9 DEF Paper!Killed, Paper!Ends, Paper!histVars
  <1>10. CASE Paper!WriteTally
    <2>1. pc' = "idle" /\ UNCHANGED <<log, cut>>
      BY <1>10 DEF Paper!WriteTally, Paper!Ends
    <2>2. CASE Paper!Unreadable
      BY <1>2, <1>10, <2>1, <2>2 DEF Paper!WriteTally
    <2>3. CASE ~Paper!Unreadable
      <3>1. cut \in 0..Len(log) /\ cut \notin 1..(Len(log) - 1)
        BY <2>3 DEF Whence, Paper!Unreadable, Paper!Glued
      <3>2. Len(log) \in Nat
        BY FileLength
      <3>3. cut = 0 \/ cut = Len(log)
        BY <3>1, <3>2
      <3> QED
        BY <2>1, <3>3, WhenceAtEnd
    <2> QED
      BY <2>2, <2>3
  <1>11. CASE UNCHANGED paperVars
    BY <1>3, <1>11 DEF paperVars
  <1> QED
    BY <1>4, <1>5, <1>6, <1>7, <1>8, <1>9, <1>10, <1>11
    DEF Next, Run, Paper!PaperRun, Fill, Finished, vars

LEMMA FilesMatch == FilesInv /\ Whence => LogIsForwardTrades
  <1> SUFFICES ASSUME FilesInv, Whence PROVE LogIsForwardTrades
    OBVIOUS
  <1>1. \A r \in Written(log) :
          /\ Paper!Forward(r)
          /\ r.sleeve # ShockSleeve => r.over
          /\ revised = 0 =>
               \E t \in AllTrades : IF r.over THEN t = r ELSE Paper!Id(t) = Paper!Id(r)
    BY DEF FilesInv, Filed, Right, Today
  <1>2. ASSUME NEW x \in logged
        PROVE  \/ \E r \in Readable : Paper!Key(r) = x
               \/ Paper!Glued /\ x = Paper!Key(log[cut])
    <2>1. CASE ~Paper!Glued
      <3>1. PICK r \in Written(log) : Paper!Key(r) = x
        BY DEF FilesInv, Filed, Recorded
      <3>2. PICK i \in DOMAIN log : log[i] = r /\ r # Paper!Torn
        BY DEF Written, ToSet
      <3>3. log[i] \in Readable
        BY <2>1, <3>2 DEF Readable
      <3> QED
        BY <3>1, <3>2, <3>3
    <2>2. CASE Paper!Glued
      <3>1. cut # 0 /\ cut \in Nat
        BY <2>2, FileLength DEF Paper!Glued
      <3>2. PICK i \in DOMAIN log :
              i <= cut /\ log[i] # Paper!Torn /\ Paper!Key(log[i]) = x
        BY <3>1 DEF Whence
      <3>3. CASE i = cut
        BY <2>2, <3>2, <3>3
      <3>4. CASE i # cut
        <4>1. i \notin {cut, cut + 1}
          BY <3>1, <3>2, <3>4, FileLength
        <4>2. log[i] \in Readable
          BY <3>2, <4>1 DEF Readable
        <4> QED
          BY <3>2, <4>2
      <3> QED
        BY <3>3, <3>4
    <2> QED
      BY <2>1, <2>2
  <1>3. logged \subseteq {Paper!Key(r) : r \in Readable} \cup
                      (IF Paper!Glued THEN {Paper!Key(log[cut])} ELSE {})
    <2> SUFFICES ASSUME NEW x \in logged
                 PROVE  x \in {Paper!Key(r) : r \in Readable} \cup
                              (IF Paper!Glued THEN {Paper!Key(log[cut])} ELSE {})
      OBVIOUS
    <2>1. CASE \E r \in Readable : Paper!Key(r) = x
      BY <2>1
    <2>2. CASE Paper!Glued /\ x = Paper!Key(log[cut])
      BY <2>2
    <2> QED
      BY <1>2, <2>1, <2>2
  <1> QED
    BY <1>1, <1>3 DEF FilesInv, Filed, LogIsForwardTrades

\* However the runs are repeated, narrowed and killed, in a row or before its
\* newline, and whatever the bars bring: each forward trade of a finished run
\* is in the file once, on a line that can be read unless a later row was
\* written onto it, and what is in the file is a forward trade.
THEOREM LogHoldsForwardTrades == Spec => []LogIsForwardTrades
  <1>1. FilesInv /\ Whence /\ [Next]_vars => (FilesInv /\ Whence)'
    BY FilesStepInv, WhenceStep
  <1> QED
    BY <1>1, FilesInitInv, WhenceInit, FilesMatch, PTL DEF Spec
-----------------------------------------------------------------------------
(* The tally's file. *)

\* A run that has appended met no torn line, and forward_log has one sleeve.
Whole == pc = "tally" => Paper!Torn \notin ToSet(log)
Alone == program = "forward_log" => DOMAIN clock = {1}

\* What a run changes besides the file.
LEMMA RunFrame ==
    ASSUME [Next]_vars, FilesInv
    PROVE  /\ program' = program /\ DOMAIN clock' = DOMAIN clock
           /\ uneven => uneven'
           /\ revised' = 0 => revised = 0
  <1>1. revised \in Nat /\ clock = [s \in DOMAIN clock |-> clock[s]]
    BY DEF FilesInv, Filed, Kept
  <1>2. CASE Data
    <2>1. PICK s \in Paper!Sleeves : Paper!NewBar(s) \/ Paper!ShockBar(s) \/ Paper!Revise(s)
      BY <1>2 DEF Data, Paper!PaperData
    <2>2. DOMAIN clock' = DOMAIN clock
      BY <1>1, <2>1 DEF Paper!NewBar, Paper!ShockBar, Paper!Revise
    <2>3. uneven' = uneven /\ (revised' = revised \/ revised' = revised + 1)
      BY <2>1 DEF Paper!NewBar, Paper!ShockBar, Paper!Revise, Paper!histVars
    <2> QED
      BY <1>1, <1>2, <2>2, <2>3 DEF Data
  <1>3. CASE Run
    <2>1. CASE \E since \in 0..LastBar[program] : Paper!Load(since)
      BY <1>3, <2>1 DEF Run, Paper!Load, Paper!dataVars
    <2>2. CASE Paper!ReadKeys \/ Paper!AppendRows \/ Paper!KilledInAppend \/ Paper!Killed
      <3>1. UNCHANGED <<Paper!dataVars, Paper!histVars>>
        BY <2>2 DEF Paper!ReadKeys, Paper!AppendRows, Paper!KilledInAppend, Paper!Killed
      <3> QED
        BY <1>3, <3>1 DEF Run, Paper!dataVars, Paper!histVars
    <2>3. CASE Paper!WriteTally
      BY <1>3, <2>3 DEF Run, Paper!WriteTally, Paper!dataVars
    <2> QED
      BY <1>3, <2>1, <2>2, <2>3 DEF Run, Paper!PaperRun
  <1> QED
    BY <1>1, <1>2, <1>3 DEF Next, Fill, Finished, vars, paperVars

\* A program that is punctual was so before.
LEMMA PunctualBefore ==
    ASSUME [Next]_vars, FilesInv, Punctual'
    PROVE  Punctual
  <1>1. Paper!Torn \notin ToSet(log)'
    BY DEF Punctual
  <1>2. Paper!Torn \notin ToSet(log)
    BY <1>1, FileGrows, TornStays
  <1>3. program' = "portfolio" /\ ~uneven' /\ revised' = 0
    BY DEF Punctual
  <1>4. /\ program' = program
        /\ uneven => uneven'
        /\ revised' = 0 => revised = 0
    BY RunFrame
  <1> QED
    BY <1>2, <1>3, <1>4 DEF Punctual

\* A step of the bars, of which those up to c have been seen.
LEMMA DataTimely ==
    ASSUME FilesInv, Data, Punctual', NEW c, Timely(c)
    PROVE  Timely(c)'
  <1>1. PICK s \in Paper!Sleeves : Paper!NewBar(s) \/ Paper!ShockBar(s) \/ Paper!Revise(s)
    BY DEF Data, Paper!PaperData
  <1>2. c \in Nat /\ (\A x \in DOMAIN clock : c <= clock[x]) /\ Kept /\ revised \in Nat
    BY DEF Timely, FilesInv, Filed
  <1>3. UNCHANGED <<pc, scope, new, log>>
    BY <1>1 DEF Paper!NewBar, Paper!ShockBar, Paper!Revise, Paper!runVars, Paper!fileVars
  <1>4. CASE Paper!NewBar(s)
    BY <1>2, <1>3, <1>4, NewBarLater, TimelyStays
  <1>5. CASE Paper!ShockBar(s)
    BY <1>2, <1>3, <1>5, ShockBarLater, TimelyStays
  <1>6. CASE Paper!Revise(s)
    <2>1. revised' = revised + 1 /\ revised' = 0
      BY <1>6 DEF Paper!Revise, Punctual
    <2> QED
      BY <1>2, <2>1
  <1> QED
    BY <1>1, <1>4, <1>5, <1>6

\* A step of a run, whichever it is.
LEMMA RunTimely ==
    ASSUME FilesInv, Run, Punctual', Punctual, Orderly
    PROVE  \E c : Timely(c)'
  <1>1. PICK c : Timely(c)
    BY DEF Orderly
  <1>2. Paper!Torn \notin ToSet(log')
    BY DEF Punctual, ToSet
  <1>3. CASE \E since \in 0..LastBar[program] : Paper!Load(since)
    <2>1. PICK since \in 0..LastBar[program] : Paper!Load(since)
      BY <1>3
    <2>2. program' = program
      BY DEF Run
    <2> QED
      BY <2>1, <2>2, LoadTimely
  <1>4. CASE Paper!ReadKeys
    BY <1>1, <1>4, ReadKeysTimely
  <1>5. CASE Paper!AppendRows
    BY <1>1, <1>2, <1>5, AppendRowsOrderly
  <1>6. CASE Paper!KilledInAppend
    BY <1>1, <1>2, <1>6, KilledInAppendOrderly
  <1>7. CASE Paper!Killed
    BY <1>1, <1>7, TimelyEnds DEF Paper!Killed, Paper!dataVars
  <1>8. CASE Paper!WriteTally
    BY <1>1, <1>8, TimelyEnds DEF Paper!WriteTally, Paper!dataVars
  <1> QED
    BY <1>3, <1>4, <1>5, <1>6, <1>7, <1>8 DEF Run, Paper!PaperRun

LEMMA OrderlyInit == Init => Orderly
  <1> SUFFICES ASSUME Init PROVE Orderly
    OBVIOUS
  <1>1. PICK S : Paper!PaperInit(S)
    BY DEF Init
  <1>2. /\ clock = [s \in S |-> 0] /\ trades = [s \in S |-> {}]
        /\ pc = "idle" /\ scope = {} /\ log = <<>>
    BY <1>1 DEF Paper!PaperInit
  <1>3. AllTrades = {}
    BY <1>2 DEF AllTrades, Paper!Sleeves
  <1>4. Timely(0)
    BY <1>2, <1>3 DEF Timely, Ordered
  <1> QED
    BY <1>4 DEF Orderly

\* Any step of the program.
LEMMA OrderlyStep == FilesInv /\ Orderly /\ [Next]_vars => Orderly'
  <1> SUFFICES ASSUME FilesInv, Orderly, [Next]_vars, Punctual'
               PROVE  \E c : Timely(c)'
    BY DEF Orderly
  <1>1. Punctual
    BY PunctualBefore
  <1>2. PICK c : Timely(c)
    BY <1>1 DEF Orderly
  <1>3. CASE Data
    BY <1>2, <1>3, DataTimely
  <1>4. CASE Run
    BY <1>1, <1>4, RunTimely
  <1>5. CASE UNCHANGED paperVars
    <2>1. UNCHANGED <<clock, trades, pc, scope, new, log>>
      BY <1>5 DEF paperVars
    <2>2. AllTrades' = AllTrades
      BY <2>1 DEF AllTrades, Paper!Sleeves
    <2>3. \A s \in DOMAIN clock' : c <= clock'[s]
      BY <1>2, <2>1 DEF Timely
    <2>4. \A t : Twins(t, t)
      BY DEF Twins
    <2>5. \A t \in AllTrades' : t.exit <= c => \E u \in AllTrades : Twins(t, u)
      BY <2>2, <2>4
    <2> QED
      BY <1>2, <2>1, <2>3, <2>5, TimelyStays
  <1> QED
    BY <1>3, <1>4, <1>5 DEF Next, Fill, Finished, vars

LEMMA WholeStep == FilesInv /\ Whole /\ [Next]_vars => Whole'
  <1> SUFFICES ASSUME FilesInv, Whole, [Next]_vars, pc' = "tally"
               PROVE  Paper!Torn \notin ToSet(log')
    BY DEF Whole, ToSet
  <1>1. CASE UNCHANGED <<pc, log>>
    BY <1>1 DEF Whole
  <1>2. CASE Data
    BY <1>1, <1>2 DEF Data, Paper!PaperData, Paper!NewBar, Paper!ShockBar,
                      Paper!Revise, Paper!runVars, Paper!fileVars
  <1>3. CASE Run
    <2>1. Paper!AppendRows
      BY <1>3 DEF Run, Paper!PaperRun, Paper!Load, Paper!ReadKeys, Paper!KilledInAppend,
                  Paper!Killed, Paper!WriteTally, Paper!Ends
    <2>2. pc = "append" /\ log' = log \o new
      BY <2>1 DEF Paper!AppendRows
    <2>3. /\ Paper!Torn \notin ToSet(log) /\ new \in Seq(Paper!Missing)
          /\ \A t \in scope : t \in TradeType
          /\ log \in Seq(TradeType \cup {Paper!Torn})
      BY <2>2 DEF FilesInv, Scoped, Filed, Lists, Right
    <2>4. new \in Seq(TradeType)
      <3>1. Paper!Missing \subseteq TradeType
        BY <2>3 DEF Paper!Missing
      <3> QED
        BY <2>3, <3>1, SeqMonotonic
    <2>5. \A i \in DOMAIN log : log[i] \in TradeType
      BY <2>3 DEF ToSet
    <2>6. log \in Seq(TradeType)
      BY <2>3, <2>5
    <2>7. log' \in Seq(TradeType)
      BY <2>2, <2>4, <2>6, ConcatProperties
    <2>8. \A t \in ToSet(log') : t \in TradeType
      BY <2>7 DEF ToSet
    <2> QED
      BY <2>8, TornIsNoTrade
  <1> QED
    BY <1>1, <1>2, <1>3 DEF Next, Fill, Finished, vars, paperVars

LEMMA AloneInit == Init => Alone
  <1> SUFFICES ASSUME Init, program = "forward_log" PROVE DOMAIN clock = {1}
    BY DEF Alone
  <1>1. Paper!PaperInit({1})
    BY DEF Init, Reports
  <1> QED
    BY <1>1 DEF Paper!PaperInit

LEMMA AloneStep == FilesInv /\ Alone /\ [Next]_vars => Alone'
  BY RunFrame DEF Alone

-----------------------------------------------------------------------------
(* The tally. *)

\* The trades by their entries.
EarlierPairs(T) == {p \in T \X T : p[1].entry < p[2].entry}
ByEarlier(T) == Paper!InOrder(T, Paper!Earlier)
SortedEarlier(L) == Paper!Sorted(L, Paper!Earlier)

\* No two of T were entered at one time.
EntriesApart(T) == /\ IsFiniteSet(T) /\ \A t \in T : t.entry \in Int
                   /\ \A t, u \in T : t # u => t.entry # u.entry

\* By entry any two of them are in order.
LEMMA EarlierOrdering ==
    ASSUME NEW T, EntriesApart(T)
    PROVE  /\ Ordering(EarlierPairs(T), T)
           /\ \A t, u \in T : <<t, u>> \in EarlierPairs(T) <=> t.entry < u.entry
  <1>1. \A t, u \in T : <<t, u>> \in EarlierPairs(T) <=> t.entry < u.entry
    BY DEF EarlierPairs
  <1>2. \A t \in T : t.entry \in Int
    BY DEF EntriesApart
  <1>3. \A t, u \in T : t # u => t.entry # u.entry
    BY DEF EntriesApart
  <1>4. \A x \in T : <<x, x>> \notin EarlierPairs(T)
    BY <1>1, <1>2
  <1>5. ASSUME NEW x \in T, NEW y \in T, NEW z \in T,
               <<x, y>> \in EarlierPairs(T), <<y, z>> \in EarlierPairs(T)
        PROVE  <<x, z>> \in EarlierPairs(T)
    BY <1>1, <1>2, <1>5
  <1>6. ASSUME NEW x \in T, NEW y \in T, x # y
        PROVE  <<x, y>> \in EarlierPairs(T) \/ <<y, x>> \in EarlierPairs(T)
    BY <1>1, <1>2, <1>3, <1>6
  <1> QED
    BY <1>1, <1>4, <1>5, <1>6 DEF Ordering

\* InOrder lists all of them, each once and by entry.
LEMMA ByEarlierLists ==
    ASSUME NEW T, EntriesApart(T)
    PROVE  /\ Enumerates(ByEarlier(T), T) /\ Ascends(ByEarlier(T), EarlierPairs(T))
           /\ ByEarlier(T) = [i \in 1..Cardinality(T) |-> ByEarlier(T)[i]]
  <1> DEFINE R == EarlierPairs(T)
             P == {<<Paper!Cardinality({u \in T : Paper!Earlier(u, t)}) + 1, t>> : t \in T}
             q == ByEarlier(T)
  <1>1. q = ByPlace(P, Cardinality(T))
    <2>1. q = ByPlace(P, Paper!Cardinality(T))
      BY DEF ByEarlier, Paper!InOrder, ByPlace
    <2> HIDE DEF P, q
    <2> QED
      BY <2>1, SameCount
  <1>2. Ordering(R, T) /\ \A t, u \in T : <<t, u>> \in R <=> Paper!Earlier(t, u)
    BY EarlierOrdering DEF Paper!Earlier
  <1>3. P = {<<Rank(R, T, t), t>> : t \in T}
    <2>1. ASSUME NEW t \in T
          PROVE  Paper!Cardinality({u \in T : Paper!Earlier(u, t)}) + 1 = Rank(R, T, t)
      <3>1. {u \in T : Paper!Earlier(u, t)} = Below(R, T, t)
        <4> HIDE DEF R
        <4> QED
          BY <1>2 DEF Below
      <3> QED
        BY <3>1, SameCount DEF Rank
    <2> QED
      BY <2>1
  <1> HIDE DEF P, q, R
  <1>4. Enumerates(q, T) /\ Ascends(q, R)
    BY <1>1, <1>2, <1>3, PlacesList DEF EntriesApart
  <1>5. q = [i \in 1..Cardinality(T) |-> q[i]]
    BY <1>1 DEF ByPlace
  <1> QED
    BY <1>4, <1>5 DEF q, R

\* A list of different things enumerates them.
LEMMA ListsItsSet ==
    ASSUME NEW n \in Nat, NEW L, DOMAIN L = 1..n,
           \A i, j \in 1..n : i # j => L[i] # L[j]
    PROVE  /\ Enumerates(L, ToSet(L)) /\ IsFiniteSet(ToSet(L))
           /\ Cardinality(ToSet(L)) = n
  <1>1. IsFiniteSet(1..n) /\ Cardinality(1..n) = n
    BY FS_Interval
  <1>2. ToSet(L) = {L[i] : i \in 1..n}
    BY DEF ToSet
  <1>3. IsFiniteSet(ToSet(L)) /\ Cardinality(ToSet(L)) = n
    BY <1>1, <1>2, AsManyImages
  <1> QED
    BY <1>2, <1>3 DEF Enumerates

\* What forward_log sorts by entry is the trades by their entries.
LEMMA SortsByEntry ==
    ASSUME NEW n \in Nat, NEW L, DOMAIN L = 1..n,
           \A i, j \in 1..n : i # j => L[i].entry # L[j].entry,
           \A i \in 1..n : L[i].entry \in Int
    PROVE  SortedEarlier(L) = ByEarlier(ToSet(L))
  <1> DEFINE T == ToSet(L)
             key == [i \in 1..n |-> L[i].entry]
             Ahead(i, j) == IF i < j THEN ~Paper!Earlier(L[j], L[i])
                            ELSE Paper!Earlier(L[i], L[j])
             P == {<<Paper!Cardinality({y \in DOMAIN L : Ahead(y, x)}) + 1, x>> :
                     x \in DOMAIN L}
             Q == {<<Cardinality({y \in 1..n : GoesAhead(key, y, x)}) + 1, x>> :
                     x \in 1..n}
             place == ByPlace(P, Paper!Cardinality(DOMAIN L))
             S == [k \in 1..n |-> L[place[k]]]
  <1>1. SortedEarlier(L) = S
    BY DEF SortedEarlier, Paper!Sorted, Paper!InOrder, ByPlace
  <1>2. P = Q
    <2>1. ASSUME NEW x \in 1..n
          PROVE  Paper!Cardinality({y \in DOMAIN L : Ahead(y, x)})
                   = Cardinality({y \in 1..n : GoesAhead(key, y, x)})
      <3>1. {y \in DOMAIN L : Ahead(y, x)} = {y \in 1..n : GoesAhead(key, y, x)}
        BY DEF GoesAhead, Paper!Earlier
      <3> QED
        BY <3>1, SameCount
    <2> HIDE DEF Ahead, key
    <2> QED
      BY <2>1
  <1>3. place = ByPlace(Q, Cardinality(1..n))
    <2> HIDE DEF P, Q
    <2> QED
      BY <1>2, SameCount
  <1>4. /\ Enumerates(place, 1..n)
        /\ \A i, j \in DOMAIN place : i < j => key[place[i]] =< key[place[j]]
    <2>1. \A i \in 1..n : key[i] \in Int
      OBVIOUS
    <2> HIDE DEF P, key, place
    <2> QED
      BY <1>3, <2>1, SortPlaces
  <1>5. Cardinality(1..n) = n
    BY FS_Interval
  <1> HIDE DEF place
  <1>6. /\ DOMAIN place = 1..n /\ \A i \in 1..n : place[i] \in 1..n
        /\ \A x \in 1..n : \E i \in 1..n : place[i] = x
        /\ \A i, j \in 1..n : i # j => place[i] # place[j]
    BY <1>4, <1>5 DEF Enumerates
  <1>7. \A i, j \in 1..n : i < j => L[place[i]].entry =< L[place[j]].entry
    BY <1>4, <1>6
  <1>8. \A i, j \in 1..n : i < j => L[place[i]].entry < L[place[j]].entry
    <2> SUFFICES ASSUME NEW i \in 1..n, NEW j \in 1..n, i < j
                 PROVE  L[place[i]].entry < L[place[j]].entry
      OBVIOUS
    <2>1. place[i] # place[j] /\ place[i] \in 1..n /\ place[j] \in 1..n
      BY <1>6
    <2>2. L[place[i]].entry # L[place[j]].entry /\ L[place[i]].entry \in Int
          /\ L[place[j]].entry \in Int
      BY <2>1
    <2> QED
      BY <1>7, <2>2
  <1>9. /\ Enumerates(L, T) /\ IsFiniteSet(T) /\ Cardinality(T) = n
    BY ListsItsSet
  <1>10. \A t \in T : \E i \in 1..n : t = L[i]
    BY DEF ToSet
  <1>11. \A i \in 1..n : L[i] \in T
    BY DEF ToSet
  <1> HIDE DEF T
  <1>12. EntriesApart(T)
    BY <1>9, <1>10 DEF EntriesApart
  <1>13. Enumerates(S, T)
    <2>1. DOMAIN S = 1..n /\ \A k \in 1..n : S[k] = L[place[k]]
      OBVIOUS
    <2> HIDE DEF S
    <2>2. \A k \in 1..n : S[k] \in T
      BY <1>6, <1>11, <2>1
    <2>3. \A t \in T : \E k \in 1..n : S[k] = t
      BY <1>6, <1>10, <2>1
    <2>4. ASSUME NEW i \in 1..n, NEW j \in 1..n, i # j PROVE S[i] # S[j]
      <3>1. place[i] \in 1..n /\ place[j] \in 1..n /\ place[i] # place[j]
        BY <1>6, <2>4
      <3>2. L[place[i]].entry # L[place[j]].entry
        BY <3>1
      <3> QED
        BY <2>1, <3>2
    <2> QED
      BY <1>9, <2>1, <2>2, <2>3, <2>4 DEF Enumerates
  <1>14. Ascends(S, EarlierPairs(T))
    BY <1>6, <1>8, <1>11, <1>12, EarlierOrdering DEF Ascends
  <1>15. /\ DOMAIN S = DOMAIN ByEarlier(T)
         /\ \A i \in DOMAIN S : S[i] = ByEarlier(T)[i]
    <2> HIDE DEF S
    <2> QED
      BY <1>9, <1>12, <1>13, <1>14, EarlierOrdering, ByEarlierLists, OneOrder
  <1>16. S = ByEarlier(T)
    <2>1. S = [k \in 1..n |-> S[k]] /\ DOMAIN S = 1..n
      OBVIOUS
    <2>2. ByEarlier(T) = [k \in 1..n |-> ByEarlier(T)[k]]
      BY <1>9, <1>12, ByEarlierLists
    <2> HIDE DEF S
    <2> QED
      BY <1>15, <2>1, <2>2
  <1> QED
    BY <1>1, <1>16 DEF T

\* What portfolio finds in the order of the append is the trades by their exits.
LEMMA FiledByExit ==
    ASSUME NEW L \in Seq(TradeType), Ordered(L), Apart(ToSet(L)),
           \A i, j \in DOMAIN L : i # j => L[i] # L[j]
    PROVE  L = BySooner(ToSet(L))
  <1> DEFINE T == ToSet(L)
             n == Len(L)
  <1>1. n \in Nat /\ DOMAIN L = 1..n /\ L = [i \in 1..n |-> L[i]]
        /\ \A i \in 1..n : L[i] \in TradeType
    OBVIOUS
  <1> HIDE DEF n
  <1>2. /\ Enumerates(L, T) /\ IsFiniteSet(T) /\ Cardinality(T) = n
    BY <1>1, ListsItsSet
  <1>3. T \subseteq TradeType /\ \A i \in 1..n : L[i] \in T
    BY <1>1 DEF ToSet
  <1>4. Ascends(L, SoonerPairs(T))
    <2> HIDE DEF T
    <2> QED
      BY <1>1, <1>3, SoonerOrdering DEF Ascends, Ordered, T
  <1>5. /\ DOMAIN L = DOMAIN BySooner(T)
        /\ \A i \in DOMAIN L : L[i] = BySooner(T)[i]
    BY <1>2, <1>3, <1>4, SoonerOrdering, InOrderLists, OneOrder
  <1>6. BySooner(T) = [i \in 1..n |-> BySooner(T)[i]]
    <2>1. Lists(BySooner(T), T)
      BY <1>2, <1>3, InOrderLists
    <2>2. BySooner(T) = [i \in DOMAIN BySooner(T) |-> BySooner(T)[i]]
      BY <2>1 DEF Lists
    <2> QED
      BY <1>1, <1>5, <2>2
  <1> QED
    BY <1>1, <1>5, <1>6

\* What the trades made, and the total TallyOf has of its rows.
SumOfPnl(T) == MapThenSumSet(LAMBDA t : t.pnl, T)

TotalOfRows(rows) ==
    LET Total(sum, t) == sum + t.pnl IN Paper!FoldLeft(Total, 0, rows)

\* Both sums are the one over a finite set.
LEMMA SumOfPnlIs ==
    ASSUME NEW T, IsFiniteSet(T), NEW f, \A t \in T : f[t] \in Int /\ f[t] = t.pnl
    PROVE  SumOfPnl(T) = SumOver(f, T)
  <1> DEFINE R(g) == g = [s \in SUBSET T |->
                            IF s = {} THEN 0
                            ELSE Some(s).pnl + g[s \ {Some(s)}]]
  <1>1. SumOfPnl(T) = (CHOOSE g : R(g))[T]
    BY DEF SumOfPnl, MapThenSumSet, MapThenFoldSet, Some
  <1>2. \A s \in SUBSET T : s # {} => f[Some(s)] = Some(s).pnl
    BY DEF Some
  <1>3. ASSUME NEW g PROVE R(g) <=> SumsBySome(g, f, T)
    BY <1>2 DEF SumsBySome
  <1> HIDE DEF R
  <1>4. /\ SumsBySome(SumFold(f, T), f, T)
        /\ \A g : SumsBySome(g, f, T) => g[T] = SumOver(f, T)
    BY SumOneWay
  <1>5. R(CHOOSE g : R(g))
    BY <1>3, <1>4
  <1> QED
    BY <1>1, <1>3, <1>4, <1>5

LEMMA TotalOfRowsIs ==
    ASSUME NEW rows, IsFiniteSet(DOMAIN rows), DOMAIN rows \subseteq Int, NEW f,
           \A i \in DOMAIN rows : f[i] \in Int /\ f[i] = rows[i].pnl
    PROVE  TotalOfRows(rows) = SumOver(f, DOMAIN rows)
  <1> DEFINE D == DOMAIN rows
             R(g) == g = [s \in SUBSET D |->
                            IF s = {} THEN 0
                            ELSE g[s \ {Max(s)}] + rows[Max(s)].pnl]
             largest == [s \in SUBSET D |-> Max(s)]
  <1>1. TotalOfRows(rows) = (CHOOSE g : R(g))[D]
    BY DEF TotalOfRows, Paper!FoldLeft, Paper!MapThenFoldSet, Paper!Max, Max
  <1>2. \A s \in SUBSET D : s # {} => Max(s) \in s
    <2> SUFFICES ASSUME NEW s \in SUBSET D, s # {} PROVE Max(s) \in s
      OBVIOUS
    <2>1. IsFiniteSet(s) /\ s \subseteq Int
      BY FS_Subset
    <2> QED
      BY <2>1, MaxIsLargest
  <1>3. ASSUME NEW g PROVE R(g) <=> SumsInOrder(g, f, D, largest)
    BY <1>2 DEF SumsInOrder
  <1>4. /\ SumsInOrder(Sums(f, D), f, D, largest)
        /\ \A g : SumsInOrder(g, f, D, largest) =>
                    \A s \in SUBSET D : g[s] = SumOver(f, s)
    <2>1. \A s \in SUBSET D : s # {} => largest[s] \in s
      BY <1>2
    <2>2. IsFiniteSet(D) /\ \A i \in D : f[i] \in Int
      OBVIOUS
    <2> HIDE DEF D, largest
    <2> QED
      BY <2>1, <2>2, SumAnyOrder
  <1> HIDE DEF R
  <1>5. R(CHOOSE g : R(g))
    BY <1>3, <1>4
  <1>6. (CHOOSE g : R(g))[D] = SumOver(f, D)
    BY <1>3, <1>4, <1>5
  <1> QED
    BY <1>1, <1>6

\* Rows that have each of some trades once count and sum them.
LEMMA RowsSum ==
    ASSUME NEW T, IsFiniteSet(T), T \subseteq TradeType,
           NEW rows \in Seq(T), Enumerates(rows, T)
    PROVE  Len(rows) = Cardinality(T) /\ TotalOfRows(rows) = SumOfPnl(T)
  <1> DEFINE g == [t \in T |-> t.pnl]
             f == [i \in DOMAIN rows |-> rows[i].pnl]
  <1>1. Cardinality(T) \in Nat
    BY FS_CardinalityType
  <1>2. DOMAIN rows = 1..Cardinality(T) /\ DOMAIN rows = 1..Len(rows) /\ Len(rows) \in Nat
    BY DEF Enumerates
  <1>3. Len(rows) = Cardinality(T)
    <2>1. ASSUME NEW m \in Nat, NEW n \in Nat, 1..m = 1..n PROVE m = n
      <3>1. Cardinality(1..m) = m /\ Cardinality(1..n) = n
        BY FS_Interval
      <3> QED
        BY <2>1, <3>1
    <2> QED
      BY <1>1, <1>2, <2>1
  <1>4. \A t \in T : t.pnl \in Int
    BY DEF TradeType
  <1>5. \A t \in T : g[t] \in Int /\ g[t] = t.pnl
    BY <1>4
  <1>6. \A i \in DOMAIN rows : rows[i] \in T
    BY DEF Enumerates
  <1>7. \A i \in DOMAIN rows : f[i] \in Int /\ f[i] = rows[i].pnl /\ f[i] = g[rows[i]]
    BY <1>4, <1>6
  <1>8. IsFiniteSet(DOMAIN rows) /\ DOMAIN rows \subseteq Int
    <2>1. IsFiniteSet(1..Len(rows))
      BY <1>2, FS_Interval
    <2> QED
      BY <1>2, <2>1
  <1> HIDE DEF f, g
  <1>9. TotalOfRows(rows) = SumOver(f, DOMAIN rows)
    BY <1>7, <1>8, TotalOfRowsIs
  <1>10. SumOver(f, DOMAIN rows) = SumOver(g, T)
    BY <1>5, <1>7, SumOverListed
  <1>11. SumOfPnl(T) = SumOver(g, T)
    BY <1>5, SumOfPnlIs
  <1> QED
    BY <1>3, <1>9, <1>10, <1>11
\* What the tally says of the trades T.
Tells(y, T) ==
    /\ y.n = Cardinality(T) /\ y.total = SumOfPnl(T)
    /\ program = "forward_log" => y.dd = Paper!Drawdown(ByEarlier(T))
    /\ program = "portfolio" /\ ~uneven /\ revised = 0 =>
         y.dd = Paper!Drawdown(BySooner(T))

Tallied ==
    tally # Paper!NoTally =>
      /\ tally.lines \in 0..Len(log)
      /\ Tells(tally, ToSet(SubSeq(log, 1, tally.lines)))

LEMMA TalliedTells == Tallied => TallyIsOfTrades
  BY DEF Tallied, Tells, TallyIsOfTrades, SumOfPnl, ByEarlier, BySooner

\* When a run comes to its tally, the file is of trades, each once.
LEMMA FileOfTrades ==
    ASSUME FilesInv, Whole, pc = "tally"
    PROVE  /\ log \in Seq(TradeType) /\ \A t \in ToSet(log) : Right(t)
           /\ \A i, j \in DOMAIN log : i # j => Paper!Id(log[i]) # Paper!Id(log[j])
  <1>1. Paper!Torn \notin ToSet(log)
    BY DEF Whole
  <1>2. /\ log \in Seq(TradeType \cup {Paper!Torn})
        /\ \A i, j \in DOMAIN log :
             i # j /\ log[i] # Paper!Torn /\ log[j] # Paper!Torn
               => Paper!Id(log[i]) # Paper!Id(log[j])
        /\ \A r \in Written(log) : Right(r)
    BY DEF FilesInv, Filed
  <1>3. \A i \in DOMAIN log : log[i] # Paper!Torn
    BY <1>1 DEF ToSet
  <1>4. log \in Seq(TradeType)
    BY <1>2, <1>3
  <1>5. \A t \in ToSet(log) : Right(t)
    BY <1>1, <1>2 DEF Written
  <1> QED
    BY <1>2, <1>3, <1>4, <1>5

\* What TallyOf makes of the file is what it says of its trades.
LEMMA TallyTells ==
    ASSUME FilesInv, Orderly, Whole, Alone, pc = "tally"
    PROVE  /\ Paper!TallyOf(log).lines = Len(log)
           /\ Tells(Paper!TallyOf(log), ToSet(log))
  <1> DEFINE T == ToSet(log)
             rows == Paper!Rows(log)
             n == Len(log)
  <1>1. /\ log \in Seq(TradeType) /\ \A t \in T : Right(t)
        /\ \A i, j \in DOMAIN log : i # j => Paper!Id(log[i]) # Paper!Id(log[j])
    BY FileOfTrades
  <1>2. n \in Nat /\ DOMAIN log = 1..n /\ \A i \in 1..n : log[i] \in TradeType
    BY <1>1
  <1>3. \A i \in 1..n : log[i] \in T
    BY <1>2 DEF ToSet
  <1>4. /\ Paper!TallyOf(log).lines = n
        /\ Paper!TallyOf(log).n = Len(rows)
        /\ Paper!TallyOf(log).total = TotalOfRows(rows)
        /\ Paper!TallyOf(log).dd = Paper!Drawdown(rows)
    BY DEF Paper!TallyOf, TotalOfRows
  <1> HIDE DEF n, rows
  <1>5. Enumerates(log, T) /\ IsFiniteSet(T) /\ T \subseteq TradeType /\ log \in Seq(T)
    <2>1. \A i, j \in 1..n : i # j => log[i] # log[j]
      BY <1>1, <1>2
    <2>2. T \subseteq TradeType
      BY <1>2 DEF ToSet
    <2>3. log \in Seq(T)
      BY <1>1, <1>2, <1>3
    <2> QED
      BY <1>2, <2>1, <2>2, <2>3, ListsItsSet
  <1>6. program = "forward_log" =>
          /\ rows = ByEarlier(T) /\ rows \in Seq(T) /\ Enumerates(rows, T)
    <2> SUFFICES ASSUME program = "forward_log"
                 PROVE  rows = ByEarlier(T) /\ rows \in Seq(T) /\ Enumerates(rows, T)
      OBVIOUS
    <2>1. rows = SortedEarlier(log)
      BY DEF rows, Paper!Rows, SortedEarlier
    <2>2. \A t \in T : t.sleeve = 1 /\ t.no = 1 /\ t.entry \in Int
      <3>1. DOMAIN clock = {1} /\ 1 # ShockSleeve
        BY RecordsAssumption DEF Alone
      <3>2. \A t \in T : /\ t \in TradeType /\ t.sleeve \in DOMAIN clock
                         /\ t.sleeve # ShockSleeve => t.no = 1
        BY <1>1 DEF Right
      <3> QED
        BY <3>1, <3>2 DEF TradeType
    <2>3. \A i, j \in 1..n : i # j => log[i].entry # log[j].entry
      BY <1>1, <1>2, <1>3, <2>2 DEF Paper!Id
    <2>4. \A i \in 1..n : log[i].entry \in Int
      BY <1>3, <2>2
    <2>5. rows = ByEarlier(T)
      BY <1>2, <2>1, <2>3, <2>4, SortsByEntry
    <2>6. EntriesApart(T)
      <3>1. \A t \in T : \E i \in 1..n : t = log[i]
        BY <1>2 DEF ToSet
      <3> QED
        BY <1>5, <2>2, <2>3, <3>1 DEF EntriesApart
    <2>7. Enumerates(rows, T) /\ rows = [i \in 1..Cardinality(T) |-> rows[i]]
      BY <2>5, <2>6, ByEarlierLists
    <2>8. Cardinality(T) \in Nat /\ \A i \in 1..Cardinality(T) : rows[i] \in T
      BY <1>5, <2>7, FS_CardinalityType DEF Enumerates
    <2>9. rows \in Seq(T)
      BY <2>7, <2>8
    <2> QED
      BY <2>5, <2>7, <2>9
  <1>7. program # "forward_log" => rows = log
    BY DEF rows, Paper!Rows
  <1>8. Len(rows) = Cardinality(T) /\ TotalOfRows(rows) = SumOfPnl(T)
    <2>1. rows \in Seq(T) /\ Enumerates(rows, T)
      BY <1>5, <1>6, <1>7
    <2> QED
      BY <1>5, <2>1, RowsSum
  <1>9. program = "portfolio" /\ ~uneven /\ revised = 0 => rows = BySooner(T)
    <2> SUFFICES ASSUME program = "portfolio", ~uneven, revised = 0
                 PROVE  log = BySooner(T)
      BY <1>7
    <2>1. Punctual
      BY DEF Punctual, Whole
    <2>2. PICK c : Timely(c)
      BY <2>1 DEF Orderly
    <2>3. Ordered(log)
      BY <2>2 DEF Timely
    <2>4. Apart(T)
      <3> SUFFICES ASSUME NEW t \in T, NEW u \in T, t # u
                   PROVE  /\ Paper!Id(t) # Paper!Id(u)
                          /\ Paper!Sooner(t, u) \/ Paper!Sooner(u, t)
        BY DEF Apart
      <3>1. PICK i \in 1..n, j \in 1..n : t = log[i] /\ u = log[j]
        BY <1>2 DEF ToSet
      <3>2. i # j /\ (i < j \/ j < i)
        BY <1>2, <3>1
      <3> QED
        BY <1>1, <1>2, <2>3, <3>1, <3>2 DEF Ordered
    <2>5. \A i, j \in DOMAIN log : i # j => log[i] # log[j]
      BY <1>1
    <2> QED
      BY <1>1, <2>3, <2>4, <2>5, FiledByExit
  <1> QED
    BY <1>4, <1>6, <1>8, <1>9 DEF Tells, n

\* A file that has only grown has the same first lines.
LEMMA SameFront ==
    ASSUME Grows, log \in Seq(TradeType \cup {Paper!Torn}),
           log' \in Seq(TradeType \cup {Paper!Torn}), NEW k \in 0..Len(log)
    PROVE  /\ k \in 0..Len(log')
           /\ SubSeq(log', 1, k) = SubSeq(log, 1, k)
  <1>1. /\ Len(log) \in Nat /\ DOMAIN log = 1..Len(log)
        /\ Len(log') \in Nat /\ DOMAIN log' = 1..Len(log')
        /\ DOMAIN log \subseteq DOMAIN log' /\ \A i \in DOMAIN log : log'[i] = log[i]
    BY DEF Grows
  <1>2. Len(log) <= Len(log')
    <2>1. CASE Len(log) = 0
      BY <1>1, <2>1
    <2>2. CASE Len(log) # 0
      <3>1. Len(log) \in DOMAIN log
        BY <1>1, <2>2
      <3> QED
        BY <1>1, <3>1
    <2> QED
      BY <2>1, <2>2
  <1>3. k \in 0..Len(log') /\ k \in Nat
    BY <1>1, <1>2
  <1>4. SubSeq(log', 1, k) = [i \in 1..k |-> log'[i]]
        /\ SubSeq(log, 1, k) = [i \in 1..k |-> log[i]]
    BY <1>1, <1>3
  <1>5. \A i \in 1..k : log'[i] = log[i]
    BY <1>1
  <1> QED
    BY <1>3, <1>4, <1>5

\* A tally that is not written again stays right of the lines it was made of.
LEMMA TalliedStays ==
    ASSUME FilesInv, Tallied, [Next]_vars, FilesInv', UNCHANGED tally
    PROVE  Tallied'
  <1> SUFFICES ASSUME tally # Paper!NoTally PROVE Tallied'
    BY DEF Tallied
  <1>1. /\ tally.lines \in 0..Len(log)
        /\ Tells(tally, ToSet(SubSeq(log, 1, tally.lines)))
    BY DEF Tallied
  <1>2. /\ log \in Seq(TradeType \cup {Paper!Torn})
        /\ log' \in Seq(TradeType \cup {Paper!Torn})
    BY DEF FilesInv, Filed
  <1>3. /\ tally.lines \in 0..Len(log')
        /\ SubSeq(log', 1, tally.lines) = SubSeq(log, 1, tally.lines)
    BY <1>1, <1>2, FileGrows, SameFront
  <1>4. /\ program' = program
        /\ uneven => uneven'
        /\ revised' = 0 => revised = 0
    BY RunFrame
  <1>5. ASSUME NEW T, Tells(tally, T) PROVE Tells(tally, T)'
    <2>1. /\ tally.n = Cardinality(T) /\ tally.total = SumOfPnl(T)
          /\ program = "forward_log" => tally.dd = Paper!Drawdown(ByEarlier(T))
          /\ program = "portfolio" /\ ~uneven /\ revised = 0 =>
               tally.dd = Paper!Drawdown(BySooner(T))
      BY <1>5 DEF Tells
    <2>2. program' = "portfolio" /\ ~uneven' /\ revised' = 0 =>
             tally'.dd = Paper!Drawdown(BySooner(T))
      BY <1>4, <2>1
    <2>3. tally'.n = Cardinality(T) /\ tally'.total = SumOfPnl(T)
      BY <2>1
    <2>4. program' = "forward_log" => tally'.dd = Paper!Drawdown(ByEarlier(T))
      BY <1>4, <2>1
    <2> QED
      BY <2>2, <2>3, <2>4 DEF Tells
  <1>6. PICK T : T = ToSet(SubSeq(log, 1, tally.lines)) /\ Tells(tally, T)
    BY <1>1
  <1>7. ToSet(SubSeq(log', 1, tally.lines)) = T
    BY <1>3, <1>6
  <1>8. Tells(tally, T)'
    BY <1>5, <1>6
  <1>9. (/\ tally.lines \in 0..Len(log)
         /\ Tells(tally, ToSet(SubSeq(log, 1, tally.lines))))'
    BY <1>3, <1>7, <1>8
  <1> QED
    BY <1>9 DEF Tallied

LEMMA TalliedWrite ==
    ASSUME FilesInv, Orderly, Whole, Alone, Paper!WriteTally, ~Paper!Unreadable,
           UNCHANGED program
    PROVE  Tallied'
  <1>1. pc = "tally" /\ tally' = Paper!TallyOf(log) /\ UNCHANGED <<log, revised, uneven>>
    BY DEF Paper!WriteTally, Paper!dataVars
  <1>2. /\ Paper!TallyOf(log).lines = Len(log)
        /\ Tells(Paper!TallyOf(log), ToSet(log))
    BY <1>1, TallyTells
  <1>3. log \in Seq(TradeType) /\ Len(log) \in 0..Len(log)
    BY <1>1, FileOfTrades
  <1>4. SubSeq(log, 1, Len(log)) = log
    BY <1>3, SubSeqFull
  <1>5. PICK T : T = ToSet(log) /\ Tells(tally', T)
    BY <1>1, <1>2
  <1>6. ToSet(SubSeq(log', 1, tally'.lines)) = T
    BY <1>1, <1>2, <1>4, <1>5
  <1>7. Tells(tally, T)'
    BY <1>1, <1>5 DEF Tells
  <1> QED
    BY <1>1, <1>2, <1>3, <1>6, <1>7 DEF Tallied

LEMMA TalliedStep ==
    ASSUME FilesInv, Orderly, Whole, Alone, Tallied, [Next]_vars
    PROVE  Tallied'
  <1>1. FilesInv'
    BY FilesStepInv
  <1>2. CASE UNCHANGED tally
    BY <1>1, <1>2, TalliedStays
  <1>3. CASE tally' = Paper!NoTally
    BY <1>3 DEF Tallied
  <1>4. CASE Run
    <2>1. UNCHANGED program
      BY <1>4 DEF Run
    <2>2. CASE Paper!WriteTally /\ ~Paper!Unreadable
      BY <2>1, <2>2, TalliedWrite
    <2>3. CASE Paper!WriteTally /\ Paper!Unreadable
      BY <1>2, <2>3 DEF Paper!WriteTally
    <2> QED
      BY <1>2, <1>3, <1>4, <2>2, <2>3 DEF Run, Paper!PaperRun, Paper!Load, Paper!ReadKeys,
             Paper!AppendRows, Paper!KilledInAppend, Paper!Killed, Paper!fileVars
  <1>5. CASE Data
    BY <1>2, <1>5 DEF Data, Paper!PaperData, Paper!NewBar, Paper!ShockBar,
                      Paper!Revise, Paper!fileVars
  <1> QED
    BY <1>2, <1>4, <1>5 DEF Next, Fill, Finished, vars, paperVars

TallyInv == FilesInv /\ Orderly /\ Whole /\ Alone /\ Tallied

LEMMA TallyInitInv == Init => TallyInv
  <1> SUFFICES ASSUME Init PROVE TallyInv
    OBVIOUS
  <1>1. pc = "idle" /\ tally = Paper!NoTally
    BY DEF Init, Paper!PaperInit
  <1> QED
    BY <1>1, FilesInitInv, OrderlyInit, AloneInit DEF TallyInv, Whole, Tallied

LEMMA TallyStepInv == TallyInv /\ [Next]_vars => TallyInv'
  BY FilesStepInv, OrderlyStep, WholeStep, AloneStep, TalliedStep DEF TallyInv

\* However often the runs are repeated, narrowed and killed, the tally is of the
\* trades in the file as it was then, each once, and its drawdown is that of
\* the trades in the order in which they happened.
THEOREM TallyFollowsTrades == Spec => []TallyIsOfTrades
  <1>1. TallyInv => TallyIsOfTrades
    BY TalliedTells DEF TallyInv
  <1> QED
    BY <1>1, TallyInitInv, TallyStepInv, PTL DEF Spec
-----------------------------------------------------------------------------
(* The walk of max_concurrency.                                              *)

WalkStep(a, e) ==
    [cur |-> a.cur + e.d, mx |-> Paper!Greatest(a.mx, a.cur + e.d)]
AtRest == [cur |-> 0, mx |-> 0]

\* a has the state of the walk along S before it begins and after each event.
Walks(a, n, S) ==
    /\ a[0] = AtRest
    /\ \A k \in 1..n : a[k] = WalkStep(a[k - 1], S[k])

\* The end of the walk, as MaxConcurrency folds it.
WalkEnd(S) ==
    LET Walk(a, e) == [cur |-> a.cur + e.d, mx |-> Paper!Greatest(a.mx, a.cur + e.d)]
    IN Paper!FoldLeft(Walk, [cur |-> 0, mx |-> 0], S)

\* The numbers up to k, with their last one taken off.
LEMMA LastOfInterval ==
    ASSUME NEW n \in Nat
    PROVE  /\ IsFiniteSet(1..n)
           /\ \A s \in SUBSET (1..n) : s # {} => Max(s) \in s
           /\ \A k \in 1..n : /\ (1..k) \in SUBSET (1..n) /\ Max(1..k) = k
                              /\ (1..k) \ {k} = 1..(k - 1) /\ 1..k # {}
  <1>1. IsFiniteSet(1..n)
    BY FS_Interval
  <1>2. \A s \in SUBSET (1..n) : s # {} =>
          Max(s) \in s /\ \A i \in s : i =< Max(s)
    <2> SUFFICES ASSUME NEW s \in SUBSET (1..n), s # {}
                 PROVE  Max(s) \in s /\ \A i \in s : i =< Max(s)
      OBVIOUS
    <2>0. IsFiniteSet(s)
      BY <1>1, FS_Subset
    <2>1. IsFiniteSet(s) /\ s \subseteq Int
      BY <2>0
    <2> QED
      BY <2>1, MaxIsLargest
  <1>3. ASSUME NEW k \in 1..n
        PROVE  /\ (1..k) \in SUBSET (1..n) /\ Max(1..k) = k
               /\ (1..k) \ {k} = 1..(k - 1) /\ 1..k # {}
    <2>1. (1..k) \in SUBSET (1..n) /\ k \in 1..k
      OBVIOUS
    <2>2. Max(1..k) \in 1..k /\ k =< Max(1..k)
      BY <1>2, <2>1
    <2>3. Max(1..k) = k
      BY <2>2
    <2>4. (1..k) \ {k} = 1..(k - 1)
      OBVIOUS
    <2> QED
      BY <2>1, <2>3, <2>4
  <1> QED
    BY <1>1, <1>2, <1>3

\* The fold is the last state of a walk.
LEMMA WalkIs ==
    ASSUME NEW n \in Nat, NEW S, DOMAIN S = 1..n, \A k \in 1..n : S[k].d \in Int
    PROVE  \E a : Walks(a, n, S) /\ WalkEnd(S) = a[n]
  <1> DEFINE D == 1..n
             V == [cur : Int, mx : Int]
             R(g) == g = [s \in SUBSET D |->
                            IF s = {} THEN AtRest
                            ELSE WalkStep(g[s \ {Max(s)}], S[Max(s)])]
             largest == [s \in SUBSET D |-> Max(s)]
             step == [p \in D \X V |-> WalkStep(p[2], S[p[1]])]
  <1>1. WalkEnd(S) = (CHOOSE g : R(g))[D]
    BY DEF WalkEnd, WalkStep, AtRest, Paper!FoldLeft, Paper!MapThenFoldSet, Paper!Max, Max
  <1>2. IsFiniteSet(D) /\ \A s \in SUBSET D : s # {} => Max(s) \in s
    BY LastOfInterval
  <1>3. \A x \in D, v \in V : step[<<x, v>>] = WalkStep(v, S[x]) /\ WalkStep(v, S[x]) \in V
    BY DEF WalkStep, Paper!Greatest
  <1>4. AtRest \in V
    BY DEF AtRest
  <1>5. Folds(D, V, largest, step, AtRest)
    <2>1. \A s \in SUBSET D : s # {} => largest[s] \in s
      BY <1>2
    <2> HIDE DEF D, V, largest, step
    <2> QED
      BY <1>3, <1>4, <2>1 DEF Folds
  <1> HIDE DEF step, V
  <1>6. PICK g : IsFold(g, D, largest, step, AtRest) /\ g \in [SUBSET D -> V]
    <2>1. IsFiniteSet(D)
      BY <1>2
    <2> HIDE DEF D, largest
    <2>2. PICK g : IsFold(g, D, largest, step, AtRest)
      BY <1>5, <2>1, FoldExists
    <2>3. g \in [SUBSET D -> V]
      BY <1>5, <2>1, <2>2, FoldInRange
    <2> QED
      BY <2>2, <2>3
  <1>7. R(g)
    <2>1. \A s \in SUBSET D : s # {} =>
            step[<<largest[s], g[s \ {largest[s]}]>>]
              = WalkStep(g[s \ {Max(s)}], S[Max(s)])
      <3> SUFFICES ASSUME NEW s \in SUBSET D, s # {}
                   PROVE  step[<<Max(s), g[s \ {Max(s)}]>>]
                            = WalkStep(g[s \ {Max(s)}], S[Max(s)])
        OBVIOUS
      <3>1. Max(s) \in D /\ s \ {Max(s)} \in SUBSET D
        BY <1>2
      <3>2. g[s \ {Max(s)}] \in V
        BY <1>6, <3>1
      <3> QED
        BY <1>3, <3>1, <3>2
    <2> HIDE DEF largest
    <2> QED
      BY <1>6, <2>1 DEF IsFold
  <1> DEFINE G == CHOOSE h : R(h)
  <1>8. R(G)
    <2> HIDE DEF R
    <2> QED
      BY <1>7
  <1> HIDE DEF G
  <1>9. \A s \in SUBSET D :
          /\ s = {} => G[s] = AtRest
          /\ s # {} => G[s] = WalkStep(G[s \ {Max(s)}], S[Max(s)])
    BY <1>8
  <1> HIDE DEF R
  <1> DEFINE a == [k \in 0..n |-> G[1..k]]
  <1>10. a[0] = AtRest
    <2>1. 1..0 = {} /\ {} \in SUBSET D /\ 0 \in 0..n
      OBVIOUS
    <2>2. a[0] = G[1..0]
      BY <2>1
    <2> HIDE DEF D, a
    <2>3. G[{}] = AtRest
      BY <1>9, <2>1
    <2> QED
      BY <2>1, <2>2, <2>3
  <1>11. ASSUME NEW k \in 1..n PROVE a[k] = WalkStep(a[k - 1], S[k])
    <2>1. /\ (1..k) \in SUBSET D /\ Max(1..k) = k
          /\ (1..k) \ {k} = 1..(k - 1) /\ 1..k # {}
      BY LastOfInterval
    <2>2. G[1..k] = WalkStep(G[1..(k - 1)], S[k])
      BY <1>9, <2>1
    <2>3. k - 1 \in 0..n /\ k \in 0..n
      OBVIOUS
    <2> QED
      BY <2>2, <2>3
  <1>12. WalkEnd(S) = a[n]
    BY <1>1 DEF G
  <1> HIDE DEF a
  <1> QED
    BY <1>10, <1>11, <1>12 DEF Walks

\* The largest number on a walk is that of one of its states.
LEMMA WalkPeak ==
    ASSUME NEW n \in Nat, NEW S, NEW a, Walks(a, n, S), \A k \in 1..n : S[k].d \in Int
    PROVE  /\ \A k \in 0..n : a[k].cur \in Int
           /\ a[0].cur = 0 /\ \A k \in 1..n : a[k].cur = a[k - 1].cur + S[k].d
           /\ \A k \in 0..n : a[k].cur =< a[n].mx
           /\ \E k \in 0..n : a[n].mx = a[k].cur
  <1> DEFINE P == [k \in 0..n |->
                     /\ a[k].cur \in Int /\ a[k].mx \in Int
                     /\ \A j \in 0..k : a[j].cur \in Int /\ a[j].cur =< a[k].mx
                     /\ \E j \in 0..k : a[k].mx = a[j].cur]
  <1>1. a[0].cur = 0 /\ a[0].mx = 0
    BY DEF Walks, AtRest
  <1>2. \A k \in 1..n : /\ a[k].cur = a[k - 1].cur + S[k].d
                        /\ a[k].mx = Paper!Greatest(a[k - 1].mx, a[k].cur)
    <2> SUFFICES ASSUME NEW k \in 1..n
                 PROVE  /\ a[k].cur = a[k - 1].cur + S[k].d
                        /\ a[k].mx = Paper!Greatest(a[k - 1].mx, a[k].cur)
      OBVIOUS
    <2>1. a[k] = WalkStep(a[k - 1], S[k])
      BY DEF Walks
    <2>2. /\ a[k].cur = a[k - 1].cur + S[k].d
          /\ a[k].mx = Paper!Greatest(a[k - 1].mx, a[k - 1].cur + S[k].d)
      BY <2>1 DEF WalkStep
    <2> QED
      BY <2>2
  <1>3. P[0]
    <2>1. \A j \in 0..0 : j = 0
      OBVIOUS
    <2> QED
      BY <1>1, <2>1
  <1>4. ASSUME NEW k \in 1..n, P[k - 1] PROVE P[k]
    <2>1. k - 1 \in 0..n /\ k \in 0..n
      OBVIOUS
    <2>2. /\ a[k - 1].cur \in Int /\ a[k - 1].mx \in Int
          /\ \A j \in 0..(k - 1) : a[j].cur \in Int /\ a[j].cur =< a[k - 1].mx
          /\ \E j \in 0..(k - 1) : a[k - 1].mx = a[j].cur
      BY <1>4, <2>1
    <2>3. a[k].cur \in Int
      BY <1>2, <2>2
    <2>4. /\ a[k].mx \in Int /\ a[k - 1].mx =< a[k].mx /\ a[k].cur =< a[k].mx
          /\ a[k].mx = a[k - 1].mx \/ a[k].mx = a[k].cur
      <3>1. a[k].mx = Paper!Greatest(a[k - 1].mx, a[k].cur)
        BY <1>2
      <3> QED
        BY <2>2, <2>3, <3>1 DEF Paper!Greatest
    <2>5. ASSUME NEW j \in 0..k
          PROVE  a[j].cur \in Int /\ a[j].cur =< a[k].mx
      <3>1. CASE j = k
        BY <2>3, <2>4, <3>1
      <3>2. CASE j # k
        <4>1. j \in 0..(k - 1)
          BY <3>2
        <4>2. a[j].cur \in Int /\ a[j].cur =< a[k - 1].mx
          BY <2>2, <4>1
        <4> QED
          BY <2>2, <2>4, <4>2
      <3> QED
        BY <3>1, <3>2
    <2>6. \E j \in 0..k : a[k].mx = a[j].cur
      <3>1. CASE a[k].mx = a[k].cur
        BY <3>1
      <3>2. CASE a[k].mx = a[k - 1].mx
        <4>1. PICK j \in 0..(k - 1) : a[k - 1].mx = a[j].cur
          BY <2>2
        <4>2. j \in 0..k
          OBVIOUS
        <4> QED
          BY <3>2, <4>1, <4>2
      <3> QED
        BY <2>4, <3>1, <3>2
    <2> QED
      BY <2>1, <2>3, <2>4, <2>5, <2>6
  <1>5. \A k \in 0..n : P[k]
    <2> HIDE DEF P
    <2> QED
      BY <1>3, <1>4, Upwards
  <1>6. /\ \A k \in 0..n : a[k].cur \in Int
        /\ \A j \in 0..n : a[j].cur =< a[n].mx
        /\ \E j \in 0..n : a[n].mx = a[j].cur
    <2>1. n \in 0..n
      OBVIOUS
    <2> QED
      BY <1>5, <2>1
  <1> QED
    BY <1>1, <1>2, <1>6

\* The entries and exits of a list of n trades, and by what they are sorted.
Marks(T, n) == [i \in 1..(n + n) |->
                  IF i <= n THEN [ts |-> T[i].entry, d |-> 1]
                  ELSE [ts |-> T[i - n].exit, d |-> -1]]
MarkKey(T, n) == [i \in 1..(n + n) |-> IF i <= n THEN 3 * T[i].entry + 1
                                       ELSE 3 * T[i - n].exit - 1]

\* place lists the marks in an order in which none comes before a smaller one.
SortsMarks(place, T, n) ==
    /\ DOMAIN place = 1..(n + n)
    /\ \A k \in 1..(n + n) : place[k] \in 1..(n + n)
    /\ \A i \in 1..(n + n) : \E k \in 1..(n + n) : place[k] = i
    /\ \A j, k \in 1..(n + n) : j # k => place[j] # place[k]
    /\ \A j, k \in 1..(n + n) :
         j < k => MarkKey(T, n)[place[j]] =< MarkKey(T, n)[place[k]]

\* T lists n trades, none of which ends before it begins.
Timed(T, n) ==
    /\ DOMAIN T = 1..n
    /\ \A i \in 1..n : /\ T[i].entry \in Int /\ T[i].exit \in Int
                       /\ T[i].entry =< T[i].exit

\* A mark is that of an entry or that of an exit.
LEMMA MarkHalves ==
    ASSUME NEW n \in Nat
    PROVE  \A i \in 1..(n + n) : i \in 1..n \/ \E j \in 1..n : i = n + j
  <1> SUFFICES ASSUME NEW i \in 1..(n + n)
               PROVE  i \in 1..n \/ \E j \in 1..n : i = n + j
    OBVIOUS
  <1>1. i \in 1..n \/ (i - n \in 1..n /\ i = n + (i - n))
    OBVIOUS
  <1> QED
    BY <1>1

\* The two kinds of marks, and that of all the key sorts as Precedes does.
LEMMA MarksAre ==
    ASSUME NEW n \in Nat, NEW T, Timed(T, n)
    PROVE  /\ \A i \in 1..n : /\ Marks(T, n)[i].ts = T[i].entry /\ Marks(T, n)[i].d = 1
                              /\ MarkKey(T, n)[i] = 3 * T[i].entry + 1
           /\ \A i \in 1..n : /\ n + i \in 1..(n + n)
                              /\ Marks(T, n)[n + i].ts = T[i].exit
                              /\ Marks(T, n)[n + i].d = -1
                              /\ MarkKey(T, n)[n + i] = 3 * T[i].exit - 1
           /\ \A i \in 1..n, j \in 1..n : i # n + j
           /\ \A i \in 1..(n + n) : /\ Marks(T, n)[i].ts \in Int
                                    /\ Marks(T, n)[i].d \in {1, -1}
                                    /\ MarkKey(T, n)[i] \in Int
                                    /\ MarkKey(T, n)[i] =
                                         3 * Marks(T, n)[i].ts + Marks(T, n)[i].d
  <1>1. ASSUME NEW i \in 1..n
        PROVE  /\ Marks(T, n)[i].ts = T[i].entry /\ Marks(T, n)[i].d = 1
               /\ MarkKey(T, n)[i] = 3 * T[i].entry + 1
    <2>1. i \in 1..(n + n) /\ i <= n
      OBVIOUS
    <2>2. Marks(T, n)[i] = [ts |-> T[i].entry, d |-> 1]
      BY <2>1 DEF Marks
    <2>3. MarkKey(T, n)[i] = 3 * T[i].entry + 1
      BY <2>1 DEF MarkKey
    <2> QED
      BY <2>2, <2>3
  <1>2. ASSUME NEW i \in 1..n
        PROVE  /\ n + i \in 1..(n + n)
               /\ Marks(T, n)[n + i].ts = T[i].exit /\ Marks(T, n)[n + i].d = -1
               /\ MarkKey(T, n)[n + i] = 3 * T[i].exit - 1
    <2>1. n + i \in 1..(n + n) /\ ~(n + i <= n) /\ (n + i) - n = i
      OBVIOUS
    <2>2. Marks(T, n)[n + i] = [ts |-> T[i].exit, d |-> -1]
      BY <2>1 DEF Marks
    <2>3. MarkKey(T, n)[n + i] = 3 * T[i].exit - 1
      BY <2>1 DEF MarkKey
    <2> QED
      BY <2>1, <2>2, <2>3
  <1>3. \A i \in 1..(n + n) : i \in 1..n \/ \E j \in 1..n : i = n + j
    BY MarkHalves
  <1>4. \A i \in 1..n, j \in 1..n : i # n + j
    OBVIOUS
  <1>5. ASSUME NEW i \in 1..(n + n)
        PROVE  /\ Marks(T, n)[i].ts \in Int /\ Marks(T, n)[i].d \in {1, -1}
               /\ MarkKey(T, n)[i] \in Int
               /\ MarkKey(T, n)[i] = 3 * Marks(T, n)[i].ts + Marks(T, n)[i].d
    <2>1. CASE i \in 1..n
      <3>1. T[i].entry \in Int
        BY <2>1 DEF Timed
      <3>2. /\ Marks(T, n)[i].ts = T[i].entry /\ Marks(T, n)[i].d = 1
            /\ MarkKey(T, n)[i] = 3 * T[i].entry + 1
        BY <1>1, <2>1
      <3> QED
        BY <3>1, <3>2
    <2>2. CASE \E j \in 1..n : i = n + j
      <3>1. PICK j \in 1..n : i = n + j
        BY <2>2
      <3>2. T[j].exit \in Int
        BY DEF Timed
      <3>3. /\ Marks(T, n)[i].ts = T[j].exit /\ Marks(T, n)[i].d = -1
            /\ MarkKey(T, n)[i] = 3 * T[j].exit - 1
        BY <1>2, <3>1
      <3> QED
        BY <3>2, <3>3
    <2> QED
      BY <1>3, <2>1, <2>2
  <1> QED
    BY <1>1, <1>2, <1>4, <1>5

\* Only the first half of the marks are entries.
LEMMA ExitMark ==
    ASSUME NEW n \in Nat, NEW T, NEW i \in 1..(n + n), ~(i <= n)
    PROVE  Marks(T, n)[i].d = -1
  <1>1. Marks(T, n)[i] = [ts |-> T[i - n].exit, d |-> -1]
    BY DEF Marks
  <1> QED
    BY <1>1

\* The events of MaxConcurrency.
Events(T) == [i \in DOMAIN T |-> [ts |-> T[i].entry, d |-> 1]]
               \o [i \in DOMAIN T |-> [ts |-> T[i].exit, d |-> -1]]
SortedEvents(T) == Paper!Sorted(Events(T), Paper!Precedes)

LEMMA ConcurrencyWalks ==
    ASSUME NEW T
    PROVE  Paper!MaxConcurrency(T) = WalkEnd(SortedEvents(T)).mx
  BY DEF Paper!MaxConcurrency, WalkEnd, SortedEvents, Events

\* Events has the marks, entries first.
LEMMA EventsAre ==
    ASSUME NEW n \in Nat, NEW T, Timed(T, n)
    PROVE  Events(T) = Marks(T, n)
  <1> DEFINE a == [i \in 1..n |-> [ts |-> T[i].entry, d |-> 1]]
             b == [i \in 1..n |-> [ts |-> T[i].exit, d |-> -1]]
             W == [ts : Int, d : Int]
  <1>1. a \in Seq(W) /\ b \in Seq(W)
    BY DEF Timed
  <1>2. Len(a) = n /\ Len(b) = n
    OBVIOUS
  <1>3. Events(T) = a \o b
    BY DEF Events, Timed
  <1>4. \A i \in 1..n : /\ a[i] = [ts |-> T[i].entry, d |-> 1]
                        /\ b[i] = [ts |-> T[i].exit, d |-> -1]
    OBVIOUS
  <1> HIDE DEF a, b, W
  <1>5. /\ a \o b \in Seq(W) /\ DOMAIN (a \o b) = 1..(n + n)
        /\ \A i \in 1..(n + n) : (a \o b)[i] = IF i <= n THEN a[i] ELSE b[i - n]
    <2>1. /\ a \o b \in Seq(W) /\ DOMAIN (a \o b) = 1..(Len(a) + Len(b))
          /\ \A i \in 1..(Len(a) + Len(b)) :
               (a \o b)[i] = IF i <= Len(a) THEN a[i] ELSE b[i - Len(a)]
      BY <1>1, ConcatIs
    <2> QED
      BY <1>2, <2>1
  <1>6. a \o b = [i \in 1..(n + n) |-> (a \o b)[i]]
    <2>1. \A s \in Seq(W) : s = [i \in DOMAIN s |-> s[i]]
      OBVIOUS
    <2> QED
      BY <1>5, <2>1
  <1>7. ASSUME NEW i \in 1..(n + n)
        PROVE  (a \o b)[i] = IF i <= n THEN [ts |-> T[i].entry, d |-> 1]
                             ELSE [ts |-> T[i - n].exit, d |-> -1]
    <2>1. (i <= n /\ i \in 1..n) \/ (~(i <= n) /\ i - n \in 1..n)
      OBVIOUS
    <2> QED
      BY <1>4, <1>5, <2>1
  <1>8. a \o b = Marks(T, n)
    BY <1>6, <1>7 DEF Marks
  <1> QED
    BY <1>3, <1>8

\* The sort of the events puts the marks in order.
LEMMA EventsSorted ==
    ASSUME NEW n \in Nat, NEW T, Timed(T, n)
    PROVE  \E place : /\ SortsMarks(place, T, n)
                      /\ SortedEvents(T) = [k \in 1..(n + n) |-> Marks(T, n)[place[k]]]
  <1> DEFINE m == n + n
             E == Marks(T, n)
             key == MarkKey(T, n)
             Ahead(i, j) == IF i < j THEN ~Paper!Precedes(E[j], E[i])
                            ELSE Paper!Precedes(E[i], E[j])
             P == {<<Paper!Cardinality({y \in 1..m : Ahead(y, x)}) + 1, x>> : x \in 1..m}
             Q == {<<Cardinality({y \in 1..m : GoesAhead(key, y, x)}) + 1, x>> : x \in 1..m}
             place == ByPlace(P, Paper!Cardinality(1..m))
  <1>1. m \in Nat /\ DOMAIN E = 1..m /\ IsFiniteSet(1..m) /\ Cardinality(1..m) = m
    <2>1. m \in Nat
      OBVIOUS
    <2>2. IsFiniteSet(1..m) /\ Cardinality(1..m) = m
      BY <2>1, FS_Interval
    <2> QED
      BY <2>1, <2>2 DEF Marks
  <1>2. \A i, j \in 1..m : Paper!Precedes(E[i], E[j]) <=> key[i] < key[j]
    <2> SUFFICES ASSUME NEW i \in 1..m, NEW j \in 1..m
                 PROVE  Paper!Precedes(E[i], E[j]) <=> key[i] < key[j]
      OBVIOUS
    <2>1. /\ E[i].ts \in Int /\ E[i].d \in {1, -1} /\ key[i] = 3 * E[i].ts + E[i].d
          /\ E[j].ts \in Int /\ E[j].d \in {1, -1} /\ key[j] = 3 * E[j].ts + E[j].d
      BY MarksAre
    <2> HIDE DEF E, key, m
    <2>2. PICK x \in Int, y \in Int, c \in {1, -1}, d \in {1, -1} :
             x = E[i].ts /\ y = E[j].ts /\ c = E[i].d /\ d = E[j].d
      BY <2>1
    <2>3. (x < y \/ (x = y /\ c < d)) <=> 3 * x + c < 3 * y + d
      BY <2>2
    <2> QED
      BY <2>1, <2>2, <2>3 DEF Paper!Precedes
  <1>3. SortedEvents(T) = [k \in 1..m |-> E[place[k]]]
    <2>1. SortedEvents(T) = Paper!Sorted(E, Paper!Precedes)
      BY EventsAre DEF SortedEvents
    <2>2. DOMAIN E = 1..m
      BY <1>1
    <2> HIDE DEF E, m
    <2> QED
      BY <2>1, <2>2 DEF Paper!Sorted, Paper!InOrder, ByPlace
  <1>4. P = Q
    <2>1. ASSUME NEW x \in 1..m
          PROVE  Paper!Cardinality({y \in 1..m : Ahead(y, x)})
                   = Cardinality({y \in 1..m : GoesAhead(key, y, x)})
      <3>1. \A y \in 1..m : Ahead(y, x) <=> GoesAhead(key, y, x)
        <4> HIDE DEF E, key, m
        <4> QED
          BY <1>2 DEF GoesAhead
      <3> HIDE DEF Ahead, key, m
      <3>2. {y \in 1..m : Ahead(y, x)} = {y \in 1..m : GoesAhead(key, y, x)}
        BY <3>1
      <3> QED
        BY <3>2, SameCount
    <2> HIDE DEF Ahead, key, m
    <2> QED
      BY <2>1
  <1>5. place = ByPlace(Q, Cardinality(1..m))
    <2> HIDE DEF P, Q
    <2> QED
      BY <1>4, SameCount
  <1>6. \A i \in 1..m : key[i] \in Int
    BY MarksAre
  <1> HIDE DEF place, key, E, P, m
  <1>7. /\ Enumerates(place, 1..m)
        /\ \A i, j \in DOMAIN place : i < j => key[place[i]] =< key[place[j]]
    BY <1>1, <1>5, <1>6, SortPlaces
  <1>8. SortsMarks(place, T, n)
    BY <1>1, <1>7 DEF Enumerates, SortsMarks, key, m
  <1> QED
    BY <1>3, <1>8 DEF E, m

\* The trades whose entries and exits are among the first k marks.
Ins(place, n, k) == {i \in 1..n : \E j \in 1..k : place[j] = i}
Outs(place, n, k) == {i \in 1..n : \E j \in 1..k : place[j] = n + i}

\* Those entered, left and open at time t.
Entered(T, n, t) == {i \in 1..n : T[i].entry <= t}
Left(T, n, t) == {i \in 1..n : T[i].exit <= t}
OpenAt(T, n, t) == {i \in 1..n : T[i].entry <= t /\ t < T[i].exit}

\* Both can be counted.
LEMMA InsOutsFinite ==
    ASSUME NEW n \in Nat, NEW place, NEW k
    PROVE  /\ IsFiniteSet(Ins(place, n, k)) /\ IsFiniteSet(Outs(place, n, k))
           /\ Cardinality(Ins(place, n, k)) \in Nat
           /\ Cardinality(Outs(place, n, k)) \in Nat
  <1>1. IsFiniteSet(1..n)
    BY FS_Interval
  <1>2. Ins(place, n, k) \in SUBSET (1..n) /\ Outs(place, n, k) \in SUBSET (1..n)
    BY DEF Ins, Outs
  <1>3. IsFiniteSet(Ins(place, n, k)) /\ IsFiniteSet(Outs(place, n, k))
    BY <1>1, <1>2, FS_Subset
  <1> QED
    BY <1>3, FS_CardinalityType

\* The mark at k adds its trade to the one set or the other.
LEMMA MarkCounts ==
    ASSUME NEW n \in Nat, NEW T, Timed(T, n), NEW place, SortsMarks(place, T, n),
           NEW k \in 1..(n + n)
    PROVE  Cardinality(Ins(place, n, k)) - Cardinality(Outs(place, n, k)) =
             Cardinality(Ins(place, n, k - 1)) - Cardinality(Outs(place, n, k - 1))
               + Marks(T, n)[place[k]].d
  <1> DEFINE I(q) == Ins(place, n, q)
             O(q) == Outs(place, n, q)
  <1>1. place[k] \in 1..(n + n)
        /\ \A j \in 1..(k - 1) : place[j] # place[k]
    <2>1. \A j \in 1..(k - 1) : j \in 1..(n + n) /\ j # k
      OBVIOUS
    <2> QED
      BY <2>1 DEF SortsMarks
  <1>2. \A j : j \in 1..k <=> j \in 1..(k - 1) \/ j = k
    OBVIOUS
  <1>3. /\ IsFiniteSet(I(k - 1)) /\ IsFiniteSet(O(k - 1))
        /\ Cardinality(I(k - 1)) \in Nat /\ Cardinality(O(k - 1)) \in Nat
    BY InsOutsFinite
  <1>4. CASE place[k] \in 1..n
    <2>1. I(k) = I(k - 1) \cup {place[k]}
      BY <1>2, <1>4 DEF Ins
    <2>2. place[k] \notin I(k - 1)
      BY <1>1 DEF Ins
    <2>3. O(k) = O(k - 1)
      <3>1. \A i \in 1..n : place[k] # n + i
        BY <1>4
      <3> QED
        BY <1>2, <3>1 DEF Outs
    <2>4. Marks(T, n)[place[k]].d = 1
      BY <1>4, MarksAre
    <2> HIDE DEF I, O
    <2>5. Cardinality(I(k)) = Cardinality(I(k - 1)) + 1
      BY <1>3, <2>1, <2>2, FS_AddElement
    <2>6. Cardinality(I(k)) - Cardinality(O(k)) =
            Cardinality(I(k - 1)) - Cardinality(O(k - 1)) + 1
      BY <1>3, <2>3, <2>5
    <2> QED
      BY <2>4, <2>6 DEF I, O
  <1>5. CASE \E i \in 1..n : place[k] = n + i
    <2>0. PICK i \in 1..n : place[k] = n + i
      BY <1>5
    <2>1. O(k) = O(k - 1) \cup {i}
      <3>1. \A x \in 1..n : place[k] = n + x <=> x = i
        BY <2>0
      <3> QED
        BY <1>2, <2>0, <3>1 DEF Outs
    <2>2. i \notin O(k - 1)
      BY <1>1, <2>0 DEF Outs
    <2>3. I(k) = I(k - 1)
      <3>1. \A x \in 1..n : place[k] # x
        BY <2>0
      <3> QED
        BY <1>2, <3>1 DEF Ins
    <2>4. Marks(T, n)[place[k]].d = -1
      <3>1. ~(place[k] <= n)
        BY <2>0
      <3> QED
        BY <1>1, <3>1, ExitMark
    <2> HIDE DEF I, O
    <2>5. Cardinality(O(k)) = Cardinality(O(k - 1)) + 1
      BY <1>3, <2>1, <2>2, FS_AddElement
    <2>6. Cardinality(I(k)) - Cardinality(O(k)) =
            Cardinality(I(k - 1)) - Cardinality(O(k - 1)) + (-1)
      BY <1>3, <2>3, <2>5
    <2> QED
      BY <2>4, <2>6 DEF I, O
  <1>6. place[k] \in 1..n \/ \E i \in 1..n : place[k] = n + i
    BY <1>1, MarkHalves
  <1> QED
    BY <1>4, <1>5, <1>6

\* The walk counts those that have entered and not left.
LEMMA WalkCounts ==
    ASSUME NEW n \in Nat, NEW T, Timed(T, n), NEW place, SortsMarks(place, T, n),
           NEW cur, cur[0] = 0,
           \A k \in 1..(n + n) : cur[k] = cur[k - 1] + Marks(T, n)[place[k]].d
    PROVE  \A k \in 0..(n + n) :
             cur[k] = Cardinality(Ins(place, n, k)) - Cardinality(Outs(place, n, k))
  <1> DEFINE P == [k \in 0..(n + n) |->
                     cur[k] = Cardinality(Ins(place, n, k))
                                - Cardinality(Outs(place, n, k))]
  <1>1. P[0]
    <2>1. Ins(place, n, 0) = {} /\ Outs(place, n, 0) = {}
      BY DEF Ins, Outs
    <2>2. Cardinality({}) = 0
      BY FS_EmptySet
    <2>3. 0 \in 0..(n + n) /\ 0 - 0 = 0
      OBVIOUS
    <2> QED
      BY <2>1, <2>2, <2>3
  <1>2. ASSUME NEW k \in 1..(n + n), P[k - 1] PROVE P[k]
    <2>1. k - 1 \in 0..(n + n) /\ k \in 0..(n + n)
      OBVIOUS
    <2>2. cur[k - 1] = Cardinality(Ins(place, n, k - 1))
                         - Cardinality(Outs(place, n, k - 1))
      BY <1>2, <2>1
    <2>3. cur[k] = cur[k - 1] + Marks(T, n)[place[k]].d
      OBVIOUS
    <2>4. cur[k] = Cardinality(Ins(place, n, k)) - Cardinality(Outs(place, n, k))
      BY <2>2, <2>3, MarkCounts
    <2> QED
      BY <2>1, <2>4
  <1>3. \A k \in 0..(n + n) : P[k]
    <2>1. n + n \in Nat
      OBVIOUS
    <2> HIDE DEF P
    <2> QED
      BY <1>1, <1>2, <2>1, Upwards
  <1> QED
    BY <1>3

\* Who is open has entered and not left.
LEMMA OpenCount ==
    ASSUME NEW n \in Nat, NEW T, Timed(T, n), NEW t \in Int
    PROVE  /\ IsFiniteSet(Entered(T, n, t)) /\ IsFiniteSet(Left(T, n, t))
           /\ IsFiniteSet(OpenAt(T, n, t))
           /\ Cardinality(Entered(T, n, t)) \in Nat /\ Cardinality(Left(T, n, t)) \in Nat
           /\ Cardinality(OpenAt(T, n, t)) =
                Cardinality(Entered(T, n, t)) - Cardinality(Left(T, n, t))
  <1> DEFINE E == Entered(T, n, t)
             L == Left(T, n, t)
  <1>1. IsFiniteSet(1..n)
    BY FS_Interval
  <1>2. E \in SUBSET (1..n) /\ L \in SUBSET (1..n) /\ OpenAt(T, n, t) \in SUBSET (1..n)
    BY DEF Entered, Left, OpenAt
  <1>3. IsFiniteSet(E) /\ IsFiniteSet(L) /\ IsFiniteSet(OpenAt(T, n, t))
    BY <1>1, <1>2, FS_Subset
  <1>4. \A i \in 1..n : /\ T[i].entry \in Int /\ T[i].exit \in Int
                        /\ T[i].entry =< T[i].exit
    BY DEF Timed
  <1>5. E \cap L = L
    BY <1>4 DEF Entered, Left
  <1>6. OpenAt(T, n, t) = E \ L
    BY <1>4 DEF Entered, Left, OpenAt
  <1> HIDE DEF E, L
  <1>7. Cardinality(OpenAt(T, n, t)) = Cardinality(E) - Cardinality(L)
    BY <1>3, <1>5, <1>6, FS_Difference
  <1> QED
    BY <1>3, <1>7, FS_CardinalityType DEF E, L

\* At an entry no more are counted than are open.
LEMMA EntryWithin ==
    ASSUME NEW n \in Nat, NEW T, Timed(T, n), NEW place, SortsMarks(place, T, n),
           NEW k \in 1..(n + n), NEW i \in 1..n, place[k] = i
    PROVE  Cardinality(Ins(place, n, k)) - Cardinality(Outs(place, n, k))
             =< Cardinality(OpenAt(T, n, T[i].entry))
  <1> DEFINE t == T[i].entry
             key == MarkKey(T, n)
  <1>1. t \in Int /\ key[place[k]] = 3 * t + 1
    BY MarksAre DEF Timed
  <1>2. \A j \in 1..n : /\ T[j].entry \in Int /\ T[j].exit \in Int
                        /\ key[j] = 3 * T[j].entry + 1
                        /\ n + j \in 1..(n + n) /\ key[n + j] = 3 * T[j].exit - 1
    <2>1. \A j \in 1..n : T[j].entry \in Int /\ T[j].exit \in Int
      BY DEF Timed
    <2>2. \A j \in 1..n : /\ key[j] = 3 * T[j].entry + 1
                          /\ n + j \in 1..(n + n) /\ key[n + j] = 3 * T[j].exit - 1
      BY MarksAre
    <2> HIDE DEF key
    <2> QED
      BY <2>1, <2>2
  <1>3. \A p \in 1..(n + n) : /\ p < k => key[place[p]] =< key[place[k]]
                              /\ k < p => key[place[k]] =< key[place[p]]
    BY DEF SortsMarks
  <1> HIDE DEF t, key
  <1>4. ASSUME NEW j \in Ins(place, n, k) PROVE j \in Entered(T, n, t)
    <2>1. PICK p \in 1..k : place[p] = j
      BY DEF Ins
    <2>2. p \in 1..(n + n) /\ (p < k \/ p = k) /\ j \in 1..n
      BY DEF Ins
    <2>3. key[j] =< key[place[k]] \/ key[j] = key[place[k]]
      BY <1>3, <2>1, <2>2
    <2>4. 3 * T[j].entry + 1 =< 3 * t + 1
      BY <1>1, <1>2, <2>2, <2>3
    <2>5. T[j].entry \in Int
      BY <1>2, <2>2
    <2> QED
      BY <1>1, <2>2, <2>4, <2>5 DEF Entered
  <1>5. ASSUME NEW j \in Left(T, n, t) PROVE j \in Outs(place, n, k)
    <2>1. j \in 1..n /\ T[j].exit =< t
      BY DEF Left
    <2>2. PICK p \in 1..(n + n) : place[p] = n + j
      BY <1>2, <2>1 DEF SortsMarks
    <2>3. ~(key[place[k]] =< key[place[p]])
      BY <1>1, <1>2, <2>1, <2>2
    <2>4. p # k
      BY <2>1, <2>2
    <2>5. p \in 1..k
      BY <1>3, <2>3, <2>4
    <2> QED
      BY <2>1, <2>2, <2>5 DEF Outs
  <1>6. /\ Ins(place, n, k) \in SUBSET Entered(T, n, t)
        /\ Left(T, n, t) \in SUBSET Outs(place, n, k)
    BY <1>4, <1>5
  <1>7. /\ IsFiniteSet(Entered(T, n, t))
        /\ Cardinality(Entered(T, n, t)) \in Nat /\ Cardinality(Left(T, n, t)) \in Nat
        /\ Cardinality(OpenAt(T, n, t)) =
             Cardinality(Entered(T, n, t)) - Cardinality(Left(T, n, t))
    BY <1>1, OpenCount
  <1>8. /\ IsFiniteSet(Outs(place, n, k)) /\ Cardinality(Ins(place, n, k)) \in Nat
        /\ Cardinality(Outs(place, n, k)) \in Nat
    BY InsOutsFinite
  <1>9. /\ Cardinality(Ins(place, n, k)) <= Cardinality(Entered(T, n, t))
        /\ Cardinality(Left(T, n, t)) <= Cardinality(Outs(place, n, k))
    BY <1>6, <1>7, <1>8, FS_Subset
  <1>10. Cardinality(Ins(place, n, k)) - Cardinality(Outs(place, n, k))
           =< Cardinality(OpenAt(T, n, t))
    BY <1>7, <1>8, <1>9
  <1> QED
    BY <1>10 DEF t

\* After the last mark of a time of entry, those open then are counted.
LEMMA EntryReached ==
    ASSUME NEW n \in Nat, NEW T, Timed(T, n), NEW place, SortsMarks(place, T, n),
           NEW i \in 1..n
    PROVE  \E k \in 1..(n + n) :
             Cardinality(Ins(place, n, k)) - Cardinality(Outs(place, n, k))
               = Cardinality(OpenAt(T, n, T[i].entry))
  <1> DEFINE t == T[i].entry
             key == MarkKey(T, n)
             K == {p \in 1..(n + n) : key[place[p]] =< 3 * t + 1}
  <1>1. t \in Int
    BY DEF Timed
  <1>2. \A j \in 1..n : /\ T[j].entry \in Int /\ T[j].exit \in Int
                        /\ key[j] = 3 * T[j].entry + 1
                        /\ n + j \in 1..(n + n) /\ key[n + j] = 3 * T[j].exit - 1
                        /\ j \in 1..(n + n)
    <2>1. \A j \in 1..n : T[j].entry \in Int /\ T[j].exit \in Int
      BY DEF Timed
    <2>2. \A j \in 1..n : /\ key[j] = 3 * T[j].entry + 1
                          /\ n + j \in 1..(n + n) /\ key[n + j] = 3 * T[j].exit - 1
      BY MarksAre
    <2>3. \A j \in 1..n : j \in 1..(n + n)
      OBVIOUS
    <2> HIDE DEF key
    <2> QED
      BY <2>1, <2>2, <2>3
  <1>3. \A p, q \in 1..(n + n) : p < q => key[place[p]] =< key[place[q]]
    BY DEF SortsMarks
  <1>4. \A p \in 1..(n + n) : key[place[p]] \in Int
    BY MarksAre DEF SortsMarks
  <1> HIDE DEF key
  <1>5. PICK p0 \in 1..(n + n) : place[p0] = i
    BY <1>2 DEF SortsMarks
  <1>6. p0 \in K
    <2>1. key[place[p0]] = 3 * t + 1
      BY <1>2, <1>5
    <2> HIDE DEF t
    <2> QED
      BY <1>1, <2>1
  <1>7. IsFiniteSet(K) /\ K \subseteq Int
    <2>1. IsFiniteSet(1..(n + n)) /\ K \in SUBSET (1..(n + n))
      BY FS_Interval
    <2>2. IsFiniteSet(K)
      BY <2>1, FS_Subset
    <2> QED
      BY <2>1, <2>2
  <1> HIDE DEF t
  <1>8. PICK k \in K : \A p \in K : k >= p
    <2> HIDE DEF K
    <2> QED
      BY <1>6, <1>7, MaxIsLargest
  <1>9. k \in 1..(n + n) /\ \A p \in 1..(n + n) : p \in 1..k <=> key[place[p]] =< 3 * t + 1
    <2>1. k \in 1..(n + n) /\ key[place[k]] =< 3 * t + 1
      OBVIOUS
    <2>2. ASSUME NEW p \in 1..(n + n), p \in 1..k PROVE key[place[p]] =< 3 * t + 1
      <3>1. p = k \/ key[place[p]] =< key[place[k]]
        BY <1>3, <2>1, <2>2
      <3>2. key[place[p]] \in Int /\ key[place[k]] \in Int
        BY <1>4, <2>1
      <3> QED
        BY <1>1, <2>1, <3>1, <3>2
    <2>3. ASSUME NEW p \in 1..(n + n), key[place[p]] =< 3 * t + 1 PROVE p \in 1..k
      <3>1. p \in K
        BY <2>3
      <3>2. k >= p
        BY <1>8, <3>1
      <3> QED
        BY <2>1, <3>2
    <2> QED
      BY <2>1, <2>2, <2>3
  <1>10. ASSUME NEW j \in 1..n
         PROVE  /\ j \in Ins(place, n, k) <=> j \in Entered(T, n, t)
                /\ j \in Outs(place, n, k) <=> j \in Left(T, n, t)
    <2>1. PICK p \in 1..(n + n) : place[p] = j
      BY <1>2 DEF SortsMarks
    <2>2. PICK q \in 1..(n + n) : place[q] = n + j
      BY <1>2 DEF SortsMarks
    <2>3. \A x \in 1..k : x \in 1..(n + n)
      BY <1>9
    <2>4. \A x \in 1..(n + n) : /\ place[x] = j => x = p
                                /\ place[x] = n + j => x = q
      BY <2>1, <2>2 DEF SortsMarks
    <2>5. /\ j \in Ins(place, n, k) <=> p \in 1..k
          /\ j \in Outs(place, n, k) <=> q \in 1..k
      BY <2>1, <2>2, <2>3, <2>4 DEF Ins, Outs
    <2>6. p \in 1..k <=> 3 * T[j].entry + 1 =< 3 * t + 1
      BY <1>2, <1>9, <2>1
    <2>7. q \in 1..k <=> 3 * T[j].exit - 1 =< 3 * t + 1
      BY <1>2, <1>9, <2>2
    <2>8. T[j].entry \in Int /\ T[j].exit \in Int
      BY <1>2
    <2>9. PICK x \in Int, y \in Int, z \in Int :
            x = T[j].entry /\ y = T[j].exit /\ z = t
      BY <1>1, <2>8
    <2>10. /\ 3 * x + 1 =< 3 * z + 1 <=> x =< z
           /\ 3 * y - 1 =< 3 * z + 1 <=> y =< z
      OBVIOUS
    <2> QED
      BY <2>5, <2>6, <2>7, <2>9, <2>10 DEF Entered, Left
  <1>11. Ins(place, n, k) = Entered(T, n, t) /\ Outs(place, n, k) = Left(T, n, t)
    <2>1. /\ \A j \in Ins(place, n, k) : j \in 1..n
          /\ \A j \in Outs(place, n, k) : j \in 1..n
          /\ \A j \in Entered(T, n, t) : j \in 1..n
          /\ \A j \in Left(T, n, t) : j \in 1..n
      BY DEF Ins, Outs, Entered, Left
    <2> QED
      BY <1>10, <2>1
  <1>12. Cardinality(Ins(place, n, k)) - Cardinality(Outs(place, n, k))
           = Cardinality(OpenAt(T, n, t))
    BY <1>1, <1>11, OpenCount
  <1> QED
    BY <1>9, <1>12 DEF t

\* The trades listed, and those of them that are open at one time.
LEMMA ListedOpen ==
    ASSUME NEW S, IsFiniteSet(S), NEW T, Enumerates(T, S), NEW t
    PROVE  Cardinality({u \in S : u.entry <= t /\ t < u.exit})
             = Cardinality(OpenAt(T, Cardinality(S), t))
  <1> DEFINE n == Cardinality(S)
             O == OpenAt(T, n, t)
             f == [i \in O |-> T[i]]
  <1>1. /\ n \in Nat /\ DOMAIN T = 1..n /\ \A i \in 1..n : T[i] \in S
        /\ \A x \in S : \E i \in 1..n : T[i] = x
        /\ \A i, j \in 1..n : i # j => T[i] # T[j]
    BY FS_CardinalityType DEF Enumerates
  <1> HIDE DEF n
  <1>2. O \in SUBSET (1..n) /\ \A i \in 1..n :
          i \in O <=> T[i].entry <= t /\ t < T[i].exit
    BY DEF OpenAt
  <1>3. IsFiniteSet(O)
    <2>1. IsFiniteSet(1..n)
      BY <1>1, FS_Interval
    <2> QED
      BY <1>2, <2>1, FS_Subset
  <1>4. \A x, y \in O : f[x] = f[y] => x = y
    BY <1>1, <1>2
  <1>5. {f[i] : i \in O} = {u \in S : u.entry <= t /\ t < u.exit}
    BY <1>1, <1>2
  <1>6. Cardinality({f[i] : i \in O}) = Cardinality(O)
    <2> HIDE DEF O
    <2> QED
      BY <1>3, <1>4, AsManyImages
  <1> QED
    BY <1>5, <1>6 DEF n

\* No trade ends before it begins.
LEMMA TradesTimed ==
    ASSUME Kept
    PROVE  /\ IsFiniteSet(AllTrades)
           /\ \A t \in AllTrades : /\ t.entry \in Int /\ t.exit \in Int
                                   /\ t.entry =< t.exit
  <1>1. IsFiniteSet(AllTrades)
    BY TradesApart
  <1>2. ASSUME NEW t \in AllTrades
        PROVE  t.entry \in Int /\ t.exit \in Int /\ t.entry =< t.exit
    <2>1. PICK s \in DOMAIN clock : t \in trades[s]
      BY DEF AllTrades, Paper!Sleeves
    <2>2. Sleeve(s, trades[s], clock[s], entered[s])
      BY DEF Kept
    <2>3. t \in TradeType /\ (t.exit = t.entry \/ t.entry < t.exit)
      BY <2>1, <2>2 DEF Sleeve
    <2>4. t.entry \in Int /\ t.exit \in Int
      BY <2>3 DEF TradeType
    <2> QED
      BY <2>3, <2>4
  <1> QED
    BY <1>1, <1>2

\* The largest number on the walk is the largest number open at an entry.
LEMMA WalkIsPeak ==
    ASSUME NEW n \in Nat, NEW T, Timed(T, n), NEW M \in Nat,
           \A i \in 1..n : Cardinality(OpenAt(T, n, T[i].entry)) =< M,
           M = 0 \/ \E i \in 1..n : M = Cardinality(OpenAt(T, n, T[i].entry))
    PROVE  Paper!MaxConcurrency(T) = M
  <1> DEFINE m == n + n
  <1>1. m \in Nat
    OBVIOUS
  <1>2. PICK place : /\ SortsMarks(place, T, n)
                     /\ SortedEvents(T) = [k \in 1..m |-> Marks(T, n)[place[k]]]
    BY EventsSorted
  <1> DEFINE S == [k \in 1..m |-> Marks(T, n)[place[k]]]
  <1>3. \A k \in 1..m : /\ place[k] \in 1..m /\ S[k] = Marks(T, n)[place[k]]
                        /\ S[k].d \in {1, -1} /\ S[k].d \in Int
    <2>1. \A k \in 1..m : place[k] \in 1..m
      BY <1>2 DEF SortsMarks
    <2>2. \A i \in 1..m : Marks(T, n)[i].d \in {1, -1}
      BY MarksAre
    <2> HIDE DEF m
    <2> QED
      BY <2>1, <2>2
  <1>4. DOMAIN S = 1..m
    OBVIOUS
  <1>5. Paper!MaxConcurrency(T) = WalkEnd(S).mx
    BY <1>2, ConcurrencyWalks
  <1>6. \A j \in 1..n : Marks(T, n)[n + j].d # 1
    <2> SUFFICES ASSUME NEW j \in 1..n PROVE Marks(T, n)[n + j].d # 1
      OBVIOUS
    <2>1. n + j \in 1..(n + n) /\ ~(n + j <= n)
      OBVIOUS
    <2>2. Marks(T, n)[n + j].d = -1
      BY <2>1, ExitMark
    <2> QED
      BY <2>2
  <1> HIDE DEF S, m
  <1>7. PICK a : Walks(a, m, S) /\ WalkEnd(S) = a[m]
    BY <1>1, <1>3, <1>4, WalkIs
  <1>8. /\ \A k \in 0..m : a[k].cur \in Int
        /\ a[0].cur = 0 /\ \A k \in 1..m : a[k].cur = a[k - 1].cur + S[k].d
        /\ \A k \in 0..m : a[k].cur =< a[m].mx
        /\ \E k \in 0..m : a[m].mx = a[k].cur
    BY <1>1, <1>3, <1>7, WalkPeak
  <1> DEFINE cur == [k \in 0..m |-> a[k].cur]
  <1>9. /\ cur[0] = 0
        /\ \A k \in 1..m : cur[k] = cur[k - 1] + Marks(T, n)[place[k]].d
    <2>1. 0 \in 0..m /\ \A k \in 1..m : k \in 0..m /\ k - 1 \in 0..m
      BY <1>1
    <2> QED
      BY <1>3, <1>8, <2>1
  <1>10. \A k \in 0..m : a[k].cur =
          Cardinality(Ins(place, n, k)) - Cardinality(Outs(place, n, k))
    <2>1. \A k \in 0..m : cur[k] = a[k].cur
      OBVIOUS
    <2> HIDE DEF cur
    <2>2. \A k \in 0..m :
            cur[k] = Cardinality(Ins(place, n, k)) - Cardinality(Outs(place, n, k))
      BY <1>2, <1>9, WalkCounts DEF m
    <2> QED
      BY <2>1, <2>2
  <1>11. \A k \in 0..m : a[k].cur =< M
    <2> DEFINE P == [k \in 0..m |-> a[k].cur =< M]
    <2>1. P[0]
      <3>1. 0 \in 0..m /\ a[0].cur =< M
        BY <1>1, <1>8
      <3> QED
        BY <3>1
    <2>2. ASSUME NEW k \in 1..m, P[k - 1] PROVE P[k]
      <3>1. k \in 0..m /\ k - 1 \in 0..m
        BY <1>1
      <3>2. a[k - 1].cur =< M /\ a[k - 1].cur \in Int /\ a[k].cur \in Int
        BY <1>8, <2>2, <3>1
      <3>3. a[k].cur = a[k - 1].cur + S[k].d
        BY <1>8
      <3>4. CASE S[k].d = -1
        <4>1. a[k].cur =< M
          BY <3>2, <3>3, <3>4
        <4> QED
          BY <3>1, <4>1
      <3>5. CASE S[k].d = 1
        <4>1. place[k] \in 1..m /\ Marks(T, n)[place[k]].d = 1
          BY <1>3, <3>5
        <4>2. place[k] \in 1..n
          <5>1. place[k] \in 1..n \/ \E j \in 1..n : place[k] = n + j
            BY <4>1, MarkHalves DEF m
          <5> QED
            BY <1>6, <4>1, <5>1
        <4>3. Cardinality(Ins(place, n, k)) - Cardinality(Outs(place, n, k))
                =< Cardinality(OpenAt(T, n, T[place[k]].entry))
          BY <1>2, <4>2, EntryWithin DEF m
        <4>4. Cardinality(OpenAt(T, n, T[place[k]].entry)) =< M
          BY <4>2
        <4>5. Cardinality(OpenAt(T, n, T[place[k]].entry)) \in Int
          <5>1. T[place[k]].entry \in Int
            BY <4>2 DEF Timed
          <5>2. IsFiniteSet(OpenAt(T, n, T[place[k]].entry))
            BY <5>1, OpenCount
          <5> QED
            BY <5>2, FS_CardinalityType
        <4>6. a[k].cur =< Cardinality(OpenAt(T, n, T[place[k]].entry))
          BY <1>10, <3>1, <4>3
        <4>7. a[k].cur =< M
          BY <3>2, <4>4, <4>5, <4>6
        <4> QED
          BY <3>1, <4>7
      <3> QED
        BY <1>3, <3>4, <3>5
    <2> HIDE DEF P
    <2>3. \A k \in 0..m : P[k]
      BY <1>1, <2>1, <2>2, Upwards
    <2> QED
      BY <2>3 DEF P
  <1>12. a[m].mx =< M
    BY <1>8, <1>11
  <1>13. M =< a[m].mx
    <2>1. CASE M = 0
      <3>1. 0 \in 0..m
        BY <1>1
      <3> QED
        BY <1>8, <2>1, <3>1
    <2>2. CASE \E i \in 1..n : M = Cardinality(OpenAt(T, n, T[i].entry))
      <3>1. PICK i \in 1..n : M = Cardinality(OpenAt(T, n, T[i].entry))
        BY <2>2
      <3>2. PICK k \in 1..m :
              Cardinality(Ins(place, n, k)) - Cardinality(Outs(place, n, k)) = M
        BY <1>2, <3>1, EntryReached DEF m
      <3>3. k \in 0..m
        BY <1>1
      <3> QED
        BY <1>8, <1>10, <3>2, <3>3
    <2> QED
      BY <2>1, <2>2
  <1>14. a[m].mx \in Int
    BY <1>8
  <1>15. a[m].mx = M
    BY <1>12, <1>13, <1>14
  <1> QED
    BY <1>5, <1>7, <1>15

\* What the report prints follows from what the engines can have made.
LEMMA ConcurrencyPeaks == Kept => ConcurrencyIsPeak
  <1> SUFFICES ASSUME Kept PROVE ConcurrencyIsPeak
    OBVIOUS
  <1> DEFINE A == AllTrades
             n == Cardinality(A)
             T == BySooner(A)
             Open(t) == {u \in A : u.entry <= t /\ t < u.exit}
             C == {Cardinality(Open(u.entry)) : u \in A}
             M == Max({0} \cup C)
  <1>1. /\ IsFiniteSet(A)
        /\ \A t \in A : t.entry \in Int /\ t.exit \in Int /\ t.entry =< t.exit
    BY TradesTimed
  <1>2. Enumerates(T, A) /\ n \in Nat
    <2>1. A \subseteq TradeType /\ Apart(A)
      BY TradesApart
    <2> HIDE DEF A
    <2> QED
      BY <1>1, <2>1, InOrderLists, FS_CardinalityType
  <1>3. /\ DOMAIN T = 1..n /\ \A i \in 1..n : T[i] \in A
        /\ \A x \in A : \E i \in 1..n : T[i] = x
    BY <1>2 DEF Enumerates
  <1> HIDE DEF A, T
  <1>4. Timed(T, n)
    BY <1>1, <1>3 DEF Timed
  <1>5. \A u \in A : Cardinality(Open(u.entry)) = Cardinality(OpenAt(T, n, u.entry))
    BY <1>1, <1>2, ListedOpen
  <1>6. IsFiniteSet(C) /\ \A c \in C : c \in Nat
    <2> DEFINE f == [u \in A |-> Cardinality(Open(u.entry))]
    <2>1. C = {f[u] : u \in A}
      OBVIOUS
    <2>2. \A u \in A : Cardinality(Open(u.entry)) \in Nat
      <3> SUFFICES ASSUME NEW u \in A PROVE Cardinality(Open(u.entry)) \in Nat
        OBVIOUS
      <3>1. Open(u.entry) \in SUBSET A
        OBVIOUS
      <3>2. IsFiniteSet(Open(u.entry))
        BY <1>1, <3>1, FS_Subset
      <3> QED
        BY <3>2, FS_CardinalityType
    <2> HIDE DEF f
    <2>3. IsFiniteSet(C)
      BY <1>1, <2>1, ImageFinite
    <2> QED
      BY <2>2, <2>3
  <1> HIDE DEF Open, n
  <1>7. /\ M \in {0} \cup C /\ \A x \in {0} \cup C : M >= x
    <2>1. IsFiniteSet({0} \cup C) /\ {0} \cup C \subseteq Int /\ {0} \cup C # {}
      <3>1. IsFiniteSet({0})
        BY FS_Singleton
      <3>2. IsFiniteSet({0} \cup C)
        BY <1>6, <3>1, FS_Union
      <3> QED
        BY <1>6, <3>2
    <2> HIDE DEF C
    <2> QED
      BY <2>1, MaxIsLargest
  <1>8. M \in Nat
    BY <1>6, <1>7
  <1>9. \A i \in 1..n : Cardinality(OpenAt(T, n, T[i].entry)) =< M
    <2> SUFFICES ASSUME NEW i \in 1..n
                 PROVE  Cardinality(OpenAt(T, n, T[i].entry)) =< M
      OBVIOUS
    <2>1. Cardinality(Open(T[i].entry)) \in C
          /\ Cardinality(Open(T[i].entry)) = Cardinality(OpenAt(T, n, T[i].entry))
      BY <1>3, <1>5
    <2> HIDE DEF C, M
    <2> QED
      BY <1>6, <1>7, <1>8, <2>1
  <1>10. M = 0 \/ \E i \in 1..n : M = Cardinality(OpenAt(T, n, T[i].entry))
    <2>1. CASE M \in C
      <3>1. PICK u \in A : M = Cardinality(Open(u.entry))
        BY <2>1
      <3>2. PICK i \in 1..n : T[i] = u
        BY <1>3
      <3> QED
        BY <1>5, <3>1, <3>2
    <2> HIDE DEF C, M
    <2> QED
      BY <1>7, <2>1
  <1> HIDE DEF M, C
  <1>11. Paper!MaxConcurrency(T) = M
    BY <1>2, <1>4, <1>8, <1>9, <1>10, WalkIsPeak
  <1> QED
    BY <1>11 DEF ConcurrencyIsPeak, BySooner, A, T, M, C, Open

\* The concurrency of the aggregate report is the largest number of positions
\* open between two bars, for any trades of any sleeves.
THEOREM ConcurrencyFollowsTrades == Spec => []ConcurrencyIsPeak
  <1>1. FilesInv => ConcurrencyIsPeak
    BY ConcurrencyPeaks DEF FilesInv
  <1> QED
    BY <1>1, FilesInitInv, FilesStepInv, PTL DEF Spec
=============================================================================
