----------------------------- MODULE FeedProofs -----------------------------
(***************************************************************************)
(* Theorems about the consumers of a stream of bars, for any bars, gaps,   *)
(* windows, thresholds and draws.                                          *)
(*                                                                         *)
(* The shock engine looks forward from an event over all bars there are.   *)
(* That one more bar changes nothing it has decided rests on two facts: an *)
(* entry is the first bar of a wait that meets a condition on that bar     *)
(* alone, and whether a bar ends a trade is read off the bars up to it.    *)
(*                                                                         *)
(* The bars of a timeframe are read in three ways: row by row into a table *)
(* (resample), sub-bar by sub-bar into the one in progress (the            *)
(* aggregators), and as first, largest, least, last and sum of a set of    *)
(* lines (OhlcOf), with which the other two are compared.                  *)
(***************************************************************************)
EXTENDS FeedProperties, FoldTheorems, SequenceTheorems

(* The assumption, in the parts the arithmetic needs.                        *)
LEMMA FeedConstants ==
    /\ DayLen \in Nat \ {0} /\ GuardAt \in Nat
    /\ WindowLen \in Nat /\ Cooldown \in Nat
    /\ Thresholds \subseteq Nat \ {0} /\ Baselines \subseteq Nat
    /\ VolMultiple \in Nat \ {0}
    /\ PullbackLen \in Nat /\ BreakFrom \in Nat /\ BreakLen \in Nat
    /\ TwoTicks \in Nat /\ SwingLen \in Nat \ {0} /\ ScratchAfter \in Nat
    /\ Friction \in Nat /\ HorizonBars \in Nat \ {0} /\ DriftFriction \in Nat
    /\ Horizon \in [Programs -> Nat]
    /\ \A p \in Programs : \A s \in Shapes[p] : IsShape(s)
  <1>1. /\ {AsiaEnd, LondonEnd, AmEnd, PmEnd, DayLen} \subseteq Nat
        /\ 0 < AsiaEnd /\ AsiaEnd < LondonEnd /\ LondonEnd < AmEnd
        /\ AmEnd < PmEnd /\ PmEnd < DayLen
    BY FeedAssumption DEF FeedAssumption
  <1>2. DayLen \in Nat \ {0}
    BY <1>1
  <1>3. {PullbackLen, BreakFrom, BreakLen, TwoTicks, ScratchAfter} \subseteq Nat
    BY FeedAssumption DEF FeedAssumption
  <1> QED
    BY <1>2, <1>3, FeedAssumption DEF FeedAssumption
-----------------------------------------------------------------------------
(* The first of a set of indices, and the ends of a set of prices. *)

LEMMA SameEnds ==
    \A S : /\ Shock!Min(S) = Min(S) /\ Shock!Max(S) = Max(S)
           /\ Det!Min(S) = Min(S) /\ Det!Max(S) = Max(S)
  BY DEF Shock!Min, Det!Min, Min, Shock!Max, Det!Max, Max

LEMMA FirstOf ==
    ASSUME NEW n \in Nat, NEW I \in SUBSET (1..n), I # {}
    PROVE  /\ Shock!Min(I) \in I /\ Shock!Min(I) \in 1..n
           /\ \A x \in I : Shock!Min(I) =< x
  <1>1. IsFiniteSet(I) /\ I \subseteq Int
    <2>1. IsFiniteSet(1..n)
      BY FS_Interval
    <2>2. IsFiniteSet(I)
      BY <2>1, FS_Subset
    <2> QED
      BY <2>2
  <1>2. Min(I) \in I /\ \A x \in I : Min(I) =< x
    BY <1>1, MinIsLeast
  <1>3. Shock!Min(I) = Min(I)
    BY SameEnds
  <1> HIDE DEF Shock!Min
  <1> QED
    BY <1>2, <1>3

\* What is first stays first when only later ones are added.
LEMMA FirstStays ==
    ASSUME NEW n \in Nat, NEW J \in SUBSET (1..n), NEW I \in SUBSET J, I # {},
           \A y \in J \ I : \A x \in I : x =< y
    PROVE  Shock!Min(J) = Shock!Min(I)
  <1> DEFINE i == Shock!Min(I)
             j == Shock!Min(J)
  <1>1. i \in I /\ i \in 1..n /\ \A x \in I : i =< x
    BY FirstOf
  <1>2. j \in J /\ j \in 1..n /\ \A x \in J : j =< x
    BY FirstOf
  <1> HIDE DEF i, j
  <1>3. i =< j
    BY <1>1, <1>2
  <1>4. j =< i
    BY <1>1, <1>2
  <1>5. i = j
    BY <1>1, <1>2, <1>3, <1>4
  <1> QED
    BY <1>5 DEF i, j
-----------------------------------------------------------------------------
(* One more bar. *)

\* t is s with a bar after its last.
OneMore(s, t) ==
    /\ Len(s) \in Nat /\ DOMAIN s = 1..Len(s)
    /\ Len(t) = Len(s) + 1 /\ DOMAIN t = 1..Len(t)
    /\ \A i \in DOMAIN s : t[i] = s[i]

LEMMA AppendIsOneMore ==
    ASSUME NEW X, NEW s \in Seq(X), NEW x \in X
    PROVE  OneMore(s, Append(s, x))
  BY DEF OneMore

InOrderOfTime(s) ==
    \A i, j \in DOMAIN s : /\ s[i].ts \in Int
                           /\ i < j => s[i].ts < s[j].ts

\* What a scheme made of a wait, and what it makes of it with one more bar.
EntryStays(en, more, s) ==
    /\ en = Shock!NoEntry \/ en.i \in DOMAIN s
    /\ more = en \/ (en = Shock!NoEntry /\ more.i = Len(s) + 1)

LEMMA E1Stays ==
    ASSUME NEW s, NEW t, OneMore(s, t), NEW it \in DOMAIN s, NEW e
    PROVE  EntryStays(Shock!EntryE1(s, it, e), Shock!EntryE1(t, it, e), s)
  <1>1. CASE it < Len(s)
    <2>1. it + 1 \in DOMAIN s /\ it < Len(t) /\ t[it + 1] = s[it + 1]
      BY <1>1 DEF OneMore
    <2> QED
      BY <1>1, <2>1 DEF EntryStays, Shock!EntryE1
  <1>2. CASE ~(it < Len(s))
    <2>1. it = Len(s) /\ it < Len(t)
      BY <1>2 DEF OneMore
    <2> QED
      BY <1>2, <2>1 DEF EntryStays, Shock!EntryE1
  <1> QED
    BY <1>1, <1>2

\* A wait that ends with the bars has one more bar to see, or is over.
LEMMA WaitGrows ==
    ASSUME NEW n \in Nat, NEW a \in Nat \ {0}, NEW b \in Int
    PROVE  LET w == a..Shock!Least(b, n)
               v == a..Shock!Least(b, n + 1)
           IN /\ w \subseteq 1..n /\ w \subseteq v /\ v \subseteq w \cup {n + 1}
              /\ v \subseteq 1..(n + 1)
  BY DEF Shock!Least

LEMMA E2Stays ==
    ASSUME NEW s, NEW t, OneMore(s, t), NEW it \in DOMAIN s, NEW e
    PROVE  EntryStays(Shock!EntryE2(s, it, e), Shock!EntryE2(t, it, e), s)
  <1> DEFINE n == Len(s)
             d == e.dir
             fill == e.extreme - d * ((3 * e.range) \div 10)
             Breaks(x) == Shock!Far(x, d) > d * e.extreme
             Pulls(x) == Shock!Near(x, d) <= d * fill
             w == (it + 1)..Shock!Least(it + PullbackLen, n)
             v == (it + 1)..Shock!Least(it + PullbackLen, n + 1)
             bw == {j \in w : Breaks(s[j])}
             bv == {j \in v : Breaks(t[j])}
             pw == {j \in w : Pulls(s[j])}
             pv == {j \in v : Pulls(t[j])}
  <1>1. /\ n \in Nat /\ DOMAIN s = 1..n /\ Len(t) = n + 1
        /\ \A i \in 1..n : t[i] = s[i]
    BY DEF OneMore
  <1>2. /\ Shock!EntryE2(s, it, e) =
             IF pw = {} \/ (\E j \in bw : j <= Shock!Min(pw))
             THEN Shock!NoEntry ELSE [i |-> Shock!Min(pw), px |-> fill]
        /\ Shock!EntryE2(t, it, e) =
             IF pv = {} \/ (\E j \in bv : j <= Shock!Min(pv))
             THEN Shock!NoEntry ELSE [i |-> Shock!Min(pv), px |-> fill]
    BY <1>1 DEF Shock!EntryE2
  <1> HIDE DEF n, fill, Breaks, Pulls
  <1>3. /\ w \subseteq 1..n /\ w \subseteq v /\ v \subseteq w \cup {n + 1}
        /\ v \subseteq 1..(n + 1)
    <2>1. it + 1 \in Nat \ {0} /\ it + PullbackLen \in Int
      BY <1>1, FeedConstants
    <2> QED
      BY <1>1, <2>1, WaitGrows
  <1> HIDE DEF w, v
  <1>4. /\ pw \subseteq pv /\ bw \subseteq bv
        /\ pv \subseteq pw \cup {n + 1} /\ bv \subseteq bw \cup {n + 1}
        /\ pw \in SUBSET (1..n) /\ pv \in SUBSET (1..(n + 1))
        /\ bw \subseteq 1..n
    BY <1>1, <1>3
  <1> HIDE DEF pw, pv, bw, bv
  <1>5. CASE pw # {}
    <2>1. Shock!Min(pw) \in pw
      BY <1>1, <1>4, <1>5, FirstOf
    <2>2. Shock!Min(pv) = Shock!Min(pw)
      <3>1. \A y \in pv \ pw : \A x \in pw : x =< y
        BY <1>1, <1>4
      <3>2. n + 1 \in Nat /\ pw \in SUBSET pv
        BY <1>1, <1>4
      <3> QED
        BY <1>4, <1>5, <3>1, <3>2, FirstStays
    <2>3. Shock!Min(pw) \in 1..n
      BY <1>1, <1>4, <1>5, FirstOf
    <2>4. (\E j \in bv : j <= Shock!Min(pv)) <=> (\E j \in bw : j <= Shock!Min(pw))
      BY <1>1, <1>4, <2>2, <2>3
    <2>5. pv # {}
      BY <1>4, <1>5
    <2>6. Shock!EntryE2(t, it, e) = Shock!EntryE2(s, it, e)
      BY <1>2, <1>5, <2>2, <2>4, <2>5
    <2>7. \/ Shock!EntryE2(s, it, e) = Shock!NoEntry
          \/ Shock!EntryE2(s, it, e).i = Shock!Min(pw)
      BY <1>2
    <2> QED
      BY <1>1, <2>3, <2>6, <2>7 DEF EntryStays
  <1>6. CASE pw = {}
    <2>1. Shock!EntryE2(s, it, e) = Shock!NoEntry
      BY <1>2, <1>6
    <2>2. CASE Shock!EntryE2(t, it, e) = Shock!NoEntry
      BY <2>1, <2>2 DEF EntryStays
    <2>3. CASE Shock!EntryE2(t, it, e) # Shock!NoEntry
      <3>1. pv # {} /\ Shock!EntryE2(t, it, e).i = Shock!Min(pv)
        BY <1>2, <2>3
      <3>2. Shock!Min(pv) \in pv
        <4>1. n + 1 \in Nat
          BY <1>1
        <4> QED
          BY <1>4, <3>1, <4>1, FirstOf
      <3>3. Shock!Min(pv) = n + 1
        BY <1>4, <1>6, <3>2
      <3> QED
        BY <2>1, <3>1, <3>3 DEF EntryStays, n
    <2> QED
      BY <2>2, <2>3
  <1> QED
    BY <1>5, <1>6

LEMMA E3Stays ==
    ASSUME NEW s, NEW t, OneMore(s, t), NEW it \in DOMAIN s, NEW e
    PROVE  EntryStays(Shock!EntryE3(s, it, e), Shock!EntryE3(t, it, e), s)
  <1> DEFINE n == Len(s)
             trig == e.extreme + e.dir * TwoTicks
             Reaches(x) == Shock!Far(x, e.dir) >= e.dir * trig
             w == (it + BreakFrom)..Shock!Least(it + BreakFrom + BreakLen - 1, n)
             v == (it + BreakFrom)..Shock!Least(it + BreakFrom + BreakLen - 1, n + 1)
             rw == {j \in w : Reaches(s[j])}
             rv == {j \in v : Reaches(t[j])}
  <1>1. /\ n \in Nat /\ DOMAIN s = 1..n /\ Len(t) = n + 1
        /\ \A i \in 1..n : t[i] = s[i]
    BY DEF OneMore
  <1>2. /\ Shock!EntryE3(s, it, e) =
             IF rw = {} THEN Shock!NoEntry ELSE [i |-> Shock!Min(rw), px |-> trig]
        /\ Shock!EntryE3(t, it, e) =
             IF rv = {} THEN Shock!NoEntry ELSE [i |-> Shock!Min(rv), px |-> trig]
    BY <1>1 DEF Shock!EntryE3
  <1> HIDE DEF n, trig, Reaches
  <1>3. /\ w \subseteq 1..n /\ w \subseteq v /\ v \subseteq w \cup {n + 1}
        /\ v \subseteq 1..(n + 1)
    <2>1. it + BreakFrom \in Nat \ {0} /\ it + BreakFrom + BreakLen - 1 \in Int
      BY <1>1, FeedConstants
    <2> QED
      BY <1>1, <2>1, WaitGrows
  <1> HIDE DEF w, v
  <1>4. /\ rw \subseteq rv /\ rv \subseteq rw \cup {n + 1}
        /\ rw \in SUBSET (1..n) /\ rv \in SUBSET (1..(n + 1))
    BY <1>1, <1>3
  <1> HIDE DEF rw, rv
  <1>5. CASE rw # {}
    <2>1. Shock!Min(rw) \in rw
      BY <1>1, <1>4, <1>5, FirstOf
    <2>2. Shock!Min(rv) = Shock!Min(rw)
      <3>1. \A y \in rv \ rw : \A x \in rw : x =< y
        BY <1>1, <1>4
      <3>2. n + 1 \in Nat /\ rw \in SUBSET rv
        BY <1>1, <1>4
      <3> QED
        BY <1>4, <1>5, <3>1, <3>2, FirstStays
    <2>3. Shock!Min(rw) \in 1..n /\ rv # {}
      BY <1>4, <1>5, <2>1
    <2> QED
      BY <1>1, <1>2, <1>5, <2>2, <2>3 DEF EntryStays
  <1>6. CASE rw = {}
    <2>1. Shock!EntryE3(s, it, e) = Shock!NoEntry
      BY <1>2, <1>6
    <2>2. CASE rv = {}
      BY <1>2, <2>1, <2>2 DEF EntryStays
    <2>3. CASE rv # {}
      <3>1. Shock!Min(rv) \in rv
        <4>1. n + 1 \in Nat
          BY <1>1
        <4> QED
          BY <1>4, <2>3, <4>1, FirstOf
      <3>2. Shock!Min(rv) = n + 1
        BY <1>4, <1>6, <3>1
      <3> QED
        BY <1>2, <2>1, <2>3, <3>2 DEF EntryStays, n
    <2> QED
      BY <2>2, <2>3
  <1> QED
    BY <1>5, <1>6

\* The bar of an event is found wherever there are more.
TriggeredAt(s, e) == CHOOSE i \in DOMAIN s : s[i].ts = e.ts

LEMMA TriggerIs ==
    ASSUME NEW s, InOrderOfTime(s), NEW e, NEW i \in DOMAIN s, s[i].ts = e.ts,
           DOMAIN s \subseteq Int
    PROVE  TriggeredAt(s, e) = i
  <1> DEFINE j == TriggeredAt(s, e)
  <1>1. j \in DOMAIN s /\ s[j].ts = e.ts
    BY DEF TriggeredAt
  <1> HIDE DEF j
  <1>2. ~(i < j) /\ ~(j < i)
    BY <1>1 DEF InOrderOfTime
  <1> QED
    BY <1>1, <1>2 DEF j

Tried(s, it, e) ==
    {[scheme |-> "E1", event |-> e, en |-> Shock!EntryE1(s, it, e)],
     [scheme |-> "E2", event |-> e, en |-> Shock!EntryE2(s, it, e)],
     [scheme |-> "E3", event |-> e, en |-> Shock!EntryE3(s, it, e)]}

LEMMA EntriesAre ==
    ASSUME NEW s, NEW e
    PROVE  Shock!Entries(s, e) =
             {x \in Tried(s, TriggeredAt(s, e), e) : x.en # Shock!NoEntry}
  BY DEF Shock!Entries, Tried, TriggeredAt

LEMMA EntriesStay ==
    ASSUME NEW s, NEW t, OneMore(s, t), InOrderOfTime(t),
           NEW e, \E i \in DOMAIN s : s[i].ts = e.ts
    PROVE  /\ Shock!Entries(s, e) \subseteq Shock!Entries(t, e)
           /\ \A x \in Shock!Entries(t, e) \ Shock!Entries(s, e) :
                x.en.i = Len(t)
           /\ \A x \in Shock!Entries(s, e) :
                x.event = e /\ x.en.i \in DOMAIN s
  <1>1. /\ Len(s) \in Nat /\ DOMAIN s = 1..Len(s) /\ Len(t) = Len(s) + 1
        /\ DOMAIN t = 1..Len(t) /\ \A i \in DOMAIN s : t[i] = s[i]
    BY DEF OneMore
  <1>2. InOrderOfTime(s)
    BY <1>1 DEF InOrderOfTime
  <1>3. PICK it \in DOMAIN s : s[it].ts = e.ts
    OBVIOUS
  <1>4. TriggeredAt(s, e) = it /\ TriggeredAt(t, e) = it
    <2>1. it \in DOMAIN t /\ t[it].ts = e.ts
      BY <1>1, <1>3
    <2>2. DOMAIN s \subseteq Int /\ DOMAIN t \subseteq Int
      BY <1>1
    <2> QED
      BY <1>2, <1>3, <2>1, <2>2, TriggerIs
  <1>5. /\ EntryStays(Shock!EntryE1(s, it, e), Shock!EntryE1(t, it, e), s)
        /\ EntryStays(Shock!EntryE2(s, it, e), Shock!EntryE2(t, it, e), s)
        /\ EntryStays(Shock!EntryE3(s, it, e), Shock!EntryE3(t, it, e), s)
    BY E1Stays, E2Stays, E3Stays
  <1>6. /\ Shock!Entries(s, e) = {x \in Tried(s, it, e) : x.en # Shock!NoEntry}
        /\ Shock!Entries(t, e) = {x \in Tried(t, it, e) : x.en # Shock!NoEntry}
    BY <1>4, EntriesAre
  <1>7. \A x \in Shock!Entries(s, e) :
          /\ x.event = e /\ x.en.i \in DOMAIN s
          /\ x \in Shock!Entries(t, e)
    BY <1>5, <1>6 DEF Tried, EntryStays
  <1>8. \A x \in Shock!Entries(t, e) :
          x \in Shock!Entries(s, e) \/ x.en.i = Len(t)
    BY <1>1, <1>5, <1>6 DEF Tried, EntryStays
  <1> QED
    BY <1>7, <1>8

\* An event of the last bar can enter on no other.
LEMMA EntriesOfLast ==
    ASSUME NEW s, InOrderOfTime(s), Len(s) \in Nat \ {0}, DOMAIN s = 1..Len(s),
           NEW e, s[Len(s)].ts = e.ts
    PROVE  \A x \in Shock!Entries(s, e) : x.en.i = Len(s)
  <1> DEFINE n == Len(s)
  <1>1. TriggeredAt(s, e) = n
    BY TriggerIs
  <1>2. \A x \in Shock!Entries(s, e) :
          x \in Tried(s, n, e) /\ x.en # Shock!NoEntry
    BY <1>1, EntriesAre
  <1>3. Shock!EntryE1(s, n, e) = Shock!NoEntry
    BY DEF Shock!EntryE1
  <1>4. Shock!EntryE2(s, n, e) = Shock!NoEntry
    <2> DEFINE wait == (n + 1)..Shock!Least(n + PullbackLen, n)
    <2>1. wait = {}
      BY FeedConstants DEF Shock!Least
    <2> QED
      BY <2>1 DEF Shock!EntryE2
  <1>5. Shock!EntryE3(s, n, e) = Shock!NoEntry \/ Shock!EntryE3(s, n, e).i = n
    <2> DEFINE wait == (n + BreakFrom)..Shock!Least(n + BreakFrom + BreakLen - 1, n)
               reached == {j \in wait :
                             Shock!Far(s[j], e.dir) >=
                               e.dir * (e.extreme + e.dir * TwoTicks)}
    <2>1. wait \subseteq {n} /\ reached \subseteq {n}
      BY FeedConstants DEF Shock!Least
    <2>2. \/ Shock!EntryE3(s, n, e) = Shock!NoEntry
          \/ reached # {} /\ Shock!EntryE3(s, n, e).i = Shock!Min(reached)
      BY DEF Shock!EntryE3
    <2> HIDE DEF wait, reached
    <2>3. reached # {} => Shock!Min(reached) = n
      <3> SUFFICES ASSUME reached # {} PROVE Shock!Min(reached) = n
        OBVIOUS
      <3>1. n \in Nat /\ reached \in SUBSET (1..n)
        BY <2>1
      <3>2. Shock!Min(reached) \in reached
        BY <3>1, FirstOf
      <3> QED
        BY <2>1, <3>2
    <2> QED
      BY <2>2, <2>3
  <1> QED
    BY <1>2, <1>3, <1>4, <1>5 DEF Tried
-----------------------------------------------------------------------------
(* The walk of a trade. *)

\* The stop a bar meets is read off the bars before it.
LEMMA TrailStays ==
    ASSUME NEW s, NEW t, OneMore(s, t), NEW en, en.i \in DOMAIN s, NEW e,
           NEW j \in (en.i + 1)..Len(s)
    PROVE  Shock!Trail(t, en, e, j) = Shock!Trail(s, en, e, j)
  <1> DEFINE Before(k) == Shock!Greatest(en.i + 1, k - SwingLen)..(k - 1)
             LowS(k) == Shock!Min({Shock!Near(s[m], e.dir) : m \in Before(k)})
             LowT(k) == Shock!Min({Shock!Near(t[m], e.dir) : m \in Before(k)})
  <1>1. /\ Len(s) \in Nat /\ DOMAIN s = 1..Len(s)
        /\ \A i \in DOMAIN s : t[i] = s[i]
        /\ en.i \in 1..Len(s)
    BY DEF OneMore
  <1>2. ASSUME NEW k \in (en.i + 2)..j PROVE LowT(k) = LowS(k)
    <2>1. Before(k) \subseteq 1..Len(s)
      BY <1>1, FeedConstants DEF Shock!Greatest
    <2> HIDE DEF Before
    <2>2. {Shock!Near(t[m], e.dir) : m \in Before(k)} =
            {Shock!Near(s[m], e.dir) : m \in Before(k)}
      BY <1>1, <2>1
    <2> QED
      BY <2>2
  <1>3. /\ Shock!Trail(s, en, e, j) =
             Shock!Max({Shock!InitStop(en, e)} \cup {LowS(k) : k \in (en.i + 2)..j})
        /\ Shock!Trail(t, en, e, j) =
             Shock!Max({Shock!InitStop(en, e)} \cup {LowT(k) : k \in (en.i + 2)..j})
    BY DEF Shock!Trail
  <1> HIDE DEF LowS, LowT
  <1>4. {LowT(k) : k \in (en.i + 2)..j} = {LowS(k) : k \in (en.i + 2)..j}
    BY <1>2
  <1> QED
    BY <1>3, <1>4

Over(s, en, e, j) == Shock!Stopped(s, en, e, j) \/ Shock!TimeIsUp(s, en, e, j)

LEMMA OverStays ==
    ASSUME NEW s, NEW t, OneMore(s, t), NEW en, en.i \in DOMAIN s, NEW e,
           NEW j \in (en.i + 1)..Len(s)
    PROVE  /\ Over(t, en, e, j) <=> Over(s, en, e, j)
           /\ Shock!Stopped(t, en, e, j) <=> Shock!Stopped(s, en, e, j)
  <1>1. /\ Len(s) \in Nat /\ DOMAIN s = 1..Len(s)
        /\ \A i \in DOMAIN s : t[i] = s[i]
        /\ en.i \in 1..Len(s) /\ j \in 1..Len(s)
    BY DEF OneMore
  <1>2. Shock!Stopped(t, en, e, j) <=> Shock!Stopped(s, en, e, j)
    BY <1>1, TrailStays DEF Shock!Stopped
  <1>3. Shock!ReachedOneR(t, en, e, j) <=> Shock!ReachedOneR(s, en, e, j)
    <2>1. \A k \in (en.i + 1)..j : t[k] = s[k]
      BY <1>1
    <2> QED
      BY <2>1 DEF Shock!ReachedOneR
  <1>4. Shock!TimeIsUp(t, en, e, j) <=> Shock!TimeIsUp(s, en, e, j)
    BY <1>1, <1>3 DEF Shock!TimeIsUp
  <1> QED
    BY <1>2, <1>4 DEF Over

\* A trade that is over stays as it was.
LEMMA ManageStays ==
    ASSUME NEW s, NEW t, OneMore(s, t), NEW en, en.i \in DOMAIN s, NEW e,
           Shock!Manage(s, en, e).final
    PROVE  Shock!Manage(t, en, e) = Shock!Manage(s, en, e)
  <1> DEFINE n == Len(s)
             Result(b, over) ==
               LET j == IF over = {} THEN Len(b) ELSE Shock!Min(over)
                   px == IF over # {} /\ Shock!Stopped(b, en, e, j)
                         THEN Shock!Trail(b, en, e, j) ELSE e.dir * b[j].c
               IN [exit |-> j, final |-> over # {},
                   pnl |-> px - e.dir * en.px - Friction]
             os == {j \in (en.i + 1)..n : Over(s, en, e, j)}
             ot == {j \in (en.i + 1)..(n + 1) : Over(t, en, e, j)}
  <1>1. /\ n \in Nat /\ DOMAIN s = 1..n /\ Len(t) = n + 1
        /\ \A i \in DOMAIN s : t[i] = s[i]
        /\ en.i \in 1..n
    BY DEF OneMore
  <1>2. /\ Shock!Manage(s, en, e) = Result(s, os)
        /\ Shock!Manage(t, en, e) = Result(t, ot)
    BY <1>1 DEF Shock!Manage, Over
  <1>3. os # {}
    <2>1. Result(s, os).final <=> os # {}
      <3> HIDE DEF os
      <3> QED
        OBVIOUS
    <2> HIDE DEF Result, os
    <2> QED
      BY <1>2, <2>1
  <1>4. os \subseteq ot /\ ot \subseteq os \cup {n + 1}
    BY <1>1, OverStays
  <1>5. os \in SUBSET (1..n) /\ ot \in SUBSET (1..(n + 1))
    BY <1>1
  <1>6. /\ Shock!Min(os) \in os /\ Shock!Min(ot) = Shock!Min(os)
    <2> HIDE DEF os, ot, n
    <2>1. Shock!Min(os) \in os
      BY <1>1, <1>3, <1>5, FirstOf
    <2>2. \A y \in ot \ os : \A x \in os : x =< y
      BY <1>1, <1>4, <1>5
    <2>3. n + 1 \in Nat
      BY <1>1
    <2> QED
      BY <1>3, <1>4, <1>5, <2>1, <2>2, <2>3, FirstStays
  <1> DEFINE j == Shock!Min(os)
  <1>7. /\ j \in (en.i + 1)..n /\ t[j] = s[j] /\ ot # {}
    BY <1>1, <1>3, <1>4, <1>5, <1>6
  <1>8. /\ Shock!Stopped(t, en, e, j) <=> Shock!Stopped(s, en, e, j)
        /\ Shock!Trail(t, en, e, j) = Shock!Trail(s, en, e, j)
    <2> HIDE DEF j
    <2> QED
      BY <1>7, OverStays, TrailStays
  <1> DEFINE Ended(b) ==
               [exit |-> j, final |-> TRUE,
                pnl |-> (IF Shock!Stopped(b, en, e, j)
                         THEN Shock!Trail(b, en, e, j) ELSE e.dir * b[j].c)
                          - e.dir * en.px - Friction]
  <1> HIDE DEF os, ot
  <1>9. Result(s, os) = Ended(s)
    BY <1>3
  <1>10. Result(t, ot) = Ended(t)
    BY <1>6, <1>7
  <1>11. Ended(t) = Ended(s)
    BY <1>7, <1>8
  <1> HIDE DEF Result, Ended
  <1> QED
    BY <1>2, <1>9, <1>10, <1>11
-----------------------------------------------------------------------------
(* The stream. *)

BarType ==
    {b \in [ts : Nat, o : Nat, h : Nat, l : Nat, c : Nat, v : Nat] :
       b.l <= b.o /\ b.o <= b.h /\ b.l <= b.c /\ b.c <= b.h}

\* The programs that are given their bars in the order of time.
Sorted == {"context", "shock", "days", "drift"}

StreamInv ==
    /\ program \in Programs
    /\ program \in Sorted => seen \in Seq(BarType) /\ InOrderOfTime(seen)

LEMMA BarOfShape ==
    ASSUME NEW p \in Programs, NEW ts \in 0..Horizon[p], NEW s \in Shapes[p]
    PROVE  Bar(ts, s) \in BarType /\ Bar(ts, s).ts = ts
  <1>1. IsShape(s) /\ Horizon[p] \in Nat
    BY FeedConstants
  <1> QED
    BY <1>1 DEF IsShape, Bar, BarType

LEMMA StreamGrows ==
    ASSUME seen \in Seq(BarType), InOrderOfTime(seen),
           NEW b \in BarType, Later(b.ts), seen' = Append(seen, b)
    PROVE  /\ seen' \in Seq(BarType) /\ InOrderOfTime(seen')
           /\ OneMore(seen, seen') /\ Len(seen) \in Nat
           /\ seen'[Len(seen')] = b
  <1>1. /\ seen' \in Seq(BarType) /\ Len(seen) \in Nat
        /\ Len(seen') = Len(seen) + 1 /\ seen'[Len(seen')] = b
        /\ DOMAIN seen' = 1..Len(seen')
    OBVIOUS
  <1>2. OneMore(seen, seen')
    <2>1. OneMore(seen, Append(seen, b))
      BY AppendIsOneMore
    <2> QED
      BY <2>1
  <1>3. \A i \in DOMAIN seen' : seen'[i].ts \in Int
    <2>1. \A i \in DOMAIN seen' : seen'[i] \in BarType
      BY <1>1
    <2>2. \A x \in BarType : x.ts \in Int
      BY DEF BarType
    <2> QED
      BY <2>1, <2>2
  <1>4. ASSUME NEW i \in DOMAIN seen', NEW j \in DOMAIN seen', i < j
        PROVE  seen'[i].ts < seen'[j].ts
    <2>1. i \in DOMAIN seen /\ seen'[i] = seen[i]
      BY <1>1, <1>2, <1>4 DEF OneMore
    <2>2. CASE j \in DOMAIN seen
      BY <1>2, <1>4, <2>1, <2>2 DEF OneMore, InOrderOfTime
    <2>3. CASE j \notin DOMAIN seen
      <3>1. seen'[j] = b
        BY <1>1, <1>2, <2>3 DEF OneMore
      <3> QED
        BY <2>1, <3>1 DEF Later
    <2> QED
      BY <2>2, <2>3
  <1> QED
    BY <1>1, <1>2, <1>3, <1>4 DEF InOrderOfTime

\* What each step does to the stream, the events and the draw.
StreamStays == seen' = seen
StreamAdds ==
    /\ program \in Sorted
    /\ \E b \in BarType : Later(b.ts) /\ seen' = Append(seen, b)

LEMMA StreamSteps ==
    ASSUME StreamInv, [Next]_vars
    PROVE  /\ StreamInv' /\ program' = program
           /\ program \in Sorted => StreamAdds \/ StreamStays
  <1> DEFINE Added == \E ts \in 0..Horizon[program], s \in Shapes[program] :
                        Later(ts) /\ seen' = Append(seen, Bar(ts, s))
  <1>1. program' = program
    BY DEF Next, vars, Sub_Bar, Poll, Context_Bar, Shock_Bar, Loaded_Bar,
           Drift_Run, End, Finished, Arrives
  <1>2. ASSUME program \in Sorted PROVE Added \/ StreamStays
    <2>1. CASE Context_Bar
      BY <2>1 DEF Context_Bar, Arrives
    <2>2. CASE Shock_Bar
      BY <2>2 DEF Shock_Bar, Arrives
    <2>3. CASE Loaded_Bar
      BY <2>3 DEF Loaded_Bar, Arrives
    <2>4. CASE Drift_Run \/ End \/ Finished \/ UNCHANGED vars
      BY <2>4 DEF Drift_Run, End, Finished, vars, StreamStays
    <2>5. CASE Sub_Bar \/ Poll
      BY <1>2, <2>5 DEF Sub_Bar, Poll, Sorted
    <2> QED
      BY <2>1, <2>2, <2>3, <2>4, <2>5 DEF Next
  <1>3. ASSUME program \in Sorted, Added PROVE StreamAdds
    <2>1. PICK ts \in 0..Horizon[program], s \in Shapes[program] :
            Later(ts) /\ seen' = Append(seen, Bar(ts, s))
      BY <1>3
    <2>2. Bar(ts, s) \in BarType /\ Bar(ts, s).ts = ts
      BY BarOfShape DEF StreamInv
    <2> QED
      BY <1>3, <2>1, <2>2 DEF StreamAdds
  <1>4. program \in Sorted => StreamAdds \/ StreamStays
    BY <1>2, <1>3
  <1>5. ASSUME program \in Sorted PROVE seen' \in Seq(BarType) /\ InOrderOfTime(seen')
    <2>1. seen \in Seq(BarType) /\ InOrderOfTime(seen)
      BY <1>5 DEF StreamInv
    <2>2. CASE StreamStays
      BY <2>1, <2>2 DEF StreamStays
    <2>3. CASE StreamAdds
      BY <2>1, <2>3, StreamGrows DEF StreamAdds
    <2> QED
      BY <1>4, <1>5, <2>2, <2>3
  <1> QED
    BY <1>1, <1>4, <1>5 DEF StreamInv
-----------------------------------------------------------------------------
(* The detector's window. *)

\* The bars of s from the k-th on.
IsTail(w, s, k) ==
    /\ k \in 1..Len(s) /\ w \in Seq(BarType) /\ Len(w) = Len(s) - k + 1
    /\ \A i \in 1..Len(w) : w[i] = s[k + i - 1]

\* The k-th is the first of s young enough for a window that ends with s.
Young(s, k) ==
    \A i \in DOMAIN s : i >= k <=> s[i].ts >= s[Len(s)].ts - WindowLen

WindowInv ==
    IF seen = <<>> THEN window = <<>>
    ELSE \E k : IsTail(window, seen, k) /\ Young(seen, k)

LEMMA AppendIs ==
    ASSUME NEW X, NEW s \in Seq(X), NEW x \in X
    PROVE  LET t == Append(s, x)
           IN /\ t \in Seq(X) /\ Len(t) = Len(s) + 1 /\ t[Len(t)] = x
              /\ Len(s) \in Nat /\ \A i \in 1..Len(s) : t[i] = s[i]
  OBVIOUS

LEMMA WindowAppends ==
    ASSUME seen \in Seq(BarType), InOrderOfTime(seen), WindowInv,
           NEW b \in BarType, Later(b.ts), seen' = Append(seen, b)
    PROVE  \E k : /\ IsTail(Append(window, b), seen', k)
                  /\ \A i \in DOMAIN seen' :
                       i < k => seen'[i].ts < b.ts - WindowLen
  <1>0. /\ seen' \in Seq(BarType) /\ Len(seen) \in Nat
        /\ Len(seen') = Len(seen) + 1 /\ seen'[Len(seen')] = b
        /\ DOMAIN seen' = 1..Len(seen') /\ DOMAIN seen = 1..Len(seen)
        /\ \A i \in 1..Len(seen) : seen'[i] = seen[i]
    OBVIOUS
  <1>1. CASE seen = <<>>
    <2>1. window = <<>>
      BY <1>1 DEF WindowInv
    <2>2. IsTail(Append(window, b), seen', 1)
      BY <1>0, <1>1, <2>1 DEF IsTail
    <2>3. \A i \in DOMAIN seen' : ~(i < 1)
      BY <1>0
    <2> QED
      BY <2>2, <2>3
  <1>2. CASE seen # <<>>
    <2>1. PICK k : IsTail(window, seen, k) /\ Young(seen, k)
      BY <1>2 DEF WindowInv
    <2>2. /\ k \in 1..Len(seen) /\ window \in Seq(BarType)
          /\ Len(window) = Len(seen) - k + 1
          /\ \A i \in 1..Len(window) : window[i] = seen[k + i - 1]
      BY <2>1 DEF IsTail
    <2> DEFINE w == Append(window, b)
    <2>3. /\ w \in Seq(BarType) /\ Len(w) = Len(window) + 1
          /\ w[Len(w)] = b
          /\ Len(window) \in Nat
          /\ \A i \in 1..Len(window) : w[i] = window[i]
      <3>1. window \in Seq(BarType)
        BY <2>2
      <3> HIDE DEF BarType
      <3> QED
        BY <3>1, AppendIs
    <2>a. /\ k \in 1..Len(seen) /\ Len(window) = Len(seen) - k + 1
          /\ Len(w) = Len(seen) - k + 2 /\ Len(seen) \in Nat
          /\ Len(seen') = Len(seen) + 1 /\ Len(window) \in Nat
      <3> HIDE DEF w
      <3> QED
        BY <1>0, <2>2, <2>3
    <2> HIDE DEF w
    <2>4. \A i \in 1..Len(w) : w[i] = seen'[k + i - 1]
      <3> SUFFICES ASSUME NEW i \in 1..Len(w) PROVE w[i] = seen'[k + i - 1]
        OBVIOUS
      <3>1. CASE i = Len(w)
        <4>1. k + i - 1 = Len(seen')
          BY <2>a, <3>1
        <4> QED
          BY <1>0, <2>3, <3>1, <4>1
      <3>2. CASE i # Len(w)
        <4>1. i \in 1..Len(window) /\ k + i - 1 \in 1..Len(seen)
          BY <2>a, <3>2
        <4> QED
          BY <1>0, <2>2, <2>3, <4>1
      <3> QED
        BY <3>1, <3>2
    <2>5. IsTail(w, seen', k)
      <3>1. k \in 1..Len(seen') /\ Len(w) = Len(seen') - k + 1
        BY <2>a
      <3> QED
        BY <2>3, <2>4, <3>1 DEF IsTail
    <2>6. ASSUME NEW i \in DOMAIN seen', i < k
          PROVE  seen'[i].ts < b.ts - WindowLen
      <3>1. i \in DOMAIN seen /\ Len(seen) \in DOMAIN seen /\ seen'[i] = seen[i]
        BY <1>0, <2>2, <2>6
      <3>2. ~(seen[i].ts >= seen[Len(seen)].ts - WindowLen)
        BY <1>0, <2>1, <2>2, <2>6, <3>1 DEF Young
      <3>3. seen[Len(seen)].ts < b.ts
        BY <3>1 DEF Later
      <3>4. seen[i].ts \in Int /\ seen[Len(seen)].ts \in Int /\ b.ts \in Int
        BY <3>1 DEF InOrderOfTime, BarType
      <3> QED
        BY <3>1, <3>2, <3>3, <3>4, FeedConstants
    <2> QED
      BY <2>5, <2>6 DEF w
  <1> QED
    BY <1>1, <1>2

LEMMA WindowMoves ==
    ASSUME seen \in Seq(BarType), InOrderOfTime(seen), WindowInv,
           NEW b \in BarType, Later(b.ts), seen' = Append(seen, b)
    PROVE  \E k : IsTail(Det!Recent(b), seen', k) /\ Young(seen', k)
  <1> DEFINE w == Append(window, b)
             n == Len(w)
             young == {i \in DOMAIN w : w[i].ts >= b.ts - WindowLen}
             y == Shock!Min(young)
             r == SubSeq(w, y, n)
  <1>0. /\ seen' \in Seq(BarType) /\ InOrderOfTime(seen')
        /\ seen'[Len(seen')] = b /\ Len(seen') \in Nat
        /\ DOMAIN seen' = 1..Len(seen')
    BY StreamGrows
  <1>1. PICK k : /\ IsTail(w, seen', k)
                 /\ \A i \in DOMAIN seen' :
                      i < k => seen'[i].ts < b.ts - WindowLen
    BY WindowAppends
  <1>2. Det!Recent(b) = r
    BY DEF Det!Recent, Det!Min, Shock!Min
  <1> HIDE DEF w
  <1>3. /\ k \in 1..Len(seen') /\ w \in Seq(BarType) /\ n = Len(seen') - k + 1
        /\ \A i \in 1..n : w[i] = seen'[k + i - 1]
        /\ n \in Nat /\ DOMAIN w = 1..n
    BY <1>1 DEF IsTail
  <1>4. /\ n \in young /\ young \in SUBSET (1..n)
    <2>1. n \in 1..n /\ w[n] = b
      BY <1>0, <1>3
    <2>2. b.ts \in Nat
      BY DEF BarType
    <2> QED
      BY <1>3, <2>1, <2>2, FeedConstants
  <1>5. y \in young /\ y \in 1..n /\ \A x \in young : y =< x
    <2> HIDE DEF n, young
    <2> QED
      BY <1>3, <1>4, FirstOf
  <1>6. w[y].ts >= b.ts - WindowLen
    BY <1>5
  <1>7. \A i \in 1..n : w[i].ts >= b.ts - WindowLen => y =< i
    BY <1>3, <1>5
  <1> HIDE DEF young, y
  <1>8. /\ r \in Seq(BarType) /\ Len(r) = n - y + 1
        /\ \A i \in 1..Len(r) : r[i] = w[y + i - 1]
    <2>1. y \in Int /\ n \in Int /\ y =< n /\ y..n \subseteq 1..n
      BY <1>3, <1>5
    <2>2. \A i \in y..n : w[i] \in BarType
      <3>1. \A i \in DOMAIN w : w[i] \in BarType
        <4>1. w \in Seq(BarType)
          BY <1>3
        <4> HIDE DEF BarType, n, y
        <4> QED
          BY <4>1
      <3>2. y..n \subseteq DOMAIN w
        BY <1>3, <2>1
      <3> QED
        BY <3>1, <3>2, Zenon
    <2>3. /\ r \in Seq(BarType) /\ Len(r) = n - y + 1
          /\ \A i \in 1..(n - y + 1) : r[i] = w[y + i - 1]
      <3> HIDE DEF n, BarType
      <3> QED
        BY <2>1, <2>2, SubSeqProperties
    <2> QED
      BY <2>3
  <1> HIDE DEF r, n
  <1> DEFINE m == k + y - 1
  <1>9. IsTail(r, seen', m)
    <2>1. \A i \in 1..Len(r) : r[i] = seen'[m + i - 1]
      <3> SUFFICES ASSUME NEW i \in 1..Len(r) PROVE r[i] = seen'[m + i - 1]
        OBVIOUS
      <3>1. y + i - 1 \in 1..n /\ k + (y + i - 1) - 1 = m + i - 1
        BY <1>3, <1>5, <1>8
      <3> QED
        BY <1>3, <1>8, <3>1
    <2>2. m \in 1..Len(seen') /\ Len(r) = Len(seen') - m + 1
      <3>1. k \in 1..Len(seen') /\ n = Len(seen') - k + 1 /\ y \in 1..n
        BY <1>3, <1>5
      <3>2. Len(seen') \in Nat /\ Len(r) = n - y + 1
        BY <1>0, <1>8
      <3> QED
        BY <3>1, <3>2
    <2> QED
      BY <1>8, <2>1, <2>2 DEF IsTail
  <1>10. Young(seen', m)
    <2> SUFFICES ASSUME NEW i \in DOMAIN seen'
                 PROVE  i >= m <=> seen'[i].ts >= b.ts - WindowLen
      BY <1>0 DEF Young
    <2>0. seen'[i].ts \in Int /\ seen'[m].ts \in Int /\ b.ts - WindowLen \in Int
          /\ m \in DOMAIN seen'
      <3>1. m \in DOMAIN seen'
        BY <1>0, <1>3, <1>5
      <3>2. b.ts \in Nat
        BY DEF BarType
      <3> QED
        BY <1>0, <3>1, <3>2, FeedConstants DEF InOrderOfTime
    <2>1. seen'[m].ts >= b.ts - WindowLen
      BY <1>3, <1>5, <1>6
    <2>2. CASE i >= m
      <3>1. i = m \/ seen'[m].ts < seen'[i].ts
        <4>1. i \in Int /\ m \in Int
          BY <1>0, <2>0
        <4> HIDE DEF m
        <4>2. i = m \/ m < i
          BY <2>2, <4>1
        <4> QED
          BY <1>0, <2>0, <4>2 DEF InOrderOfTime
      <3> QED
        BY <2>0, <2>1, <2>2, <3>1
    <2>3. CASE k <= i /\ i < m
      <3>1. i - k + 1 \in 1..n /\ k + (i - k + 1) - 1 = i /\ ~(y =< i - k + 1)
        BY <1>0, <1>3, <1>5, <2>3
      <3>2. w[i - k + 1] = seen'[i]
        BY <1>3, <3>1
      <3>3. ~(seen'[i].ts >= b.ts - WindowLen)
        BY <1>7, <3>1, <3>2
      <3>4. ~(i >= m)
        BY <1>0, <1>3, <1>5, <2>3
      <3> QED
        BY <3>3, <3>4
    <2>4. CASE i < k
      <3>1. seen'[i].ts < b.ts - WindowLen
        BY <1>1, <2>4
      <3> QED
        BY <1>0, <1>3, <1>5, <2>0, <2>4, <3>1
    <2> QED
      BY <1>0, <1>3, <1>5, <2>2, <2>3, <2>4
  <1> QED
    BY <1>2, <1>9, <1>10
-----------------------------------------------------------------------------
(* The detector's events. *)

\* The ends of what the bars of a set have.
Image(f, W) == {f[i] : i \in W}

LEMMA ImageEnds ==
    ASSUME NEW n \in Nat, NEW W \in SUBSET (1..n), W # {},
           NEW f, \A i \in W : f[i] \in Int
    PROVE  /\ IsFiniteSet(Image(f, W)) /\ Image(f, W) \subseteq Int
           /\ Max(Image(f, W)) \in Image(f, W) /\ Max(Image(f, W)) \in Int
           /\ \A i \in W : Max(Image(f, W)) >= f[i]
           /\ Min(Image(f, W)) \in Image(f, W) /\ Min(Image(f, W)) \in Int
           /\ \A i \in W : Min(Image(f, W)) =< f[i]
  <1> DEFINE V == Image(f, W)
             g == [i \in W |-> f[i]]
  <1>1. IsFiniteSet(W)
    <2>1. IsFiniteSet(1..n)
      BY FS_Interval
    <2> QED
      BY <2>1, FS_Subset
  <1>2. g \in Surjection(W, V)
    BY DEF Surjection, Image
  <1> HIDE DEF g
  <1>3. IsFiniteSet(V)
    BY <1>1, <1>2, FS_Surjection
  <1>4. V # {} /\ V \subseteq Int /\ \A i \in W : f[i] \in V
    BY DEF Image
  <1> HIDE DEF V
  <1>5. Max(V) \in V /\ \A x \in V : Max(V) >= x
    BY <1>3, <1>4, MaxIsLargest
  <1>6. Min(V) \in V /\ \A x \in V : Min(V) =< x
    BY <1>3, <1>4, MinIsLeast
  <1> QED
    BY <1>3, <1>4, <1>5, <1>6 DEF V

\* The bars an event is about, and what it says of them.
WindowOf(s, e) == {i \in DOMAIN s : s[i].ts \in (e.ts - WindowLen)..e.ts}

Describes(s, e, W) ==
    /\ s[Max(W)].ts = e.ts /\ Cardinality(W) >= 2
    /\ e.open = s[Min(W)].o
    /\ e.range = (s[Max(W)].c - s[Min(W)].o) * e.dir
    /\ e.range >= Min(Thresholds)
    /\ e.extreme = (IF e.dir = 1 THEN Max({s[i].h : i \in W})
                    ELSE Min({s[i].l : i \in W}))
    /\ \E i \in W : s[i].v > 0

Found(s, e) == \E i \in DOMAIN s : s[i].ts = e.ts

LEMMA WindowOfStays ==
    ASSUME NEW s, NEW t, OneMore(s, t), InOrderOfTime(t), NEW e, e.ts \in Nat,
           Found(s, e)
    PROVE  WindowOf(t, e) = WindowOf(s, e)
  <1>1. /\ Len(s) \in Nat /\ DOMAIN s = 1..Len(s) /\ Len(t) = Len(s) + 1
        /\ DOMAIN t = 1..Len(t) /\ \A i \in DOMAIN s : t[i] = s[i]
    BY DEF OneMore
  <1>2. PICK i \in DOMAIN s : s[i].ts = e.ts
    BY DEF Found
  <1>3. t[Len(t)].ts > e.ts /\ t[Len(t)].ts \in Int
    BY <1>1, <1>2 DEF InOrderOfTime
  <1>4. Len(t) \notin WindowOf(t, e)
    BY <1>3 DEF WindowOf
  <1>5. DOMAIN t = DOMAIN s \cup {Len(t)}
    BY <1>1
  <1> QED
    BY <1>1, <1>4, <1>5 DEF WindowOf

LEMMA DescribesStays ==
    ASSUME NEW s, NEW t, OneMore(s, t), NEW W \in SUBSET DOMAIN s, W # {},
           NEW e, Describes(s, e, W)
    PROVE  Describes(t, e, W)
  <1>1. /\ Len(s) \in Nat /\ W \in SUBSET (1..Len(s))
        /\ \A i \in W : t[i] = s[i]
    BY DEF OneMore
  <1>2. Min(W) \in W /\ Max(W) \in W
    <2>1. IsFiniteSet(1..Len(s)) /\ W \subseteq Int
      BY <1>1, FS_Interval
    <2>2. IsFiniteSet(W)
      BY <1>1, <2>1, FS_Subset
    <2> QED
      BY <2>1, <2>2, MinIsLeast, MaxIsLargest
  <1>3. /\ {t[i].h : i \in W} = {s[i].h : i \in W}
        /\ {t[i].l : i \in W} = {s[i].l : i \in W}
    BY <1>1
  <1> QED
    BY <1>1, <1>2, <1>3 DEF Describes

\* A loud window has volume.
LEMMA LoudHasVolume ==
    ASSUME NEW bars \in Seq(BarType), NEW baseline \in Nat,
           Det!Loud(bars, baseline)
    PROVE  \E i \in DOMAIN bars : bars[i].v > 0
  <1> DEFINE D == DOMAIN bars
             f == [i \in D |-> bars[i].v]
             R(g) == g = [s \in SUBSET D |->
                            IF s = {} THEN 0
                            ELSE g[s \ {Max(s)}] + bars[Max(s)].v]
             largest == [s \in SUBSET D |-> Max(s)]
             volume == (CHOOSE g : R(g))[D]
  <1>1. baseline > 0 /\ volume >= VolMultiple * baseline
    BY DEF Det!Loud, Det!FoldLeft, Det!MapThenFoldSet, Det!Max, Max
  <1>3. IsFiniteSet(D) /\ D \subseteq Int /\ \A i \in D : bars[i].v \in Nat
    <2>1. D = 1..Len(bars) /\ Len(bars) \in Nat
      OBVIOUS
    <2>2. \A i \in D : bars[i] \in BarType
      OBVIOUS
    <2>3. \A x \in BarType : x.v \in Nat
      BY DEF BarType
    <2> QED
      BY <2>1, <2>2, <2>3, FS_Interval
  <1>4. \A s \in SUBSET D : s # {} => Max(s) \in s
    <2> SUFFICES ASSUME NEW s \in SUBSET D, s # {} PROVE Max(s) \in s
      OBVIOUS
    <2>1. IsFiniteSet(s) /\ s \subseteq Int
      BY <1>3, FS_Subset
    <2> QED
      BY <2>1, MaxIsLargest
  <1>5. ASSUME NEW g PROVE R(g) <=> SumsInOrder(g, f, D, largest)
    BY <1>4 DEF SumsInOrder
  <1>6. /\ SumsInOrder(Sums(f, D), f, D, largest)
        /\ \A g : SumsInOrder(g, f, D, largest) =>
                    \A s \in SUBSET D : g[s] = SumOver(f, s)
    <2>1. \A s \in SUBSET D : s # {} => largest[s] \in s
      BY <1>4
    <2>2. \A i \in D : f[i] \in Int
      BY <1>3
    <2>3. IsFiniteSet(D)
      BY <1>3
    <2> HIDE DEF D, largest, f, R, volume
    <2>4. SumsInOrder(Sums(f, D), f, D, largest)
      BY <2>1, <2>2, <2>3, SumAnyOrder
    <2>5. ASSUME NEW g, SumsInOrder(g, f, D, largest)
          PROVE  \A s \in SUBSET D : g[s] = SumOver(f, s)
      BY <2>1, <2>2, <2>3, <2>5, SumAnyOrder
    <2> QED
      BY <2>4, <2>5
  <1> HIDE DEF R
  <1>7. R(CHOOSE g : R(g))
    BY <1>5, <1>6
  <1>8. volume = SumOver(f, D)
    BY <1>5, <1>6, <1>7
  <1> SUFFICES ASSUME \A i \in D : ~(bars[i].v > 0) PROVE FALSE
    OBVIOUS
  <1>9. \A i \in D : f[i] = 0
    BY <1>3
  <1>10. SumOver(f, D) = 0
    <2> HIDE DEF D, f
    <2> QED
      BY <1>3, <1>9, SumOverZero
  <1> HIDE DEF volume
  <1> DEFINE need == VolMultiple * baseline
  <1>11. need > 0 /\ need \in Int /\ volume >= need
    BY <1>1, FeedConstants
  <1> HIDE DEF need
  <1> QED
    BY <1>8, <1>10, <1>11

EventType ==
    [ts : Nat, dir : {-1, 1}, range : Nat, open : Nat, extreme : Nat]

\* The event of a bar that ends the window, as DetectorOnBar makes it.
EventOf(bars, b) ==
    LET move == b.c - bars[1].o
        d == Det!Direction(move)
    IN [ts |-> b.ts, dir |-> d, range |-> Det!Abs(move),
        open |-> bars[1].o, extreme |-> Det!Extreme(bars, d)]

LEMMA ExtremeOf ==
    ASSUME NEW bars \in Seq(BarType), bars # <<>>, NEW d \in {-1, 1}
    PROVE  /\ Det!Extreme(bars, d) \in Nat
           /\ d = 1 => Det!Extreme(bars, d) = Max({bars[i].h : i \in DOMAIN bars})
           /\ d = -1 => Det!Extreme(bars, d) = Min({bars[i].l : i \in DOMAIN bars})
  <1> DEFINE n == Len(bars)
             f == [i \in 1..n |-> bars[i].h]
             g == [i \in 1..n |-> bars[i].l]
  <1>1. n \in Nat /\ DOMAIN bars = 1..n /\ 1..n # {}
    <2>1. n \in Nat /\ n # 0 /\ DOMAIN bars = 1..n
      OBVIOUS
    <2> HIDE DEF n
    <2>2. 1 \in 1..n
      BY <2>1
    <2> QED
      BY <2>1, <2>2
  <1>2. \A i \in 1..n : f[i] \in Nat /\ g[i] \in Nat
    <2>1. \A i \in 1..n : bars[i] \in BarType
      OBVIOUS
    <2>2. \A x \in BarType : x.h \in Nat /\ x.l \in Nat
      BY DEF BarType
    <2> QED
      BY <2>1, <2>2
  <1>3. /\ {bars[i].h : i \in DOMAIN bars} = Image(f, 1..n)
        /\ {bars[i].l : i \in DOMAIN bars} = Image(g, 1..n)
    BY <1>1 DEF Image
  <1> HIDE DEF f, g, n
  <1>a. /\ 1..n \in SUBSET (1..n) /\ n \in Nat /\ 1..n # {}
        /\ \A i \in 1..n : f[i] \in Int
        /\ \A i \in 1..n : g[i] \in Int
    BY <1>1, <1>2
  <1>4. Max(Image(f, 1..n)) \in Image(f, 1..n)
    BY <1>a, ImageEnds
  <1>5. Min(Image(g, 1..n)) \in Image(g, 1..n)
    BY <1>a, ImageEnds
  <1>6. /\ d = 1 => Det!Extreme(bars, d) = Max({bars[i].h : i \in DOMAIN bars})
        /\ d = -1 => Det!Extreme(bars, d) = Min({bars[i].l : i \in DOMAIN bars})
    BY SameEnds DEF Det!Extreme
  <1> QED
    BY <1>2, <1>3, <1>4, <1>5, <1>6 DEF Image

LEMMA NewEvent ==
    ASSUME NEW s \in Seq(BarType), InOrderOfTime(s),
           NEW bars, NEW k, IsTail(bars, s, k), Young(s, k),
           NEW threshold \in Thresholds, NEW baseline \in Baselines,
           LET b == s[Len(s)]
           IN Det!Triggers(bars, b.c - bars[1].o, threshold, baseline, b.ts)
    PROVE  LET e == EventOf(bars, s[Len(s)])
           IN /\ e \in EventType /\ e.ts = s[Len(s)].ts
              /\ Found(s, e) /\ Describes(s, e, WindowOf(s, e))
  <1> DEFINE n == Len(s)
             b == s[n]
             move == b.c - bars[1].o
             e == EventOf(bars, b)
             W == WindowOf(s, e)
  <1>1. /\ k \in 1..n /\ n \in Nat /\ DOMAIN s = 1..n /\ n \in 1..n
        /\ bars \in Seq(BarType) /\ Len(bars) = n - k + 1
        /\ DOMAIN bars = 1..Len(bars)
        /\ \A i \in 1..Len(bars) : bars[i] = s[k + i - 1]
    BY DEF IsTail
  <1>2. \A i \in 1..n : s[i] \in BarType
    BY <1>1
  <1>3. \A x \in BarType : /\ x.ts \in Nat /\ x.o \in Nat /\ x.h \in Nat
                           /\ x.l \in Nat /\ x.c \in Nat /\ x.v \in Nat
    BY DEF BarType
  <1>4. /\ Len(bars) >= 2 /\ Det!Abs(move) >= threshold
        /\ Det!Loud(bars, baseline)
    BY DEF Det!Triggers
  <1>5. k < n /\ bars[1] = s[k]
    <2>1. k < n
      BY <1>1, <1>4
    <2>2. 1 \in 1..Len(bars) /\ k + 1 - 1 = k
      BY <1>1, <1>4
    <2> QED
      BY <1>1, <2>1, <2>2
  <1>6. /\ move \in Int /\ e.dir \in {-1, 1} /\ e.range = move * e.dir
        /\ e.range \in Nat /\ e.range = Det!Abs(move)
    <2>1. move \in Int
      BY <1>1, <1>2, <1>3, <1>5
    <2> HIDE DEF move
    <2>2. /\ Det!Direction(move) \in {-1, 1} /\ Det!Abs(move) \in Nat
          /\ Det!Abs(move) = move * Det!Direction(move)
      BY <2>1 DEF Det!Direction, Det!Abs
    <2>3. e.dir = Det!Direction(move) /\ e.range = Det!Abs(move)
      BY DEF EventOf, move
    <2> QED
      BY <2>1, <2>2, <2>3
  <1>7. e.range >= Min(Thresholds)
    <2>1. Thresholds \subseteq Nat
      BY FeedConstants
    <2>2. Min(Thresholds) \in Thresholds /\ Min(Thresholds) =< threshold
      BY <2>1, MinOfNats
    <2> QED
      BY <1>4, <1>6, <2>1, <2>2
  <1>8. /\ e.ts = b.ts /\ e.open = bars[1].o
        /\ e.extreme = Det!Extreme(bars, e.dir)
    BY DEF EventOf
  <1>9. W = k..n
    <2>1. ASSUME NEW i \in 1..n PROVE i \in W <=> i >= k
      <3>1. i >= k <=> s[i].ts >= b.ts - WindowLen
        BY <1>1 DEF Young
      <3>2. s[i].ts =< b.ts
        <4>2. s[i].ts \in Nat /\ b.ts \in Nat
          BY <1>1, <1>2, <1>3
        <4>0. n \in Nat
          BY <1>1
        <4> HIDE DEF n
        <4>1. i = n \/ i < n
          BY <4>0
        <4>3. i < n => s[i].ts < s[n].ts
          BY <1>1 DEF InOrderOfTime
        <4> DEFINE x == s[i].ts
                   y == s[n].ts
        <4>4. /\ x \in Int /\ y \in Int
              /\ i = n => x = y
              /\ i < n => x < y
          BY <4>2, <4>3 DEF b
        <4> HIDE DEF x, y
        <4>5. x =< y
          BY <4>1, <4>4
        <4> QED
          BY <4>5 DEF x, y, b
      <3>3. s[i].ts \in Nat /\ b.ts \in Nat
        BY <1>1, <1>2, <1>3
      <3> QED
        BY <1>1, <1>8, <3>1, <3>2, <3>3, FeedConstants DEF WindowOf
    <2>2. W \subseteq 1..n
      BY <1>1 DEF WindowOf
    <2> HIDE DEF W, n, b
    <2>3. \A i \in Int : i \in k..n <=> i \in 1..n /\ i >= k
      BY <1>1
    <2>4. k..n \subseteq Int /\ W \subseteq Int
      BY <2>2
    <2> QED
      BY <2>1, <2>2, <2>3, <2>4
  <1> HIDE DEF W, e
  <1>10. Min(W) = k /\ Max(W) = n /\ Cardinality(W) >= 2
    <2>1. IsFiniteSet(k..n) /\ Cardinality(k..n) = n - k + 1
      BY <1>1, <1>5, FS_Interval
    <2> HIDE DEF n, b
    <2>a. k \in k..n /\ n \in k..n /\ k..n # {} /\ k..n \subseteq Int
      BY <1>1
    <2>2. Min(k..n) \in k..n /\ \A x \in k..n : Min(k..n) =< x
      BY <2>a, <2>1, MinIsLeast
    <2>3. Max(k..n) \in k..n /\ \A x \in k..n : Max(k..n) >= x
      BY <2>a, <2>1, MaxIsLargest
    <2> QED
      BY <1>1, <1>5, <1>9, <2>1, <2>2, <2>3
  <1>11. /\ {s[i].h : i \in W} = {bars[i].h : i \in DOMAIN bars}
         /\ {s[i].l : i \in W} = {bars[i].l : i \in DOMAIN bars}
    <2>1. \A i \in W : i - k + 1 \in DOMAIN bars /\ bars[i - k + 1] = s[i]
      <3> SUFFICES ASSUME NEW i \in k..n
                   PROVE  i - k + 1 \in DOMAIN bars /\ bars[i - k + 1] = s[i]
        BY <1>9
      <3>1. i - k + 1 \in 1..Len(bars) /\ k + (i - k + 1) - 1 = i
        BY <1>1
      <3> QED
        BY <1>1, <3>1
    <2>2. \A i \in DOMAIN bars : k + i - 1 \in W /\ bars[i] = s[k + i - 1]
      BY <1>1, <1>9
    <2> QED
      BY <2>1, <2>2
  <1>12. \E i \in W : s[i].v > 0
    <2>1. baseline \in Nat
      BY FeedConstants
    <2>2. PICK i \in DOMAIN bars : bars[i].v > 0
      BY <1>1, <1>4, <2>1, LoudHasVolume
    <2>3. k + i - 1 \in W /\ bars[i] = s[k + i - 1]
      BY <1>1, <1>9
    <2> QED
      BY <2>2, <2>3
  <1>13. bars # <<>>
    BY <1>4
  <1>14. e \in EventType
    <2>1. e.extreme \in Nat /\ e.ts \in Nat /\ e.open \in Nat
      BY <1>1, <1>2, <1>3, <1>5, <1>6, <1>8, <1>13, ExtremeOf
    <2>2. e = [ts |-> e.ts, dir |-> e.dir, range |-> e.range, open |-> e.open,
               extreme |-> e.extreme]
      BY DEF e, EventOf
    <2> QED
      BY <1>6, <2>1, <2>2 DEF EventType
  <1>15. e.extreme = (IF e.dir = 1 THEN Max({s[i].h : i \in W})
                      ELSE Min({s[i].l : i \in W}))
    BY <1>1, <1>6, <1>8, <1>11, <1>13, ExtremeOf
  <1>16. Describes(s, e, W)
    <2>1. e.range = (s[n].c - s[k].o) * e.dir
      BY <1>5, <1>6
    <2> QED
      BY <1>5, <1>7, <1>8, <1>10, <1>12, <1>15, <2>1 DEF Describes
  <1>17. Found(s, e)
    BY <1>1, <1>8 DEF Found
  <1> QED
    BY <1>8, <1>14, <1>16, <1>17 DEF W, e

Right(s, e) == Found(s, e) /\ Describes(s, e, WindowOf(s, e))

\* An event holds its side of the cooldown, and no earlier one was in its way.
Apart(es, cool) ==
    \A n \in DOMAIN es :
      /\ es[n].ts + Cooldown <= cool[es[n].dir]
      /\ \A m \in 1..(n - 1) :
           es[m].dir = es[n].dir => es[n].ts - es[m].ts >= Cooldown

DetectorInv ==
    /\ program # "shock" => events = <<>>
    /\ program = "shock" =>
         /\ WindowInv
         /\ cooldown \in [{-1, 1} -> Nat]
         /\ events \in Seq(EventType)
         /\ \A n \in DOMAIN events : Right(seen, events[n])
         /\ Apart(events, cooldown)

ShockStays == UNCHANGED <<seen, window, cooldown, events>>
ShockAdds(b, threshold, baseline) ==
    /\ Later(b.ts) /\ seen' = Append(seen, b)
    /\ Det!DetectorOnBar(b, threshold, baseline)

\* What a step adds to the events.
EventsGrow ==
    \/ events' = events
    \/ /\ StreamAdds
       /\ \E e \in EventType : /\ events' = Append(events, e)
                               /\ e.ts = seen'[Len(seen')].ts

LEMMA ShockSteps ==
    ASSUME StreamInv, program = "shock", [Next]_vars
    PROVE  \/ ShockStays
           \/ \E b \in BarType, threshold \in Thresholds, baseline \in Baselines :
                ShockAdds(b, threshold, baseline)
  <1>1. CASE Shock_Bar
    <2>1. PICK ts \in 0..Horizon[program], s \in Shapes[program],
               threshold \in Thresholds, baseline \in Baselines :
            /\ Later(ts) /\ Arrives(Bar(ts, s))
            /\ Det!DetectorOnBar(Bar(ts, s), threshold, baseline)
      BY <1>1 DEF Shock_Bar
    <2>2. Bar(ts, s) \in BarType /\ Bar(ts, s).ts = ts
      BY BarOfShape DEF StreamInv
    <2>3. ShockAdds(Bar(ts, s), threshold, baseline)
      BY <2>1, <2>2 DEF ShockAdds, Arrives
    <2> QED
      BY <2>2, <2>3
  <1>2. CASE Finished \/ UNCHANGED vars
    BY <1>2 DEF Finished, vars, detectorVars, ShockStays
  <1>3. ~Sub_Bar /\ ~Poll /\ ~Context_Bar /\ ~Loaded_Bar /\ ~Drift_Run /\ ~End
    BY DEF Sub_Bar, Poll, Context_Bar, Loaded_Bar, Drift_Run, End
  <1> QED
    BY <1>1, <1>2, <1>3 DEF Next

LEMMA RightStays ==
    ASSUME NEW s, NEW t, OneMore(s, t), InOrderOfTime(t), NEW e \in EventType,
           Right(s, e)
    PROVE  Right(t, e)
  <1>1. e.ts \in Nat /\ Found(s, e)
    BY DEF EventType, Right
  <1>2. WindowOf(t, e) = WindowOf(s, e)
    BY <1>1, WindowOfStays
  <1>3. WindowOf(s, e) \in SUBSET DOMAIN s /\ WindowOf(s, e) # {}
    <2>1. PICK i \in DOMAIN s : s[i].ts = e.ts
      BY <1>1 DEF Found
    <2>2. i \in WindowOf(s, e)
      BY <1>1, <2>1, FeedConstants DEF WindowOf
    <2> QED
      BY <2>2 DEF WindowOf
  <1>4. Describes(t, e, WindowOf(s, e))
    BY <1>3, DescribesStays DEF Right
  <1>5. Found(t, e)
    BY <1>1 DEF Found, OneMore
  <1> QED
    BY <1>2, <1>4, <1>5 DEF Right

LEMMA ApartGrows ==
    ASSUME NEW es \in Seq(EventType), NEW cool \in [{-1, 1} -> Nat],
           Apart(es, cool), NEW e \in EventType, e.ts >= cool[e.dir]
    PROVE  /\ [cool EXCEPT ![e.dir] = e.ts + Cooldown] \in [{-1, 1} -> Nat]
           /\ Apart(Append(es, e), [cool EXCEPT ![e.dir] = e.ts + Cooldown])
  <1> DEFINE fs == Append(es, e)
             hot == [cool EXCEPT ![e.dir] = e.ts + Cooldown]
             n == Len(es)
  <1>1. /\ n \in Nat /\ DOMAIN es = 1..n /\ DOMAIN fs = 1..(n + 1)
        /\ fs[n + 1] = e /\ \A i \in 1..n : fs[i] = es[i]
        /\ \A i \in 1..n : es[i] \in EventType
    OBVIOUS
  <1>2. \A x \in EventType : x.ts \in Nat /\ x.dir \in {-1, 1}
    BY DEF EventType
  <1>3. /\ hot \in [{-1, 1} -> Nat] /\ hot[e.dir] = e.ts + Cooldown
        /\ \A d \in {-1, 1} : d # e.dir => hot[d] = cool[d]
        /\ \A d \in {-1, 1} : hot[d] >= cool[d]
    BY <1>2, FeedConstants
  <1> HIDE DEF fs, hot, n
  <1>4. ASSUME NEW i \in 1..n
        PROVE  es[i].dir = e.dir => e.ts - es[i].ts >= Cooldown
    <2>1. es[i].ts + Cooldown <= cool[es[i].dir]
      BY <1>1 DEF Apart
    <2>2. /\ es[i].ts \in Nat /\ e.ts \in Nat /\ Cooldown \in Nat
          /\ cool[e.dir] \in Nat
      BY <1>1, <1>2, FeedConstants
    <2> QED
      BY <2>1, <2>2
  <1>5. ASSUME NEW i \in 1..(n + 1)
        PROVE  /\ fs[i].ts + Cooldown <= hot[fs[i].dir]
               /\ \A m \in 1..(i - 1) :
                    fs[m].dir = fs[i].dir => fs[i].ts - fs[m].ts >= Cooldown
    <2>1. CASE i = n + 1
      <3>1. fs[i] = e
        BY <1>1, <2>1
      <3>2. e.ts + Cooldown \in Nat
        BY <1>2, FeedConstants
      <3>3. \A m \in 1..(i - 1) : m \in 1..n /\ fs[m] = es[m]
        BY <1>1, <2>1
      <3> QED
        BY <1>3, <1>4, <3>1, <3>2, <3>3
    <2>2. CASE i # n + 1
      <3>1. i \in 1..n /\ fs[i] = es[i] /\ es[i] \in EventType
        BY <1>1, <2>2
      <3>2. \A m \in 1..(i - 1) : fs[m] = es[m]
        BY <1>1, <3>1
      <3>3. /\ es[i].ts + Cooldown <= cool[es[i].dir]
            /\ \A m \in 1..(i - 1) :
                 es[m].dir = es[i].dir => es[i].ts - es[m].ts >= Cooldown
        BY <1>1, <3>1 DEF Apart
      <3>4. es[i].ts + Cooldown <= hot[es[i].dir]
        <4>1. es[i].dir \in {-1, 1} /\ es[i].ts + Cooldown \in Nat
          BY <1>2, <3>1, FeedConstants
        <4>2. hot[es[i].dir] >= cool[es[i].dir] /\ hot[es[i].dir] \in Nat
              /\ cool[es[i].dir] \in Nat
          BY <1>3, <4>1
        <4> QED
          BY <3>3, <4>1, <4>2
      <3> QED
        BY <3>1, <3>2, <3>3, <3>4
    <2> QED
      BY <2>1, <2>2
  <1>6. Apart(fs, hot)
    BY <1>1, <1>5 DEF Apart
  <1> QED
    BY <1>3, <1>6 DEF fs, hot

LEMMA DetectorInit == Init => DetectorInv
  <1> SUFFICES ASSUME Init PROVE DetectorInv
    OBVIOUS
  <1>1. /\ events = <<>> /\ window = <<>> /\ seen = <<>>
        /\ cooldown = [d \in {-1, 1} |-> 0]
    BY DEF Init, Det!DetectorInit
  <1>2. events \in Seq(EventType) /\ DOMAIN events = {}
    BY <1>1
  <1> QED
    BY <1>1, <1>2 DEF DetectorInv, WindowInv, Apart

LEMMA ShockBarStep ==
    ASSUME StreamInv, DetectorInv, program = "shock", program' = program,
           NEW b \in BarType, NEW threshold \in Thresholds,
           NEW baseline \in Baselines, ShockAdds(b, threshold, baseline)
    PROVE  DetectorInv' /\ EventsGrow
  <1>0. /\ seen \in Seq(BarType) /\ InOrderOfTime(seen) /\ WindowInv
        /\ cooldown \in [{-1, 1} -> Nat] /\ events \in Seq(EventType)
        /\ \A n \in DOMAIN events : Right(seen, events[n])
        /\ Apart(events, cooldown)
    BY DEF StreamInv, DetectorInv, Sorted
  <1>1. Later(b.ts) /\ seen' = Append(seen, b)
    BY DEF ShockAdds
  <1>2. /\ seen' \in Seq(BarType) /\ InOrderOfTime(seen')
        /\ OneMore(seen, seen') /\ seen'[Len(seen')] = b
    BY <1>0, <1>1, StreamGrows
  <1> DEFINE bars == Det!Recent(b)
             move == b.c - bars[1].o
             d == Det!Direction(move)
             e == EventOf(bars, b)
  <1>3. /\ window' = bars
        /\ \/ /\ Det!Triggers(bars, move, threshold, baseline, b.ts)
              /\ cooldown' = [cooldown EXCEPT ![d] = b.ts + Cooldown]
              /\ events' = Append(events, e)
           \/ UNCHANGED <<cooldown, events>>
    BY DEF ShockAdds, Det!DetectorOnBar, EventOf
  <1>4. PICK k : IsTail(bars, seen', k) /\ Young(seen', k)
    BY <1>0, <1>1, WindowMoves
  <1>5. WindowInv'
    <2>1. seen' # <<>>
      BY <1>0, <1>1
    <2> HIDE DEF bars
    <2> QED
      BY <1>3, <1>4, <2>1 DEF WindowInv
  <1>6. \A n \in DOMAIN events : Right(seen', events[n])
    <2> SUFFICES ASSUME NEW n \in DOMAIN events PROVE Right(seen', events[n])
      OBVIOUS
    <2>1. events[n] \in EventType /\ Right(seen, events[n])
      BY <1>0
    <2> QED
      BY <1>2, <2>1, RightStays
  <1>7. CASE UNCHANGED <<cooldown, events>>
    BY <1>0, <1>5, <1>6, <1>7 DEF DetectorInv, EventsGrow
  <1>8. CASE /\ Det!Triggers(bars, move, threshold, baseline, b.ts)
             /\ cooldown' = [cooldown EXCEPT ![d] = b.ts + Cooldown]
             /\ events' = Append(events, e)
    <2>1. e \in EventType /\ e.ts = b.ts /\ Right(seen', e)
      <3> HIDE DEF bars, e
      <3>1. LET c == seen'[Len(seen')]
            IN Det!Triggers(bars, c.c - bars[1].o, threshold, baseline, c.ts)
        BY <1>2, <1>8
      <3>2. LET x == EventOf(bars, seen'[Len(seen')])
            IN /\ x \in EventType /\ x.ts = seen'[Len(seen')].ts
               /\ Found(seen', x) /\ Describes(seen', x, WindowOf(seen', x))
        BY <1>2, <1>4, <3>1, NewEvent
      <3> QED
        BY <1>2, <3>2 DEF Right, e
    <2>2. e.dir = d /\ e.ts >= cooldown[e.dir]
      <3>1. e.dir = d
        BY DEF EventOf
      <3>2. Det!Cooled(d, b.ts)
        BY <1>8 DEF Det!Triggers
      <3> QED
        BY <2>1, <3>1, <3>2 DEF Det!Cooled
    <2> HIDE DEF e, d, move, bars
    <2>3. /\ cooldown' \in [{-1, 1} -> Nat] /\ Apart(events', cooldown')
      BY <1>0, <1>8, <2>1, <2>2, ApartGrows
    <2>4. events' \in Seq(EventType)
          /\ \A n \in DOMAIN events' : Right(seen', events'[n])
      <3>1. /\ events' \in Seq(EventType) /\ Len(events) \in Nat
            /\ DOMAIN events' = 1..(Len(events) + 1)
            /\ DOMAIN events = 1..Len(events)
            /\ events'[Len(events) + 1] = e
            /\ \A n \in 1..Len(events) : events'[n] = events[n]
        BY <1>0, <1>8, <2>1
      <3> QED
        BY <1>6, <2>1, <3>1
    <2>5. StreamAdds
      BY <1>1 DEF StreamAdds, Sorted
    <2>6. EventsGrow
      BY <1>2, <1>8, <2>1, <2>5 DEF EventsGrow
    <2> QED
      BY <1>5, <2>3, <2>4, <2>6 DEF DetectorInv
  <1> QED
    BY <1>3, <1>7, <1>8

LEMMA DetectorSteps ==
    ASSUME StreamInv, DetectorInv, [Next]_vars
    PROVE  DetectorInv' /\ EventsGrow
  <1>0. program' = program
    BY StreamSteps
  <1>1. CASE program # "shock"
    <2>1. events' = events
      BY <1>1 DEF Next, vars, detectorVars, Sub_Bar, Poll, Context_Bar,
             Shock_Bar, Loaded_Bar, Drift_Run, End, Finished
    <2> QED
      BY <1>0, <1>1, <2>1 DEF DetectorInv, EventsGrow
  <1>2. CASE program = "shock" /\ ShockStays
    <2>1. /\ seen' = seen /\ window' = window /\ cooldown' = cooldown
          /\ events' = events
      BY <1>2 DEF ShockStays
    <2> QED
      BY <1>0, <2>1 DEF DetectorInv, EventsGrow, WindowInv
  <1>3. ASSUME program = "shock", NEW b \in BarType,
               NEW threshold \in Thresholds, NEW baseline \in Baselines,
               ShockAdds(b, threshold, baseline)
        PROVE  DetectorInv' /\ EventsGrow
    BY <1>0, <1>3, ShockBarStep
  <1> QED
    BY <1>1, <1>2, <1>3, ShockSteps
-----------------------------------------------------------------------------
(* The shock engine's theorems. *)

StreamsInv == StreamInv /\ DetectorInv

LEMMA SpecStreams == Spec => []StreamsInv
  <1>1. Init => StreamsInv
    <2> SUFFICES ASSUME Init PROVE StreamInv
      BY DetectorInit DEF StreamsInv
    <2>1. program \in Programs /\ seen = <<>>
      BY DEF Init
    <2>2. seen \in Seq(BarType) /\ DOMAIN seen = {}
      BY <2>1
    <2> QED
      BY <2>1, <2>2 DEF StreamInv, InOrderOfTime
  <1>2. StreamsInv /\ [Next]_vars => StreamsInv'
    BY StreamSteps, DetectorSteps DEF StreamsInv
  <1> QED
    BY <1>1, <1>2, PTL DEF Spec

LEMMA VolumeOf ==
    ASSUME seen \in Seq(BarType), NEW W \in SUBSET DOMAIN seen,
           \E i \in W : seen[i].v > 0
    PROVE  SumOf(W).v > 0
  <1> DEFINE f == [i \in W |-> seen[i].v]
             R(g) == g = [s \in SUBSET W |->
                            IF s = {} THEN 0
                            ELSE seen[Some(s)].v + g[s \ {Some(s)}]]
  <1>1. SumOf(W).v = (CHOOSE g : R(g))[W]
    BY DEF SumOf, MapThenSumSet, MapThenFoldSet, Some
  <1>2. IsFiniteSet(W) /\ \A i \in W : f[i] \in Nat
    <2>1. DOMAIN seen = 1..Len(seen) /\ Len(seen) \in Nat
          /\ \A i \in DOMAIN seen : seen[i] \in BarType
      OBVIOUS
    <2>2. IsFiniteSet(1..Len(seen))
      <3>1. Len(seen) \in Int
        BY <2>1
      <3> QED
        BY <3>1, FS_Interval
    <2>3. IsFiniteSet(W)
      BY <2>1, <2>2, FS_Subset
    <2>4. \A x \in BarType : x.v \in Nat
      BY DEF BarType
    <2> QED
      BY <2>1, <2>3, <2>4
  <1>3. ASSUME NEW g PROVE R(g) <=> SumsBySome(g, f, W)
    <2>1. \A s \in SUBSET W : s # {} => f[Some(s)] = seen[Some(s)].v
      BY DEF Some
    <2> HIDE DEF f
    <2> QED
      BY <2>1 DEF SumsBySome
  <1>4. \E i \in W : f[i] > 0
    OBVIOUS
  <1> HIDE DEF f, R
  <1>5. /\ SumsBySome(SumFold(f, W), f, W)
        /\ \A g : SumsBySome(g, f, W) => g[W] = SumOver(f, W)
    <2>1. \A i \in W : f[i] \in Int
      BY <1>2
    <2> QED
      BY <1>2, <2>1, SumOneWay
  <1>6. R(CHOOSE g : R(g))
    BY <1>3, <1>5
  <1>7. SumOf(W).v = SumOver(f, W)
    BY <1>1, <1>3, <1>5, <1>6
  <1> QED
    BY <1>2, <1>4, <1>7, SumOverPositive

\* Every shock event describes the window before it, and the shocks of one
\* direction keep the cooldown (ShockDetector.on_bar).
THEOREM ShocksFollowHistory == Spec => []ShocksMatchHistory
  <1>1. StreamsInv => ShocksMatchHistory
    <2> SUFFICES ASSUME StreamsInv, NEW n \in DOMAIN events
                 PROVE  LET e == events[n]
                            W == WindowOf(seen, e)
                        IN /\ Describes(seen, e, W)
                           /\ e.extreme = (IF e.dir = 1 THEN RangeOf(W).hi
                                           ELSE RangeOf(W).lo)
                           /\ SumOf(W).v > 0
                           /\ \A m \in 1..(n - 1) :
                                events[m].dir = e.dir =>
                                  e.ts - events[m].ts >= Cooldown
      BY DEF ShocksMatchHistory, WindowOf, Describes
    <2> DEFINE e == events[n]
               W == WindowOf(seen, e)
    <2>1. program = "shock"
      BY DEF StreamsInv, DetectorInv
    <2>2. /\ seen \in Seq(BarType) /\ Right(seen, e) /\ Apart(events, cooldown)
      BY <2>1 DEF StreamsInv, StreamInv, DetectorInv, Sorted
    <2>3. Describes(seen, e, W)
      BY <2>2 DEF Right
    <2>4. /\ W \in SUBSET DOMAIN seen /\ \E i \in W : seen[i].v > 0
      BY <2>3 DEF WindowOf, Describes
    <2> HIDE DEF W
    <2>5. W # {}
      BY <2>4
    <2>6. /\ RangeOf(W).hi = Max({seen[i].h : i \in W})
          /\ RangeOf(W).lo = Min({seen[i].l : i \in W})
      BY <2>5 DEF RangeOf
    <2>7. SumOf(W).v > 0
      BY <2>2, <2>4, VolumeOf
    <2>8. e.extreme = (IF e.dir = 1 THEN RangeOf(W).hi ELSE RangeOf(W).lo)
      BY <2>3, <2>6 DEF Describes
    <2> QED
      BY <2>2, <2>3, <2>7, <2>8 DEF Apart, W
  <1> QED
    BY <1>1, SpecStreams, PTL

TradesOf(s, es) == UNION {Shock!Trades(s, es[n]) : n \in DOMAIN es}
EntriesOf(s, es) == UNION {Shock!Entries(s, es[n]) : n \in DOMAIN es}

LEMMA EntriesGrow ==
    ASSUME NEW s, NEW t, OneMore(s, t), InOrderOfTime(t), NEW es, NEW fs,
           DOMAIN es \subseteq DOMAIN fs,
           \A n \in DOMAIN es : fs[n] = es[n] /\ Found(s, es[n]),
           \A n \in DOMAIN fs : n \in DOMAIN es \/ t[Len(t)].ts = fs[n].ts
    PROVE  /\ EntriesOf(s, es) \subseteq EntriesOf(t, fs)
           /\ \A x \in EntriesOf(t, fs) \ EntriesOf(s, es) : x.en.i = Len(t)
  <1>1. ASSUME NEW n \in DOMAIN es
        PROVE  /\ Shock!Entries(s, es[n]) \subseteq Shock!Entries(t, fs[n])
               /\ \A x \in Shock!Entries(t, fs[n]) \ Shock!Entries(s, es[n]) :
                    x.en.i = Len(t)
    <2>1. \E i \in DOMAIN s : s[i].ts = es[n].ts
      BY DEF Found
    <2> QED
      BY <2>1, EntriesStay
  <1>2. ASSUME NEW n \in DOMAIN fs, t[Len(t)].ts = fs[n].ts
        PROVE  \A x \in Shock!Entries(t, fs[n]) : x.en.i = Len(t)
    <2>1. Len(t) \in Nat \ {0} /\ DOMAIN t = 1..Len(t)
      BY DEF OneMore
    <2> QED
      BY <1>2, <2>1, EntriesOfLast
  <1> QED
    BY <1>1, <1>2 DEF EntriesOf

LEMMA TradesGrow ==
    ASSUME NEW s, NEW t, OneMore(s, t), InOrderOfTime(t), NEW es, NEW fs,
           DOMAIN es \subseteq DOMAIN fs,
           \A n \in DOMAIN es : fs[n] = es[n] /\ Found(s, es[n])
    PROVE  \A x \in TradesOf(s, es) : x.final => x \in TradesOf(t, fs)
  <1> SUFFICES ASSUME NEW n \in DOMAIN es, NEW x \in Shock!Entries(s, es[n]),
                      Shock!Trade(s, x).final
               PROVE  Shock!Trade(s, x) \in Shock!Trades(t, fs[n])
    BY DEF TradesOf, Shock!Trades
  <1>1. x \in Shock!Entries(t, fs[n]) /\ x.event = es[n] /\ x.en.i \in DOMAIN s
    <2>1. \E i \in DOMAIN s : s[i].ts = es[n].ts
      BY DEF Found
    <2> QED
      BY <2>1, EntriesStay
  <1>2. Shock!Manage(s, x.en, x.event).final
    BY DEF Shock!Trade
  <1>3. Shock!Manage(t, x.en, x.event) = Shock!Manage(s, x.en, x.event)
    BY <1>1, <1>2, ManageStays
  <1>4. Shock!Trade(t, x) = Shock!Trade(s, x)
    BY <1>3 DEF Shock!Trade
  <1> QED
    BY <1>1, <1>4 DEF Shock!Trades

LEMMA CausalStep ==
    ASSUME StreamsInv, StreamAdds \/ StreamStays, EventsGrow, program = "shock"
    PROVE  /\ ShockEntries \subseteq ShockEntries'
           /\ \A x \in ShockEntries' \ ShockEntries : x.en.i = Len(seen')
           /\ {t \in ShockTrades : t.final} \subseteq ShockTrades'
  <1>0. /\ seen \in Seq(BarType) /\ InOrderOfTime(seen)
        /\ events \in Seq(EventType)
        /\ \A n \in DOMAIN events : Found(seen, events[n])
    BY DEF StreamsInv, StreamInv, DetectorInv, Sorted, Right
  <1>1. CASE StreamAdds
    <2>1. PICK b \in BarType : Later(b.ts) /\ seen' = Append(seen, b)
      BY <1>1 DEF StreamAdds
    <2>2. /\ OneMore(seen, seen') /\ InOrderOfTime(seen')
      BY <1>0, <2>1, StreamGrows
    <2>3. /\ DOMAIN events \subseteq DOMAIN events'
          /\ \A n \in DOMAIN events : events'[n] = events[n]
          /\ \A n \in DOMAIN events' :
               n \in DOMAIN events \/ seen'[Len(seen')].ts = events'[n].ts
      BY <1>0 DEF EventsGrow
    <2>4. /\ EntriesOf(seen, events) \subseteq EntriesOf(seen', events')
          /\ \A x \in EntriesOf(seen', events') \ EntriesOf(seen, events) :
               x.en.i = Len(seen')
      BY <1>0, <2>2, <2>3, EntriesGrow
    <2>5. \A x \in TradesOf(seen, events) :
            x.final => x \in TradesOf(seen', events')
      BY <1>0, <2>2, <2>3, TradesGrow
    <2> QED
      BY <2>4, <2>5 DEF EntriesOf, TradesOf, ShockEntries, ShockTrades
  <1>2. CASE StreamStays
    <2>1. seen' = seen
      BY <1>2 DEF StreamStays
    <2>2. events' = events
      <3>1. ~StreamAdds
        <4> SUFFICES ASSUME NEW b \in BarType, seen' = Append(seen, b)
                     PROVE  FALSE
          BY DEF StreamAdds
        <4>1. Len(Append(seen, b)) = Len(seen) + 1 /\ Len(seen) \in Nat
          BY <1>0
        <4>2. Append(seen, b) = seen
          BY <2>1
        <4>3. Len(seen) = Len(seen) + 1
          BY <4>1, <4>2, Zenon
        <4> QED
          BY <4>1, <4>3
      <3> QED
        BY <3>1 DEF EventsGrow
    <2> QED
      BY <2>1, <2>2 DEF ShockEntries, ShockTrades
  <1> QED
    BY <1>1, <1>2

\* A bar adds only entries on it, takes none away, and changes no trade that
\* was over (run_bakeoff, manage).
THEOREM ShockEngineCausal == Spec => ShockTradesCausal
  <1> DEFINE Causal ==
        /\ ShockEntries \subseteq ShockEntries'
        /\ \A x \in ShockEntries' \ ShockEntries : x.en.i = Len(seen')
        /\ {t \in ShockTrades : t.final} \subseteq ShockTrades'
  <1>1. StreamsInv /\ [Next]_vars => Causal
    <2> SUFFICES ASSUME StreamsInv, [Next]_vars PROVE Causal
      OBVIOUS
    <2>1. /\ StreamInv' /\ DetectorInv' /\ EventsGrow /\ program' = program
          /\ program \in Sorted => StreamAdds \/ StreamStays
      BY StreamSteps, DetectorSteps DEF StreamsInv
    <2>2. CASE program = "shock"
      BY <2>1, <2>2, CausalStep DEF Sorted
    <2>3. CASE program # "shock"
      <3>1. events = <<>> /\ events' = <<>>
        BY <2>1, <2>3 DEF StreamsInv, DetectorInv
      <3>2. DOMAIN events = {} /\ DOMAIN events' = {}
        BY <3>1
      <3> QED
        BY <3>2 DEF ShockEntries, ShockTrades
    <2> QED
      BY <2>2, <2>3
  <1>2. StreamsInv /\ [Next]_vars => [Causal]_vars
    BY <1>1
  <1> HIDE DEF Causal
  <1>3. [](StreamsInv) /\ [][Next]_vars => [][Causal]_vars
    BY <1>2, PTL
  <1> USE DEF Causal
  <1> QED
    BY <1>3, SpecStreams, PTL DEF Spec, ShockTradesCausal
-----------------------------------------------------------------------------
(* What a trade can lose, and when it is over. *)

LEMMA BarNumbers ==
    ASSUME NEW s \in Seq(BarType)
    PROVE  /\ Len(s) \in Nat /\ DOMAIN s = 1..Len(s)
           /\ \A i \in 1..Len(s) :
                /\ s[i].ts \in Nat /\ s[i].o \in Nat /\ s[i].h \in Nat
                /\ s[i].l \in Nat /\ s[i].c \in Nat /\ s[i].v \in Nat
                /\ s[i].l =< s[i].c /\ s[i].c =< s[i].h
  <1>1. Len(s) \in Nat /\ DOMAIN s = 1..Len(s) /\ \A i \in 1..Len(s) : s[i] \in BarType
    OBVIOUS
  <1>2. \A x \in BarType :
          /\ x.ts \in Nat /\ x.o \in Nat /\ x.h \in Nat
          /\ x.l \in Nat /\ x.c \in Nat /\ x.v \in Nat
          /\ x.l =< x.c /\ x.c =< x.h
    BY DEF BarType
  <1> QED
    BY <1>1, <1>2

LEMMA EventNumbers ==
    ASSUME NEW e \in EventType
    PROVE  /\ e.ts \in Nat /\ e.dir \in {-1, 1} /\ e.range \in Nat
           /\ e.extreme \in Nat
           /\ (9 * e.range) \div 20 \in Nat /\ (3 * e.range) \div 10 \in Nat
           /\ e.range \div 2 \in Nat
  <1>1. e.ts \in Nat /\ e.dir \in {-1, 1} /\ e.range \in Nat /\ e.extreme \in Nat
    BY DEF EventType
  <1> DEFINE r == e.range
  <1> HIDE DEF r
  <1>2. r \in Nat => /\ (9 * r) \div 20 \in Nat /\ (3 * r) \div 10 \in Nat
                     /\ r \div 2 \in Nat
    OBVIOUS
  <1> QED
    BY <1>1, <1>2 DEF r

\* An entry is on a bar there is, at a price.
LEMMA EntryTyped ==
    ASSUME NEW s \in Seq(BarType), NEW it \in DOMAIN s, NEW e \in EventType,
           NEW x \in Tried(s, it, e), x.en # Shock!NoEntry
    PROVE  x.event = e /\ x.en.i \in DOMAIN s /\ x.en.px \in Int
  <1> DEFINE t == Append(s, s[it])
  <1>1. OneMore(s, t)
    <2>1. s[it] \in BarType
      OBVIOUS
    <2> QED
      BY <2>1, AppendIsOneMore
  <1> HIDE DEF t
  <1>2. /\ EntryStays(Shock!EntryE1(s, it, e), Shock!EntryE1(t, it, e), s)
        /\ EntryStays(Shock!EntryE2(s, it, e), Shock!EntryE2(t, it, e), s)
        /\ EntryStays(Shock!EntryE3(s, it, e), Shock!EntryE3(t, it, e), s)
    BY <1>1, E1Stays, E2Stays, E3Stays
  <1>3. x.event = e /\ x.en.i \in DOMAIN s
    BY <1>2 DEF EntryStays, Tried
  <1>4. /\ e.dir \in {-1, 1} /\ e.extreme \in Nat
        /\ (3 * e.range) \div 10 \in Nat
    BY EventNumbers
  <1>5. CASE x.en = Shock!EntryE1(s, it, e)
    <2>1. it < Len(s) /\ x.en.px = s[it + 1].o
      BY <1>5 DEF Shock!EntryE1
    <2> QED
      BY <1>3, <2>1, BarNumbers
  <1>6. CASE x.en = Shock!EntryE2(s, it, e)
    <2> DEFINE back == (3 * e.range) \div 10
    <2>1. x.en.px = e.extreme - e.dir * back
      BY <1>6 DEF Shock!EntryE2
    <2> HIDE DEF back
    <2>2. back \in Nat
      BY <1>4 DEF back
    <2> QED
      BY <1>3, <1>4, <2>1, <2>2
  <1>7. CASE x.en = Shock!EntryE3(s, it, e)
    <2>1. x.en.px = e.extreme + e.dir * TwoTicks
      BY <1>7 DEF Shock!EntryE3
    <2> QED
      BY <1>3, <1>4, <2>1, FeedConstants
  <1> QED
    BY <1>5, <1>6, <1>7 DEF Tried

EntryOf(en, s) == en.i \in 1..Len(s) /\ en.px \in Int

LEMMA NearFar ==
    ASSUME NEW s \in Seq(BarType), NEW i \in 1..Len(s), NEW d \in {-1, 1}
    PROVE  /\ Shock!Near(s[i], d) \in Int /\ Shock!Far(s[i], d) \in Int
           /\ Shock!Near(s[i], d) =< d * s[i].c /\ d * s[i].c \in Int
  BY BarNumbers DEF Shock!Near, Shock!Far

\* The stop a bar meets is a price, and never below the first stop.
LEMMA TrailAboveStop ==
    ASSUME NEW s \in Seq(BarType), NEW e \in EventType,
           NEW en, EntryOf(en, s), NEW j \in (en.i + 1)..Len(s)
    PROVE  /\ Shock!Trail(s, en, e, j) \in Int
           /\ Shock!Trail(s, en, e, j) >= e.dir * en.px - (9 * e.range) \div 20
  <1> DEFINE d == e.dir
             first == en.i + 1
             I == (en.i + 2)..j
             Before(k) == Shock!Greatest(first, k - SwingLen)..(k - 1)
             Low(k) == Shock!Min({Shock!Near(s[m], d) : m \in Before(k)})
             stop == Shock!InitStop(en, e)
             lows == {Low(k) : k \in I}
  <1>0. /\ d \in {-1, 1} /\ (9 * e.range) \div 20 \in Nat /\ e.range \div 2 \in Nat
        /\ e.extreme \in Nat
    BY EventNumbers
  <1>1. /\ Len(s) \in Nat /\ en.i \in 1..Len(s) /\ en.px \in Int
    BY BarNumbers DEF EntryOf
  <1>2. stop \in Int /\ stop >= d * en.px - (9 * e.range) \div 20
    <2> DEFINE a == (9 * e.range) \div 20
               b == e.range \div 2
    <2>1. a \in Nat /\ b \in Nat
      BY <1>0
    <2>2. stop = Shock!Greatest(d * en.px - a, d * e.extreme - b)
      BY DEF Shock!InitStop
    <2> HIDE DEF a, b, stop, d
    <2>3. d * en.px \in Int /\ d * e.extreme \in Int
      BY <1>0, <1>1
    <2>4. stop \in Int /\ stop >= d * en.px - a
      BY <2>1, <2>2, <2>3 DEF Shock!Greatest
    <2> QED
      BY <2>4 DEF a
  <1>3. ASSUME NEW k \in I PROVE Low(k) \in Int
    <2> DEFINE B == Before(k)
               f == [m \in B |-> Shock!Near(s[m], d)]
    <2>1. B \in SUBSET (1..Len(s)) /\ B # {}
      <3>a. /\ k \in Int /\ k >= en.i + 2 /\ k =< Len(s) /\ en.i \in Nat
            /\ en.i >= 1 /\ SwingLen \in Nat /\ SwingLen >= 1 /\ Len(s) \in Nat
        BY <1>1, FeedConstants
      <3>1. k - 1 \in B
        BY <3>a DEF Shock!Greatest
      <3>2. B \subseteq 1..Len(s)
        BY <3>a DEF Shock!Greatest
      <3> QED
        BY <3>1, <3>2
    <2> HIDE DEF B
    <2>2. \A m \in B : f[m] \in Int
      BY <1>0, <2>1, NearFar
    <2>3. {Shock!Near(s[m], d) : m \in B} = Image(f, B)
      BY DEF Image
    <2> HIDE DEF f
    <2>4. Min(Image(f, B)) \in Int
      BY <1>1, <2>1, <2>2, ImageEnds
    <2> QED
      BY <2>3, <2>4, SameEnds DEF B
  <1>4. IsFiniteSet(lows) /\ lows \subseteq Int
    <2>1. CASE I = {}
      <3>1. lows = {}
        BY <2>1
      <3> QED
        BY <3>1, FS_EmptySet
    <2>2. CASE I # {}
      <3> DEFINE f == [k \in I |-> Low(k)]
      <3>1. I \in SUBSET (1..Len(s))
        BY <1>1
      <3>2. lows = {f[k] : k \in I} /\ \A k \in I : f[k] \in Int
        <4> HIDE DEF Low, I
        <4> QED
          BY <1>3
      <3>3. IsFiniteSet(I)
        <4>1. IsFiniteSet(1..Len(s))
          BY <1>1, FS_Interval
        <4> QED
          BY <3>1, <4>1, FS_Subset
      <3>4. f \in Surjection(I, lows)
        BY <3>2 DEF Surjection
      <3>5. lows \subseteq Int
        BY <3>2
      <3> HIDE DEF f, I, lows
      <3> QED
        BY <3>3, <3>4, <3>5, FS_Surjection
    <2> QED
      BY <2>1, <2>2
  <1>5. Shock!Trail(s, en, e, j) = Max({stop} \cup lows)
    BY SameEnds DEF Shock!Trail
  <1> HIDE DEF stop, lows
  <1>6. IsFiniteSet({stop} \cup lows)
    <2>1. IsFiniteSet({stop})
      BY FS_Singleton
    <2> QED
      BY <1>4, <2>1, FS_Union
  <1>7. /\ Max({stop} \cup lows) \in {stop} \cup lows
        /\ Max({stop} \cup lows) >= stop
    <2>1. {stop} \cup lows \subseteq Int /\ {stop} \cup lows # {}
      BY <1>2, <1>4
    <2>2. \A x \in {stop} \cup lows : Max({stop} \cup lows) >= x
      BY <1>6, <2>1, MaxIsLargest
    <2> QED
      BY <1>6, <2>1, <2>2, MaxIsLargest
  <1> DEFINE top == Max({stop} \cup lows)
             floor == d * en.px - (9 * e.range) \div 20
  <1>8. top \in Int /\ top >= stop /\ floor \in Int
    <2>1. top \in Int /\ top >= stop
      BY <1>2, <1>4, <1>7
    <2>2. floor \in Int
      <3>1. d * en.px \in Int
        <4> HIDE DEF d
        <4> QED
          BY <1>0, <1>1
      <3> QED
        BY <1>0, <3>1
    <2> QED
      BY <2>1, <2>2
  <1> HIDE DEF top, floor
  <1>9. top >= floor
    BY <1>2, <1>8 DEF floor
  <1> QED
    BY <1>5, <1>8, <1>9 DEF top, floor

\* A walk ends at its exit, and not before; where the price leaves it, it lost
\* no more than the first stop allowed.
Worst(e) == -((9 * e.range) \div 20) - Friction

LEMMA ManageBounds ==
    ASSUME NEW s \in Seq(BarType), NEW e \in EventType,
           NEW en, EntryOf(en, s)
    PROVE  LET m == Shock!Manage(s, en, e)
           IN /\ m.exit \in en.i..Len(s) /\ m.pnl \in Int
              /\ m.exit > en.i => m.pnl >= Worst(e)
              /\ \A j \in (en.i + 1)..(m.exit - 1) :
                   j \in 1..Len(s) /\ ~Over(s, en, e, j)
  <1> DEFINE n == Len(s)
             d == e.dir
             over == {j \in (en.i + 1)..n : Over(s, en, e, j)}
             j == IF over = {} THEN n ELSE Shock!Min(over)
             px == IF over # {} /\ Shock!Stopped(s, en, e, j)
                   THEN Shock!Trail(s, en, e, j) ELSE d * s[j].c
             loss == (9 * e.range) \div 20
             m == Shock!Manage(s, en, e)
  <1>0. /\ d \in {-1, 1} /\ loss \in Nat
    BY EventNumbers
  <1>1. /\ n \in Nat /\ en.i \in 1..n /\ en.px \in Int
    BY BarNumbers DEF EntryOf
  <1>2. m = [exit |-> j, final |-> over # {}, pnl |-> px - d * en.px - Friction]
    BY DEF Shock!Manage, Over
  <1>3. over \in SUBSET (1..n) /\ over \subseteq (en.i + 1)..n
    BY <1>1
  <1>4. over # {} => j \in over /\ \A x \in over : j =< x
    <2> HIDE DEF over, n
    <2>1. over # {} => Shock!Min(over) \in over /\ \A x \in over : Shock!Min(over) =< x
      BY <1>1, <1>3, FirstOf
    <2> QED
      BY <2>1
  <1>5. j \in en.i..n
    <2> HIDE DEF over, n
    <2>1. CASE over = {}
      BY <1>1, <2>1
    <2>2. CASE over # {}
      <3>1. j \in (en.i + 1)..n
        BY <1>3, <1>4, <2>2
      <3> QED
        BY <1>1, <3>1
    <2> QED
      BY <2>1, <2>2
  <1>6. ASSUME NEW i \in (en.i + 1)..(j - 1)
        PROVE  i \in 1..n /\ ~Over(s, en, e, i)
    <2>1. i \in (en.i + 1)..n /\ i \in 1..n /\ i < j
      <3> HIDE DEF j, n
      <3> QED
        BY <1>1, <1>5, <1>6
    <2>2. ~(i \in over)
      <3> SUFFICES ASSUME i \in over PROVE FALSE
        OBVIOUS
      <3>1. j =< i
        BY <1>4
      <3>2. j \in Int /\ i \in Int
        BY <1>1, <1>5, <2>1
      <3> HIDE DEF j
      <3> QED
        BY <2>1, <3>1, <3>2
    <2> QED
      BY <2>1, <2>2
  <1>7. j > en.i => j \in (en.i + 1)..n /\ (~Shock!Stopped(s, en, e, j) \/ over # {})
    <2>1. j > en.i => j \in (en.i + 1)..n
      <3> HIDE DEF j, n
      <3> QED
        BY <1>1, <1>5
    <2>2. CASE over # {}
      BY <2>1, <2>2
    <2>3. CASE over = {}
      <3>1. j \notin over
        BY <2>3
      <3> QED
        BY <2>1, <3>1 DEF Over
    <2> QED
      BY <2>2, <2>3
  <1>8. j \in 1..n
    <2> HIDE DEF j, n
    <2> QED
      BY <1>1, <1>5
  <1> HIDE DEF j
  <1>9. /\ Shock!Near(s[j], d) \in Int /\ Shock!Near(s[j], d) =< d * s[j].c
        /\ d * s[j].c \in Int
    BY <1>0, <1>8, NearFar
  <1>10. px \in Int
    <2>1. CASE over # {} /\ Shock!Stopped(s, en, e, j)
      <3>1. j \in (en.i + 1)..n
        BY <1>3, <1>4, <2>1
      <3> QED
        BY <2>1, <3>1, TrailAboveStop
    <2>2. CASE ~(over # {} /\ Shock!Stopped(s, en, e, j))
      BY <1>9, <2>2
    <2> QED
      BY <2>1, <2>2
  <1>11. d * en.px \in Int
    <2> HIDE DEF d
    <2> QED
      BY <1>0, <1>1
  <1>12. j > en.i => px >= d * en.px - loss
    <2> SUFFICES ASSUME j > en.i PROVE px >= d * en.px - loss
      OBVIOUS
    <2>1. j \in (en.i + 1)..n /\ (~Shock!Stopped(s, en, e, j) \/ over # {})
      BY <1>7
    <2> DEFINE trail == Shock!Trail(s, en, e, j)
    <2>2. trail \in Int /\ trail >= d * en.px - loss
      BY <2>1, TrailAboveStop
    <2>3. ~Shock!Stopped(s, en, e, j) => ~(Shock!Near(s[j], d) <= trail)
      BY DEF Shock!Stopped
    <2>4. CASE Shock!Stopped(s, en, e, j)
      <3>1. px = trail
        BY <2>1, <2>4
      <3> QED
        BY <2>2, <3>1
    <2>5. CASE ~Shock!Stopped(s, en, e, j)
      <3>1. px = d * s[j].c
        BY <2>5
      <3> DEFINE near == Shock!Near(s[j], d)
                 close == d * s[j].c
                 floor == d * en.px - loss
      <3>2. /\ near \in Int /\ close \in Int /\ near =< close /\ ~(near <= trail)
            /\ floor \in Int /\ trail >= floor
        BY <1>0, <1>9, <1>11, <2>2, <2>3, <2>5
      <3> HIDE DEF near, close, floor, trail
      <3>3. close >= floor
        BY <2>2, <3>2
      <3> QED
        BY <3>1, <3>3 DEF close, floor
    <2> QED
      BY <2>4, <2>5
  <1> HIDE DEF px, over, m, n
  <1>13. m.exit = j /\ m.pnl = px - d * en.px - Friction
    BY <1>2
  <1> DEFINE paid == d * en.px
  <1>14. m.pnl \in Int
    <2>1. paid \in Int
      BY <1>11
    <2> HIDE DEF paid
    <2>2. m.pnl = px - paid - Friction
      BY <1>13 DEF paid
    <2> QED
      BY <1>10, <2>1, <2>2, FeedConstants
  <1>15. j > en.i => m.pnl >= Worst(e)
    <2>1. paid \in Int /\ (j > en.i => px >= paid - loss)
      BY <1>11, <1>12
    <2>2. m.pnl = px - paid - Friction /\ Worst(e) = -loss - Friction
      BY <1>13 DEF Worst
    <2> HIDE DEF paid, loss
    <2>3. loss \in Int /\ px \in Int /\ Friction \in Int
      BY <1>0, <1>10, FeedConstants
    <2>4. px >= paid - loss => px - paid - Friction >= -loss - Friction
      BY <2>1, <2>3
    <2> QED
      BY <2>1, <2>2, <2>4
  <1> QED
    BY <1>5, <1>6, <1>13, <1>14, <1>15 DEF n, m

\* Two that each lost no more than so much lost together no more than twice.
LEMMA SumOfTwo ==
    ASSUME NEW a, NEW b, NEW H \in SUBSET {a, b}, NEW f,
           NEW w \in Int, w <= 0,
           \A x \in H : f[x] \in Int /\ f[x] >= w
    PROVE  SumOver(f, H) >= 2 * w
  <1>1. IsFiniteSet(H)
    <2>1. IsFiniteSet({a, b})
      <3>1. IsFiniteSet({a}) /\ IsFiniteSet({b}) /\ {a, b} = {a} \cup {b}
        BY FS_Singleton
      <3>2. IsFiniteSet({a} \cup {b})
        BY <3>1, FS_Union
      <3> QED
        BY <3>1, <3>2
    <2> QED
      BY <2>1, FS_Subset
  <1>2. SumOver(f, {}) = 0
    BY SumOverNone
  <1>3. ASSUME NEW G \in SUBSET H, NEW x \in G, NEW r \in Int,
               SumOver(f, G \ {x}) \in Int, SumOver(f, G \ {x}) >= r
        PROVE  SumOver(f, G) \in Int /\ SumOver(f, G) >= r + w
    <2>1. IsFiniteSet(G) /\ \A y \in G : f[y] \in Int
      BY <1>1, FS_Subset
    <2>2. SumOver(f, G) = f[x] + SumOver(f, G \ {x})
      BY <2>1, SumOverRemove
    <2> QED
      BY <1>3, <2>2
  <1>4. CASE H = {}
    BY <1>2, <1>4
  <1>5. ASSUME NEW x, H = {x} PROVE SumOver(f, H) >= 2 * w
    <2>1. H \ {x} = {} /\ x \in H
      BY <1>5
    <2>2. SumOver(f, H) \in Int /\ SumOver(f, H) >= 0 + w
      BY <1>2, <1>3, <2>1
    <2> QED
      BY <2>2
  <1>6. CASE H = {a, b} /\ a # b
    <2>1. {b} \ {b} = {} /\ H \ {a} = {b} /\ {b} \in SUBSET H /\ a \in H
      BY <1>6
    <2>2. SumOver(f, {b}) \in Int /\ SumOver(f, {b}) >= 0 + w
      BY <1>2, <1>3, <2>1
    <2>3. SumOver(f, H) \in Int /\ SumOver(f, H) >= w + w
      BY <1>3, <2>1, <2>2
    <2> QED
      BY <2>3
  <1>7. H = {} \/ (\E x : H = {x}) \/ (H = {a, b} /\ a # b)
    OBVIOUS
  <1> QED
    BY <1>4, <1>5, <1>6, <1>7

\* The trades of an event, each of an entry that the walk takes to its exit.
LEMMA TradesAre ==
    ASSUME NEW s \in Seq(BarType), NEW e \in EventType, Found(s, e),
           NEW t \in Shock!Trades(s, e)
    PROVE  /\ t.event = e /\ EntryOf(t.en, s)
           /\ t.exit = Shock!Manage(s, t.en, e).exit
           /\ t.pnl = Shock!Manage(s, t.en, e).pnl
  <1>1. PICK x \in Shock!Entries(s, e) : t = Shock!Trade(s, x)
    BY DEF Shock!Trades
  <1>2. PICK i \in DOMAIN s : s[i].ts = e.ts
    BY DEF Found
  <1>3. TriggeredAt(s, e) \in DOMAIN s
    BY <1>2 DEF TriggeredAt
  <1>4. x \in Tried(s, TriggeredAt(s, e), e) /\ x.en # Shock!NoEntry
    BY EntriesAre
  <1>5. x.event = e /\ x.en.i \in DOMAIN s /\ x.en.px \in Int
    BY <1>3, <1>4, EntryTyped
  <1>6. /\ t.event = x.event /\ t.en = x.en
        /\ t.exit = Shock!Manage(s, x.en, x.event).exit
        /\ t.pnl = Shock!Manage(s, x.en, x.event).pnl
    BY <1>1 DEF Shock!Trade
  <1>7. DOMAIN s = 1..Len(s)
    BY BarNumbers
  <1> QED
    BY <1>5, <1>6, <1>7 DEF EntryOf

\* The hybrid's legs are at most two trades.
LEMMA HybridLegs ==
    ASSUME NEW s, NEW e,
           NEW H, H = {t \in Shock!Trades(s, e) : t.scheme \in {"E2", "E3"}}
    PROVE  \E a, b : H \in SUBSET {a, b}
  <1> DEFINE it == TriggeredAt(s, e)
             a == Shock!Trade(s, [scheme |-> "E2", event |-> e,
                                  en |-> Shock!EntryE2(s, it, e)])
             b == Shock!Trade(s, [scheme |-> "E3", event |-> e,
                                  en |-> Shock!EntryE3(s, it, e)])
  <1>1. H \in SUBSET {a, b}
    <2> SUFFICES ASSUME NEW t \in H PROVE t = a \/ t = b
      OBVIOUS
    <2>1. PICK x \in Shock!Entries(s, e) : t = Shock!Trade(s, x)
      BY DEF Shock!Trades
    <2>2. x \in Tried(s, it, e)
      BY EntriesAre
    <2>3. t.scheme = x.scheme /\ x.scheme \in {"E2", "E3"}
      BY <2>1 DEF Shock!Trade
    <2>4. x = [scheme |-> "E2", event |-> e, en |-> Shock!EntryE2(s, it, e)]
          \/ x = [scheme |-> "E3", event |-> e, en |-> Shock!EntryE3(s, it, e)]
      <3> HIDE DEF it
      <3> QED
        BY <2>2, <2>3 DEF Tried
    <2> QED
      BY <2>1, <2>4
  <1> HIDE DEF a, b
  <1> QED
    BY <1>1

LEMMA HybridIsSum ==
    ASSUME NEW s, NEW e, NEW f,
           NEW H, H = {t \in Shock!Trades(s, e) : t.scheme \in {"E2", "E3"}},
           \A t \in H : f[t] \in Int /\ f[t] = t.pnl
    PROVE  Shock!Hybrid(Shock!Trades(s, e)) = SumOver(f, H)
  <1> DEFINE R(g) == g = [h \in SUBSET H |->
                            IF h = {} THEN 0
                            ELSE Some(h).pnl + g[h \ {Some(h)}]]
  <1>1. PICK a, b : H \in SUBSET {a, b}
    BY HybridLegs
  <1>2. IsFiniteSet(H)
    <2>1. IsFiniteSet({a}) /\ IsFiniteSet({b}) /\ {a, b} = {a} \cup {b}
      BY FS_Singleton
    <2>2. IsFiniteSet({a} \cup {b})
      BY <2>1, FS_Union
    <2>3. IsFiniteSet({a, b})
      BY <2>1, <2>2
    <2> QED
      BY <1>1, <2>3, FS_Subset
  <1>3. Shock!Hybrid(Shock!Trades(s, e)) = (CHOOSE g : R(g))[H]
    BY DEF Shock!Hybrid, Shock!MapThenSumSet, Shock!MapThenFoldSet, Some
  <1>4. ASSUME NEW g PROVE R(g) <=> SumsBySome(g, f, H)
    <2>1. \A h \in SUBSET H : h # {} => f[Some(h)] = Some(h).pnl
      BY DEF Some
    <2> QED
      BY <2>1 DEF SumsBySome
  <1> HIDE DEF R
  <1>5. /\ SumsBySome(SumFold(f, H), f, H)
        /\ \A g : SumsBySome(g, f, H) => g[H] = SumOver(f, H)
    BY <1>2, SumOneWay
  <1>6. R(CHOOSE g : R(g))
    BY <1>4, <1>5
  <1>7. (CHOOSE g : R(g))[H] = SumOver(f, H)
    BY <1>4, <1>5, <1>6
  <1> QED
    BY <1>3, <1>7

LEMMA TradeBounds ==
    ASSUME NEW s \in Seq(BarType), NEW e \in EventType, Found(s, e),
           NEW t \in Shock!Trades(s, e)
    PROVE  /\ t.pnl \in Int /\ (t.exit > t.en.i => t.pnl >= Worst(e))
           /\ \A j \in (t.en.i + 1)..(t.exit - 1) :
                /\ s[j].ts < Shock!Guard(s[t.en.i].ts)
                /\ s[j].ts - s[t.en.i].ts >= ScratchAfter =>
                     \E k \in (t.en.i + 1)..j :
                       Far(s[k], t.event.dir) - t.event.dir * t.en.px >= t.event.range
  <1> DEFINE en == t.en
  <1>1. /\ t.event = e /\ EntryOf(en, s)
        /\ t.exit = Shock!Manage(s, en, e).exit
        /\ t.pnl = Shock!Manage(s, en, e).pnl
    BY TradesAre
  <1> HIDE DEF en
  <1>2. /\ t.pnl \in Int /\ (t.exit > en.i => t.pnl >= Worst(e))
        /\ \A j \in (en.i + 1)..(t.exit - 1) :
             j \in 1..Len(s) /\ ~Over(s, en, e, j)
    BY <1>1, ManageBounds
  <1>3. ASSUME NEW j \in (en.i + 1)..(t.exit - 1)
        PROVE  /\ s[j].ts < Shock!Guard(s[en.i].ts)
               /\ s[j].ts - s[en.i].ts >= ScratchAfter =>
                    \E k \in (en.i + 1)..j :
                      Far(s[k], e.dir) - e.dir * en.px >= e.range
    <2>1. j \in 1..Len(s) /\ ~Shock!TimeIsUp(s, en, e, j)
      BY <1>2 DEF Over
    <2>2. en.i \in 1..Len(s) /\ en.px \in Int
      BY <1>1 DEF EntryOf
    <2>3. s[j].ts \in Nat /\ s[en.i].ts \in Nat
      BY <2>1, <2>2, BarNumbers
    <2>4. Shock!Guard(s[en.i].ts) \in Int
      <3> DEFINE ts == s[en.i].ts
      <3>1. ts \in Nat
        BY <2>3
      <3> HIDE DEF ts
      <3>2. ts \div DayLen \in Int
        BY <3>1, FeedConstants
      <3>3. \A day \in Int : day * DayLen + GuardAt \in Int
        BY FeedConstants
      <3>4. (ts \div DayLen) + 1 \in Int
        BY <3>2
      <3>5. Shock!Guard(ts) \in Int
        BY <3>2, <3>3, <3>4 DEF Shock!Guard
      <3> QED
        BY <3>5 DEF ts
    <2>5. s[j].ts < Shock!Guard(s[en.i].ts)
      <3> DEFINE guard == Shock!Guard(s[en.i].ts)
                 ts == s[j].ts
      <3>1. ~(ts >= guard) /\ ts \in Int /\ guard \in Int
        BY <2>1, <2>3, <2>4 DEF Shock!TimeIsUp
      <3> HIDE DEF guard, ts
      <3>2. ts < guard
        BY <3>1
      <3> QED
        BY <3>2 DEF guard, ts
    <2>6. ASSUME s[j].ts - s[en.i].ts >= ScratchAfter
          PROVE  \E k \in (en.i + 1)..j :
                   Far(s[k], e.dir) - e.dir * en.px >= e.range
      <3>1. Shock!ReachedOneR(s, en, e, j)
        BY <2>1, <2>6 DEF Shock!TimeIsUp
      <3>2. PICK k \in (en.i + 1)..j :
              Shock!Far(s[k], e.dir) >= e.dir * en.px + e.range
        BY <3>1 DEF Shock!ReachedOneR
      <3>3. k \in 1..Len(s)
        <4>1. Len(s) \in Nat
          BY BarNumbers
        <4> QED
          BY <2>1, <2>2, <4>1
      <3> DEFINE far == Shock!Far(s[k], e.dir)
                 paid == e.dir * en.px
      <3>4. Far(s[k], e.dir) = far
        BY DEF Far, Shock!Far
      <3>5. far \in Int
        BY <3>3, NearFar, EventNumbers
      <3>6. paid \in Int /\ e.range \in Nat
        <4>1. e.dir \in {-1, 1} /\ e.range \in Nat
          BY EventNumbers
        <4> QED
          BY <2>2, <4>1
      <3> HIDE DEF far, paid
      <3>7. far >= paid + e.range
        BY <3>2 DEF far, paid
      <3>8. far - paid >= e.range
        BY <3>5, <3>6, <3>7
      <3> QED
        BY <3>4, <3>8 DEF paid
    <2> QED
      BY <2>5, <2>6
  <1> QED
    BY <1>1, <1>2, <1>3 DEF en

\* A trade the price leaves loses at most 45% of the impulse and the friction,
\* the hybrid as much of its legs, and a trade is over at the first bar that
\* has reached the guard, or, without +1R, an hour (manage).
THEOREM ShockTradesStopped == Spec => []ShockTradesBounded
  <1>1. StreamsInv => ShockTradesBounded
    <2> SUFFICES ASSUME StreamsInv, NEW n \in DOMAIN events
                 PROVE  LET T == Shock!Trades(seen, events[n])
                            worst == -((9 * events[n].range) \div 20) - Friction
                            walked == {t \in T : t.exit > t.en.i}
                        IN /\ \A t \in walked : t.pnl >= worst
                           /\ walked = T => Shock!Hybrid(T) >= 2 * worst
                           /\ \A t \in T : \A j \in (t.en.i + 1)..(t.exit - 1) :
                                /\ seen[j].ts < Shock!Guard(seen[t.en.i].ts)
                                /\ seen[j].ts - seen[t.en.i].ts >= ScratchAfter =>
                                     \E k \in (t.en.i + 1)..j :
                                       Far(seen[k], t.event.dir)
                                         - t.event.dir * t.en.px >= t.event.range
      BY DEF ShockTradesBounded
    <2> DEFINE e == events[n]
               T == Shock!Trades(seen, e)
               walked == {t \in T : t.exit > t.en.i}
    <2>1. program = "shock"
      BY DEF StreamsInv, DetectorInv
    <2>2. seen \in Seq(BarType) /\ e \in EventType /\ Found(seen, e)
      BY <2>1 DEF StreamsInv, StreamInv, DetectorInv, Sorted, Right
    <2> HIDE DEF e
    <2>3. \A t \in T :
            /\ t.pnl \in Int /\ (t.exit > t.en.i => t.pnl >= Worst(e))
            /\ \A j \in (t.en.i + 1)..(t.exit - 1) :
                 /\ seen[j].ts < Shock!Guard(seen[t.en.i].ts)
                 /\ seen[j].ts - seen[t.en.i].ts >= ScratchAfter =>
                      \E k \in (t.en.i + 1)..j :
                        Far(seen[k], t.event.dir) - t.event.dir * t.en.px
                          >= t.event.range
      BY <2>2, TradeBounds
    <2>4. ASSUME walked = T PROVE Shock!Hybrid(T) >= 2 * Worst(e)
      <3> DEFINE H == {t \in T : t.scheme \in {"E2", "E3"}}
                 f == [t \in H |-> t.pnl]
      <3>1. \A t \in H : f[t] \in Int /\ f[t] = t.pnl /\ f[t] >= Worst(e)
        BY <2>3, <2>4
      <3>2. Worst(e) \in Int /\ Worst(e) <= 0
        <4> DEFINE loss == (9 * e.range) \div 20
        <4>1. loss \in Nat
          BY <2>2, EventNumbers
        <4> HIDE DEF loss
        <4>2. -loss - Friction \in Int /\ -loss - Friction <= 0
          BY <4>1, FeedConstants
        <4> QED
          BY <4>2 DEF Worst, loss
      <3>a. H = {t \in Shock!Trades(seen, e) : t.scheme \in {"E2", "E3"}}
        OBVIOUS
      <3>b. \A t \in H : f[t] \in Int /\ f[t] = t.pnl
        BY <3>1
      <3> HIDE DEF f, H
      <3>3. /\ \E a, b : H \in SUBSET {a, b}
            /\ Shock!Hybrid(T) = SumOver(f, H)
        <4>1. Shock!Hybrid(Shock!Trades(seen, e)) = SumOver(f, H)
          <5> HIDE DEF T, walked
          <5> QED
            BY <3>a, <3>b, HybridIsSum
        <4>2. \E a, b : H \in SUBSET {a, b}
          BY <3>a, HybridLegs
        <4> QED
          BY <4>1, <4>2
      <3>4. PICK a, b : H \in SUBSET {a, b}
        BY <3>3
      <3>5. SumOver(f, H) >= 2 * Worst(e)
        BY <3>1, <3>2, <3>4, SumOfTwo
      <3> QED
        BY <3>3, <3>5
    <2> HIDE DEF T
    <2> QED
      BY <2>3, <2>4 DEF e, T, Worst
  <1> QED
    BY <1>1, SpecStreams, PTL
-----------------------------------------------------------------------------
(* The drift control. *)

\* The bars drawn are bars of the stream whose hold ends in it.
DriftInv ==
    /\ chosen = <<>> \/ (program = "drift" /\ ended)
    /\ chosen \in Seq(Int)
    /\ \A k \in DOMAIN chosen :
         chosen[k] >= 1 /\ chosen[k] + HorizonBars <= Len(seen)

LEMMA DriftSteps ==
    ASSUME StreamInv, DriftInv, [Next]_vars
    PROVE  DriftInv'
  <1>0. program' = program
    BY StreamSteps
  <1>1. ASSUME chosen' = chosen, chosen = <<>> PROVE DriftInv'
    <2>1. chosen' \in Seq(Int) /\ DOMAIN chosen' = {}
      BY <1>1
    <2> QED
      BY <1>1, <2>1 DEF DriftInv
  <1>2. ASSUME chosen' = chosen, chosen # <<>>, seen' = seen, ended' = ended
        PROVE  DriftInv'
    BY <1>0, <1>2 DEF DriftInv
  <1>3. chosen # <<>> => program = "drift" /\ ended
    BY DEF DriftInv
  <1>4. CASE Drift_Run
    <2>1. /\ program = "drift" /\ ended' /\ seen' = seen
          /\ \E n \in 1..MaxDraws, replace \in BOOLEAN : Drift!Draw(seen, n, replace)
      BY <1>4 DEF Drift_Run
    <2>2. PICK n \in 1..MaxDraws : chosen' \in [1..n -> Drift!Candidates(seen)]
      BY <2>1 DEF Drift!Draw
    <2>3. seen \in Seq(BarType)
      BY <2>1 DEF StreamInv, Sorted
    <2>4. \A i \in Drift!Candidates(seen) :
            i \in Int /\ i >= 1 /\ i + HorizonBars <= Len(seen)
      <3>1. DOMAIN seen = 1..Len(seen) /\ Len(seen) \in Nat
        BY <2>3
      <3> QED
        BY <3>1 DEF Drift!Candidates
    <2>5. n \in Nat
      OBVIOUS
    <2>6. /\ chosen' \in [1..n -> Int] /\ DOMAIN chosen' = 1..n
          /\ \A k \in DOMAIN chosen' :
               chosen'[k] >= 1 /\ chosen'[k] + HorizonBars <= Len(seen)
      BY <2>2, <2>4
    <2>7. chosen' \in Seq(Int)
      BY <2>5, <2>6
    <2> QED
      BY <1>0, <2>1, <2>6, <2>7 DEF DriftInv
  <1>5. CASE Sub_Bar \/ Poll \/ Context_Bar \/ Shock_Bar \/ End
    <2>1. chosen' = chosen /\ program # "drift"
      BY <1>5 DEF Sub_Bar, Poll, Context_Bar, Shock_Bar, End
    <2> QED
      BY <1>1, <1>3, <2>1
  <1>6. CASE Loaded_Bar
    <2>1. chosen' = chosen /\ ~ended
      BY <1>6 DEF Loaded_Bar, Arrives
    <2> QED
      BY <1>1, <1>3, <2>1
  <1>7. CASE Finished \/ UNCHANGED vars
    <2>1. chosen' = chosen /\ seen' = seen /\ ended' = ended
      BY <1>7 DEF Finished, vars
    <2> QED
      BY <1>1, <1>2, <2>1
  <1> QED
    BY <1>4, <1>5, <1>6, <1>7 DEF Next

LEMMA DriftEnds == \A S : Drift!Max(S) = Max(S) /\ Drift!Min(S) = Min(S)
  BY DEF Drift!Max, Max, Drift!Min, Min

\* Whatever a sum over the draw is of, it is the sum over its places.
LastFirst(D) == [s \in SUBSET D |-> Max(s)]

LEMMA LargestIn ==
    ASSUME NEW D, IsFiniteSet(D), D \subseteq Int
    PROVE  \A s \in SUBSET D : s # {} => Max(s) \in s
  <1> SUFFICES ASSUME NEW s \in SUBSET D, s # {} PROVE Max(s) \in s
    OBVIOUS
  <1>1. IsFiniteSet(s) /\ s \subseteq Int
    BY FS_Subset
  <1> QED
    BY <1>1, MaxIsLargest

LEMMA DrawSums ==
    ASSUME NEW D, IsFiniteSet(D), \A s \in SUBSET D : s # {} => Max(s) \in s,
           NEW f, \A k \in D : f[k] \in Int
    PROVE  /\ SumsInOrder(Sums(f, D), f, D, LastFirst(D))
           /\ \A g : SumsInOrder(g, f, D, LastFirst(D)) => g[D] = SumOver(f, D)
           /\ \A s \in SUBSET D : s # {} => Max(s) \in s /\ LastFirst(D)[s] = Max(s)
  <1> DEFINE pick == LastFirst(D)
  <1>1. \A s \in SUBSET D : s # {} => pick[s] = Max(s)
    BY DEF LastFirst
  <1>2. \A s \in SUBSET D : s # {} => pick[s] \in s
    BY <1>1
  <1> HIDE DEF pick
  <1>3. /\ SumsInOrder(Sums(f, D), f, D, pick)
        /\ \A g : SumsInOrder(g, f, D, pick) =>
                    \A s \in SUBSET D : g[s] = SumOver(f, s)
    BY <1>2, SumAnyOrder
  <1> QED
    BY <1>1, <1>3 DEF pick

Pnl(d) == [k \in DOMAIN chosen |->
             d * (seen[chosen[k] + HorizonBars].c - seen[chosen[k]].c)
               - DriftFriction]

Excursion(d) == [k \in DOMAIN chosen |-> Drift!Mfe(seen, chosen[k], d)]

LEMMA TotalOfDraw ==
    ASSUME chosen \in Seq(Int), NEW d, \A k \in DOMAIN chosen : Pnl(d)[k] \in Int
    PROVE  Drift!DriftResult(seen, d).total = SumOver(Pnl(d), DOMAIN chosen)
  <1> DEFINE D == DOMAIN chosen
             f == Pnl(d)
             R(g) == g = [s \in SUBSET D |->
                            IF s = {} THEN 0
                            ELSE g[s \ {Max(s)}] +
                                 (d * (seen[chosen[Max(s)] + HorizonBars].c
                                         - seen[chosen[Max(s)]].c)
                                    - DriftFriction)]
  <1>1. Drift!DriftResult(seen, d).total = (CHOOSE g : R(g))[D]
    BY DEF Drift!DriftResult, Drift!FoldLeft, Drift!MapThenFoldSet, Drift!Max, Max
  <1>2. /\ SumsInOrder(Sums(f, D), f, D, LastFirst(D))
        /\ \A g : SumsInOrder(g, f, D, LastFirst(D)) => g[D] = SumOver(f, D)
        /\ \A s \in SUBSET D : s # {} => Max(s) \in s /\ LastFirst(D)[s] = Max(s)
    <2>1. IsFiniteSet(D) /\ \A s \in SUBSET D : s # {} => Max(s) \in s
      <3>1. D = 1..Len(chosen) /\ Len(chosen) \in Nat
        OBVIOUS
      <3>2. IsFiniteSet(D) /\ D \subseteq Int
        BY <3>1, FS_Interval
      <3> HIDE DEF D
      <3> QED
        BY <3>2, LargestIn
    <2>2. \A k \in D : f[k] \in Int
      OBVIOUS
    <2> HIDE DEF D, f
    <2> QED
      BY <2>1, <2>2, DrawSums
  <1>3. ASSUME NEW g PROVE R(g) <=> SumsInOrder(g, f, D, LastFirst(D))
    <2>1. \A s \in SUBSET D : s # {} =>
            f[LastFirst(D)[s]] =
              d * (seen[chosen[Max(s)] + HorizonBars].c - seen[chosen[Max(s)]].c)
                - DriftFriction
      BY <1>2 DEF Pnl
    <2> HIDE DEF D, f
    <2> QED
      BY <1>2, <2>1 DEF SumsInOrder
  <1> HIDE DEF R, D, f
  <1>4. R(CHOOSE g : R(g))
    BY <1>2, <1>3
  <1> QED
    BY <1>1, <1>2, <1>3, <1>4 DEF D, f

LEMMA ExcursionOfDraw ==
    ASSUME chosen \in Seq(Int), NEW d,
           \A k \in DOMAIN chosen : Excursion(d)[k] \in Int
    PROVE  Drift!DriftResult(seen, d).mfe = SumOver(Excursion(d), DOMAIN chosen)
  <1> DEFINE D == DOMAIN chosen
             f == Excursion(d)
             R(g) == g = [s \in SUBSET D |->
                            IF s = {} THEN 0
                            ELSE g[s \ {Max(s)}] + Drift!Mfe(seen, chosen[Max(s)], d)]
  <1>1. Drift!DriftResult(seen, d).mfe = (CHOOSE g : R(g))[D]
    BY DEF Drift!DriftResult, Drift!FoldLeft, Drift!MapThenFoldSet, Drift!Max, Max
  <1>2. /\ SumsInOrder(Sums(f, D), f, D, LastFirst(D))
        /\ \A g : SumsInOrder(g, f, D, LastFirst(D)) => g[D] = SumOver(f, D)
        /\ \A s \in SUBSET D : s # {} => Max(s) \in s /\ LastFirst(D)[s] = Max(s)
    <2>1. IsFiniteSet(D) /\ \A s \in SUBSET D : s # {} => Max(s) \in s
      <3>1. D = 1..Len(chosen) /\ Len(chosen) \in Nat
        OBVIOUS
      <3>2. IsFiniteSet(D) /\ D \subseteq Int
        BY <3>1, FS_Interval
      <3> HIDE DEF D
      <3> QED
        BY <3>2, LargestIn
    <2>2. \A k \in D : f[k] \in Int
      OBVIOUS
    <2> HIDE DEF D, f
    <2> QED
      BY <2>1, <2>2, DrawSums
  <1>3. ASSUME NEW g PROVE R(g) <=> SumsInOrder(g, f, D, LastFirst(D))
    <2>1. \A s \in SUBSET D : s # {} =>
            f[LastFirst(D)[s]] = Drift!Mfe(seen, chosen[Max(s)], d)
      BY <1>2 DEF Excursion
    <2> HIDE DEF D, f
    <2> QED
      BY <1>2, <2>1 DEF SumsInOrder
  <1> HIDE DEF R, D, f
  <1>4. R(CHOOSE g : R(g))
    BY <1>2, <1>3
  <1> QED
    BY <1>1, <1>2, <1>3, <1>4 DEF D, f

LEMMA AdverseOfDraw ==
    ASSUME NEW d
    PROVE  Drift!DriftResult(seen, d).mae = Drift!DriftResult(seen, -d).mfe
  BY DEF Drift!DriftResult, Drift!Mae

\* A hold makes at most what it shows: its exit is one of its bars.
LEMMA HoldWithinExcursion ==
    ASSUME NEW s \in Seq(BarType), NEW i \in Int, i >= 1,
           i + HorizonBars <= Len(s), NEW d \in {-1, 1}
    PROVE  /\ Drift!Mfe(s, i, d) \in Int
           /\ d * (s[i + HorizonBars].c - s[i].c) \in Int
           /\ d * (s[i + HorizonBars].c - s[i].c) <= Drift!Mfe(s, i, d)
  <1> DEFINE n == Len(s)
             x == i + HorizonBars
             W == Drift!HoldWindow(i)
             f == [j \in W |-> s[j].h]
             g == [j \in W |-> s[j].l]
  <1>1. n \in Nat /\ \A j \in 1..n : /\ s[j].h \in Nat /\ s[j].l \in Nat
                                     /\ s[j].c \in Nat /\ s[j].c =< s[j].h
                                     /\ s[j].l =< s[j].c
    BY BarNumbers
  <1>2. W \in SUBSET (1..n) /\ x \in W /\ i \in 1..n /\ x \in 1..n
    BY <1>1, FeedConstants DEF Drift!HoldWindow
  <1> HIDE DEF W, n, x
  <1>3. W # {} /\ \A j \in W : f[j] \in Int /\ g[j] \in Int
    BY <1>1, <1>2
  <1> HIDE DEF f, g
  <1> DEFINE hi == Max(Image(f, W))
             lo == Min(Image(g, W))
  <1>4. hi \in Int /\ \A j \in W : hi >= f[j]
    BY <1>1, <1>2, <1>3, ImageEnds
  <1>5. lo \in Int /\ \A j \in W : lo =< g[j]
    BY <1>1, <1>2, <1>3, ImageEnds
  <1>6. /\ Image(f, W) = {s[j].h : j \in W} /\ Image(g, W) = {s[j].l : j \in W}
        /\ f[x] = s[x].h /\ g[x] = s[x].l
    BY <1>2 DEF f, g, Image
  <1>7. /\ hi \in Int /\ lo \in Int /\ hi >= s[x].h /\ lo =< s[x].l
    BY <1>2, <1>4, <1>5, <1>6
  <1>8. Drift!Extremes(s, i) = [hi |-> hi, lo |-> lo]
    BY <1>6, DriftEnds DEF Drift!Extremes, W
  <1> HIDE DEF hi, lo
  <1>9. Drift!Mfe(s, i, d) =
          Drift!Greatest(0, IF d = 1 THEN hi - s[i].c ELSE s[i].c - lo)
    BY <1>8 DEF Drift!Mfe
  <1> DEFINE a == s[i].c
             b == s[x].c
             h == s[x].h
             l == s[x].l
             mfe == Drift!Mfe(s, i, d)
  <1>10. /\ a \in Int /\ b \in Int /\ h \in Int /\ l \in Int /\ b =< h /\ l =< b
         /\ hi >= h /\ lo =< l
    BY <1>1, <1>2, <1>7
  <1>11. /\ d = 1 => mfe = Drift!Greatest(0, hi - a)
         /\ d = -1 => mfe = Drift!Greatest(0, a - lo)
    BY <1>9
  <1> HIDE DEF a, b, h, l, mfe
  <1>12. mfe \in Int /\ d * (b - a) \in Int /\ d * (b - a) <= mfe
    <2>1. CASE d = 1
      BY <1>7, <1>10, <1>11, <2>1 DEF Drift!Greatest
    <2>2. CASE d = -1
      BY <1>7, <1>10, <1>11, <2>2 DEF Drift!Greatest
    <2> QED
      BY <2>1, <2>2
  <1> QED
    BY <1>12 DEF mfe, a, b, x

Moves(d) == [k \in DOMAIN chosen |->
               d * (seen[chosen[k] + HorizonBars].c - seen[chosen[k]].c)]
Paid == [k \in DOMAIN chosen |-> DriftFriction]

LEMMA DrawBounds ==
    ASSUME StreamInv, DriftInv, chosen # <<>>, NEW d \in {-1, 1}
    PROVE  LET r == Drift!DriftResult(seen, d)
               paid == Len(chosen) * DriftFriction
               made == SumOver(Moves(d), DOMAIN chosen)
           IN /\ r.n = Len(chosen) /\ made \in Int /\ paid \in Int
              /\ r.total \in Int /\ r.total = made - paid
              /\ r.mfe \in Int /\ made <= r.mfe
              /\ SumOver(Moves(-d), DOMAIN chosen) = -made
  <1> DEFINE D == DOMAIN chosen
             made == SumOver(Moves(d), D)
             paid == Len(chosen) * DriftFriction
             r == Drift!DriftResult(seen, d)
  <1>1. /\ chosen \in Seq(Int) /\ seen \in Seq(BarType)
        /\ \A k \in D : chosen[k] >= 1 /\ chosen[k] + HorizonBars <= Len(seen)
    BY DEF DriftInv, StreamInv, Sorted
  <1>2. IsFiniteSet(D) /\ Cardinality(D) = Len(chosen) /\ Len(chosen) \in Nat
    <2>1. D = 1..Len(chosen) /\ Len(chosen) \in Nat
      BY <1>1
    <2> QED
      BY <2>1, FS_Interval
  <1>3. \A k \in D : /\ Moves(d)[k] \in Int /\ Excursion(d)[k] \in Int
                     /\ Moves(d)[k] <= Excursion(d)[k]
    <2> SUFFICES ASSUME NEW k \in D
                 PROVE  /\ Moves(d)[k] \in Int /\ Excursion(d)[k] \in Int
                        /\ Moves(d)[k] <= Excursion(d)[k]
      OBVIOUS
    <2>1. chosen[k] \in Int /\ chosen[k] >= 1 /\ chosen[k] + HorizonBars <= Len(seen)
      BY <1>1
    <2> QED
      BY <1>1, <2>1, HoldWithinExcursion DEF Moves, Excursion
  <1>4. \A k \in D : /\ Pnl(d)[k] \in Int /\ Paid[k] \in Int
                     /\ Paid[k] = DriftFriction
                     /\ Moves(d)[k] = Pnl(d)[k] + Paid[k]
    <2> SUFFICES ASSUME NEW k \in D
                 PROVE  /\ Pnl(d)[k] \in Int /\ Paid[k] = DriftFriction
                        /\ Moves(d)[k] = Pnl(d)[k] + Paid[k]
      BY FeedConstants
    <2>1. /\ Paid[k] = DriftFriction
          /\ Pnl(d)[k] = Moves(d)[k] - DriftFriction
      BY DEF Pnl, Moves, Paid
    <2> QED
      BY <1>3, <2>1, FeedConstants
  <1>5. \A k \in D : Moves(-d)[k] = -Moves(d)[k]
    <2> SUFFICES ASSUME NEW k \in D PROVE Moves(-d)[k] = -Moves(d)[k]
      OBVIOUS
    <2> DEFINE a == seen[chosen[k]].c
               b == seen[chosen[k] + HorizonBars].c
    <2>1. a \in Int /\ b \in Int
      <3>1. /\ chosen[k] \in Int /\ chosen[k] >= 1
            /\ chosen[k] + HorizonBars <= Len(seen) /\ HorizonBars \in Nat
            /\ Len(seen) \in Nat
        BY <1>1, FeedConstants
      <3>2. chosen[k] \in 1..Len(seen) /\ chosen[k] + HorizonBars \in 1..Len(seen)
        BY <3>1
      <3> QED
        BY <1>1, <3>2, BarNumbers
    <2>2. Moves(d)[k] = d * (b - a) /\ Moves(-d)[k] = (-d) * (b - a)
      BY DEF Moves
    <2> HIDE DEF a, b
    <2>3. (-d) * (b - a) = -(d * (b - a))
      BY <2>1
    <2> QED
      BY <2>2, <2>3
  <1>6. r.total = SumOver(Pnl(d), D)
    BY <1>1, <1>4, TotalOfDraw
  <1>7. r.mfe = SumOver(Excursion(d), D)
    BY <1>1, <1>3, ExcursionOfDraw
  <1>8. r.n = Len(chosen)
    BY DEF Drift!DriftResult
  <1> HIDE DEF D, r
  <1>9. SumOver(Paid, D) = paid /\ paid \in Int
    <2>1. \A k \in D : Paid[k] = DriftFriction
      BY <1>4
    <2>2. IsFiniteSet(D) /\ DriftFriction \in Int
      BY <1>2, FeedConstants
    <2>3. SumOver(Paid, D) = Cardinality(D) * DriftFriction
      <3> DEFINE f == Paid
      <3>1. \A k \in D : f[k] = DriftFriction
        BY <2>1
      <3> HIDE DEF f
      <3>2. SumOver(f, D) = Cardinality(D) * DriftFriction
        BY <2>2, <3>1, SumOverConstant
      <3> QED
        BY <3>2 DEF f
    <2> QED
      BY <1>2, <2>2, <2>3
  <1>10. made = SumOver(Pnl(d), D) + SumOver(Paid, D)
    <2>1. \A k \in D : /\ Pnl(d)[k] \in Int /\ Paid[k] \in Int
                       /\ Moves(d)[k] = Pnl(d)[k] + Paid[k]
      BY <1>4
    <2> QED
      BY <1>2, <2>1, SumOverAdd
  <1>11. made \in Int /\ SumOver(Pnl(d), D) \in Int /\ r.mfe \in Int
    <2>1. /\ \A k \in D : Moves(d)[k] \in Int
          /\ \A k \in D : Pnl(d)[k] \in Int
          /\ \A k \in D : Excursion(d)[k] \in Int
      BY <1>3, <1>4
    <2>2. made \in Int
      BY <1>2, <2>1, SumOverInt
    <2>3. SumOver(Pnl(d), D) \in Int
      BY <1>2, <2>1, SumOverInt
    <2>4. SumOver(Excursion(d), D) \in Int
      BY <1>2, <2>1, SumOverInt
    <2> QED
      BY <1>7, <2>2, <2>3, <2>4
  <1>12. made <= r.mfe
    BY <1>2, <1>3, <1>7, SumOverLeq
  <1>13. SumOver(Moves(-d), D) = -made
    <2>1. \A k \in D : Moves(d)[k] \in Int /\ Moves(-d)[k] = -Moves(d)[k]
      BY <1>3, <1>5
    <2> QED
      BY <1>2, <2>1, SumOverOpposite
  <1> HIDE DEF made, paid
  <1>14. r.total = made - paid
    BY <1>6, <1>9, <1>10, <1>11
  <1> QED
    BY <1>6, <1>8, <1>9, <1>11, <1>12, <1>13, <1>14 DEF D, r, made, paid

\* A held entry makes at most what its excursion shows and loses at most what
\* its adverse one does, long and short alike (run_drift, _excursion).
THEOREM DriftHeldWithin == Spec => []DriftWithinExcursion
  <1>1. Init => DriftInv
    <2> SUFFICES ASSUME Init PROVE DriftInv
      OBVIOUS
    <2>1. chosen = <<>>
      BY DEF Init, Drift!DriftInit
    <2>2. chosen \in Seq(Int) /\ DOMAIN chosen = {}
      BY <2>1
    <2> QED
      BY <2>1, <2>2 DEF DriftInv
  <1>2. StreamsInv /\ DriftInv /\ [Next]_vars => DriftInv'
    BY DriftSteps DEF StreamsInv
  <1>3. StreamsInv /\ DriftInv => DriftWithinExcursion
    <2> SUFFICES ASSUME StreamsInv, DriftInv, chosen # <<>>, NEW d \in {-1, 1}
                 PROVE  LET r == Drift!DriftResult(seen, d)
                            paid == r.n * DriftFriction
                        IN /\ -r.mae <= r.total + paid /\ r.total + paid <= r.mfe
                           /\ r.total + Drift!DriftResult(seen, -d).total = -2 * paid
      BY DEF DriftWithinExcursion
    <2> DEFINE r == Drift!DriftResult(seen, d)
               q == Drift!DriftResult(seen, -d)
               paid == Len(chosen) * DriftFriction
               made == SumOver(Moves(d), DOMAIN chosen)
               lost == SumOver(Moves(-d), DOMAIN chosen)
    <2>1. /\ r.n = Len(chosen) /\ made \in Int /\ paid \in Int
          /\ r.total \in Int /\ r.total = made - paid
          /\ r.mfe \in Int /\ made <= r.mfe /\ lost = -made
      BY DrawBounds DEF StreamsInv
    <2>2. /\ q.total \in Int /\ q.total = lost - paid
          /\ q.mfe \in Int /\ lost <= q.mfe
      <3>1. -d \in {-1, 1}
        OBVIOUS
      <3> QED
        BY <3>1, DrawBounds DEF StreamsInv
    <2>3. r.mae = q.mfe
      BY AdverseOfDraw
    <2> HIDE DEF r, q, paid, made, lost
    <2>4. /\ -r.mae <= r.total + paid /\ r.total + paid <= r.mfe
          /\ r.total + q.total = -2 * paid
      BY <2>1, <2>2, <2>3
    <2> QED
      BY <2>1, <2>4 DEF r, q, paid
  <1> QED
    BY <1>1, <1>2, <1>3, SpecStreams, PTL DEF Spec
-----------------------------------------------------------------------------
(* The context machine. *)

\* Integer division is monotone.
LEMMA QuotientGrows ==
    ASSUME NEW d \in Nat \ {0}, NEW x \in Nat, NEW y \in Nat, x =< y
    PROVE  /\ x \div d \in Nat /\ y \div d \in Nat /\ x \div d =< y \div d
           /\ x - (x % d) =< y - (y % d)
  <1> DEFINE p == x \div d
             q == y \div d
             e == x % d
             f == y % d
  <1>1. /\ p \in Nat /\ q \in Nat /\ e \in 0..(d - 1) /\ f \in 0..(d - 1)
        /\ x = d * p + e /\ y = d * q + f
    OBVIOUS
  <1> HIDE DEF p, q, e, f
  <1>2. ASSUME NEW n \in Nat, p = q + n, n # 0 PROVE FALSE
    <2> DEFINE a == d * q
               c == d * n
    <2>1. d * p = a + c
      BY <1>1, <1>2
    <2>2. c >= d /\ a \in Int /\ c \in Int
      BY <1>1, <1>2
    <2> HIDE DEF a, c
    <2>3. x = a + c + e /\ y = a + f
      BY <1>1, <2>1 DEF a
    <2> QED
      BY <1>1, <2>2, <2>3
  <1>3. p =< q
    <2>1. p > q => p - q \in Nat /\ p = q + (p - q) /\ p - q # 0
      BY <1>1
    <2>2. ~(p > q)
      BY <1>2, <2>1
    <2> QED
      BY <1>1, <2>2
  <1>4. PICK n \in Nat : q = p + n
    <2>1. q - p \in Nat /\ q = p + (q - p)
      BY <1>1, <1>3
    <2> QED
      BY <2>1
  <1>5. d * p =< d * q
    <2>1. d * q = d * p + d * n /\ d * n \in Nat /\ d * p \in Int
      BY <1>1, <1>4
    <2> DEFINE a == d * p
               c == d * n
    <2> HIDE DEF a, c
    <2>2. a =< a + c
      BY <2>1 DEF a, c
    <2> QED
      BY <2>1, <2>2 DEF a, c
  <1>6. x - e = d * p /\ y - f = d * q
    <2> DEFINE a == d * p
               c == d * q
    <2>1. a \in Int /\ c \in Int
      BY <1>1
    <2>2. x = a + e /\ y = c + f
      BY <1>1
    <2> HIDE DEF a, c
    <2>3. x - e = a /\ y - f = c
      BY <1>1, <2>1, <2>2
    <2> QED
      BY <2>3 DEF a, c
  <1> QED
    BY <1>1, <1>3, <1>5, <1>6 DEF p, q, e, f

\* A time is a day and a time of the day.
LEMMA DayAndTime ==
    ASSUME NEW x \in Nat
    PROVE  /\ x \div DayLen \in Nat /\ x % DayLen \in 0..(DayLen - 1)
           /\ x = DayLen * (x \div DayLen) + (x % DayLen)
  BY FeedConstants

LEMMA LaterDay ==
    ASSUME NEW x \in Nat, NEW y \in Nat, x =< y
    PROVE  x \div DayLen =< y \div DayLen
  BY FeedConstants, QuotientGrows

\* The session of a time of the day.
LEMMA SessionIs ==
    ASSUME NEW x \in Nat
    PROVE  LET r == x % DayLen
           IN Ctx!TagSession(x) =
                IF r < AsiaEnd THEN "ASIA" ELSE IF r < LondonEnd THEN "LONDON"
                ELSE IF r < AmEnd THEN "NY_AM" ELSE IF r < PmEnd THEN "NY_PM"
                ELSE "CLOSED"
  <1> DEFINE r == x % DayLen
             I == {i \in 1..5 : r < Ctx!SessionBounds[i]}
  <1>1. /\ r \in 0..(DayLen - 1)
        /\ {AsiaEnd, LondonEnd, AmEnd, PmEnd, DayLen} \subseteq Nat
        /\ 0 < AsiaEnd /\ AsiaEnd < LondonEnd /\ LondonEnd < AmEnd
        /\ AmEnd < PmEnd /\ PmEnd < DayLen
    BY DayAndTime, FeedAssumption DEF FeedAssumption
  <1>2. Ctx!TagSession(x) = Ctx!SessionNames[Min(I)]
    BY DEF Ctx!TagSession, Ctx!Min, Min
  <1>3. \A i \in 1..5 :
          i \in I <=> \/ i = 1 /\ r < AsiaEnd
                      \/ i = 2 /\ r < LondonEnd
                      \/ i = 3 /\ r < AmEnd
                      \/ i = 4 /\ r < PmEnd
                      \/ i = 5
    BY <1>1 DEF Ctx!SessionBounds
  <1>4. I \in SUBSET Nat /\ I \subseteq 1..5 /\ 5 \in I
    BY <1>3
  <1> HIDE DEF r, I
  <1>5. Min(I) \in I /\ \A i \in I : Min(I) =< i
    <2>1. I # {}
      BY <1>4
    <2> QED
      BY <1>4, <2>1, MinOfNats
  <1> DEFINE m == Min(I)
  <1>6. /\ m \in 1..5 /\ m \in I /\ \A i \in I : m =< i
    BY <1>4, <1>5
  <1> HIDE DEF m
  <1>7. m = IF r < AsiaEnd THEN 1 ELSE IF r < LondonEnd THEN 2
            ELSE IF r < AmEnd THEN 3 ELSE IF r < PmEnd THEN 4 ELSE 5
    BY <1>1, <1>3, <1>6
  <1>8. Ctx!TagSession(x) = Ctx!SessionNames[m]
    BY <1>2 DEF m
  <1> QED
    BY <1>7, <1>8 DEF Ctx!SessionNames, r

\* A session is one stretch of its day.
LEMMA SessionInOnePiece ==
    ASSUME NEW x \in Nat, NEW y \in Nat, NEW z \in Nat, x =< y, y =< z,
           x \div DayLen = z \div DayLen,
           Ctx!TagSession(x) = Ctx!TagSession(z)
    PROVE  /\ y \div DayLen = z \div DayLen
           /\ Ctx!TagSession(y) = Ctx!TagSession(z)
  <1> DEFINE d == z \div DayLen
             base == DayLen * d
  <1>1. y \div DayLen = d /\ d \in Nat
    <2>1. /\ x \div DayLen =< y \div DayLen /\ y \div DayLen =< d
          /\ y \div DayLen \in Nat /\ d \in Nat
      BY LaterDay, DayAndTime
    <2> QED
      BY <2>1
  <1>2. base \in Int
    BY <1>1, FeedConstants
  <1>3. /\ x = base + (x % DayLen) /\ y = base + (y % DayLen)
        /\ z = base + (z % DayLen)
        /\ x % DayLen \in 0..(DayLen - 1) /\ y % DayLen \in 0..(DayLen - 1)
        /\ z % DayLen \in 0..(DayLen - 1)
    BY <1>1, DayAndTime
  <1> DEFINE rx == x % DayLen
             ry == y % DayLen
             rz == z % DayLen
  <1> HIDE DEF d, base
  <1>4. /\ rx \in Nat /\ ry \in Nat /\ rz \in Nat /\ rx =< ry /\ ry =< rz
    BY <1>2, <1>3, FeedConstants
  <1>5. /\ {AsiaEnd, LondonEnd, AmEnd, PmEnd, DayLen} \subseteq Nat
        /\ 0 < AsiaEnd /\ AsiaEnd < LondonEnd /\ LondonEnd < AmEnd
        /\ AmEnd < PmEnd /\ PmEnd < DayLen
    BY FeedAssumption DEF FeedAssumption
  <1> DEFINE T(r) == IF r < AsiaEnd THEN "ASIA"
                     ELSE IF r < LondonEnd THEN "LONDON"
                     ELSE IF r < AmEnd THEN "NY_AM"
                     ELSE IF r < PmEnd THEN "NY_PM" ELSE "CLOSED"
  <1>6. /\ Ctx!TagSession(x) = T(rx) /\ Ctx!TagSession(y) = T(ry)
        /\ Ctx!TagSession(z) = T(rz)
    BY SessionIs
  <1> HIDE DEF rx, ry, rz
  <1>7. T(rx) = T(rz) => T(ry) = T(rz)
    BY <1>4, <1>5
  <1> QED
    BY <1>1, <1>6, <1>7 DEF d

\* The bars of a day and of a session, and what is in them.
DayAt(s, i) == Ctx!GlobexDay(s[i].ts)
SessionAt(s, i) == Ctx!TagSession(s[i].ts)
TodayIn(s) == {i \in DOMAIN s : DayAt(s, i) = DayAt(s, Len(s))}
Within(s, S) == {i \in TodayIn(s) : SessionAt(s, i) \in S}
InNewYork(s) == {i \in DOMAIN s : SessionAt(s, i) \in Ctx!NewYork}
LastDayIn(s, I) ==
    LET before == I \ TodayIn(s)
    IN {i \in before : \A j \in before : DayAt(s, j) <= DayAt(s, i)}
CameFrom(s) ==
    IF Min(TodayIn(s)) = 1 THEN "none" ELSE SessionAt(s, Min(TodayIn(s)) - 1)

Highs(s) == [i \in DOMAIN s |-> s[i].h]
Lows(s) == [i \in DOMAIN s |-> s[i].l]
Typicals(s) == [i \in DOMAIN s |-> (s[i].h + s[i].l + s[i].c) * s[i].v]
Volumes(s) == [i \in DOMAIN s |-> s[i].v]

RangeIn(s, I) ==
    IF I = {} THEN Ctx!NoRange
    ELSE [hi |-> Max(Image(Highs(s), I)), lo |-> Min(Image(Lows(s), I))]
SumIn(s, I) ==
    [pv |-> SumOver(Typicals(s), I), v |-> SumOver(Volumes(s), I)]

LEMMA BarsAre ==
    ASSUME NEW s \in Seq(BarType)
    PROVE  /\ Len(s) \in Nat /\ DOMAIN s = 1..Len(s)
           /\ \A i \in DOMAIN s :
                /\ s[i].ts \in Nat /\ s[i].h \in Nat /\ s[i].l \in Nat
                /\ s[i].c \in Nat /\ s[i].v \in Nat
                /\ Highs(s)[i] = s[i].h /\ Lows(s)[i] = s[i].l
                /\ Volumes(s)[i] = s[i].v /\ Volumes(s)[i] \in Int
                /\ Typicals(s)[i] = (s[i].h + s[i].l + s[i].c) * s[i].v
                /\ Typicals(s)[i] \in Int
  <1>1. Len(s) \in Nat /\ DOMAIN s = 1..Len(s) /\ \A i \in DOMAIN s : s[i] \in BarType
    OBVIOUS
  <1>2. \A x \in BarType : /\ x.ts \in Nat /\ x.h \in Nat /\ x.l \in Nat
                           /\ x.c \in Nat /\ x.v \in Nat
                           /\ (x.h + x.l + x.c) * x.v \in Int
    BY DEF BarType
  <1> QED
    BY <1>1, <1>2 DEF Highs, Lows, Volumes, Typicals

LEMMA RangeIs ==
    ASSUME seen \in Seq(BarType), NEW I \in SUBSET DOMAIN seen
    PROVE  RangeOf(I) = RangeIn(seen, I)
  <1>1. \A i \in I : seen[i].h = Highs(seen)[i] /\ seen[i].l = Lows(seen)[i]
    BY BarsAre
  <1>2. {seen[i].h : i \in I} = {Highs(seen)[i] : i \in I}
    BY <1>1
  <1>3. {seen[i].l : i \in I} = {Lows(seen)[i] : i \in I}
    BY <1>1
  <1> QED
    BY <1>2, <1>3 DEF RangeOf, RangeIn, Image

LEMMA SumIs ==
    ASSUME seen \in Seq(BarType), NEW W \in SUBSET DOMAIN seen
    PROVE  SumOf(W) = SumIn(seen, W)
  <1> DEFINE f == Typicals(seen)
             h == Volumes(seen)
             P(g) == g = [s \in SUBSET W |->
                            IF s = {} THEN 0
                            ELSE (seen[Some(s)].h + seen[Some(s)].l
                                    + seen[Some(s)].c) * seen[Some(s)].v
                                   + g[s \ {Some(s)}]]
             R(g) == g = [s \in SUBSET W |->
                            IF s = {} THEN 0
                            ELSE seen[Some(s)].v + g[s \ {Some(s)}]]
  <1>1. SumOf(W) = [pv |-> (CHOOSE g : P(g))[W], v |-> (CHOOSE g : R(g))[W]]
    BY DEF SumOf, MapThenSumSet, MapThenFoldSet, Some
  <1>2. /\ IsFiniteSet(W) /\ \A i \in W : f[i] \in Int /\ h[i] \in Int
        /\ \A s \in SUBSET W : s # {} =>
             /\ f[Some(s)] = (seen[Some(s)].h + seen[Some(s)].l
                                + seen[Some(s)].c) * seen[Some(s)].v
             /\ h[Some(s)] = seen[Some(s)].v
    <2>1. Len(seen) \in Int /\ W \in SUBSET (1..Len(seen))
      BY BarsAre
    <2>2. IsFiniteSet(W)
      BY <2>1, FS_Interval, FS_Subset
    <2>3. \A s \in SUBSET W : s # {} => Some(s) \in DOMAIN seen
      BY DEF Some
    <2> QED
      BY <2>2, <2>3, BarsAre
  <1>3. ASSUME NEW g PROVE (P(g) <=> SumsBySome(g, f, W)) /\ (R(g) <=> SumsBySome(g, h, W))
    <2> HIDE DEF f, h
    <2> QED
      BY <1>2 DEF SumsBySome
  <1> HIDE DEF f, h, P, R
  <1>4. /\ SumsBySome(SumFold(f, W), f, W)
        /\ \A g : SumsBySome(g, f, W) => g[W] = SumOver(f, W)
    <2>1. \A i \in W : f[i] \in Int
      BY <1>2
    <2> QED
      BY <1>2, <2>1, SumOneWay
  <1>5. /\ SumsBySome(SumFold(h, W), h, W)
        /\ \A g : SumsBySome(g, h, W) => g[W] = SumOver(h, W)
    <2>1. \A i \in W : h[i] \in Int
      BY <1>2
    <2> QED
      BY <1>2, <2>1, SumOneWay
  <1>6. P(CHOOSE g : P(g))
    BY <1>3, <1>4
  <1>7. R(CHOOSE g : R(g))
    BY <1>3, <1>5
  <1>8. (CHOOSE g : P(g))[W] = SumOver(f, W)
    BY <1>3, <1>4, <1>6
  <1>9. (CHOOSE g : R(g))[W] = SumOver(h, W)
    BY <1>3, <1>5, <1>7
  <1> QED
    BY <1>1, <1>8, <1>9 DEF SumIn, f, h

\* What one more element does to the ends of a set.
LEMMA EndsGrow ==
    ASSUME NEW n \in Nat, NEW W \in SUBSET (1..n), W # {},
           NEW f, \A i \in W \cup {n + 1} : f[i] \in Int
    PROVE  LET J == W \cup {n + 1}
           IN /\ Max(Image(f, J)) = Ctx!Greatest(Max(Image(f, W)), f[n + 1])
              /\ Min(Image(f, J)) = Ctx!Least(Min(Image(f, W)), f[n + 1])
  <1> DEFINE J == W \cup {n + 1}
             a == Max(Image(f, W))
             b == Min(Image(f, W))
             p == Max(Image(f, J))
             q == Min(Image(f, J))
             x == f[n + 1]
  <1>1. /\ n + 1 \in Nat /\ J \in SUBSET (1..(n + 1)) /\ J # {}
        /\ \A i \in J : f[i] \in Int
    OBVIOUS
  <1>2. /\ a \in Image(f, W) /\ a \in Int /\ \A i \in W : a >= f[i]
        /\ b \in Image(f, W) /\ b \in Int /\ \A i \in W : b =< f[i]
    <2>1. \A i \in W : f[i] \in Int
      OBVIOUS
    <2> QED
      BY <2>1, ImageEnds
  <1>3. /\ p \in Image(f, J) /\ p \in Int /\ \A i \in J : p >= f[i]
        /\ q \in Image(f, J) /\ q \in Int /\ \A i \in J : q =< f[i]
    <2> HIDE DEF J
    <2> QED
      BY <1>1, ImageEnds
  <1> HIDE DEF a, b, p, q
  <1>4. PICK i \in W, j \in W : a = f[i] /\ b = f[j]
    BY <1>2 DEF Image
  <1>5. PICK k \in J, m \in J : p = f[k] /\ q = f[m]
    BY <1>3 DEF Image
  <1>6. p >= a /\ p >= x /\ q =< b /\ q =< x /\ x \in Int
    BY <1>3, <1>4
  <1>7. (p = x \/ p =< a) /\ (q = x \/ q >= b)
    BY <1>2, <1>5
  <1> HIDE DEF x
  <1>8. p = Ctx!Greatest(a, x) /\ q = Ctx!Least(b, x)
    BY <1>2, <1>3, <1>6, <1>7 DEF Ctx!Greatest, Ctx!Least
  <1> QED
    BY <1>8 DEF p, q, a, b, x

LEMMA EndOfOne ==
    ASSUME NEW n \in Nat \ {0}, NEW f, f[n] \in Int
    PROVE  Max(Image(f, {n})) = f[n] /\ Min(Image(f, {n})) = f[n]
  <1>1. {n} \in SUBSET (1..n) /\ {n} # {} /\ \A i \in {n} : f[i] \in Int
    OBVIOUS
  <1>2. Max(Image(f, {n})) \in Image(f, {n}) /\ Min(Image(f, {n})) \in Image(f, {n})
    BY <1>1, ImageEnds
  <1> QED
    BY <1>2 DEF Image

\* A bar more widens a range and adds to a sum.
LEMMA RangeGrows ==
    ASSUME NEW s \in Seq(BarType), NEW t \in Seq(BarType), OneMore(s, t),
           NEW I \in SUBSET DOMAIN s
    PROVE  /\ RangeIn(t, I \cup {Len(t)}) = Ctx!Widen(RangeIn(s, I), t[Len(t)])
           /\ RangeIn(t, I) = RangeIn(s, I)
           /\ I # {} => RangeIn(s, I) # Ctx!NoRange
  <1> DEFINE n == Len(s)
             b == t[n + 1]
  <1>1. /\ n \in Nat /\ DOMAIN s = 1..n /\ Len(t) = n + 1
        /\ DOMAIN t = 1..(n + 1) /\ \A i \in 1..n : t[i] = s[i]
    BY DEF OneMore
  <1>2. /\ \A i \in 1..(n + 1) :
             /\ Highs(t)[i] = t[i].h /\ Lows(t)[i] = t[i].l
             /\ t[i].h \in Nat /\ t[i].l \in Nat
        /\ \A i \in 1..n : Highs(s)[i] = Highs(t)[i] /\ Lows(s)[i] = Lows(t)[i]
    <2>1. \A i \in 1..(n + 1) : /\ Highs(t)[i] = t[i].h /\ Lows(t)[i] = t[i].l
                                /\ t[i].h \in Nat /\ t[i].l \in Nat
      <3>1. DOMAIN t = 1..(n + 1)
        BY <1>1
      <3> HIDE DEF n
      <3> QED
        BY <3>1, BarsAre
    <2>2. \A i \in 1..n : Highs(s)[i] = s[i].h /\ Lows(s)[i] = s[i].l
      <3>1. DOMAIN s = 1..n
        BY <1>1
      <3> HIDE DEF n
      <3> QED
        BY <3>1, BarsAre
    <2>3. \A i \in 1..n : i \in 1..(n + 1) /\ t[i] = s[i]
      BY <1>1
    <2> HIDE DEF n, b
    <2> QED
      BY <2>1, <2>2, <2>3
  <1> HIDE DEF n
  <1>3. Image(Highs(t), I) = Image(Highs(s), I) /\ Image(Lows(t), I) = Image(Lows(s), I)
    <2>1. \A i \in I : Highs(t)[i] = Highs(s)[i] /\ Lows(t)[i] = Lows(s)[i]
      BY <1>1, <1>2
    <2>2. {Highs(t)[i] : i \in I} = {Highs(s)[i] : i \in I}
      BY <2>1
    <2>3. {Lows(t)[i] : i \in I} = {Lows(s)[i] : i \in I}
      BY <2>1
    <2> QED
      BY <2>2, <2>3 DEF Image
  <1>4. RangeIn(t, I) = RangeIn(s, I)
    BY <1>3 DEF RangeIn
  <1>5. I # {} => RangeIn(s, I) # Ctx!NoRange
    <2> SUFFICES ASSUME I # {} PROVE RangeIn(s, I) # Ctx!NoRange
      OBVIOUS
    <2>1. /\ n \in Nat /\ I \in SUBSET (1..n)
          /\ \A i \in I : Highs(s)[i] \in Int
          /\ \A i \in I : Highs(s)[i] >= 0
      <3>1. n \in Nat /\ I \in SUBSET (1..n)
        BY <1>1
      <3>2. \A i \in I : i \in 1..n /\ i \in 1..(n + 1)
        BY <3>1
      <3>3. \A i \in I : Highs(s)[i] \in Nat
        BY <1>2, <3>2
      <3> QED
        BY <3>1, <3>3
    <2>2. Max(Image(Highs(s), I)) \in Image(Highs(s), I)
      BY <2>1, ImageEnds
    <2>3. Max(Image(Highs(s), I)) >= 0
      BY <2>1, <2>2 DEF Image
    <2> QED
      BY <2>3 DEF RangeIn, Ctx!NoRange
  <1>6. RangeIn(t, I \cup {n + 1}) = Ctx!Widen(RangeIn(s, I), b)
    <2> DEFINE J == I \cup {n + 1}
    <2>1. /\ n \in Nat /\ I \in SUBSET (1..n) /\ J # {}
          /\ \A i \in J : Highs(t)[i] \in Int
          /\ \A i \in J : Lows(t)[i] \in Int
          /\ Highs(t)[n + 1] = b.h /\ Lows(t)[n + 1] = b.l
      <3>1. n \in Nat /\ I \in SUBSET (1..n) /\ J # {} /\ n + 1 \in 1..(n + 1)
        BY <1>1
      <3>2. \A i \in J : i \in 1..(n + 1)
        BY <3>1
      <3> HIDE DEF J
      <3>3. \A i \in J : Highs(t)[i] \in Int /\ Lows(t)[i] \in Int
        BY <1>2, <3>2
      <3>4. Highs(t)[n + 1] = b.h /\ Lows(t)[n + 1] = b.l
        BY <1>2, <3>1
      <3> QED
        BY <3>1, <3>3, <3>4
    <2>2. RangeIn(t, J) = [hi |-> Max(Image(Highs(t), J)), lo |-> Min(Image(Lows(t), J))]
      BY <2>1 DEF RangeIn
    <2>3. CASE I = {}
      <3>1. J = {n + 1} /\ n + 1 \in Nat \ {0}
        BY <2>1, <2>3
      <3>2. Max(Image(Highs(t), {n + 1})) = b.h
        BY <2>1, <3>1, EndOfOne
      <3>3. Min(Image(Lows(t), {n + 1})) = b.l
        BY <2>1, <3>1, EndOfOne
      <3> QED
        BY <2>2, <2>3, <3>1, <3>2, <3>3 DEF RangeIn, Ctx!Widen
    <2>4. CASE I # {}
      <3>1. Max(Image(Highs(t), J)) = Ctx!Greatest(Max(Image(Highs(s), I)), b.h)
        BY <1>3, <2>1, <2>4, EndsGrow
      <3>2. Min(Image(Lows(t), J)) = Ctx!Least(Min(Image(Lows(s), I)), b.l)
        BY <1>3, <2>1, <2>4, EndsGrow
      <3> QED
        BY <1>5, <2>2, <2>4, <3>1, <3>2 DEF RangeIn, Ctx!Widen
    <2> QED
      BY <2>3, <2>4
  <1> QED
    BY <1>1, <1>4, <1>5, <1>6

LEMMA SumGrows ==
    ASSUME NEW s \in Seq(BarType), NEW t \in Seq(BarType), OneMore(s, t),
           NEW I \in SUBSET DOMAIN s
    PROVE  SumIn(t, I \cup {Len(t)}) = Ctx!AddTo(SumIn(s, I), t[Len(t)])
  <1> DEFINE n == Len(t)
             J == I \cup {n}
             b == t[n]
  <1>1. /\ Len(s) \in Nat /\ DOMAIN s = 1..Len(s) /\ n = Len(s) + 1
        /\ DOMAIN t = 1..n /\ \A i \in 1..Len(s) : t[i] = s[i]
    BY DEF OneMore
  <1>2. /\ \A i \in DOMAIN t : Typicals(t)[i] \in Int /\ Volumes(t)[i] \in Int
        /\ \A i \in DOMAIN s : /\ Typicals(s)[i] = Typicals(t)[i]
                               /\ Volumes(s)[i] = Volumes(t)[i]
        /\ Typicals(t)[n] = (b.h + b.l + b.c) * b.v /\ Volumes(t)[n] = b.v
    <2>1. \A i \in DOMAIN t :
            /\ Typicals(t)[i] = (t[i].h + t[i].l + t[i].c) * t[i].v
            /\ Volumes(t)[i] = t[i].v
            /\ Typicals(t)[i] \in Int /\ Volumes(t)[i] \in Int
      BY BarsAre
    <2>2. \A i \in DOMAIN s :
            /\ Typicals(s)[i] = (s[i].h + s[i].l + s[i].c) * s[i].v
            /\ Volumes(s)[i] = s[i].v
      BY BarsAre
    <2>3. \A i \in DOMAIN s : i \in DOMAIN t /\ t[i] = s[i]
      BY <1>1
    <2>4. n \in DOMAIN t
      BY <1>1
    <2> HIDE DEF n
    <2> QED
      BY <2>1, <2>2, <2>3, <2>4, Zenon
  <1>3. IsFiniteSet(J) /\ IsFiniteSet(I) /\ J \ {n} = I /\ n \in J /\ J \subseteq DOMAIN t
    <2>1. J \in SUBSET (1..n) /\ n \in Int /\ J \ {n} = I /\ n \in J
      BY <1>1
    <2>2. IsFiniteSet(J)
      <3>1. IsFiniteSet(1..n)
        BY <2>1, FS_Interval
      <3> HIDE DEF J, n
      <3> QED
        BY <2>1, <3>1, FS_Subset
    <2>3. I \subseteq J /\ J \subseteq DOMAIN t
      BY <1>1, <2>1
    <2> HIDE DEF J, n
    <2> QED
      BY <2>1, <2>2, <2>3, FS_Subset
  <1> HIDE DEF J, n
  <1> DEFINE f == Typicals(t)
             h == Volumes(t)
             f0 == Typicals(s)
             h0 == Volumes(s)
  <1>4. /\ \A i \in J : f[i] \in Int
        /\ \A i \in J : h[i] \in Int
        /\ \A i \in I : f[i] \in Int /\ f[i] = f0[i]
        /\ \A i \in I : h[i] \in Int /\ h[i] = h0[i]
    BY <1>2, <1>3
  <1> HIDE DEF f, h, f0, h0
  <1>5. SumOver(f, J) = f[n] + SumOver(f, I) /\ SumOver(f, I) \in Int /\ f[n] \in Int
    BY <1>3, <1>4, SumOverRemove, SumOverInt
  <1>6. SumOver(h, J) = h[n] + SumOver(h, I) /\ SumOver(h, I) \in Int /\ h[n] \in Int
    BY <1>3, <1>4, SumOverRemove, SumOverInt
  <1>7. SumOver(f, I) = SumOver(f0, I) /\ SumOver(h, I) = SumOver(h0, I)
    BY <1>3, <1>4, SumOverSame
  <1>8. SumOver(f, J) = SumOver(f0, I) + f[n] /\ SumOver(h, J) = SumOver(h0, I) + h[n]
    BY <1>5, <1>6, <1>7
  <1> QED
    BY <1>2, <1>8 DEF SumIn, Ctx!AddTo, f, h, f0, h0, n, J

LEMMA DaysAre ==
    ASSUME NEW s \in Seq(BarType), InOrderOfTime(s)
    PROVE  /\ Len(s) \in Nat /\ DOMAIN s = 1..Len(s)
           /\ TodayIn(s) \subseteq DOMAIN s
           /\ \A i \in DOMAIN s : DayAt(s, i) \in Nat
           /\ \A i, j \in DOMAIN s : i =< j => DayAt(s, i) =< DayAt(s, j)
           /\ \A i, j, k \in DOMAIN s :
                /\ i =< j /\ j =< k /\ DayAt(s, i) = DayAt(s, k)
                /\ SessionAt(s, i) = SessionAt(s, k)
                => SessionAt(s, j) = SessionAt(s, k)
  <1>1. /\ Len(s) \in Nat /\ DOMAIN s = 1..Len(s)
        /\ \A i \in DOMAIN s : s[i].ts \in Nat
    BY BarsAre
  <1>2. \A i, j \in DOMAIN s : i =< j => s[i].ts =< s[j].ts
    <2> SUFFICES ASSUME NEW i \in DOMAIN s, NEW j \in DOMAIN s, i =< j
                 PROVE  s[i].ts =< s[j].ts
      OBVIOUS
    <2>1. CASE i = j
      BY <1>1, <2>1
    <2>2. CASE i < j
      <3>1. s[i].ts < s[j].ts
        BY <2>2 DEF InOrderOfTime
      <3> QED
        BY <1>1, <3>1
    <2> QED
      BY <1>1, <2>1, <2>2
  <1>3. \A i \in DOMAIN s : DayAt(s, i) \in Nat
    BY <1>1, DayAndTime DEF DayAt, Ctx!GlobexDay
  <1>4. \A i, j \in DOMAIN s : i =< j => DayAt(s, i) =< DayAt(s, j)
    BY <1>1, <1>2, LaterDay DEF DayAt, Ctx!GlobexDay
  <1>5. ASSUME NEW i \in DOMAIN s, NEW j \in DOMAIN s, NEW k \in DOMAIN s,
               i =< j, j =< k, DayAt(s, i) = DayAt(s, k),
               SessionAt(s, i) = SessionAt(s, k)
        PROVE  SessionAt(s, j) = SessionAt(s, k)
    <2>1. /\ s[i].ts \in Nat /\ s[j].ts \in Nat /\ s[k].ts \in Nat
          /\ s[i].ts =< s[j].ts /\ s[j].ts =< s[k].ts
      BY <1>1, <1>2, <1>5
    <2>2. s[i].ts \div DayLen = s[k].ts \div DayLen
      BY <1>5 DEF DayAt, Ctx!GlobexDay
    <2>3. Ctx!TagSession(s[i].ts) = Ctx!TagSession(s[k].ts)
      BY <1>5 DEF SessionAt
    <2>4. Ctx!TagSession(s[j].ts) = Ctx!TagSession(s[k].ts)
      BY <2>1, <2>2, <2>3, SessionInOnePiece
    <2> QED
      BY <2>4 DEF SessionAt
  <1>6. \A i, j, k \in DOMAIN s :
          /\ i =< j /\ j =< k /\ DayAt(s, i) = DayAt(s, k)
          /\ SessionAt(s, i) = SessionAt(s, k)
          => SessionAt(s, j) = SessionAt(s, k)
    BY <1>5
  <1> QED
    BY <1>1, <1>3, <1>4, <1>6 DEF TodayIn

\* Days and sessions of the bars that were there.
LEMMA DaysStay ==
    ASSUME NEW s, NEW t, OneMore(s, t)
    PROVE  \A i \in DOMAIN s : /\ DayAt(t, i) = DayAt(s, i)
                               /\ SessionAt(t, i) = SessionAt(s, i)
  BY DEF OneMore, DayAt, SessionAt

LEMMA FirstToday ==
    ASSUME NEW s \in Seq(BarType), InOrderOfTime(s), s # <<>>
    PROVE  /\ Len(s) \in TodayIn(s) /\ Len(s) \in DOMAIN s
           /\ Min(TodayIn(s)) \in TodayIn(s)
           /\ \A i \in TodayIn(s) : Min(TodayIn(s)) =< i
  <1>1. Len(s) \in Nat /\ Len(s) # 0 /\ DOMAIN s = 1..Len(s)
    OBVIOUS
  <1>2. Len(s) \in TodayIn(s)
    BY <1>1 DEF TodayIn
  <1>3. TodayIn(s) \in SUBSET Nat /\ TodayIn(s) # {}
    BY <1>1, <1>2 DEF TodayIn
  <1> QED
    BY <1>1, <1>2, <1>3, MinOfNats

NewBar(s, S) == IF SessionAt(s, Len(s)) \in S THEN {Len(s)} ELSE {}

\* One more bar of today.
LEMMA SameDay ==
    ASSUME NEW s \in Seq(BarType), InOrderOfTime(s), s # <<>>,
           NEW t \in Seq(BarType), InOrderOfTime(t), OneMore(s, t),
           DayAt(t, Len(t)) = DayAt(s, Len(s))
    PROVE  /\ TodayIn(t) = TodayIn(s) \cup {Len(t)}
           /\ \A S : Within(t, S) = Within(s, S) \cup NewBar(t, S)
           /\ LastDayIn(t, DOMAIN t) = LastDayIn(s, DOMAIN s)
           /\ LastDayIn(t, InNewYork(t)) = LastDayIn(s, InNewYork(s))
           /\ CameFrom(t) = CameFrom(s)
           /\ SessionAt(t, Min(TodayIn(t))) = SessionAt(s, Min(TodayIn(s)))
  <1> DEFINE n == Len(t)
             m == Min(TodayIn(s))
             p == Min(TodayIn(t))
  <1>1. /\ Len(s) \in Nat /\ DOMAIN s = 1..Len(s) /\ n = Len(s) + 1
        /\ DOMAIN t = 1..n
    BY DEF OneMore
  <1>2. DOMAIN t = DOMAIN s \cup {n} /\ n \notin DOMAIN s /\ Len(s) \in DOMAIN s
    <2>1. Len(s) \in DOMAIN s
      BY FirstToday
    <2> QED
      BY <1>1, <2>1
  <1>3. \A i \in DOMAIN s : /\ DayAt(t, i) = DayAt(s, i)
                            /\ SessionAt(t, i) = SessionAt(s, i)
    BY DaysStay
  <1>4. TodayIn(t) = TodayIn(s) \cup {n}
    BY <1>2, <1>3 DEF TodayIn
  <1>5. TodayIn(s) \subseteq DOMAIN s
    BY DEF TodayIn
  <1>6. \A S : Within(t, S) = Within(s, S) \cup NewBar(t, S)
    <2> TAKE S
    <2> QED
      BY <1>3, <1>4, <1>5 DEF Within, NewBar
  <1>7. LastDayIn(t, DOMAIN t) = LastDayIn(s, DOMAIN s)
    <2>1. DOMAIN t \ TodayIn(t) = DOMAIN s \ TodayIn(s)
      BY <1>2, <1>4
    <2> QED
      BY <1>3, <2>1 DEF LastDayIn
  <1>8. LastDayIn(t, InNewYork(t)) = LastDayIn(s, InNewYork(s))
    <2>1. InNewYork(t) \ TodayIn(t) = InNewYork(s) \ TodayIn(s)
      BY <1>2, <1>3, <1>4 DEF InNewYork
    <2>2. InNewYork(s) \subseteq DOMAIN s
      BY DEF InNewYork
    <2> QED
      BY <1>3, <2>1, <2>2 DEF LastDayIn
  <1>9. p = m /\ m \in DOMAIN s
    <2>1. m \in TodayIn(s) /\ \A i \in TodayIn(s) : m =< i
      BY FirstToday
    <2>2. t # <<>>
      BY <1>1
    <2>3. p \in TodayIn(t) /\ \A i \in TodayIn(t) : p =< i
      BY <2>2, FirstToday
    <2> HIDE DEF p, m, n
    <2>4. m \in 1..Len(s) /\ p \in 1..n
      BY <1>1, <1>4, <1>5, <2>1, <2>3
    <2>5. p =< m
      BY <1>4, <2>1, <2>3
    <2>6. p # n
      BY <1>1, <2>4, <2>5
    <2>7. m =< p
      BY <1>4, <2>1, <2>3, <2>6
    <2> QED
      BY <1>1, <2>4, <2>5, <2>7
  <1>10. SessionAt(t, p) = SessionAt(s, m)
    BY <1>3, <1>9
  <1>11. CameFrom(t) = CameFrom(s)
    <2> HIDE DEF m, p
    <2>1. m # 1 => m - 1 \in DOMAIN s
      BY <1>1, <1>9
    <2>2. /\ CameFrom(t) = IF p = 1 THEN "none" ELSE SessionAt(t, p - 1)
          /\ CameFrom(s) = IF m = 1 THEN "none" ELSE SessionAt(s, m - 1)
      BY DEF CameFrom, m, p
    <2> QED
      BY <1>3, <1>9, <2>1, <2>2
  <1> QED
    BY <1>4, <1>6, <1>7, <1>8, <1>10, <1>11

\* The first bar of a day.
LEMMA NewDay ==
    ASSUME NEW s \in Seq(BarType), InOrderOfTime(s), s # <<>>,
           NEW t \in Seq(BarType), InOrderOfTime(t), OneMore(s, t),
           DayAt(t, Len(t)) # DayAt(s, Len(s))
    PROVE  /\ TodayIn(t) = {Len(t)}
           /\ \A S : Within(t, S) = NewBar(t, S)
           /\ LastDayIn(t, DOMAIN t) = TodayIn(s)
           /\ LastDayIn(t, InNewYork(t)) =
                IF Within(s, Ctx!NewYork) = {} THEN LastDayIn(s, InNewYork(s))
                ELSE Within(s, Ctx!NewYork)
           /\ CameFrom(t) = SessionAt(s, Len(s))
           /\ SessionAt(t, Min(TodayIn(t))) = SessionAt(t, Len(t))
  <1> DEFINE n == Len(t)
  <1>1. /\ Len(s) \in Nat /\ DOMAIN s = 1..Len(s) /\ n = Len(s) + 1
        /\ DOMAIN t = 1..n /\ Len(s) \in DOMAIN s
    BY FirstToday DEF OneMore
  <1>2. /\ DOMAIN t = DOMAIN s \cup {n} /\ n \notin DOMAIN s
        /\ n \in DOMAIN t /\ Len(s) \in DOMAIN t
        /\ \A i \in DOMAIN s : i \in DOMAIN t /\ i =< Len(s)
        /\ Len(s) =< n
    BY <1>1
  <1>3. \A i \in DOMAIN s : /\ DayAt(t, i) = DayAt(s, i)
                            /\ SessionAt(t, i) = SessionAt(s, i)
    BY DaysStay
  <1> HIDE DEF n
  <1>4. \A i \in DOMAIN s :
          /\ DayAt(s, i) \in Nat /\ DayAt(s, i) =< DayAt(s, Len(s))
          /\ DayAt(t, i) # DayAt(t, n)
    <2>1. DayAt(s, Len(s)) =< DayAt(t, n) /\ DayAt(t, n) \in Nat
      BY <1>2, <1>3, <1>1, DaysAre
    <2>2. \A i \in DOMAIN s : DayAt(s, i) \in Nat /\ DayAt(s, i) =< DayAt(s, Len(s))
      BY <1>1, <1>2, DaysAre
    <2>3. DayAt(s, Len(s)) < DayAt(t, n)
      BY <1>1, <2>1, <2>2 DEF n
    <2> QED
      BY <1>1, <1>3, <2>1, <2>2, <2>3
  <1>5. TodayIn(t) = {n}
    BY <1>2, <1>4 DEF TodayIn, n
  <1>6. \A S : Within(t, S) = NewBar(t, S)
    BY <1>5 DEF Within, NewBar, n
  <1>7. LastDayIn(t, DOMAIN t) = TodayIn(s)
    <2>1. DOMAIN t \ TodayIn(t) = DOMAIN s
      BY <1>2, <1>5
    <2>2. LastDayIn(t, DOMAIN t) =
            {i \in DOMAIN s : \A j \in DOMAIN s : DayAt(s, j) <= DayAt(s, i)}
      BY <1>3, <2>1 DEF LastDayIn
    <2> QED
      BY <1>1, <1>4, <2>2 DEF TodayIn
  <1>8. LastDayIn(t, InNewYork(t)) =
          IF Within(s, Ctx!NewYork) = {} THEN LastDayIn(s, InNewYork(s))
          ELSE Within(s, Ctx!NewYork)
    <2> DEFINE N == InNewYork(s)
               W == Within(s, Ctx!NewYork)
    <2>1. InNewYork(t) \ TodayIn(t) = N
      BY <1>2, <1>3, <1>5 DEF InNewYork
    <2>2. N \subseteq DOMAIN s /\ W = N \cap TodayIn(s)
      BY DEF InNewYork, Within, TodayIn
    <2>3. LastDayIn(t, InNewYork(t)) =
            {i \in N : \A j \in N : DayAt(s, j) <= DayAt(s, i)}
      BY <1>3, <2>1, <2>2 DEF LastDayIn
    <2>4. \A i \in N : i \in TodayIn(s) <=> DayAt(s, i) = DayAt(s, Len(s))
      BY <2>2 DEF TodayIn
    <2> HIDE DEF N, W
    <2>5. CASE W = {}
      <3>1. N \ TodayIn(s) = N
        BY <2>2, <2>5
      <3> QED
        BY <2>3, <2>5, <3>1 DEF LastDayIn, N, W
    <2>6. CASE W # {}
      <3>1. PICK w \in N : DayAt(s, w) = DayAt(s, Len(s))
        BY <2>2, <2>4, <2>6
      <3>2. \A i \in N : /\ DayAt(s, i) \in Nat
                         /\ DayAt(s, i) =< DayAt(s, Len(s))
        BY <1>4, <2>2
      <3>3. DayAt(s, Len(s)) \in Nat
        BY <3>1, <3>2
      <3>4. \A i \in N :
              (\A j \in N : DayAt(s, j) <= DayAt(s, i)) <=> i \in TodayIn(s)
        BY <2>4, <3>1, <3>2, <3>3
      <3> QED
        BY <2>2, <2>3, <2>6, <3>4 DEF W
    <2> QED
      BY <2>5, <2>6 DEF W
  <1>9. Min(TodayIn(t)) = n
    <2>1. {n} \in SUBSET Nat /\ {n} # {}
      BY <1>1
    <2>2. Min({n}) \in {n}
      BY <2>1, MinOfNats
    <2> QED
      BY <1>5, <2>2
  <1>10. CameFrom(t) = SessionAt(s, Len(s))
    <2>1. n # 1 /\ n - 1 = Len(s)
      BY <1>1, <1>2
    <2> QED
      BY <1>1, <1>3, <1>9, <2>1 DEF CameFrom
  <1> QED
    BY <1>5, <1>6, <1>7, <1>8, <1>9, <1>10 DEF n

\* The first bar of all.
LEMMA FirstBar ==
    ASSUME NEW t \in Seq(BarType), Len(t) = 1
    PROVE  /\ TodayIn(t) = {1}
           /\ \A S : Within(t, S) = NewBar(t, S)
           /\ LastDayIn(t, DOMAIN t) = {} /\ LastDayIn(t, InNewYork(t)) = {}
           /\ CameFrom(t) = "none"
  <1>1. DOMAIN t = {1}
    OBVIOUS
  <1>2. TodayIn(t) = {1}
    BY <1>1 DEF TodayIn
  <1>3. Min({1}) = 1
    <2>1. {1} \in SUBSET Nat /\ {1} # {}
      OBVIOUS
    <2>2. Min({1}) \in {1}
      BY <2>1, MinOfNats
    <2> QED
      BY <2>2
  <1> QED
    BY <1>1, <1>2, <1>3 DEF Within, NewBar, LastDayIn, InNewYork, CameFrom

Now(s) == SessionAt(s, Len(s))

\* The session that runs began before the day did.
Split(s) == CameFrom(s) = Now(s) /\ SessionAt(s, Min(TodayIn(s))) = Now(s)

WasIn(s, q) ==
    IF Now(s) = q THEN Ctx!NoRange ELSE RangeIn(s, Within(s, {q}))

\* The levels as one record.
LevelsOf(a, b, c, d) ==
    [prior_day |-> a, prior_ny |-> b, asia |-> c, london |-> d]

(* What the machine keeps, by the bars it comes from.                        *)
ContextHolds(s) ==
    /\ cur_session = Now(s) /\ cur_day = DayAt(s, Len(s))
    /\ day_range = RangeIn(s, TodayIn(s))
    /\ day_sum = SumIn(s, TodayIn(s))
    /\ ny_range = RangeIn(s, Within(s, Ctx!NewYork))
    /\ ~Split(s) => /\ sess_range = RangeIn(s, Within(s, {Now(s)}))
                    /\ sess_sum = SumIn(s, Within(s, {Now(s)}))
    /\ \E asia, london :
         /\ levels = LevelsOf(RangeIn(s, LastDayIn(s, DOMAIN s)),
                              RangeIn(s, LastDayIn(s, InNewYork(s))),
                              asia, london)
         /\ CameFrom(s) \notin {"ASIA", "LONDON"} =>
              asia = WasIn(s, "ASIA") /\ london = WasIn(s, "LONDON")

ContextInv ==
    program = "context" =>
      IF seen = <<>> THEN Ctx!ContextInit ELSE ContextHolds(seen)

\* What on_bar makes of its variables, one by one.
LEMMA OnBarMakes ==
    ASSUME NEW b, Ctx!ContextOnBar(b), NEW day, day = Ctx!GlobexDay(b.ts),
           NEW now, now = Ctx!TagSession(b.ts)
    PROVE  /\ cur_session' = now /\ cur_day' = day
           /\ day = cur_day =>
                /\ day_range' = Ctx!Widen(day_range, b)
                /\ day_sum' = Ctx!AddTo(day_sum, b)
                /\ ny_range' = IF now \in Ctx!NewYork THEN Ctx!Widen(ny_range, b)
                               ELSE ny_range
                /\ levels' = IF now # cur_session THEN Ctx!RolledSession(levels)
                             ELSE levels
           /\ day # cur_day =>
                /\ day_range' = Ctx!Widen(Ctx!NoRange, b)
                /\ day_sum' = Ctx!AddTo(Ctx!NoSum, b)
                /\ ny_range' = IF now \in Ctx!NewYork
                               THEN Ctx!Widen(Ctx!NoRange, b) ELSE Ctx!NoRange
                /\ levels' = IF now # cur_session
                             THEN Ctx!RolledSession(Ctx!RolledDay(levels))
                             ELSE Ctx!RolledDay(levels)
           /\ now = cur_session =>
                /\ sess_range' = Ctx!Widen(sess_range, b)
                /\ sess_sum' = Ctx!AddTo(sess_sum, b)
           /\ now # cur_session =>
                /\ sess_range' = Ctx!Widen(Ctx!NoRange, b)
                /\ sess_sum' = Ctx!AddTo(Ctx!NoSum, b)
  BY DEF Ctx!ContextOnBar

\* The newest bar, as what it alone is a range and a sum of.
LEMMA NewBarAlone ==
    ASSUME NEW s \in Seq(BarType), NEW t \in Seq(BarType), OneMore(s, t)
    PROVE  /\ RangeIn(t, {Len(t)}) = Ctx!Widen(Ctx!NoRange, t[Len(t)])
           /\ SumIn(t, {Len(t)}) = Ctx!AddTo(Ctx!NoSum, t[Len(t)])
  <1>1. {} \in SUBSET DOMAIN s /\ {} \cup {Len(t)} = {Len(t)}
    OBVIOUS
  <1>2. RangeIn(s, {}) = Ctx!NoRange /\ SumIn(s, {}) = Ctx!NoSum
    BY SumOverNone DEF RangeIn, SumIn, Ctx!NoSum
  <1>3. /\ RangeIn(t, {} \cup {Len(t)}) = Ctx!Widen(RangeIn(s, {}), t[Len(t)])
        /\ SumIn(t, {} \cup {Len(t)}) = Ctx!AddTo(SumIn(s, {}), t[Len(t)])
    BY <1>1, RangeGrows, SumGrows
  <1> QED
    BY <1>1, <1>2, <1>3

\* The bars of s and one more, as what they are a range and a sum of.
LEMMA SetsGrow ==
    ASSUME NEW s \in Seq(BarType), NEW t \in Seq(BarType), OneMore(s, t),
           NEW I \in SUBSET DOMAIN s, NEW b, b = t[Len(t)]
    PROVE  /\ RangeIn(t, I \cup {Len(t)}) = Ctx!Widen(RangeIn(s, I), b)
           /\ SumIn(t, I \cup {Len(t)}) = Ctx!AddTo(SumIn(s, I), b)
           /\ RangeIn(t, {Len(t)}) = Ctx!Widen(Ctx!NoRange, b)
           /\ SumIn(t, {Len(t)}) = Ctx!AddTo(Ctx!NoSum, b)
           /\ RangeIn(t, I) = RangeIn(s, I)
  BY RangeGrows, SumGrows, NewBarAlone

LEMMA RolledSessionIs ==
    ASSUME NEW a, NEW b, NEW c, NEW d
    PROVE  Ctx!RolledSession(LevelsOf(a, b, c, d)) =
             LevelsOf(a, b,
                      IF cur_session = "ASIA" THEN sess_range ELSE c,
                      IF cur_session = "LONDON" THEN sess_range ELSE d)
  <1> DEFINE L == [prior_day |-> a, prior_ny |-> b, asia |-> c, london |-> d]
             x == IF cur_session = "ASIA" THEN sess_range ELSE c
             y == IF cur_session = "LONDON" THEN sess_range ELSE d
  <1>1. /\ x = IF cur_session = "ASIA" THEN sess_range ELSE L.asia
        /\ y = IF cur_session = "LONDON" THEN sess_range ELSE L.london
    OBVIOUS
  <1>2. [L EXCEPT !.asia = x, !.london = y] =
          [prior_day |-> a, prior_ny |-> b, asia |-> x, london |-> y]
    <2> DEFINE M == [prior_day |-> a, prior_ny |-> b, asia |-> x, london |-> d]
    <2>1. [L EXCEPT !.asia = x] = M
      <3> HIDE DEF x
      <3> QED
        OBVIOUS
    <2>2. [M EXCEPT !.london = y] =
            [prior_day |-> a, prior_ny |-> b, asia |-> x, london |-> y]
      <3> HIDE DEF x, y
      <3> QED
        OBVIOUS
    <2>3. [L EXCEPT !.asia = x, !.london = y] =
            [[L EXCEPT !.asia = x] EXCEPT !.london = y]
      <3> HIDE DEF L, x, y
      <3> QED
        OBVIOUS
    <2> HIDE DEF L, M, x, y
    <2> QED
      BY <2>1, <2>2, <2>3
  <1>3. Ctx!RolledSession(L) = [L EXCEPT !.asia = x, !.london = y]
    BY <1>1 DEF Ctx!RolledSession
  <1> QED
    BY <1>2, <1>3 DEF LevelsOf

LEMMA RolledDayIs ==
    ASSUME NEW a, NEW b, NEW c, NEW d
    PROVE  Ctx!RolledDay(LevelsOf(a, b, c, d)) =
             LevelsOf(IF day_range = Ctx!NoRange THEN a ELSE day_range,
                      IF ny_range = Ctx!NoRange THEN b ELSE ny_range,
                      Ctx!NoRange, Ctx!NoRange)
  <1> DEFINE L == [prior_day |-> a, prior_ny |-> b, asia |-> c, london |-> d]
             none == Ctx!NoRange
             x == IF day_range = none THEN a ELSE day_range
             y == IF ny_range = none THEN b ELSE ny_range
  <1>1. /\ x = IF day_range = none THEN L.prior_day ELSE day_range
        /\ y = IF ny_range = none THEN L.prior_ny ELSE ny_range
    OBVIOUS
  <1>2. [L EXCEPT !.prior_day = x, !.prior_ny = y, !.asia = none, !.london = none]
          = [prior_day |-> x, prior_ny |-> y, asia |-> none, london |-> none]
    <2> DEFINE L1 == [prior_day |-> x, prior_ny |-> b, asia |-> c, london |-> d]
               L2 == [prior_day |-> x, prior_ny |-> y, asia |-> c, london |-> d]
               L3 == [prior_day |-> x, prior_ny |-> y, asia |-> none,
                      london |-> d]
    <2> HIDE DEF x, y, none
    <2>1. [L EXCEPT !.prior_day = x] = L1
      OBVIOUS
    <2>2. [L1 EXCEPT !.prior_ny = y] = L2
      OBVIOUS
    <2>3. [L2 EXCEPT !.asia = none] = L3
      OBVIOUS
    <2>4. [L3 EXCEPT !.london = none] =
            [prior_day |-> x, prior_ny |-> y, asia |-> none, london |-> none]
      OBVIOUS
    <2>5. [L EXCEPT !.prior_day = x, !.prior_ny = y, !.asia = none, !.london = none]
            = [[[[L EXCEPT !.prior_day = x] EXCEPT !.prior_ny = y]
                  EXCEPT !.asia = none] EXCEPT !.london = none]
      <3> HIDE DEF L
      <3> QED
        OBVIOUS
    <2> HIDE DEF L, L1, L2, L3
    <2> QED
      BY <2>1, <2>2, <2>3, <2>4, <2>5
  <1>3. Ctx!RolledDay(L) =
          [L EXCEPT !.prior_day = x, !.prior_ny = y,
                    !.asia = none, !.london = none]
    <2> HIDE DEF none
    <2> QED
      BY <1>1 DEF Ctx!RolledDay, none
  <1> QED
    BY <1>2, <1>3 DEF LevelsOf

\* The first bar.
LEMMA ContextStarts ==
    ASSUME Ctx!ContextInit, seen = <<>>, NEW b \in BarType,
           seen' = Append(seen, b), Ctx!ContextOnBar(b)
    PROVE  ContextHolds(seen)'
  <1> DEFINE t == seen'
             day == DayAt(t, Len(t))
             now == Now(t)
  <1>1. t \in Seq(BarType) /\ Len(t) = 1 /\ t[Len(t)] = b
    OBVIOUS
  <1>2. OneMore(<<>>, t) /\ <<>> \in Seq(BarType) /\ {} \in SUBSET DOMAIN <<>>
    BY DEF OneMore
  <1>3. day = Ctx!GlobexDay(b.ts) /\ now = Ctx!TagSession(b.ts)
    BY <1>1 DEF DayAt, SessionAt, Now
  <1>4. day \in Nat /\ now \in {"ASIA", "LONDON", "NY_AM", "NY_PM", "CLOSED"}
    <2>1. b.ts \in Nat
      BY DEF BarType
    <2> QED
      BY <1>3, <2>1, DayAndTime, SessionIs DEF Ctx!GlobexDay
  <1>5. /\ cur_day = -1 /\ cur_session = "none" /\ day_range = Ctx!NoRange
        /\ ny_range = Ctx!NoRange
        /\ levels = LevelsOf(Ctx!NoRange, Ctx!NoRange, Ctx!NoRange, Ctx!NoRange)
    BY DEF Ctx!ContextInit, LevelsOf
  <1> HIDE DEF t, day, now
  <1>6. day # cur_day /\ now # cur_session
    BY <1>4, <1>5
  <1>7. /\ cur_session' = now /\ cur_day' = day
        /\ day_range' = Ctx!Widen(Ctx!NoRange, b)
        /\ day_sum' = Ctx!AddTo(Ctx!NoSum, b)
        /\ ny_range' = IF now \in Ctx!NewYork
                       THEN Ctx!Widen(Ctx!NoRange, b) ELSE Ctx!NoRange
        /\ levels' = Ctx!RolledSession(Ctx!RolledDay(levels))
        /\ sess_range' = Ctx!Widen(Ctx!NoRange, b)
        /\ sess_sum' = Ctx!AddTo(Ctx!NoSum, b)
    BY <1>3, <1>6, OnBarMakes
  <1>8. levels' = LevelsOf(Ctx!NoRange, Ctx!NoRange, Ctx!NoRange, Ctx!NoRange)
    <2>1. Ctx!RolledDay(levels) = levels
      BY <1>5, RolledDayIs
    <2>2. Ctx!RolledSession(levels) = levels
      BY <1>5, RolledSessionIs
    <2> QED
      BY <1>5, <1>7, <2>1, <2>2
  <1>9. /\ TodayIn(t) = {Len(t)} /\ \A S : Within(t, S) = NewBar(t, S)
        /\ LastDayIn(t, DOMAIN t) = {} /\ LastDayIn(t, InNewYork(t)) = {}
    BY <1>1, FirstBar
  <1>10. /\ RangeIn(t, {Len(t)}) = Ctx!Widen(Ctx!NoRange, b)
         /\ SumIn(t, {Len(t)}) = Ctx!AddTo(Ctx!NoSum, b)
         /\ RangeIn(t, {}) = Ctx!NoRange
    <2>1. RangeIn(t, {Len(t)}) = Ctx!Widen(Ctx!NoRange, b)
      BY <1>1, <1>2, NewBarAlone
    <2>2. SumIn(t, {Len(t)}) = Ctx!AddTo(Ctx!NoSum, b)
      BY <1>1, <1>2, NewBarAlone
    <2>3. RangeIn(t, {}) = Ctx!NoRange
      BY DEF RangeIn
    <2> QED
      BY <2>1, <2>2, <2>3
  <1>11. /\ Within(t, {now}) = {Len(t)}
         /\ RangeIn(t, Within(t, Ctx!NewYork)) = ny_range'
         /\ WasIn(t, "ASIA") = Ctx!NoRange /\ WasIn(t, "LONDON") = Ctx!NoRange
    BY <1>7, <1>9, <1>10 DEF NewBar, WasIn, Now, now
  <1>12. /\ cur_session' = Now(t) /\ cur_day' = DayAt(t, Len(t))
         /\ day_range' = RangeIn(t, TodayIn(t))
         /\ day_sum' = SumIn(t, TodayIn(t))
         /\ ny_range' = RangeIn(t, Within(t, Ctx!NewYork))
         /\ sess_range' = RangeIn(t, Within(t, {Now(t)}))
         /\ sess_sum' = SumIn(t, Within(t, {Now(t)}))
    BY <1>7, <1>9, <1>10, <1>11 DEF now, day
  <1>13. levels' = LevelsOf(RangeIn(t, LastDayIn(t, DOMAIN t)),
                            RangeIn(t, LastDayIn(t, InNewYork(t))),
                            WasIn(t, "ASIA"), WasIn(t, "LONDON"))
    BY <1>8, <1>9, <1>10, <1>11
  <1> QED
    BY <1>12, <1>13 DEF ContextHolds, t

\* A session that begins today has no earlier bar today.
LEMMA SessionBegins ==
    ASSUME NEW s \in Seq(BarType), InOrderOfTime(s), s # <<>>,
           NEW t \in Seq(BarType), InOrderOfTime(t), OneMore(s, t),
           DayAt(t, Len(t)) = DayAt(s, Len(s)), Now(t) # Now(s)
    PROVE  Within(s, {Now(t)}) = {}
  <1> SUFFICES ASSUME NEW i \in Within(s, {Now(t)}) PROVE FALSE
    OBVIOUS
  <1>1. /\ i \in DOMAIN s /\ DayAt(s, i) = DayAt(s, Len(s))
        /\ SessionAt(s, i) = Now(t)
    BY DEF Within, TodayIn
  <1>2. Len(s) \in DOMAIN s
    BY FirstToday
  <1>3. /\ i \in DOMAIN t /\ Len(s) \in DOMAIN t /\ Len(t) \in DOMAIN t
        /\ i =< Len(s) /\ Len(s) =< Len(t)
    BY <1>1, <1>2 DEF OneMore
  <1>4. /\ DayAt(t, i) = DayAt(t, Len(t))
        /\ SessionAt(t, i) = SessionAt(t, Len(t))
        /\ SessionAt(t, Len(s)) = Now(s)
    BY <1>1, <1>2, DaysStay DEF Now
  <1>5. SessionAt(t, Len(s)) = SessionAt(t, Len(t))
    BY <1>3, <1>4, DaysAre
  <1> QED
    BY <1>4, <1>5 DEF Now

\* What was to be said of a session before and after a bar of the same day.
LEMMA WasMoves ==
    ASSUME NEW s \in Seq(BarType), InOrderOfTime(s), s # <<>>,
           NEW t \in Seq(BarType), InOrderOfTime(t), OneMore(s, t),
           DayAt(t, Len(t)) = DayAt(s, Len(s)), NEW q
    PROVE  WasIn(t, q) = IF Now(t) # Now(s) /\ Now(s) = q
                         THEN RangeIn(s, Within(s, {q})) ELSE WasIn(s, q)
  <1>1. Within(s, {q}) \in SUBSET DOMAIN s
    BY DEF Within, TodayIn
  <1>2. RangeIn(t, Within(s, {q})) = RangeIn(s, Within(s, {q}))
    BY <1>1, SetsGrow
  <1>3. Within(t, {q}) = Within(s, {q}) \cup NewBar(t, {q})
    BY SameDay
  <1>4. Now(t) # q => Within(t, {q}) = Within(s, {q})
    BY <1>3 DEF NewBar, Now
  <1>5. Now(t) = q /\ Now(s) # q => RangeIn(s, Within(s, {q})) = Ctx!NoRange
    BY SessionBegins DEF RangeIn
  <1> QED
    BY <1>2, <1>4, <1>5 DEF WasIn

LEMMA ContextSameDay ==
    ASSUME seen \in Seq(BarType), InOrderOfTime(seen), seen # <<>>,
           ContextHolds(seen),
           NEW b \in BarType, Later(b.ts), seen' = Append(seen, b),
           Ctx!ContextOnBar(b), Ctx!GlobexDay(b.ts) = cur_day
    PROVE  ContextHolds(seen)'
  <1> DEFINE s == seen
             t == seen'
             n == Len(t)
             now == Now(t)
             NY == Ctx!NewYork
  <1>1. /\ t \in Seq(BarType) /\ InOrderOfTime(t) /\ OneMore(s, t) /\ t[n] = b
        /\ s \in Seq(BarType) /\ InOrderOfTime(s) /\ s # <<>>
    BY StreamGrows
  <1>2. /\ DayAt(t, n) = Ctx!GlobexDay(b.ts) /\ now = Ctx!TagSession(b.ts)
        /\ now = SessionAt(t, n)
    BY <1>1 DEF DayAt, SessionAt, Now
  <1>3. /\ cur_session = Now(s) /\ cur_day = DayAt(s, Len(s))
        /\ day_range = RangeIn(s, TodayIn(s)) /\ day_sum = SumIn(s, TodayIn(s))
        /\ ny_range = RangeIn(s, Within(s, NY))
        /\ ~Split(s) => /\ sess_range = RangeIn(s, Within(s, {Now(s)}))
                        /\ sess_sum = SumIn(s, Within(s, {Now(s)}))
    BY DEF ContextHolds
  <1>4. PICK asia, london :
          /\ levels = LevelsOf(RangeIn(s, LastDayIn(s, DOMAIN s)),
                               RangeIn(s, LastDayIn(s, InNewYork(s))),
                               asia, london)
          /\ CameFrom(s) \notin {"ASIA", "LONDON"} =>
               asia = WasIn(s, "ASIA") /\ london = WasIn(s, "LONDON")
    BY DEF ContextHolds
  <1>5. /\ cur_session' = now /\ cur_day' = DayAt(t, n)
        /\ day_range' = Ctx!Widen(day_range, b)
        /\ day_sum' = Ctx!AddTo(day_sum, b)
        /\ ny_range' = IF now \in NY THEN Ctx!Widen(ny_range, b) ELSE ny_range
        /\ levels' = IF now # cur_session THEN Ctx!RolledSession(levels) ELSE levels
        /\ now = cur_session => /\ sess_range' = Ctx!Widen(sess_range, b)
                                /\ sess_sum' = Ctx!AddTo(sess_sum, b)
        /\ now # cur_session => /\ sess_range' = Ctx!Widen(Ctx!NoRange, b)
                                /\ sess_sum' = Ctx!AddTo(Ctx!NoSum, b)
    <2> HIDE DEF t, n, now
    <2> QED
      BY <1>2, OnBarMakes
  <1> HIDE DEF s, t
  <1>6. DayAt(t, n) = DayAt(s, Len(s))
    BY <1>2, <1>3
  <1> HIDE DEF n
  <1>7. /\ TodayIn(t) = TodayIn(s) \cup {n}
        /\ \A S : Within(t, S) = Within(s, S) \cup NewBar(t, S)
        /\ LastDayIn(t, DOMAIN t) = LastDayIn(s, DOMAIN s)
        /\ LastDayIn(t, InNewYork(t)) = LastDayIn(s, InNewYork(s))
        /\ CameFrom(t) = CameFrom(s)
        /\ SessionAt(t, Min(TodayIn(t))) = SessionAt(s, Min(TodayIn(s)))
    BY <1>1, <1>6, SameDay DEF n
  <1>8. /\ TodayIn(s) \in SUBSET DOMAIN s
        /\ \A S : Within(s, S) \in SUBSET DOMAIN s
        /\ \A I : LastDayIn(s, I) \subseteq I
        /\ InNewYork(s) \subseteq DOMAIN s
    BY DEF Within, TodayIn, LastDayIn, InNewYork
  <1>9. \A I \in SUBSET DOMAIN s :
          /\ RangeIn(t, I \cup {n}) = Ctx!Widen(RangeIn(s, I), b)
          /\ SumIn(t, I \cup {n}) = Ctx!AddTo(SumIn(s, I), b)
          /\ RangeIn(t, {n}) = Ctx!Widen(Ctx!NoRange, b)
          /\ SumIn(t, {n}) = Ctx!AddTo(Ctx!NoSum, b)
          /\ RangeIn(t, I) = RangeIn(s, I)
    <2> TAKE I \in SUBSET DOMAIN s
    <2>1. b = t[Len(t)]
      BY <1>1 DEF n
    <2> QED
      BY <1>1, <2>1, SetsGrow DEF n
  <1>10. \A S : NewBar(t, S) = IF now \in S THEN {n} ELSE {}
    BY <1>2 DEF NewBar, n
  <1>11. /\ day_range' = RangeIn(t, TodayIn(t))
         /\ day_sum' = SumIn(t, TodayIn(t))
    BY <1>3, <1>5, <1>7, <1>8, <1>9
  <1> HIDE DEF NY, now
  <1>12. ny_range' = RangeIn(t, Within(t, NY))
    <2>1. CASE now \in NY
      <3>1. Within(t, NY) = Within(s, NY) \cup {n}
        BY <1>7, <1>10, <2>1
      <3> QED
        BY <1>3, <1>5, <1>8, <1>9, <2>1, <3>1
    <2>2. CASE now \notin NY
      <3>1. Within(t, NY) = Within(s, NY)
        BY <1>7, <1>10, <2>2
      <3> QED
        BY <1>3, <1>5, <1>8, <1>9, <2>2, <3>1
    <2> QED
      BY <2>1, <2>2
  <1>13. Within(t, {now}) = Within(s, {now}) \cup {n}
    BY <1>7, <1>10
  <1>14. ~Split(t) => /\ sess_range' = RangeIn(t, Within(t, {now}))
                      /\ sess_sum' = SumIn(t, Within(t, {now}))
    <2>1. CASE now = Now(s)
      <3>1. Split(t) <=> Split(s)
        BY <1>7, <2>1 DEF Split, now
      <3>2. /\ sess_range' = Ctx!Widen(sess_range, b)
            /\ sess_sum' = Ctx!AddTo(sess_sum, b)
        BY <1>3, <1>5, <2>1
      <3> QED
        BY <1>3, <1>8, <1>9, <1>13, <2>1, <3>1, <3>2
    <2>2. CASE now # Now(s)
      <3>1. Within(s, {now}) = {}
        BY <1>1, <1>6, <2>2, SessionBegins DEF now, n
      <3>2. Within(t, {now}) = {n}
        BY <1>13, <3>1
      <3> QED
        BY <1>3, <1>5, <1>8, <1>9, <2>2, <3>2
    <2> QED
      BY <2>1, <2>2
  <1> DEFINE a == IF now # Now(s) /\ Now(s) = "ASIA" THEN sess_range ELSE asia
             l == IF now # Now(s) /\ Now(s) = "LONDON" THEN sess_range ELSE london
             pd == RangeIn(s, LastDayIn(s, DOMAIN s))
             pn == RangeIn(s, LastDayIn(s, InNewYork(s)))
  <1>15. levels' = LevelsOf(pd, pn, a, l)
    <2> HIDE DEF pd, pn
    <2>1. levels = LevelsOf(pd, pn, asia, london)
      BY <1>4 DEF pd, pn
    <2>2. CASE now = Now(s)
      BY <1>3, <1>5, <2>1, <2>2
    <2>3. CASE now # Now(s)
      <3>1. levels' = Ctx!RolledSession(levels)
        BY <1>3, <1>5, <2>3
      <3>2. Ctx!RolledSession(LevelsOf(pd, pn, asia, london)) =
              LevelsOf(pd, pn,
                       IF cur_session = "ASIA" THEN sess_range ELSE asia,
                       IF cur_session = "LONDON" THEN sess_range ELSE london)
        BY RolledSessionIs
      <3> QED
        BY <1>3, <2>1, <2>3, <3>1, <3>2
    <2> QED
      BY <2>2, <2>3
  <1>16. /\ pd = RangeIn(t, LastDayIn(t, DOMAIN t))
         /\ pn = RangeIn(t, LastDayIn(t, InNewYork(t)))
    <2>1. /\ LastDayIn(s, DOMAIN s) \in SUBSET DOMAIN s
          /\ LastDayIn(s, InNewYork(s)) \in SUBSET DOMAIN s
      BY <1>8
    <2> QED
      BY <1>7, <1>9, <2>1
  <1>17. CameFrom(t) \notin {"ASIA", "LONDON"} =>
           a = WasIn(t, "ASIA") /\ l = WasIn(t, "LONDON")
    <2> SUFFICES ASSUME CameFrom(t) \notin {"ASIA", "LONDON"}
                 PROVE  a = WasIn(t, "ASIA") /\ l = WasIn(t, "LONDON")
      OBVIOUS
    <2>1. asia = WasIn(s, "ASIA") /\ london = WasIn(s, "LONDON")
      BY <1>4, <1>7
    <2>2. Now(s) \in {"ASIA", "LONDON"} => sess_range = RangeIn(s, Within(s, {Now(s)}))
      BY <1>3, <1>7 DEF Split
    <2>3. \A q : WasIn(t, q) = IF now # Now(s) /\ Now(s) = q
                               THEN RangeIn(s, Within(s, {q})) ELSE WasIn(s, q)
      BY <1>1, <1>6, WasMoves DEF now, n
    <2> QED
      BY <2>1, <2>2, <2>3
  <1> HIDE DEF a, l, pd, pn
  <1>18. /\ levels' = LevelsOf(RangeIn(t, LastDayIn(t, DOMAIN t)),
                               RangeIn(t, LastDayIn(t, InNewYork(t))), a, l)
         /\ CameFrom(t) \notin {"ASIA", "LONDON"} =>
              a = WasIn(t, "ASIA") /\ l = WasIn(t, "LONDON")
    BY <1>15, <1>16, <1>17
  <1> QED
    BY <1>5, <1>11, <1>12, <1>14, <1>18 DEF ContextHolds, t, n, now, NY

LEMMA ContextNewDay ==
    ASSUME seen \in Seq(BarType), InOrderOfTime(seen), seen # <<>>,
           ContextHolds(seen),
           NEW b \in BarType, Later(b.ts), seen' = Append(seen, b),
           Ctx!ContextOnBar(b), Ctx!GlobexDay(b.ts) # cur_day
    PROVE  ContextHolds(seen)'
  <1> DEFINE s == seen
             t == seen'
             n == Len(t)
             now == Now(t)
             NY == Ctx!NewYork
             none == Ctx!NoRange
  <1>1. /\ t \in Seq(BarType) /\ InOrderOfTime(t) /\ OneMore(s, t) /\ t[n] = b
        /\ s \in Seq(BarType) /\ InOrderOfTime(s) /\ s # <<>>
    BY StreamGrows
  <1>2. /\ DayAt(t, n) = Ctx!GlobexDay(b.ts) /\ now = Ctx!TagSession(b.ts)
        /\ now = SessionAt(t, n)
    BY <1>1 DEF DayAt, SessionAt, Now
  <1>3. /\ cur_session = Now(s) /\ cur_day = DayAt(s, Len(s))
        /\ day_range = RangeIn(s, TodayIn(s))
        /\ ny_range = RangeIn(s, Within(s, NY))
    BY DEF ContextHolds
  <1> DEFINE pd == RangeIn(s, LastDayIn(s, DOMAIN s))
             pn == RangeIn(s, LastDayIn(s, InNewYork(s)))
  <1>4. PICK asia, london : levels = LevelsOf(pd, pn, asia, london)
    BY DEF ContextHolds
  <1>5. /\ cur_session' = now /\ cur_day' = DayAt(t, n)
        /\ day_range' = Ctx!Widen(none, b)
        /\ day_sum' = Ctx!AddTo(Ctx!NoSum, b)
        /\ ny_range' = IF now \in NY THEN Ctx!Widen(none, b) ELSE none
        /\ levels' = IF now # cur_session
                     THEN Ctx!RolledSession(Ctx!RolledDay(levels))
                     ELSE Ctx!RolledDay(levels)
        /\ now # cur_session => /\ sess_range' = Ctx!Widen(none, b)
                                /\ sess_sum' = Ctx!AddTo(Ctx!NoSum, b)
    <2> HIDE DEF t, n, now
    <2> QED
      BY <1>2, OnBarMakes
  <1> HIDE DEF s, t
  <1>6. DayAt(t, n) # DayAt(s, Len(s))
    BY <1>2, <1>3
  <1> HIDE DEF n
  <1>7. /\ TodayIn(t) = {n}
        /\ \A S : Within(t, S) = NewBar(t, S)
        /\ LastDayIn(t, DOMAIN t) = TodayIn(s)
        /\ LastDayIn(t, InNewYork(t)) =
             IF Within(s, NY) = {} THEN LastDayIn(s, InNewYork(s))
             ELSE Within(s, NY)
        /\ CameFrom(t) = SessionAt(s, Len(s))
        /\ SessionAt(t, Min(TodayIn(t))) = SessionAt(t, Len(t))
    BY <1>1, <1>6, NewDay DEF n
  <1>8. /\ TodayIn(s) \in SUBSET DOMAIN s /\ TodayIn(s) # {}
        /\ Within(s, NY) \in SUBSET DOMAIN s
        /\ LastDayIn(s, InNewYork(s)) \in SUBSET DOMAIN s
    <2>1. TodayIn(s) # {}
      BY <1>1, FirstToday
    <2> QED
      BY <2>1 DEF Within, TodayIn, LastDayIn, InNewYork
  <1>9. \A I \in SUBSET DOMAIN s :
          /\ RangeIn(t, {n}) = Ctx!Widen(none, b)
          /\ SumIn(t, {n}) = Ctx!AddTo(Ctx!NoSum, b)
          /\ RangeIn(t, I) = RangeIn(s, I)
          /\ I # {} => RangeIn(s, I) # none
    <2> TAKE I \in SUBSET DOMAIN s
    <2>1. b = t[Len(t)]
      BY <1>1 DEF n
    <2>2. /\ RangeIn(t, {Len(t)}) = Ctx!Widen(Ctx!NoRange, b)
          /\ SumIn(t, {Len(t)}) = Ctx!AddTo(Ctx!NoSum, b)
          /\ RangeIn(t, I) = RangeIn(s, I)
      <3>1. RangeIn(t, {Len(t)}) = Ctx!Widen(Ctx!NoRange, b)
        BY <1>1, <2>1, NewBarAlone
      <3>2. SumIn(t, {Len(t)}) = Ctx!AddTo(Ctx!NoSum, b)
        BY <1>1, <2>1, NewBarAlone
      <3>3. RangeIn(t, I) = RangeIn(s, I)
        BY <1>1, RangeGrows
      <3> QED
        BY <3>1, <3>2, <3>3
    <2>3. I # {} => RangeIn(s, I) # Ctx!NoRange
      BY <1>1, RangeGrows
    <2> QED
      BY <2>2, <2>3 DEF n
  <1>10. \A S : NewBar(t, S) = IF now \in S THEN {n} ELSE {}
    BY <1>2 DEF NewBar, n
  <1> HIDE DEF NY, now, none
  <1>11. /\ RangeIn(t, {n}) = Ctx!Widen(none, b)
         /\ SumIn(t, {n}) = Ctx!AddTo(Ctx!NoSum, b)
         /\ RangeIn(t, {}) = none
         /\ Within(t, {now}) = {n} /\ TodayIn(t) = {n}
         /\ Within(t, NY) = IF now \in NY THEN {n} ELSE {}
    <2>1. RangeIn(t, {}) = none
      BY DEF RangeIn, none
    <2> QED
      BY <1>7, <1>8, <1>9, <1>10, <2>1
  <1>12. /\ day_range' = RangeIn(t, TodayIn(t))
         /\ day_sum' = SumIn(t, TodayIn(t))
         /\ ny_range' = RangeIn(t, Within(t, NY))
    BY <1>5, <1>11
  <1>13. ~Split(t) => /\ sess_range' = RangeIn(t, Within(t, {now}))
                      /\ sess_sum' = SumIn(t, Within(t, {now}))
    <2>1. ~Split(t) => now # cur_session
      BY <1>3, <1>7 DEF Split, Now, now
    <2> QED
      BY <1>5, <1>11, <2>1
  <1> DEFINE x == IF day_range = none THEN pd ELSE day_range
             y == IF ny_range = none THEN pn ELSE ny_range
             a == IF now # Now(s) /\ Now(s) = "ASIA" THEN sess_range ELSE none
             l == IF now # Now(s) /\ Now(s) = "LONDON" THEN sess_range ELSE none
  <1> HIDE DEF pd, pn
  <1>14. Ctx!RolledDay(levels) = LevelsOf(x, y, none, none)
    BY <1>4, RolledDayIs DEF none
  <1>15. levels' = LevelsOf(x, y, a, l)
    <2> HIDE DEF x, y
    <2>1. CASE now = Now(s)
      BY <1>3, <1>5, <1>14, <2>1
    <2>2. CASE now # Now(s)
      <3>1. levels' = Ctx!RolledSession(LevelsOf(x, y, none, none))
        BY <1>3, <1>5, <1>14, <2>2
      <3>2. Ctx!RolledSession(LevelsOf(x, y, none, none)) =
              LevelsOf(x, y,
                       IF cur_session = "ASIA" THEN sess_range ELSE none,
                       IF cur_session = "LONDON" THEN sess_range ELSE none)
        BY RolledSessionIs
      <3> QED
        BY <1>3, <2>2, <3>1, <3>2
    <2> QED
      BY <2>1, <2>2
  <1>16. x = RangeIn(t, LastDayIn(t, DOMAIN t))
    BY <1>3, <1>7, <1>8, <1>9
  <1>17. y = RangeIn(t, LastDayIn(t, InNewYork(t)))
    <2>1. CASE Within(s, NY) = {}
      <3>1. ny_range = none
        BY <1>3, <2>1 DEF RangeIn, none
      <3> QED
        BY <1>7, <1>8, <1>9, <2>1, <3>1 DEF pn
    <2>2. CASE Within(s, NY) # {}
      BY <1>3, <1>7, <1>8, <1>9, <2>2
    <2> QED
      BY <2>1, <2>2
  <1>18. CameFrom(t) \notin {"ASIA", "LONDON"} =>
           a = WasIn(t, "ASIA") /\ l = WasIn(t, "LONDON")
    <2> SUFFICES ASSUME Now(s) \notin {"ASIA", "LONDON"}
                 PROVE  a = WasIn(t, "ASIA") /\ l = WasIn(t, "LONDON")
      BY <1>7 DEF Now
    <2>1. a = none /\ l = none
      OBVIOUS
    <2>2. \A q : Now(t) # q => Within(t, {q}) = {}
      BY <1>7, <1>10 DEF now
    <2>3. \A q : WasIn(t, q) = none
      BY <1>11, <2>2 DEF WasIn, none
    <2> QED
      BY <2>1, <2>3
  <1> HIDE DEF a, l, x, y
  <1>19. /\ levels' = LevelsOf(RangeIn(t, LastDayIn(t, DOMAIN t)),
                               RangeIn(t, LastDayIn(t, InNewYork(t))), a, l)
         /\ CameFrom(t) \notin {"ASIA", "LONDON"} =>
              a = WasIn(t, "ASIA") /\ l = WasIn(t, "LONDON")
    BY <1>15, <1>16, <1>17, <1>18
  <1> QED
    BY <1>5, <1>12, <1>13, <1>19 DEF ContextHolds, t, n, now, NY

LEMMA ContextSteps ==
    ASSUME StreamInv, ContextInv, [Next]_vars
    PROVE  ContextInv'
  <1> SUFFICES ASSUME program' = "context"
               PROVE  (IF seen = <<>> THEN Ctx!ContextInit ELSE ContextHolds(seen))'
    BY DEF ContextInv
  <1>1. program = "context"
    BY StreamSteps
  <1>2. /\ seen \in Seq(BarType) /\ InOrderOfTime(seen)
        /\ IF seen = <<>> THEN Ctx!ContextInit ELSE ContextHolds(seen)
    BY <1>1 DEF StreamInv, ContextInv, Sorted
  <1>3. CASE Context_Bar
    <2>1. PICK ts \in 0..Horizon[program], q \in Shapes[program] :
            /\ Later(ts) /\ Arrives(Bar(ts, q))
            /\ Ctx!ContextOnBar(Bar(ts, q))
      BY <1>3 DEF Context_Bar
    <2> DEFINE b == Bar(ts, q)
    <2>2. b \in BarType /\ b.ts = ts
      BY BarOfShape DEF StreamInv
    <2>3. seen' = Append(seen, b) /\ Later(b.ts) /\ Ctx!ContextOnBar(b)
      BY <2>1, <2>2 DEF Arrives
    <2> HIDE DEF b
    <2>4. ContextHolds(seen)'
      <3>1. CASE seen = <<>>
        BY <1>2, <2>2, <2>3, <3>1, ContextStarts
      <3>2. CASE seen # <<>> /\ Ctx!GlobexDay(b.ts) = cur_day
        BY <1>2, <2>2, <2>3, <3>2, ContextSameDay
      <3>3. CASE seen # <<>> /\ Ctx!GlobexDay(b.ts) # cur_day
        BY <1>2, <2>2, <2>3, <3>3, ContextNewDay
      <3> QED
        BY <3>1, <3>2, <3>3
    <2>5. seen' # <<>>
      BY <1>2, <2>2, <2>3, StreamGrows
    <2> QED
      BY <2>4, <2>5
  <1>4. CASE UNCHANGED <<seen, contextVars>>
    BY <1>2, <1>4 DEF contextVars, ContextHolds, Ctx!ContextInit
  <1> QED
    BY <1>1, <1>3, <1>4
    DEF Next, vars, Sub_Bar, Poll, Shock_Bar, Loaded_Bar, Drift_Run, End, Finished

\* What the context machine says about days and sessions is what their bars
\* were (SessionContextMachine.on_bar, _roll_day, _roll_session).
THEOREM LevelsFollowHistory == Spec => []LevelsMatchHistory
  <1>1. Init => ContextInv
    BY DEF Init, ContextInv
  <1>2. StreamsInv /\ ContextInv /\ [Next]_vars => ContextInv'
    BY ContextSteps DEF StreamsInv
  <1>3. StreamsInv /\ ContextInv => LevelsMatchHistory
    <2> SUFFICES ASSUME StreamsInv, ContextInv, program = "context", seen # <<>>
                 PROVE  LevelsMatchHistory
      BY DEF LevelsMatchHistory
    <2> DEFINE s == seen
    <2>1. s \in Seq(BarType) /\ ContextHolds(s)
      BY DEF StreamsInv, StreamInv, ContextInv, Sorted
    <2>2. /\ Today = TodayIn(s)
          /\ \A i : DayOf(i) = DayAt(s, i) /\ SessionOf(i) = SessionAt(s, i)
          /\ \A I : LastDay(I) = LastDayIn(s, I)
          /\ RanInto = CameFrom(s)
      BY DEF Today, DayOf, SessionOf, LastDay, RanInto, TodayIn, DayAt,
             SessionAt, LastDayIn, CameFrom
    <2>3. /\ {i \in DOMAIN s : SessionOf(i) \in Ctx!NewYork} = InNewYork(s)
          /\ \A q : {i \in Today : SessionOf(i) = q} = Within(s, {q})
      BY <2>2 DEF InNewYork, Within
    <2>4. \A I \in SUBSET DOMAIN s : RangeOf(I) = RangeIn(s, I) /\ SumOf(I) = SumIn(s, I)
      BY <2>1, RangeIs, SumIs
    <2>5. /\ TodayIn(s) \in SUBSET DOMAIN s
          /\ \A q : Within(s, {q}) \in SUBSET DOMAIN s
          /\ LastDayIn(s, DOMAIN s) \in SUBSET DOMAIN s
          /\ LastDayIn(s, InNewYork(s)) \in SUBSET DOMAIN s
      BY DEF TodayIn, Within, LastDayIn, InNewYork
    <2>6. PICK asia, london :
            /\ levels = LevelsOf(RangeIn(s, LastDayIn(s, DOMAIN s)),
                                 RangeIn(s, LastDayIn(s, InNewYork(s))),
                                 asia, london)
            /\ CameFrom(s) \notin {"ASIA", "LONDON"} =>
                 asia = WasIn(s, "ASIA") /\ london = WasIn(s, "LONDON")
      BY <2>1 DEF ContextHolds
    <2>7. /\ levels.prior_day = RangeIn(s, LastDayIn(s, DOMAIN s))
          /\ levels.prior_ny = RangeIn(s, LastDayIn(s, InNewYork(s)))
          /\ levels.asia = asia /\ levels.london = london
      BY <2>6 DEF LevelsOf
    <2> DEFINE now == SessionOf(Len(seen))
               Was(q) == IF now = q THEN Ctx!NoRange
                         ELSE RangeOf({i \in Today : SessionOf(i) = q})
    <2>8. now = Now(s) /\ \A q : Was(q) = WasIn(s, q)
      BY <2>2, <2>3, <2>4, <2>5 DEF Now, WasIn
    <2>9. RanInto # SessionOf(Min(Today)) =>
            sess_sum = SumOf({i \in Today : SessionOf(i) = now})
      <3>1. RanInto # SessionOf(Min(Today)) => ~Split(s)
        BY <2>2 DEF Split
      <3>2. ~Split(s) => sess_sum = SumIn(s, Within(s, {Now(s)}))
        BY <2>1 DEF ContextHolds
      <3> QED
        BY <2>3, <2>4, <2>5, <2>8, <3>1, <3>2
    <2>10. levels.prior_day = RangeOf(LastDay(DOMAIN seen))
      BY <2>2, <2>4, <2>5, <2>7
    <2>11. levels.prior_ny =
             RangeOf(LastDay({i \in DOMAIN seen : SessionOf(i) \in Ctx!NewYork}))
      BY <2>2, <2>3, <2>4, <2>5, <2>7
    <2>12. day_sum = SumOf(Today)
      BY <2>1, <2>2, <2>4, <2>5 DEF ContextHolds
    <2>13. RanInto \notin {"ASIA", "LONDON"} =>
             levels.asia = Was("ASIA") /\ levels.london = Was("LONDON")
      BY <2>2, <2>6, <2>7, <2>8
    <2> QED
      BY <2>9, <2>10, <2>11, <2>12, <2>13 DEF LevelsMatchHistory
  <1> QED
    BY <1>1, <1>2, <1>3, SpecStreams, PTL DEF Spec
-----------------------------------------------------------------------------
(* Bars of longer timeframes. *)

\* The lines of a file of bars, some of which may be left out.
IsFile(s, n) ==
    n \in Nat /\ DOMAIN s \subseteq 1..n /\ \A i \in DOMAIN s : s[i] \in BarType

\* The one bar of the lines I, labelled k.
OhlcOf(s, k, I) ==
    [ts |-> k, o |-> s[Min(I)].o, h |-> Max(Image(Highs(s), I)),
     l |-> Min(Image(Lows(s), I)), c |-> s[Max(I)].c, v |-> SumOver(Volumes(s), I)]

LEMMA LinesAre ==
    ASSUME NEW s, NEW n, IsFile(s, n), NEW i \in DOMAIN s
    PROVE  /\ i \in Nat \ {0} /\ s[i].ts \in Nat /\ s[i].o \in Nat
           /\ s[i].h \in Nat /\ s[i].l \in Nat /\ s[i].c \in Nat /\ s[i].v \in Nat
           /\ Highs(s)[i] = s[i].h /\ Lows(s)[i] = s[i].l
           /\ Volumes(s)[i] = s[i].v
  <1>1. i \in 1..n /\ n \in Nat /\ s[i] \in BarType
    BY DEF IsFile
  <1>2. i \in Nat \ {0}
    BY <1>1
  <1> QED
    BY <1>1, <1>2 DEF BarType, Highs, Lows, Volumes

\* A part of the lines has a first and a last one.
LEMMA PartOfFile ==
    ASSUME NEW s, NEW n, IsFile(s, n), NEW I \in SUBSET DOMAIN s
    PROVE  /\ n \in Nat /\ I \in SUBSET (1..n) /\ IsFiniteSet(I)
           /\ \A i \in I : /\ Highs(s)[i] \in Int /\ Lows(s)[i] \in Int
                           /\ Volumes(s)[i] \in Nat /\ Volumes(s)[i] \in Int
           /\ I # {} => /\ Min(I) \in I /\ \A i \in I : Min(I) =< i
                        /\ Max(I) \in I /\ \A i \in I : Max(I) >= i
  <1>1. n \in Nat /\ I \in SUBSET (1..n)
    BY DEF IsFile
  <1>2. IsFiniteSet(1..n)
    BY <1>1, FS_Interval
  <1>3. IsFiniteSet(I)
    BY <1>1, <1>2, FS_Subset
  <1>4. \A i \in I : /\ Highs(s)[i] \in Int /\ Lows(s)[i] \in Int
                     /\ Volumes(s)[i] \in Nat /\ Volumes(s)[i] \in Int
    BY LinesAre
  <1>5. I \subseteq Int
    BY <1>1
  <1>6. I # {} => Min(I) \in I /\ \A i \in I : Min(I) =< i
    BY <1>3, <1>5, MinIsLeast
  <1>7. I # {} => Max(I) \in I /\ \A i \in I : Max(I) >= i
    BY <1>3, <1>5, MaxIsLargest
  <1> QED
    BY <1>1, <1>3, <1>4, <1>6, <1>7

LEMMA EndsOfUnion ==
    ASSUME NEW n \in Nat, NEW I \in SUBSET (1..n), NEW J \in SUBSET (1..n),
           I # {}, J # {}, NEW f, \A i \in I \cup J : f[i] \in Int
    PROVE  /\ Max(Image(f, I \cup J)) =
                Greatest(Max(Image(f, I)), Max(Image(f, J)))
           /\ Min(Image(f, I \cup J)) =
                Least(Min(Image(f, I)), Min(Image(f, J)))
  <1> DEFINE U == I \cup J
  <1>0. U \in SUBSET (1..n) /\ U # {} /\ \A i \in U : f[i] \in Int
    OBVIOUS
  <1>1. /\ Max(Image(f, I)) \in Image(f, I) /\ Max(Image(f, I)) \in Int
        /\ \A i \in I : Max(Image(f, I)) >= f[i]
        /\ Min(Image(f, I)) \in Image(f, I) /\ Min(Image(f, I)) \in Int
        /\ \A i \in I : Min(Image(f, I)) =< f[i]
    BY ImageEnds
  <1>2. /\ Max(Image(f, J)) \in Image(f, J) /\ Max(Image(f, J)) \in Int
        /\ \A i \in J : Max(Image(f, J)) >= f[i]
        /\ Min(Image(f, J)) \in Image(f, J) /\ Min(Image(f, J)) \in Int
        /\ \A i \in J : Min(Image(f, J)) =< f[i]
    BY ImageEnds
  <1>3. /\ Max(Image(f, U)) \in Image(f, U) /\ Max(Image(f, U)) \in Int
        /\ \A i \in U : Max(Image(f, U)) >= f[i]
        /\ Min(Image(f, U)) \in Image(f, U) /\ Min(Image(f, U)) \in Int
        /\ \A i \in U : Min(Image(f, U)) =< f[i]
    BY <1>0, ImageEnds
  <1> DEFINE a == Max(Image(f, I))
             b == Max(Image(f, J))
             p == Max(Image(f, U))
             c == Min(Image(f, I))
             d == Min(Image(f, J))
             q == Min(Image(f, U))
  <1> HIDE DEF a, b, p, c, d, q
  <1>4. p >= a /\ p >= b /\ (p <= a \/ p <= b)
    <2>1. PICK i \in I : a = f[i]
      BY <1>1 DEF Image, a
    <2>2. PICK j \in J : b = f[j]
      BY <1>2 DEF Image, b
    <2>3. PICK m \in U : p = f[m]
      BY <1>3 DEF Image, p
    <2> QED
      BY <1>1, <1>2, <1>3, <2>1, <2>2, <2>3 DEF a, b, p
  <1>5. q <= c /\ q <= d /\ (q >= c \/ q >= d)
    <2>1. PICK i \in I : c = f[i]
      BY <1>1 DEF Image, c
    <2>2. PICK j \in J : d = f[j]
      BY <1>2 DEF Image, d
    <2>3. PICK m \in U : q = f[m]
      BY <1>3 DEF Image, q
    <2> QED
      BY <1>1, <1>2, <1>3, <2>1, <2>2, <2>3 DEF c, d, q
  <1>6. {a, b, p, c, d, q} \subseteq Int
    BY <1>1, <1>2, <1>3 DEF a, b, p, c, d, q
  <1>7. p = Greatest(a, b) /\ q = Least(c, d)
    BY <1>4, <1>5, <1>6 DEF Greatest, Least
  <1> QED
    BY <1>7 DEF a, b, p, c, d, q

LEMMA SumOfUnion ==
    ASSUME NEW I, IsFiniteSet(I), NEW J, IsFiniteSet(J), I \cap J = {},
           NEW f, \A i \in I \cup J : f[i] \in Int
    PROVE  SumOver(f, I \cup J) = SumOver(f, I) + SumOver(f, J)
  <1> DEFINE D == {s \in SUBSET J : SumOver(f, I \cup s) # SumOver(f, I) + SumOver(f, s)}
  <1>0. \A s \in SUBSET J : /\ IsFiniteSet(s) /\ IsFiniteSet(I \cup s)
                            /\ SumOver(f, s) \in Int /\ SumOver(f, I) \in Int
    <2> SUFFICES ASSUME NEW s \in SUBSET J
                 PROVE  /\ IsFiniteSet(s) /\ IsFiniteSet(I \cup s)
                        /\ SumOver(f, s) \in Int /\ SumOver(f, I) \in Int
      OBVIOUS
    <2>1. IsFiniteSet(s)
      BY FS_Subset
    <2>2. IsFiniteSet(I \cup s)
      BY <2>1, FS_Union
    <2>3. SumOver(f, s) \in Int
      BY <2>1, SumOverInt
    <2>4. SumOver(f, I) \in Int
      BY SumOverInt
    <2> QED
      BY <2>1, <2>2, <2>3, <2>4
  <1>1. ASSUME D # {} PROVE FALSE
    <2>1. PICK s \in D : \A t \in D : t \subseteq s => t = s
      <3>1. D \in SUBSET (SUBSET J)
        OBVIOUS
      <3> HIDE DEF D
      <3> QED
        BY <1>1, <3>1, LeastSubset
    <2>2. s # {}
      <3> SUFFICES ASSUME s = {} PROVE FALSE
        OBVIOUS
      <3>1. I \cup s = I
        OBVIOUS
      <3>2. SumOver(f, s) = 0
        BY SumOverNone
      <3>3. SumOver(f, I) \in Int
        BY <1>0, <2>1
      <3> QED
        BY <2>1, <3>1, <3>2, <3>3
    <2>3. PICK y : y \in s
      BY <2>2
    <2> DEFINE r == s \ {y}
    <2>4. r \in SUBSET J /\ r # s /\ r \subseteq s /\ s \in SUBSET J
      BY <2>1, <2>3
    <2>5. SumOver(f, I \cup r) = SumOver(f, I) + SumOver(f, r)
      BY <2>1, <2>4
    <2>6. (I \cup s) \ {y} = I \cup r /\ y \in I \cup s
      BY <2>3, <2>4
    <2>7. SumOver(f, I \cup s) = f[y] + SumOver(f, (I \cup s) \ {y})
      <3>1. IsFiniteSet(I \cup s) /\ \A i \in I \cup s : f[i] \in Int
        BY <1>0, <2>4
      <3> QED
        BY <2>6, <3>1, SumOverRemove
    <2>8. SumOver(f, s) = f[y] + SumOver(f, r)
      <3>1. IsFiniteSet(s) /\ \A i \in s : f[i] \in Int
        BY <1>0, <2>4
      <3> QED
        BY <2>3, <3>1, SumOverRemove
    <2>9. f[y] \in Int /\ SumOver(f, r) \in Int /\ SumOver(f, I) \in Int
      BY <1>0, <2>3, <2>4
    <2>10. SumOver(f, I \cup s) # SumOver(f, I) + SumOver(f, s)
      BY <2>1
    <2> DEFINE a == SumOver(f, I)
               b == SumOver(f, r)
               x == SumOver(f, I \cup s)
               z == SumOver(f, s)
               y1 == f[y]
    <2>11. x = y1 + (a + b) /\ z = y1 + b /\ x # a + z
      BY <2>5, <2>6, <2>7, <2>8, <2>10
    <2>12. a \in Int /\ b \in Int /\ y1 \in Int
      BY <2>9
    <2> HIDE DEF D, r, a, b, x, z, y1
    <2> QED
      BY <2>11, <2>12
  <1> QED
    BY <1>1

\* What Merge takes of the bar it merges.
LEMMA MergeTakes ==
    ASSUME NEW a, NEW r, NEW q, r.h = q.h, r.l = q.l, r.c = q.c, r.v = q.v
    PROVE  Merge(a, r) = Merge(a, q)
  BY DEF Merge

LEMMA MergedIs ==
    ASSUME NEW t, NEW o, NEW h, NEW l, NEW c, NEW v, NEW r
    PROVE  Merge([ts |-> t, o |-> o, h |-> h, l |-> l, c |-> c, v |-> v], r) =
             [ts |-> t, o |-> o, h |-> Greatest(h, r.h), l |-> Least(l, r.l),
              c |-> r.c, v |-> v + r.v]
  <1> DEFINE b == [ts |-> t, o |-> o, h |-> h, l |-> l, c |-> c, v |-> v]
             x == Greatest(h, r.h)
             y == Least(l, r.l)
             z == r.c
             w == v + r.v
  <1>1. Merge(b, r) = [b EXCEPT !.h = x, !.l = y, !.c = z, !.v = w]
    BY DEF Merge
  <1>2. [b EXCEPT !.h = x, !.l = y, !.c = z, !.v = w] =
          [[[[b EXCEPT !.h = x] EXCEPT !.l = y] EXCEPT !.c = z] EXCEPT !.v = w]
    <2> HIDE DEF b, x, y, z, w
    <2> QED
      OBVIOUS
  <1> DEFINE b1 == [ts |-> t, o |-> o, h |-> x, l |-> l, c |-> c, v |-> v]
             b2 == [ts |-> t, o |-> o, h |-> x, l |-> y, c |-> c, v |-> v]
             b3 == [ts |-> t, o |-> o, h |-> x, l |-> y, c |-> z, v |-> v]
  <1> HIDE DEF x, y, z, w
  <1>3. [b EXCEPT !.h = x] = b1
    OBVIOUS
  <1>4. [b1 EXCEPT !.l = y] = b2
    OBVIOUS
  <1>5. [b2 EXCEPT !.c = z] = b3
    OBVIOUS
  <1>6. [b3 EXCEPT !.v = w] = [ts |-> t, o |-> o, h |-> x, l |-> y, c |-> z, v |-> w]
    OBVIOUS
  <1>7. Merge(b, r) = [ts |-> t, o |-> o, h |-> x, l |-> y, c |-> z, v |-> w]
    <2> HIDE DEF b, b1, b2, b3
    <2> QED
      BY <1>1, <1>2, <1>3, <1>4, <1>5, <1>6
  <1> QED
    BY <1>7 DEF x, y, z, w

\* Later lines are merged into the bar of the earlier ones.
LEMMA LinesMerge ==
    ASSUME NEW s, NEW n, IsFile(s, n), NEW I \in SUBSET DOMAIN s,
           NEW J \in SUBSET DOMAIN s, I # {}, J # {},
           \A i \in I, j \in J : i < j, NEW k, NEW r,
           r.h = OhlcOf(s, k, J).h, r.l = OhlcOf(s, k, J).l,
           r.c = OhlcOf(s, k, J).c, r.v = OhlcOf(s, k, J).v
    PROVE  OhlcOf(s, k, I \cup J) = Merge(OhlcOf(s, k, I), r)
  <1> DEFINE U == I \cup J
  <1>1. U \in SUBSET DOMAIN s /\ U # {} /\ I \cap J = {}
    <2>1. I \cap J = {}
      <3>1. I \subseteq Int
        BY PartOfFile
      <3> QED
        BY <3>1
    <2> QED
      BY <2>1
  <1>2. /\ n \in Nat /\ I \in SUBSET (1..n) /\ J \in SUBSET (1..n)
        /\ IsFiniteSet(I) /\ IsFiniteSet(J)
        /\ \A i \in U : /\ Highs(s)[i] \in Int /\ Lows(s)[i] \in Int
                        /\ Volumes(s)[i] \in Int
    <2>1. n \in Nat /\ I \in SUBSET (1..n) /\ IsFiniteSet(I)
      BY PartOfFile
    <2>2. J \in SUBSET (1..n) /\ IsFiniteSet(J)
      BY PartOfFile
    <2>3. \A i \in U : /\ Highs(s)[i] \in Int /\ Lows(s)[i] \in Int
                     /\ Volumes(s)[i] \in Int
      BY <1>1, PartOfFile
    <2> QED
      BY <2>1, <2>2, <2>3
  <1>3. Min(U) = Min(I)
    <2>1. Min(I) \in I /\ \A i \in I : Min(I) =< i
      BY PartOfFile
    <2>2. Min(U) \in U /\ \A i \in U : Min(U) =< i
      BY <1>1, PartOfFile
    <2>3. Min(U) =< Min(I) /\ Min(U) \in Int /\ Min(I) \in Int
      BY <1>2, <2>1, <2>2
    <2>4. Min(I) =< Min(U)
      <3>1. CASE Min(U) \in I
        BY <2>1, <3>1
      <3>2. CASE Min(U) \in J
        BY <2>1, <2>3, <3>2
      <3> QED
        BY <2>2, <3>1, <3>2
    <2> QED
      BY <2>3, <2>4
  <1>4. Max(U) = Max(J)
    <2>1. Max(J) \in J /\ \A j \in J : Max(J) >= j
      BY PartOfFile
    <2>2. Max(U) \in U /\ \A i \in U : Max(U) >= i
      BY <1>1, PartOfFile
    <2>3. Max(U) >= Max(J) /\ Max(U) \in Int /\ Max(J) \in Int
      BY <1>2, <2>1, <2>2
    <2>4. Max(J) >= Max(U)
      <3>1. CASE Max(U) \in J
        BY <2>1, <3>1
      <3>2. CASE Max(U) \in I
        BY <2>1, <2>3, <3>2
      <3> QED
        BY <2>2, <3>1, <3>2
    <2> QED
      BY <2>3, <2>4
  <1>5. Max(Image(Highs(s), U)) =
          Greatest(Max(Image(Highs(s), I)), Max(Image(Highs(s), J)))
    BY <1>2, EndsOfUnion
  <1>6. Min(Image(Lows(s), U)) =
          Least(Min(Image(Lows(s), I)), Min(Image(Lows(s), J)))
    BY <1>2, EndsOfUnion
  <1>7. SumOver(Volumes(s), U) = SumOver(Volumes(s), I) + SumOver(Volumes(s), J)
    BY <1>1, <1>2, SumOfUnion
  <1>8. /\ r.h = Max(Image(Highs(s), J)) /\ r.l = Min(Image(Lows(s), J))
        /\ r.c = s[Max(J)].c /\ r.v = SumOver(Volumes(s), J)
    BY DEF OhlcOf
  <1> HIDE DEF U
  <1>9. Merge(OhlcOf(s, k, I), r) =
          [ts |-> k, o |-> s[Min(I)].o,
           h |-> Greatest(Max(Image(Highs(s), I)), r.h),
           l |-> Least(Min(Image(Lows(s), I)), r.l),
           c |-> r.c, v |-> SumOver(Volumes(s), I) + r.v]
    BY MergedIs DEF OhlcOf
  <1>10. OhlcOf(s, k, U) = Merge(OhlcOf(s, k, I), r)
    BY <1>3, <1>4, <1>5, <1>6, <1>7, <1>8, <1>9 DEF OhlcOf
  <1> QED
    BY <1>10 DEF U

LEMMA OneLine ==
    ASSUME NEW s, NEW n, IsFile(s, n), NEW i \in DOMAIN s, NEW k
    PROVE  OhlcOf(s, k, {i}) = [s[i] EXCEPT !.ts = k]
  <1>1. /\ i \in Nat \ {0} /\ s[i] \in BarType
        /\ Highs(s)[i] = s[i].h /\ Lows(s)[i] = s[i].l /\ s[i].h \in Nat
        /\ s[i].l \in Nat /\ Volumes(s)[i] = s[i].v /\ s[i].v \in Nat
    BY LinesAre DEF IsFile
  <1>2. Min({i}) = i /\ Max({i}) = i
    <2>1. {i} \in SUBSET DOMAIN s /\ {i} # {}
      OBVIOUS
    <2>2. Min({i}) \in {i} /\ Max({i}) \in {i}
      BY <2>1, PartOfFile
    <2> QED
      BY <2>2
  <1>3. Max(Image(Highs(s), {i})) = s[i].h
    BY <1>1, EndOfOne
  <1>4. Min(Image(Lows(s), {i})) = s[i].l
    BY <1>1, EndOfOne
  <1>5. SumOver(Volumes(s), {i}) = s[i].v
    <2>1. IsFiniteSet({i}) /\ {i} \ {i} = {}
      BY FS_Singleton
    <2>2. Volumes(s)[i] \in Int
      BY <1>1
    <2>3. SumOver(Volumes(s), {i}) = Volumes(s)[i] + SumOver(Volumes(s), {i} \ {i})
      BY <2>1, <2>2, SumOverRemove
    <2>4. SumOver(Volumes(s), {i} \ {i}) = 0
      BY <2>1, SumOverNone
    <2> QED
      BY <1>1, <2>3, <2>4
  <1>6. [s[i] EXCEPT !.ts = k] =
          [ts |-> k, o |-> s[i].o, h |-> s[i].h, l |-> s[i].l, c |-> s[i].c,
           v |-> s[i].v]
    BY <1>1 DEF BarType
  <1> QED
    BY <1>2, <1>3, <1>4, <1>5, <1>6 DEF OhlcOf

\* The lines of S that fall into bucket k, and the buckets they fall into.
LinesOf(s, step, S, k) == {i \in S : Bucket(s[i].ts, step) = k}
BucketsOf(s, step, S) == {Bucket(s[i].ts, step) : i \in S}
TableOf(s, step, S) ==
    [k \in BucketsOf(s, step, S) |-> OhlcOf(s, k, LinesOf(s, step, S, k))]

LEMMA TablePuts ==
    ASSUME NEW s, NEW n, IsFile(s, n), NEW step, NEW S \in SUBSET DOMAIN s, S # {}
    PROVE  TableOf(s, step, S) =
             Put(TableOf(s, step, S \ {Max(S)}), s[Max(S)], step)
  <1> DEFINE m == Max(S)
             R == S \ {m}
             r == s[m]
             k == Bucket(r.ts, step)
             B == TableOf(s, step, R)
  <1>1. m \in S /\ (\A i \in S : m >= i) /\ S \in SUBSET (1..n)
    BY PartOfFile
  <1>2. m \in DOMAIN s /\ R \in SUBSET DOMAIN s
    BY <1>1
  <1>3. \A i \in R : i < m
    <2>1. \A i \in S : i \in Int
      BY <1>1
    <2> HIDE DEF m
    <2> QED
      BY <1>1, <2>1
  <1>4. BucketsOf(s, step, S) = BucketsOf(s, step, R) \cup {k}
    BY <1>1 DEF BucketsOf
  <1>5. DOMAIN B = BucketsOf(s, step, R)
    BY DEF TableOf
  <1>6. \A q \in DOMAIN B : B[q] = OhlcOf(s, q, LinesOf(s, step, R, q))
    BY DEF TableOf
  <1>7. \A q : q # k => LinesOf(s, step, S, q) = LinesOf(s, step, R, q)
    BY <1>1 DEF LinesOf
  <1>8. LinesOf(s, step, S, k) = LinesOf(s, step, R, k) \cup {m}
    BY <1>1 DEF LinesOf
  <1>9. k \in DOMAIN B <=> LinesOf(s, step, R, k) # {}
    BY <1>5 DEF BucketsOf, LinesOf
  <1>10. LinesOf(s, step, R, k) \in SUBSET DOMAIN s /\ LinesOf(s, step, R, k) \subseteq R
    BY <1>2 DEF LinesOf
  <1> DEFINE I == LinesOf(s, step, R, k)
  <1>11. OhlcOf(s, k, {m}) = [r EXCEPT !.ts = k]
    BY <1>2, OneLine
  <1>12. I # {} => OhlcOf(s, k, I \cup {m}) = Merge(OhlcOf(s, k, I), r)
    <2> SUFFICES ASSUME I # {} PROVE OhlcOf(s, k, I \cup {m}) = Merge(OhlcOf(s, k, I), r)
      OBVIOUS
    <2>1. r \in BarType
      BY <1>2 DEF IsFile
    <2>2. /\ r.h = OhlcOf(s, k, {m}).h /\ r.l = OhlcOf(s, k, {m}).l
          /\ r.c = OhlcOf(s, k, {m}).c /\ r.v = OhlcOf(s, k, {m}).v
      BY <1>11, <2>1 DEF BarType
    <2>3. \A i \in I, j \in {m} : i < j
      BY <1>3, <1>10
    <2>4. {m} \in SUBSET DOMAIN s /\ {m} # {} /\ I \in SUBSET DOMAIN s
      BY <1>2, <1>10
    <2> HIDE DEF I, m, r, k
    <2> QED
      BY <2>2, <2>3, <2>4, LinesMerge
  <1>13. TableOf(s, step, S)
           = [q \in DOMAIN B \cup {k} |-> OhlcOf(s, q, LinesOf(s, step, S, q))]
    BY <1>4, <1>5 DEF TableOf
  <1>14. ASSUME NEW q \in DOMAIN B \cup {k}
         PROVE  OhlcOf(s, q, LinesOf(s, step, S, q)) =
                  IF q # k THEN B[q]
                  ELSE IF k \in DOMAIN B THEN Merge(B[k], r)
                  ELSE [r EXCEPT !.ts = k]
    <2>1. CASE q # k
      <3>1. q \in DOMAIN B
        BY <2>1
      <3> QED
        BY <1>6, <1>7, <2>1, <3>1
    <2>2. CASE q = k /\ k \in DOMAIN B
      BY <1>6, <1>8, <1>9, <1>12, <2>2
    <2>3. CASE q = k /\ k \notin DOMAIN B
      <3>1. I = {} /\ I \cup {m} = {m}
        BY <1>9, <2>3
      <3> QED
        BY <1>8, <1>11, <2>3, <3>1
    <2> QED
      BY <2>1, <2>2, <2>3
  <1> HIDE DEF B, k, r, m, R
  <1>15. TableOf(s, step, S) = Put(B, r, step)
    BY <1>13, <1>14 DEF Put, k
  <1> QED
    BY <1>15 DEF B, r, m, R

LEMMA TableOfNone ==
    ASSUME NEW s, NEW step
    PROVE  TableOf(s, step, {}) = <<>>
  <1>1. BucketsOf(s, step, {}) = {}
    BY DEF BucketsOf
  <1> QED
    BY <1>1 DEF TableOf

\* The table that resample fills row by row.
LEMMA TableIsFilled ==
    ASSUME NEW s, NEW n, IsFile(s, n), NEW step
    PROVE  (CHOOSE g : g = [I \in SUBSET DOMAIN s |->
                              IF I = {} THEN <<>>
                              ELSE Put(g[I \ {Max(I)}], s[Max(I)], step)])[DOMAIN s]
             = TableOf(s, step, DOMAIN s)
  <1> DEFINE W == DOMAIN s
             P(g) == g = [I \in SUBSET W |->
                            IF I = {} THEN <<>>
                            ELSE Put(g[I \ {Max(I)}], s[Max(I)], step)]
             T == [I \in SUBSET W |-> TableOf(s, step, I)]
  <1>2. IsFiniteSet(W)
    BY PartOfFile
  <1>3. \A I \in SUBSET W : I # {} =>
          /\ Max(I) \in I
          /\ TableOf(s, step, I) =
               Put(TableOf(s, step, I \ {Max(I)}), s[Max(I)], step)
    <2> SUFFICES ASSUME NEW I \in SUBSET W, I # {}
                 PROVE  /\ Max(I) \in I
                        /\ TableOf(s, step, I) =
                             Put(TableOf(s, step, I \ {Max(I)}), s[Max(I)], step)
      OBVIOUS
    <2>1. Max(I) \in I
      BY PartOfFile
    <2>2. TableOf(s, step, I) = Put(TableOf(s, step, I \ {Max(I)}), s[Max(I)], step)
      BY TablePuts
    <2> QED
      BY <2>1, <2>2
  <1>4. TableOf(s, step, {}) = <<>>
    BY TableOfNone
  <1> HIDE DEF W
  <1>5. P(T)
    <2>1. ASSUME NEW I \in SUBSET W
          PROVE  T[I] = IF I = {} THEN <<>>
                        ELSE Put(T[I \ {Max(I)}], s[Max(I)], step)
      <3>1. CASE I = {}
        BY <1>4, <3>1
      <3>2. CASE I # {}
        <4>1. I \ {Max(I)} \in SUBSET W
          OBVIOUS
        <4>2. T[I \ {Max(I)}] = TableOf(s, step, I \ {Max(I)})
          BY <4>1
        <4> QED
          BY <1>3, <3>2, <4>2
      <3> QED
        BY <3>1, <3>2
    <2>2. T = [I \in SUBSET W |-> T[I]]
      OBVIOUS
    <2> HIDE DEF T
    <2> QED
      BY <2>1, <2>2
  <1>6. ASSUME NEW g, P(g) PROVE g[W] = TableOf(s, step, W)
    <2> DEFINE D == {I \in SUBSET W : g[I] # TableOf(s, step, I)}
    <2>0. \A I \in SUBSET W :
            /\ I = {} => g[I] = <<>>
            /\ I # {} => g[I] = Put(g[I \ {Max(I)}], s[Max(I)], step)
      BY <1>6
    <2>1. ASSUME D # {} PROVE FALSE
      <3>1. PICK I \in D : \A J \in D : J \subseteq I => J = I
        <4>1. D \in SUBSET (SUBSET W)
          OBVIOUS
        <4> HIDE DEF D
        <4> QED
          BY <1>2, <2>1, <4>1, LeastSubset
      <3>2. I \in SUBSET W /\ I # {}
        BY <1>4, <2>0, <3>1
      <3>3. Max(I) \in I
        BY <1>3, <3>2
      <3> DEFINE J == I \ {Max(I)}
      <3>4. J \in SUBSET W /\ J # I /\ J \subseteq I
        BY <3>2, <3>3
      <3>5. g[J] = TableOf(s, step, J)
        BY <3>1, <3>4
      <3>6. g[I] = Put(g[J], s[Max(I)], step)
        BY <2>0, <3>2
      <3>7. TableOf(s, step, I) = Put(TableOf(s, step, J), s[Max(I)], step)
        BY <1>3, <3>2
      <3> QED
        BY <3>1, <3>5, <3>6, <3>7
    <2> QED
      BY <2>1
  <1>7. P(CHOOSE g : P(g))
    <2> HIDE DEF T
    <2> QED
      BY <1>5
  <1> HIDE DEF P
  <1>8. (CHOOSE g : P(g))[W] = TableOf(s, step, W)
    BY <1>6, <1>7
  <1> QED
    BY <1>8 DEF P, W

\* X lists bars in the strict order of their labels.
Listed(X) ==
    /\ Len(X) \in Nat /\ DOMAIN X = 1..Len(X)
    /\ \A i, j \in DOMAIN X : /\ X[i].ts \in Int
                              /\ i < j => X[i].ts < X[j].ts
LabelsOf(X) == {X[i].ts : i \in DOMAIN X}

\* In an ascending list a label's place is the number of labels up to it.
LEMMA PlaceIsIndex ==
    ASSUME NEW X, Listed(X)
    PROVE  /\ Cardinality(LabelsOf(X)) = Len(X)
           /\ \A i \in DOMAIN X :
                Cardinality({q \in LabelsOf(X) : q <= X[i].ts}) = i
  <1> DEFINE L == Len(X)
             K == LabelsOf(X)
             f == [j \in 1..L |-> X[j].ts]
  <1>1. /\ L \in Nat /\ DOMAIN X = 1..L
        /\ \A i, j \in 1..L : f[i] \in Int /\ (i < j => f[i] < f[j])
    BY DEF Listed
  <1>2. K = {f[j] : j \in 1..L}
    BY <1>1 DEF LabelsOf
  <1>3. \A i \in 1..L : f[i] = X[i].ts
    OBVIOUS
  <1> HIDE DEF f, L, K
  <1>4. ASSUME NEW m \in 0..L, NEW S, S = {f[j] : j \in 1..m}
        PROVE  Cardinality(S) = m
    <2> DEFINE g == [j \in 1..m |-> f[j]]
    <2>1. m \in Nat /\ \A j \in 1..m : j \in 1..L /\ j \in Int
      BY <1>1
    <2>2. g \in [1..m -> S]
      BY <1>4
    <2>3. \A i, j \in 1..m : g[i] = g[j] => i = j
      <3> SUFFICES ASSUME NEW i \in 1..m, NEW j \in 1..m, i # j
                   PROVE  f[i] # f[j]
        OBVIOUS
      <3>1. i \in Int /\ j \in Int /\ i \in 1..L /\ j \in 1..L
        BY <2>1
      <3>2. f[i] \in Int /\ f[j] \in Int
        BY <1>1, <3>1
      <3>3. CASE i < j
        BY <1>1, <3>1, <3>2, <3>3
      <3>4. CASE j < i
        BY <1>1, <3>1, <3>2, <3>4
      <3> QED
        BY <3>1, <3>3, <3>4
    <2>4. \A t \in S : \E j \in 1..m : g[j] = t
      BY <1>4
    <2>5. g \in Bijection(1..m, S)
      <3> HIDE DEF g
      <3> QED
        BY <2>2, <2>3, <2>4 DEF Bijection, Injection, Surjection, IsInjective
    <2>6. ExistsBijection(1..m, S)
      BY <2>5 DEF ExistsBijection
    <2> QED
      BY <2>1, <2>6, FS_CountingElements
  <1>5. Cardinality(K) = L
    <2>1. L \in 0..L
      BY <1>1
    <2> QED
      BY <1>2, <1>4, <2>1
  <1>6. ASSUME NEW i \in 1..L PROVE Cardinality({q \in K : q <= f[i]}) = i
    <2>1. i \in 0..L /\ \A j \in 1..i : j \in 1..L
      BY <1>1
    <2>2. \A j \in 1..L : f[j] <= f[i] <=> j <= i
      <3> SUFFICES ASSUME NEW j \in 1..L PROVE f[j] <= f[i] <=> j <= i
        OBVIOUS
      <3>1. i \in Int /\ j \in Int /\ f[i] \in Int /\ f[j] \in Int
        BY <1>1
      <3>2. (i < j => f[i] < f[j]) /\ (j < i => f[j] < f[i])
        BY <1>1
      <3> QED
        BY <3>1, <3>2
    <2>3. {q \in K : q <= f[i]} = {f[j] : j \in 1..i}
      <3>1. ASSUME NEW q \in K, q <= f[i] PROVE \E j \in 1..i : q = f[j]
        <4>1. PICK j \in 1..L : q = f[j]
          BY <1>2
        <4>2. j <= i
          BY <2>2, <3>1, <4>1
        <4>3. j \in 1..i
          BY <1>1, <4>2
        <4> QED
          BY <4>1, <4>3
      <3>2. ASSUME NEW j \in 1..i PROVE f[j] \in K /\ f[j] <= f[i]
        <4>1. j \in 1..L
          BY <2>1
        <4>2. j <= i
          BY <1>1
        <4> QED
          BY <1>2, <2>2, <4>1, <4>2
      <3> QED
        BY <3>1, <3>2
    <2> QED
      BY <1>4, <2>1, <2>3
  <1> QED
    BY <1>1, <1>3, <1>5, <1>6 DEF K, L

\* A list of the bars of all buckets is what resample makes.
LEMMA ResampleIs ==
    ASSUME NEW s, NEW n, IsFile(s, n), NEW step, NEW X, Listed(X),
           X = [i \in 1..Len(X) |-> X[i]],
           LabelsOf(X) = BucketsOf(s, step, DOMAIN s),
           \A i \in DOMAIN X :
             X[i] = OhlcOf(s, X[i].ts, LinesOf(s, step, DOMAIN s, X[i].ts))
    PROVE  Resample(s, step) = X
  <1> DEFINE K == LabelsOf(X)
             T == TableOf(s, step, DOMAIN s)
             Place(k) == Cardinality({q \in K : q <= k})
             Key(i) == CHOOSE k \in K : Place(k) = i
  <1>1. DOMAIN T = K
    BY DEF TableOf
  <1>2. Resample(s, step) =
          [i \in 1..Cardinality(DOMAIN T) |->
             T[CHOOSE k \in DOMAIN T : Cardinality({q \in DOMAIN T : q <= k}) = i]]
    <2> DEFINE M == (CHOOSE g : g = [I \in SUBSET DOMAIN s |->
                              IF I = {} THEN <<>>
                              ELSE Put(g[I \ {Max(I)}], s[Max(I)], step)])[DOMAIN s]
    <2> HIDE DEF T
    <2>1. Resample(s, step) =
            [i \in 1..Cardinality(DOMAIN M) |->
               M[CHOOSE k \in DOMAIN M : Cardinality({q \in DOMAIN M : q <= k}) = i]]
      BY DEF Resample, MapThenFoldSet
    <2>2. M = T
      BY TableIsFilled DEF T
    <2> HIDE DEF M
    <2> QED
      BY <2>1, <2>2
  <1>3. Resample(s, step) = [i \in 1..Cardinality(K) |-> T[Key(i)]]
    <2> HIDE DEF T, K
    <2> QED
      BY <1>1, <1>2
  <1>4. Cardinality(K) = Len(X) /\ \A i \in 1..Len(X) : Place(X[i].ts) = i
    BY PlaceIsIndex DEF Listed
  <1>5. ASSUME NEW i \in 1..Len(X) PROVE T[Key(i)] = X[i]
    <2>1. X[i].ts \in K /\ Place(X[i].ts) = i
      BY <1>4 DEF LabelsOf, Listed
    <2>2. Key(i) \in K /\ Place(Key(i)) = i
      <3> HIDE DEF Place, K
      <3> QED
        BY <2>1
    <2>3. PICK j \in 1..Len(X) : Key(i) = X[j].ts
      BY <2>2 DEF LabelsOf, Listed
    <2>4. j = i
      <3> HIDE DEF Key, K, Place
      <3> QED
        BY <1>4, <2>2, <2>3
    <2>5. T[X[i].ts] = OhlcOf(s, X[i].ts, LinesOf(s, step, DOMAIN s, X[i].ts))
      BY <2>1 DEF TableOf
    <2>6. i \in DOMAIN X
      BY DEF Listed
    <2> HIDE DEF T, Key
    <2> QED
      BY <2>3, <2>4, <2>5, <2>6
  <1> HIDE DEF K, T, Key
  <1>6. [i \in 1..Cardinality(K) |-> T[Key(i)]] = [i \in 1..Len(X) |-> X[i]]
    BY <1>4, <1>5
  <1> QED
    BY <1>3, <1>6

RowType == [ts : Nat, o : Nat, h : Nat, l : Nat, c : Nat, v : Nat]

LEMMA OhlcType ==
    ASSUME NEW s, NEW n, IsFile(s, n), NEW I \in SUBSET DOMAIN s, I # {},
           NEW k \in Nat
    PROVE  OhlcOf(s, k, I) \in RowType
  <1>1. /\ Min(I) \in I /\ Max(I) \in I /\ n \in Nat /\ I \in SUBSET (1..n)
        /\ \A i \in I : /\ Highs(s)[i] \in Int /\ Lows(s)[i] \in Int
                        /\ Volumes(s)[i] \in Nat
        /\ IsFiniteSet(I)
    BY PartOfFile
  <1>2. Max(Image(Highs(s), I)) \in Image(Highs(s), I)
    BY <1>1, ImageEnds
  <1>3. Min(Image(Lows(s), I)) \in Image(Lows(s), I)
    BY <1>1, ImageEnds
  <1>4. \A i \in I : Highs(s)[i] \in Nat /\ Lows(s)[i] \in Nat
    BY LinesAre
  <1>5. Max(Image(Highs(s), I)) \in Nat /\ Min(Image(Lows(s), I)) \in Nat
    BY <1>2, <1>3, <1>4 DEF Image
  <1>6. SumOver(Volumes(s), I) \in Nat
    BY <1>1, SumOverNat
  <1>7. s[Min(I)].o \in Nat /\ s[Max(I)].c \in Nat
    BY <1>1, LinesAre
  <1> QED
    BY <1>5, <1>6, <1>7 DEF OhlcOf, RowType

LEMMA SameLines ==
    ASSUME NEW s, NEW n, IsFile(s, n), NEW t, NEW m, IsFile(t, m),
           NEW I \in SUBSET DOMAIN s, I \subseteq DOMAIN t, I # {},
           \A i \in I : t[i] = s[i], NEW k
    PROVE  OhlcOf(t, k, I) = OhlcOf(s, k, I)
  <1>1. Min(I) \in I /\ Max(I) \in I /\ IsFiniteSet(I)
    BY PartOfFile
  <1>2. \A i \in I : /\ Highs(t)[i] = Highs(s)[i] /\ Lows(t)[i] = Lows(s)[i]
                     /\ Volumes(s)[i] \in Int /\ Volumes(s)[i] = Volumes(t)[i]
    <2> SUFFICES ASSUME NEW i \in I
                 PROVE  /\ Highs(t)[i] = Highs(s)[i] /\ Lows(t)[i] = Lows(s)[i]
                        /\ Volumes(s)[i] \in Int /\ Volumes(s)[i] = Volumes(t)[i]
      OBVIOUS
    <2>1. /\ Highs(s)[i] = s[i].h /\ Lows(s)[i] = s[i].l
          /\ Volumes(s)[i] = s[i].v /\ s[i].v \in Nat
      BY LinesAre
    <2>2. i \in DOMAIN t
      OBVIOUS
    <2>3. /\ Highs(t)[i] = t[i].h /\ Lows(t)[i] = t[i].l
          /\ Volumes(t)[i] = t[i].v
      BY <2>2, LinesAre
    <2> QED
      BY <2>1, <2>3
  <1>3. {Highs(t)[i] : i \in I} = {Highs(s)[i] : i \in I}
    BY <1>2
  <1>4. {Lows(t)[i] : i \in I} = {Lows(s)[i] : i \in I}
    BY <1>2
  <1>5. SumOver(Volumes(s), I) = SumOver(Volumes(t), I)
    BY <1>1, <1>2, SumOverSame
  <1>6. t[Min(I)] = s[Min(I)] /\ t[Max(I)] = s[Max(I)]
    BY <1>1
  <1> QED
    BY <1>3, <1>4, <1>5, <1>6 DEF OhlcOf, Image

-----------------------------------------------------------------------------
LateIn(s, i, step) ==
    \E j \in 1..(i - 1) : Bucket(s[j].ts, step) > Bucket(s[i].ts, step)
InTime(s, step) == {i \in DOMAIN s : ~LateIn(s, i, step)}

\* X has the bar of every bucket of s, in order.
Bars(s, step, X) ==
    /\ X \in Seq(RowType) /\ Listed(X)
    /\ LabelsOf(X) = BucketsOf(s, step, InTime(s, step))
    /\ \A i \in DOMAIN X :
         X[i] = OhlcOf(s, X[i].ts, LinesOf(s, step, InTime(s, step), X[i].ts))

IsList(s) == s \in Seq(BarType) /\ IsFile(s, Len(s)) /\ DOMAIN s = 1..Len(s)

\* t is s and one or more bars, all in bucket k.
Continues(s, t, step, k) ==
    /\ IsList(s) /\ IsList(t) /\ Len(s) < Len(t)
    /\ \A i \in 1..Len(s) : t[i] = s[i]
    /\ \A i \in (Len(s) + 1)..Len(t) : Bucket(t[i].ts, step) = k

LEMMA BucketInt ==
    ASSUME NEW x \in Nat, NEW step \in Nat \ {0}
    PROVE  Bucket(x, step) \in Nat
  BY DEF Bucket

LEMMA LateAsBefore ==
    ASSUME NEW s, NEW t, NEW step \in Nat \ {0}, NEW k, Continues(s, t, step, k)
    PROVE  /\ k \in Nat
           /\ \A i \in 1..Len(s) : LateIn(t, i, step) <=> LateIn(s, i, step)
           /\ \A i \in (Len(s) + 1)..Len(t) :
                LateIn(t, i, step) <=>
                  \E j \in 1..Len(s) : Bucket(s[j].ts, step) > k
           /\ \A i \in 1..Len(t) : Bucket(t[i].ts, step) \in Nat
           /\ \A i \in 1..Len(s) : Bucket(t[i].ts, step) = Bucket(s[i].ts, step)
  <1>1. /\ Len(s) \in Nat /\ Len(t) \in Nat /\ Len(s) < Len(t)
        /\ \A i \in 1..Len(s) : t[i] = s[i]
        /\ \A i \in (Len(s) + 1)..Len(t) : Bucket(t[i].ts, step) = k
        /\ DOMAIN t = 1..Len(t) /\ IsFile(t, Len(t))
    BY DEF Continues, IsList
  <1>2. \A i \in 1..Len(t) : Bucket(t[i].ts, step) \in Nat
    <2> SUFFICES ASSUME NEW i \in 1..Len(t) PROVE Bucket(t[i].ts, step) \in Nat
      OBVIOUS
    <2>1. i \in DOMAIN t
      BY <1>1
    <2>2. t[i].ts \in Nat
      BY <1>1, <2>1, LinesAre
    <2> QED
      BY <2>2, BucketInt
  <1>3. k \in Nat
    <2>1. Len(t) \in (Len(s) + 1)..Len(t) /\ Len(t) \in 1..Len(t)
      BY <1>1
    <2> QED
      BY <1>1, <1>2, <2>1
  <1>4. \A i \in 1..Len(s) : LateIn(t, i, step) <=> LateIn(s, i, step)
    <2> SUFFICES ASSUME NEW i \in 1..Len(s)
                 PROVE  LateIn(t, i, step) <=> LateIn(s, i, step)
      OBVIOUS
    <2>1. \A j \in 1..(i - 1) : j \in 1..Len(s)
      BY <1>1
    <2> QED
      BY <1>1, <2>1 DEF LateIn
  <1>5. ASSUME NEW i \in (Len(s) + 1)..Len(t)
        PROVE  LateIn(t, i, step) <=>
                 \E j \in 1..Len(s) : Bucket(s[j].ts, step) > k
    <2>1. Bucket(t[i].ts, step) = k
      BY <1>1
    <2>2. ASSUME NEW j \in 1..Len(s) PROVE j \in 1..(i - 1) /\ t[j] = s[j]
      BY <1>1
    <2>3. ASSUME NEW j \in 1..(i - 1), Bucket(t[j].ts, step) > k
          PROVE  j \in 1..Len(s) /\ t[j] = s[j]
      <3>1. j \in 1..Len(s) \/ j \in (Len(s) + 1)..Len(t)
        BY <1>1
      <3>2. j \notin (Len(s) + 1)..Len(t)
        BY <1>1, <1>3, <2>3
      <3> QED
        BY <1>1, <3>1, <3>2
    <2> QED
      BY <2>1, <2>2, <2>3 DEF LateIn
  <1>6. \A i \in 1..Len(s) : Bucket(t[i].ts, step) = Bucket(s[i].ts, step)
    BY <1>1
  <1> QED
    BY <1>2, <1>3, <1>4, <1>5, <1>6

NewLines(s, t) == (Len(s) + 1)..Len(t)

\* The new ones, unless they are late.
Counted(s, t, step, k) ==
    IF \E j \in 1..Len(s) : Bucket(s[j].ts, step) > k THEN {} ELSE NewLines(s, t)

\* The lines of a bucket, with the new bars.
LEMMA LinesReach ==
    ASSUME NEW s, NEW t, NEW step \in Nat \ {0}, NEW k, Continues(s, t, step, k)
    PROVE  LET N == Counted(s, t, step, k)
           IN /\ InTime(t, step) = InTime(s, step) \cup N
              /\ InTime(s, step) \subseteq 1..Len(s)
              /\ \A q : LinesOf(t, step, InTime(t, step), q) =
                          LinesOf(s, step, InTime(s, step), q)
                            \cup IF q = k THEN N ELSE {}
              /\ BucketsOf(t, step, InTime(t, step)) =
                   BucketsOf(s, step, InTime(s, step))
                     \cup IF N = {} THEN {} ELSE {k}
  <1> DEFINE M == (Len(s) + 1)..Len(t)
             Past == \E j \in 1..Len(s) : Bucket(s[j].ts, step) > k
             N == IF Past THEN {} ELSE M
             G == InTime(s, step)
  <1>1. /\ Len(s) \in Nat /\ Len(t) \in Nat /\ Len(s) < Len(t)
        /\ \A i \in 1..Len(s) : t[i] = s[i]
        /\ \A i \in M : Bucket(t[i].ts, step) = k
        /\ DOMAIN t = 1..Len(t) /\ DOMAIN s = 1..Len(s)
    BY DEF Continues, IsList
  <1>2. /\ \A i \in 1..Len(s) : LateIn(t, i, step) <=> LateIn(s, i, step)
        /\ \A i \in M : LateIn(t, i, step) <=> Past
    BY LateAsBefore
  <1>3. 1..Len(t) = (1..Len(s)) \cup M
    BY <1>1
  <1>4. G \subseteq 1..Len(s)
    BY <1>1 DEF InTime
  <1>5. InTime(t, step) = G \cup N
    <2> HIDE DEF M, Past
    <2> QED
      BY <1>1, <1>2, <1>3 DEF InTime
  <1>6. N \subseteq M /\ \A i \in N : Bucket(t[i].ts, step) = k
    BY <1>1
  <1>7. \A i \in G : Bucket(t[i].ts, step) = Bucket(s[i].ts, step)
    BY <1>1, <1>4
  <1> HIDE DEF N, G
  <1>8. \A q : LinesOf(t, step, G \cup N, q) =
                 LinesOf(s, step, G, q) \cup IF q = k THEN N ELSE {}
    BY <1>6, <1>7 DEF LinesOf
  <1>9. BucketsOf(t, step, G \cup N) =
          BucketsOf(s, step, G) \cup IF N = {} THEN {} ELSE {k}
    BY <1>6, <1>7 DEF BucketsOf
  <1> QED
    <2>1. N = Counted(s, t, step, k)
      BY DEF N, Counted, NewLines
    <2> QED
      BY <1>4, <1>5, <1>8, <1>9, <2>1 DEF G

\* Y is X but for the bar of bucket k, which takes the bars that count.
Moved(s, t, step, k, X, Y) ==
    LET N == Counted(s, t, step, k)
    IN /\ Y \in Seq(RowType) /\ Listed(Y)
       /\ LabelsOf(Y) = LabelsOf(X) \cup (IF N = {} THEN {} ELSE {k})
       /\ \A i \in DOMAIN Y :
            /\ Y[i].ts # k \/ N = {} => \E j \in DOMAIN X : Y[i] = X[j]
            /\ Y[i].ts = k /\ N # {} =>
                 Y[i] = OhlcOf(t, k, LinesOf(s, step, InTime(s, step), k) \cup N)

LEMMA BarsMove ==
    ASSUME NEW s, NEW t, NEW step \in Nat \ {0}, NEW k, Continues(s, t, step, k),
           NEW X, Bars(s, step, X), NEW Y, Moved(s, t, step, k, X, Y)
    PROVE  Bars(t, step, Y)
  <1> DEFINE G == InTime(s, step)
             U == InTime(t, step)
             N == Counted(s, t, step, k)
  <1>0. /\ Y \in Seq(RowType) /\ Listed(Y)
        /\ LabelsOf(Y) = LabelsOf(X) \cup (IF N = {} THEN {} ELSE {k})
        /\ \A i \in DOMAIN Y :
             /\ Y[i].ts # k \/ N = {} => \E j \in DOMAIN X : Y[i] = X[j]
             /\ Y[i].ts = k /\ N # {} => Y[i] = OhlcOf(t, k, LinesOf(s, step, G, k) \cup N)
    BY DEF Moved
  <1>1. /\ G \subseteq 1..Len(s)
        /\ \A q : LinesOf(t, step, U, q) =
                    LinesOf(s, step, G, q) \cup IF q = k THEN N ELSE {}
        /\ BucketsOf(t, step, U) =
             BucketsOf(s, step, G) \cup IF N = {} THEN {} ELSE {k}
    BY LinesReach
  <1>2. /\ IsFile(s, Len(s)) /\ IsFile(t, Len(t)) /\ Len(s) \in Nat
        /\ Len(t) \in Nat /\ Len(s) < Len(t)
        /\ DOMAIN s = 1..Len(s) /\ DOMAIN t = 1..Len(t)
        /\ \A i \in 1..Len(s) : t[i] = s[i]
    BY DEF Continues, IsList
  <1> HIDE DEF G, U, N
  <1>3. LabelsOf(Y) = BucketsOf(t, step, U)
    BY <1>0, <1>1 DEF Bars, G
  <1>4. ASSUME NEW i \in DOMAIN Y
        PROVE  Y[i] = OhlcOf(t, Y[i].ts, LinesOf(t, step, U, Y[i].ts))
    <2>1. CASE Y[i].ts = k /\ N # {}
      <3>1. LinesOf(t, step, U, k) = LinesOf(s, step, G, k) \cup N
        BY <1>1
      <3> QED
        BY <1>0, <2>1, <3>1
    <2>2. CASE Y[i].ts # k \/ N = {}
      <3>1. PICK j \in DOMAIN X : Y[i] = X[j]
        BY <1>0, <2>2
      <3> DEFINE q == X[j].ts
                 I == LinesOf(s, step, G, q)
      <3>2. X[j] = OhlcOf(s, q, I) /\ q \in BucketsOf(s, step, G)
        <4>1. q \in LabelsOf(X)
          BY DEF LabelsOf
        <4> QED
          BY <4>1 DEF Bars, G
      <3>3. LinesOf(t, step, U, q) = I
        BY <1>1, <2>2, <3>1
      <3>4. I # {} /\ I \subseteq 1..Len(s)
        BY <1>1, <3>2 DEF BucketsOf, LinesOf
      <3>5. I \subseteq DOMAIN s /\ I \subseteq DOMAIN t /\ \A x \in I : t[x] = s[x]
        BY <1>2, <3>4
      <3> HIDE DEF I, q
      <3>6. OhlcOf(t, q, I) = OhlcOf(s, q, I)
        BY <1>2, <3>4, <3>5, SameLines
      <3> QED
        BY <3>1, <3>2, <3>3, <3>6 DEF q
    <2> QED
      BY <2>1, <2>2
  <1> QED
    BY <1>0, <1>3, <1>4 DEF Bars, U

\* A list and one bar more.
LEMMA ListAppends ==
    ASSUME NEW C \in Seq(RowType), Listed(C), NEW b \in RowType,
           \A i \in DOMAIN C : C[i].ts < b.ts
    PROVE  /\ Append(C, b) \in Seq(RowType) /\ Listed(Append(C, b))
           /\ LabelsOf(Append(C, b)) = LabelsOf(C) \cup {b.ts}
           /\ Len(Append(C, b)) \in DOMAIN Append(C, b)
           /\ Append(C, b)[Len(Append(C, b))] = b
           /\ \A i \in DOMAIN Append(C, b) :
                \/ i \in DOMAIN C /\ Append(C, b)[i] = C[i]
                \/ i = Len(Append(C, b)) /\ Append(C, b)[i] = b
  <1> DEFINE A == Append(C, b)
             n == Len(C)
  <1>1. /\ A \in Seq(RowType) /\ n \in Nat /\ Len(A) = n + 1
        /\ DOMAIN A = 1..(n + 1) /\ DOMAIN C = 1..n /\ A[n + 1] = b
        /\ \A i \in 1..n : A[i] = C[i]
    OBVIOUS
  <1>2. b.ts \in Int /\ \A i \in 1..n : C[i].ts \in Int
    <2>1. b.ts \in Int
      BY DEF RowType
    <2>2. \A i \in 1..n : C[i].ts \in Int
      BY <1>1 DEF Listed
    <2> QED
      BY <2>1, <2>2
  <1>3. \A i, j \in 1..n : i < j => C[i].ts < C[j].ts
    BY <1>1 DEF Listed
  <1>4. \A i \in 1..n : C[i].ts < b.ts
    BY <1>1
  <1> HIDE DEF A, n
  <1>5. \A i \in 1..(n + 1) : i \in 1..n \/ i = n + 1
    BY <1>1
  <1>6. \A i, j \in 1..(n + 1) : /\ A[i].ts \in Int
                                 /\ i < j => A[i].ts < A[j].ts
    <2> SUFFICES ASSUME NEW i \in 1..(n + 1), NEW j \in 1..(n + 1)
                 PROVE  A[i].ts \in Int /\ (i < j => A[i].ts < A[j].ts)
      OBVIOUS
    <2>1. A[i].ts \in Int
      BY <1>1, <1>2, <1>5
    <2>2. ASSUME i < j PROVE A[i].ts < A[j].ts
      <3>1. i \in 1..n
        BY <1>1, <1>5, <2>2
      <3> QED
        BY <1>1, <1>3, <1>4, <1>5, <2>2, <3>1
    <2> QED
      BY <2>1, <2>2
  <1>7. Listed(A)
    BY <1>1, <1>6 DEF Listed
  <1>8. {A[i].ts : i \in 1..(n + 1)} = {C[i].ts : i \in 1..n} \cup {b.ts}
    BY <1>1, <1>5
  <1>9. LabelsOf(A) = LabelsOf(C) \cup {b.ts}
    BY <1>1, <1>8 DEF LabelsOf
  <1>10. n + 1 \in 1..(n + 1)
    BY <1>1
  <1> QED
    BY <1>1, <1>5, <1>7, <1>9, <1>10 DEF A

\* What a list of C and b says about both.
LEMMA ListSplits ==
    ASSUME NEW C \in Seq(RowType), NEW b \in RowType, Listed(Append(C, b))
    PROVE  /\ Listed(C) /\ \A i \in DOMAIN C : C[i].ts < b.ts
  <1> DEFINE A == Append(C, b)
             n == Len(C)
  <1>1. /\ n \in Nat /\ Len(A) = n + 1
        /\ DOMAIN A = 1..(n + 1) /\ DOMAIN C = 1..n /\ A[n + 1] = b
        /\ \A i \in 1..n : A[i] = C[i]
    OBVIOUS
  <1>2. \A i, j \in 1..(n + 1) : /\ A[i].ts \in Int
                                 /\ i < j => A[i].ts < A[j].ts
    BY <1>1 DEF Listed
  <1>3. \A i \in 1..n : i \in 1..(n + 1) /\ i < n + 1 /\ n + 1 \in 1..(n + 1)
    BY <1>1
  <1> HIDE DEF A, n
  <1>4. \A i, j \in 1..n : /\ C[i].ts \in Int
                           /\ i < j => C[i].ts < C[j].ts
    BY <1>1, <1>2, <1>3
  <1>5. \A i \in 1..n : C[i].ts < b.ts
    BY <1>1, <1>2, <1>3
  <1> QED
    BY <1>1, <1>4, <1>5 DEF Listed, n

\* The bars closed and the one in progress are those of the bars so far, and
\* nothing is beyond the one in progress.
AggHolds(s, step, b, C) ==
    /\ C \in Seq(RowType)
    /\ b = Agg!NoBar => s = <<>> /\ C = <<>>
    /\ b # Agg!NoBar =>
         /\ b \in RowType /\ Bars(s, step, Append(C, b))
         /\ \A i \in 1..Len(s) : Bucket(s[i].ts, step) =< b.ts

LEMMA NoBars ==
    ASSUME NEW step
    PROVE  /\ Bars(<<>>, step, <<>>) /\ Listed(<<>>) /\ LabelsOf(<<>>) = {}
           /\ DOMAIN <<>> = {}
  <1>1. DOMAIN <<>> = {} /\ Len(<<>>) = 0 /\ <<>> \in Seq(RowType) /\ 1..0 = {}
    OBVIOUS
  <1>2. Listed(<<>>) /\ LabelsOf(<<>>) = {}
    BY <1>1 DEF Listed, LabelsOf
  <1>3. InTime(<<>>, step) = {} /\ BucketsOf(<<>>, step, {}) = {}
    BY <1>1 DEF InTime, BucketsOf
  <1> QED
    BY <1>1, <1>2, <1>3 DEF Bars

\* Bars of a new bucket are a new bar.
LEMMA BarsGrow ==
    ASSUME NEW s, NEW t, NEW step \in Nat \ {0}, NEW k, Continues(s, t, step, k),
           NEW X, Bars(s, step, X),
           \A i \in 1..Len(s) : Bucket(s[i].ts, step) < k
    PROVE  /\ OhlcOf(t, k, NewLines(s, t)) \in RowType
           /\ Bars(t, step, Append(X, OhlcOf(t, k, NewLines(s, t))))
           /\ Listed(X) /\ X \in Seq(RowType)
  <1> DEFINE M == NewLines(s, t)
             r == OhlcOf(t, k, M)
             Y == Append(X, r)
             G == InTime(s, step)
  <1>1. /\ k \in Nat /\ IsFile(t, Len(t)) /\ Len(s) \in Nat /\ Len(t) \in Nat
        /\ Len(s) < Len(t) /\ DOMAIN t = 1..Len(t) /\ DOMAIN s = 1..Len(s)
        /\ \A i \in 1..Len(s) : Bucket(s[i].ts, step) \in Nat
    <2>1. /\ IsFile(t, Len(t)) /\ IsFile(s, Len(s))
          /\ Len(s) \in Nat /\ Len(t) \in Nat /\ Len(s) < Len(t)
          /\ DOMAIN t = 1..Len(t) /\ DOMAIN s = 1..Len(s)
          /\ \A i \in 1..Len(s) : t[i] = s[i]
      BY DEF Continues, IsList
    <2>2. /\ k \in Nat
          /\ \A i \in 1..Len(t) : Bucket(t[i].ts, step) \in Nat
          /\ \A i \in 1..Len(s) : Bucket(t[i].ts, step) = Bucket(s[i].ts, step)
      BY LateAsBefore
    <2>3. \A i \in 1..Len(s) : i \in 1..Len(t)
      BY <2>1
    <2> QED
      BY <2>1, <2>2, <2>3
  <1>2. M \in SUBSET DOMAIN t /\ M # {}
    <2>1. Len(t) \in M /\ M \subseteq 1..Len(t)
      BY <1>1 DEF NewLines
    <2> QED
      BY <1>1, <2>1
  <1>3. r \in RowType /\ r.ts = k
    BY <1>1, <1>2, OhlcType DEF OhlcOf
  <1>4. ~\E j \in 1..Len(s) : Bucket(s[j].ts, step) > k
    BY <1>1
  <1>5. \A i \in G : i \in 1..Len(s) /\ Bucket(s[i].ts, step) # k
    BY <1>1 DEF InTime
  <1>6. LinesOf(s, step, G, k) = {}
    BY <1>5 DEF LinesOf
  <1>7. \A i \in DOMAIN X : X[i].ts < k /\ X[i].ts # k
    <2> SUFFICES ASSUME NEW i \in DOMAIN X PROVE X[i].ts < k /\ X[i].ts # k
      OBVIOUS
    <2>1. X[i].ts \in BucketsOf(s, step, G)
      BY DEF Bars, LabelsOf
    <2>2. PICK j \in G : X[i].ts = Bucket(s[j].ts, step)
      BY <2>1 DEF BucketsOf
    <2>3. X[i].ts < k /\ X[i].ts \in Nat
      BY <1>1, <1>5, <2>2
    <2> QED
      BY <1>1, <2>3
  <1>8. X \in Seq(RowType) /\ Listed(X)
    BY DEF Bars
  <1> HIDE DEF M, r, Y
  <1>9. /\ Y \in Seq(RowType) /\ Listed(Y)
        /\ LabelsOf(Y) = LabelsOf(X) \cup {r.ts}
        /\ \A i \in DOMAIN Y : \/ i \in DOMAIN X /\ Y[i] = X[i]
                               \/ Y[i] = r
    BY <1>3, <1>7, <1>8, ListAppends DEF Y
  <1>10. LinesOf(s, step, InTime(s, step), k) \cup M = M
    BY <1>6
  <1>11. M = Counted(s, t, step, k)
    BY <1>4 DEF M, Counted
  <1>12. LabelsOf(Y) = LabelsOf(X) \cup (IF M = {} THEN {} ELSE {k})
    BY <1>2, <1>3, <1>9
  <1>13. ASSUME NEW i \in DOMAIN Y, Y[i].ts # k \/ M = {}
         PROVE  \E j \in DOMAIN X : Y[i] = X[j]
    BY <1>2, <1>3, <1>9, <1>13
  <1>14. ASSUME NEW i \in DOMAIN Y, Y[i].ts = k /\ M # {}
         PROVE  Y[i] = OhlcOf(t, k, LinesOf(s, step, InTime(s, step), k) \cup M)
    BY <1>7, <1>9, <1>10, <1>14 DEF r
  <1>15. Bars(t, step, Y)
    <2>1. \A i \in DOMAIN Y : Y[i].ts # k \/ M = {} => \E j \in DOMAIN X : Y[i] = X[j]
      BY <1>13
    <2>2. \A i \in DOMAIN Y : Y[i].ts = k /\ M # {} =>
            Y[i] = OhlcOf(t, k, LinesOf(s, step, InTime(s, step), k) \cup M)
      BY <1>14
    <2>3. Y \in Seq(RowType) /\ Listed(Y)
      BY <1>9
    <2>4. Moved(s, t, step, k, X, Y)
      BY <1>11, <1>12, <2>1, <2>2, <2>3 DEF Moved
    <2> QED
      BY <2>4, BarsMove
  <1> QED
    BY <1>3, <1>8, <1>15 DEF Y, r, M

\* Bars of the bucket in progress grow its bar.
LEMMA BarsMerge ==
    ASSUME NEW s, NEW t, NEW step \in Nat \ {0}, NEW k, Continues(s, t, step, k),
           NEW C \in Seq(RowType), NEW b \in RowType, Bars(s, step, Append(C, b)),
           b.ts = k, \A i \in 1..Len(s) : Bucket(s[i].ts, step) =< k,
           NEW r, r = OhlcOf(t, r.ts, NewLines(s, t))
    PROVE  Merge(b, r) \in RowType /\ Merge(b, r).ts = k
           /\ Bars(t, step, Append(C, Merge(b, r)))
  <1> DEFINE M == NewLines(s, t)
             m == Merge(b, r)
             X == Append(C, b)
             Y == Append(C, m)
             G == InTime(s, step)
             L == LinesOf(s, step, G, k)
  <1>1. /\ k \in Nat /\ IsFile(t, Len(t)) /\ IsFile(s, Len(s)) /\ Len(s) \in Nat
        /\ Len(t) \in Nat /\ Len(s) < Len(t)
        /\ DOMAIN t = 1..Len(t) /\ DOMAIN s = 1..Len(s)
        /\ \A i \in 1..Len(s) : t[i] = s[i]
        /\ \A i \in 1..Len(s) : Bucket(s[i].ts, step) \in Nat
    <2>1. /\ IsFile(t, Len(t)) /\ IsFile(s, Len(s))
          /\ Len(s) \in Nat /\ Len(t) \in Nat /\ Len(s) < Len(t)
          /\ DOMAIN t = 1..Len(t) /\ DOMAIN s = 1..Len(s)
          /\ \A i \in 1..Len(s) : t[i] = s[i]
      BY DEF Continues, IsList
    <2>2. /\ k \in Nat
          /\ \A i \in 1..Len(t) : Bucket(t[i].ts, step) \in Nat
          /\ \A i \in 1..Len(s) : Bucket(t[i].ts, step) = Bucket(s[i].ts, step)
      BY LateAsBefore
    <2>3. \A i \in 1..Len(s) : i \in 1..Len(t)
      BY <2>1
    <2> QED
      BY <2>1, <2>2, <2>3
  <1>2. M \in SUBSET DOMAIN t /\ M # {} /\ \A i \in 1..Len(s), j \in M : i < j
    <2>1. Len(t) \in M /\ M \subseteq 1..Len(t)
      BY <1>1 DEF NewLines
    <2>2. \A i \in 1..Len(s), j \in M : i < j
      BY <1>1 DEF NewLines
    <2> QED
      BY <1>1, <2>1, <2>2
  <1>3. /\ Listed(C) /\ \A i \in DOMAIN C : C[i].ts < k
    BY ListSplits DEF Bars
  <1>4. /\ LabelsOf(X) = LabelsOf(C) \cup {k} /\ Len(X) \in DOMAIN X
        /\ X[Len(X)] = b
        /\ \A i \in DOMAIN X : \/ i \in DOMAIN C /\ X[i] = C[i]
                               \/ i = Len(X) /\ X[i] = b
    BY <1>3, ListAppends
  <1>5. L # {} /\ L \subseteq 1..Len(s)
    <2>1. k \in BucketsOf(s, step, G)
      BY <1>4 DEF Bars
    <2>2. G \subseteq 1..Len(s)
      BY <1>1 DEF InTime
    <2> QED
      BY <2>1, <2>2 DEF BucketsOf, LinesOf
  <1>6. b = OhlcOf(s, k, L)
    <2>1. X[Len(X)] = OhlcOf(s, X[Len(X)].ts,
                             LinesOf(s, step, InTime(s, step), X[Len(X)].ts))
      BY <1>4 DEF Bars
    <2> HIDE DEF X
    <2> QED
      BY <1>4, <2>1
  <1>7. /\ L \in SUBSET DOMAIN s /\ L \subseteq DOMAIN t
        /\ \A i \in L : t[i] = s[i]
    BY <1>1, <1>5
  <1> HIDE DEF L, M, X, Y, G
  <1>8. b = OhlcOf(t, k, L)
    BY <1>1, <1>5, <1>6, <1>7, SameLines
  <1>9. /\ r.h = OhlcOf(t, k, M).h /\ r.l = OhlcOf(t, k, M).l
        /\ r.c = OhlcOf(t, k, M).c /\ r.v = OhlcOf(t, k, M).v
    <2>1. r = OhlcOf(t, r.ts, M)
      BY DEF M
    <2> QED
      BY <2>1 DEF OhlcOf
  <1>10. OhlcOf(t, k, L \cup M) = m
    <2>1. \A i \in L, j \in M : i < j
      BY <1>2, <1>5
    <2>2. L \in SUBSET DOMAIN t /\ L # {}
      BY <1>5, <1>7
    <2>3. M \in SUBSET DOMAIN t /\ M # {}
      BY <1>2
    <2>4. IsFile(t, Len(t))
      BY <1>1
    <2>5. OhlcOf(t, k, L \cup M) = Merge(OhlcOf(t, k, L), r)
      BY <1>9, <2>1, <2>2, <2>3, <2>4, LinesMerge
    <2> QED
      BY <1>8, <2>5
  <1>11. m \in RowType /\ m.ts = k
    <2>1. L \cup M \in SUBSET DOMAIN t /\ L \cup M # {}
      BY <1>2, <1>5, <1>7
    <2>2. OhlcOf(t, k, L \cup M) \in RowType
      BY <1>1, <2>1, OhlcType
    <2>3. OhlcOf(t, k, L \cup M).ts = k
      BY DEF OhlcOf
    <2> QED
      BY <1>10, <2>2, <2>3
  <1> HIDE DEF m
  <1>12. /\ Y \in Seq(RowType) /\ Listed(Y)
         /\ LabelsOf(Y) = LabelsOf(C) \cup {k}
         /\ \A i \in DOMAIN Y : \/ i \in DOMAIN C /\ Y[i] = C[i]
                                \/ Y[i] = m
    BY <1>3, <1>11, ListAppends DEF Y
  <1>13. \A i \in DOMAIN C : i \in DOMAIN X /\ X[i] = C[i]
    BY DEF X
  <1>14. M = Counted(s, t, step, k)
    <2>1. ~\E j \in 1..Len(s) : Bucket(s[j].ts, step) > k
      BY <1>1
    <2> QED
      BY <2>1 DEF M, Counted
  <1>15. LabelsOf(Y) = LabelsOf(X) \cup (IF M = {} THEN {} ELSE {k})
    BY <1>2, <1>4, <1>12
  <1>16. ASSUME NEW i \in DOMAIN Y, Y[i].ts # k \/ M = {}
         PROVE  \E j \in DOMAIN X : Y[i] = X[j]
    BY <1>2, <1>11, <1>12, <1>13, <1>16
  <1>17. ASSUME NEW i \in DOMAIN Y, Y[i].ts = k /\ M # {}
         PROVE  Y[i] = OhlcOf(t, k, LinesOf(s, step, InTime(s, step), k) \cup M)
    <2>1. Y[i] = m
      <3>1. CASE i \in DOMAIN C /\ Y[i] = C[i]
        <4>1. C[i].ts < k
          BY <1>3, <3>1
        <4> QED
          BY <1>1, <1>17, <3>1, <4>1
      <3> QED
        BY <1>12, <3>1
    <2> QED
      BY <1>10, <2>1 DEF L, G
  <1>18. Bars(s, step, X)
    BY DEF X
  <1>19. Bars(t, step, Y)
    <2>1. \A i \in DOMAIN Y : Y[i].ts # k \/ M = {} => \E j \in DOMAIN X : Y[i] = X[j]
      BY <1>16
    <2>2. \A i \in DOMAIN Y : Y[i].ts = k /\ M # {} =>
            Y[i] = OhlcOf(t, k, LinesOf(s, step, InTime(s, step), k) \cup M)
      BY <1>17
    <2>3. Y \in Seq(RowType) /\ Listed(Y)
      BY <1>12
    <2>4. Moved(s, t, step, k, X, Y)
      BY <1>14, <1>15, <2>1, <2>2, <2>3 DEF Moved
    <2> QED
      BY <1>18, <2>4, BarsMove
  <1> QED
    BY <1>11, <1>19 DEF Y, m

\* Bars of an earlier bucket are late.
LEMMA BarsStay ==
    ASSUME NEW s, NEW t, NEW step \in Nat \ {0}, NEW k, Continues(s, t, step, k),
           NEW X, Bars(s, step, X),
           \E i \in 1..Len(s) : Bucket(s[i].ts, step) > k
    PROVE  Bars(t, step, X)
  <1>1. X \in Seq(RowType) /\ Listed(X) /\ Counted(s, t, step, k) = {}
    BY DEF Bars, Counted
  <1>2. \A i \in DOMAIN X : \E j \in DOMAIN X : X[i] = X[j]
    OBVIOUS
  <1>3. LabelsOf(X) = LabelsOf(X) \cup {}
    OBVIOUS
  <1> QED
    BY <1>1, <1>2, <1>3, BarsMove DEF Moved

LEMMA SameOperators ==
    /\ \A x, step : Agg!Bucket(x, step) = Bucket(x, step)
    /\ \A b, r : Agg!Merge(b, r) = Merge(b, r)
  <1>1. \A x, step : Agg!Bucket(x, step) = Bucket(x, step)
    BY DEF Agg!Bucket, Bucket
  <1>2. \A b, r : Agg!Merge(b, r) = Merge(b, r)
    BY DEF Agg!Merge, Merge, Agg!Greatest, Greatest, Agg!Least, Least
  <1> QED
    BY <1>1, <1>2

LEMMA StartIs ==
    ASSUME NEW t, NEW M, NEW r, r = OhlcOf(t, r.ts, M), NEW step
    PROVE  Agg!Start(r, step) = OhlcOf(t, Bucket(r.ts, step), M)
  <1> DEFINE k == Bucket(r.ts, step)
             x == r.ts
  <1>1. Agg!Start(r, step) = [r EXCEPT !.ts = k]
    BY SameOperators DEF Agg!Start
  <1> HIDE DEF k, x
  <1>2. r = OhlcOf(t, x, M)
    BY DEF x
  <1>3. [OhlcOf(t, x, M) EXCEPT !.ts = k] = OhlcOf(t, k, M)
    BY DEF OhlcOf
  <1> QED
    BY <1>1, <1>2, <1>3 DEF k

\* What a sub-bar of the new bars makes of the bar in progress.
LEMMA AggStep ==
    ASSUME NEW s, NEW t, NEW step \in Nat \ {0}, NEW r,
           Continues(s, t, step, Bucket(r.ts, step)),
           r = OhlcOf(t, r.ts, NewLines(s, t)),
           NEW b, NEW C, AggHolds(s, step, b, C)
    PROVE  AggHolds(t, step, Agg!Filled(b, r, step),
                    IF Agg!Flushes(b, Agg!Bucket(r.ts, step))
                    THEN Append(C, b) ELSE C)
  <1> DEFINE k == Bucket(r.ts, step)
             R == OhlcOf(t, k, NewLines(s, t))
             F == Agg!Filled(b, r, step)
             D == IF Agg!Flushes(b, Agg!Bucket(r.ts, step)) THEN Append(C, b) ELSE C
  <1>1. /\ k \in Nat /\ \A i \in 1..Len(s) : Bucket(s[i].ts, step) \in Nat
        /\ Len(s) \in Nat /\ Len(t) \in Nat /\ Len(s) < Len(t)
        /\ \A i \in 1..Len(s) : Bucket(t[i].ts, step) = Bucket(s[i].ts, step)
        /\ \A i \in (Len(s) + 1)..Len(t) : Bucket(t[i].ts, step) = k
    <2>1. /\ Len(s) \in Nat /\ Len(t) \in Nat /\ Len(s) < Len(t)
          /\ \A i \in (Len(s) + 1)..Len(t) : Bucket(t[i].ts, step) = k
      BY DEF Continues, IsList
    <2>2. /\ k \in Nat
          /\ \A i \in 1..Len(t) : Bucket(t[i].ts, step) \in Nat
          /\ \A i \in 1..Len(s) : Bucket(t[i].ts, step) = Bucket(s[i].ts, step)
      BY LateAsBefore
    <2>3. \A i \in 1..Len(s) : i \in 1..Len(t)
      BY <2>1
    <2> QED
      BY <2>1, <2>2, <2>3
  <1>2. C \in Seq(RowType)
    BY DEF AggHolds
  <1>3. Agg!Start(r, step) = R
    <2> HIDE DEF k, R, F, D
    <2>1. Agg!Start(r, step) = OhlcOf(t, Bucket(r.ts, step), NewLines(s, t))
      <3> DEFINE M == NewLines(s, t)
      <3>1. r = OhlcOf(t, r.ts, M)
        OBVIOUS
      <3> HIDE DEF M
      <3>2. Agg!Start(r, step) = OhlcOf(t, Bucket(r.ts, step), M)
        BY ONLY <3>1, StartIs
      <3> QED
        BY <3>2 DEF M
    <2> QED
      BY <2>1 DEF k, R
  <1>4. /\ F = IF b = Agg!NoBar \/ Agg!Flushes(b, k) THEN R
               ELSE IF k = b.ts THEN Merge(b, r) ELSE b
        /\ D = IF Agg!Flushes(b, k) THEN Append(C, b) ELSE C
        /\ Agg!Flushes(b, k) <=> b # Agg!NoBar /\ k > b.ts
    BY <1>3, SameOperators DEF Agg!Filled, Agg!Flushes
  <1>5. \A q \in RowType : q # Agg!NoBar /\ q.ts \in Nat
    <2>1. Agg!NoBar.ts = -1
      BY DEF Agg!NoBar
    <2>2. \A q \in RowType : q.ts \in Nat
      BY DEF RowType
    <2> QED
      BY <2>1, <2>2
  <1>6. \A q : q \in Nat /\ q >= k /\ (\A i \in 1..Len(s) : Bucket(s[i].ts, step) =< q) =>
               \A i \in 1..Len(t) : Bucket(t[i].ts, step) =< q
    <2> SUFFICES ASSUME NEW q \in Nat, q >= k, NEW i \in 1..Len(t),
                        \A j \in 1..Len(s) : Bucket(s[j].ts, step) =< q
                 PROVE  Bucket(t[i].ts, step) =< q
      OBVIOUS
    <2>1. i \in 1..Len(s) \/ i \in (Len(s) + 1)..Len(t)
      BY <1>1
    <2> QED
      BY <1>1, <2>1
  <1> HIDE DEF k, R, F, D
  <1>7. CASE b = Agg!NoBar
    <2>1. s = <<>> /\ C = <<>>
      BY <1>7 DEF AggHolds
    <2>2. F = R /\ D = C
      BY <1>4, <1>7
    <2>3. Bars(s, step, C) /\ 1..Len(s) = {}
      BY <2>1, NoBars
    <2>4. \A i \in 1..Len(s) : Bucket(s[i].ts, step) < k
      BY <2>3
    <2>5. R \in RowType /\ Bars(t, step, Append(C, R)) /\ R.ts = k
      BY <2>3, <2>4, BarsGrow DEF k, R, OhlcOf
    <2>6. \A i \in 1..Len(t) : Bucket(t[i].ts, step) =< R.ts
      BY <1>1, <1>6, <2>3, <2>5
    <2> QED
      BY <1>2, <1>5, <2>2, <2>5, <2>6 DEF AggHolds, F, D
  <1>8. ASSUME b # Agg!NoBar
        PROVE  /\ b \in RowType /\ Bars(s, step, Append(C, b)) /\ b.ts \in Nat
               /\ \A i \in 1..Len(s) : Bucket(s[i].ts, step) =< b.ts
    BY <1>5, <1>8 DEF AggHolds
  <1>9. CASE b # Agg!NoBar /\ k > b.ts
    <2>1. F = R /\ D = Append(C, b)
      BY <1>4, <1>9
    <2>2. \A i \in 1..Len(s) : Bucket(s[i].ts, step) < k
      BY <1>1, <1>8, <1>9
    <2>3. /\ R \in RowType /\ Bars(t, step, Append(D, R)) /\ R.ts = k
          /\ D \in Seq(RowType)
      <3>1. Bars(s, step, D)
        BY <1>8, <1>9, <2>1
      <3> QED
        BY <2>2, <3>1, BarsGrow DEF k, R, OhlcOf
    <2>4. \A i \in 1..Len(t) : Bucket(t[i].ts, step) =< R.ts
      <3>1. \A i \in 1..Len(s) : Bucket(s[i].ts, step) =< k
        BY <1>1, <2>2
      <3>2. k \in Nat /\ k >= k
        BY <1>1
      <3>3. \A i \in 1..Len(t) : Bucket(t[i].ts, step) =< k
        BY <1>6, <3>1, <3>2
      <3> QED
        BY <2>3, <3>3
    <2> QED
      BY <1>5, <2>1, <2>3, <2>4 DEF AggHolds, F, D
  <1>10. CASE b # Agg!NoBar /\ k = b.ts
    <2>1. F = Merge(b, r) /\ D = C
      BY <1>1, <1>4, <1>10
    <2>2. F \in RowType /\ F.ts = k /\ Bars(t, step, Append(C, F))
      BY <1>2, <1>8, <1>10, <2>1, BarsMerge DEF k
    <2>3. \A i \in 1..Len(t) : Bucket(t[i].ts, step) =< F.ts
      BY <1>1, <1>6, <1>8, <1>10, <2>2
    <2> QED
      BY <1>2, <1>5, <2>1, <2>2, <2>3 DEF AggHolds, F, D
  <1>11. CASE b # Agg!NoBar /\ k < b.ts
    <2>1. F = b /\ D = C
      BY <1>1, <1>4, <1>8, <1>11
    <2>2. \E i \in 1..Len(s) : Bucket(s[i].ts, step) > k
      <3> DEFINE X == Append(C, b)
      <3>1. Len(X) \in DOMAIN X /\ X[Len(X)] = b
        BY <1>2, <1>8, <1>11
      <3> HIDE DEF X
      <3>2. b.ts \in BucketsOf(s, step, InTime(s, step))
        BY <1>8, <1>11, <3>1 DEF Bars, LabelsOf, X
      <3>3. PICK i \in InTime(s, step) : b.ts = Bucket(s[i].ts, step)
        BY <3>2 DEF BucketsOf
      <3>4. i \in 1..Len(s)
        BY <3>3 DEF InTime, Continues, IsList
      <3> QED
        BY <1>11, <3>3, <3>4
    <2>3. Bars(t, step, Append(C, b))
      BY <1>8, <1>11, <2>2, BarsStay DEF k
    <2>4. \A i \in 1..Len(t) : Bucket(t[i].ts, step) =< b.ts
      BY <1>1, <1>6, <1>8, <1>11
    <2> QED
      BY <1>2, <1>8, <1>11, <2>1, <2>3, <2>4 DEF AggHolds, F, D
  <1>12. b = Agg!NoBar \/ (b # Agg!NoBar /\ (k > b.ts \/ k = b.ts \/ k < b.ts))
    BY <1>1, <1>8
  <1> QED
    BY <1>7, <1>9, <1>10, <1>11, <1>12

\* The two programs that aggregate.
Aggregating == {"aggregators", "live"}

\* Polls come as the clock runs.
LiveInv ==
    /\ ~ended /\ clock \in Nat
    /\ \A i \in DOMAIN seen : seen[i].ts =< clock \div Polls
    /\ \A i, j \in DOMAIN seen : i < j => seen[i].ts =< seen[j].ts

AggInv ==
    program \in Aggregating =>
      /\ IsList(seen)
      /\ \A st \in Steps :
           IF ended THEN bucket[st] = Agg!NoBar /\ Bars(seen, st, closed[st])
           ELSE AggHolds(seen, st, bucket[st], closed[st])
      /\ program = "live" => LiveInv

LEMMA AggConstants ==
    /\ Steps \subseteq Nat \ {0} /\ Polls \in Nat \ {0} /\ Lags \subseteq Nat
    /\ Quotes \subseteq Nat \ {0}
  BY FeedAssumption DEF FeedAssumption

LEMMA IsListOfBars ==
    ASSUME NEW s \in Seq(BarType)
    PROVE  IsList(s)
  <1>1. DOMAIN s = 1..Len(s) /\ Len(s) \in Nat /\ \A i \in DOMAIN s : s[i] \in BarType
    OBVIOUS
  <1> QED
    BY <1>1 DEF IsList, IsFile

\* Nothing is late when labels do not go back.
LEMMA NothingLate ==
    ASSUME IsList(seen), LiveInv, NEW st \in Steps, NEW i \in DOMAIN seen
    PROVE  ~LateIn(seen, i, st)
  <1> SUFFICES ASSUME NEW j \in 1..(i - 1)
               PROVE  ~(Bucket(seen[j].ts, st) > Bucket(seen[i].ts, st))
    BY DEF LateIn
  <1>1. /\ DOMAIN seen = 1..Len(seen) /\ Len(seen) \in Nat
        /\ IsFile(seen, Len(seen))
    BY DEF IsList
  <1>2. i \in 1..Len(seen) /\ j \in 1..Len(seen) /\ j < i
    BY <1>1
  <1> DEFINE x == seen[j].ts
             y == seen[i].ts
  <1>3. x \in Nat /\ y \in Nat
    BY <1>1, <1>2, LinesAre
  <1>4. x =< y
    BY <1>1, <1>2 DEF LiveInv
  <1>5. st \in Nat \ {0}
    BY AggConstants
  <1> HIDE DEF x, y
  <1>6. Bucket(x, st) =< Bucket(y, st)
    BY <1>3, <1>4, <1>5, QuotientGrows DEF Bucket
  <1>7. Bucket(x, st) \in Nat /\ Bucket(y, st) \in Nat
    BY <1>3, <1>5, BucketInt
  <1> QED
    BY <1>6, <1>7 DEF x, y

\* A sub-bar of the bars that are new, given to every aggregator.
LEMMA FeedStep ==
    ASSUME IsList(seen), IsList(seen'), Len(seen) < Len(seen'),
           \A i \in 1..Len(seen) : seen'[i] = seen[i], NEW r,
           \A i \in NewLines(seen, seen') : seen'[i].ts = r.ts,
           r = OhlcOf(seen', r.ts, NewLines(seen, seen')), Agg!FeedSubBar(r),
           \A st \in Steps : AggHolds(seen, st, bucket[st], closed[st])
    PROVE  \A st \in Steps : AggHolds(seen', st, bucket'[st], closed'[st])
  <1> SUFFICES ASSUME NEW st \in Steps
               PROVE  AggHolds(seen', st, bucket'[st], closed'[st])
    OBVIOUS
  <1>1. /\ bucket'[st] = Agg!Filled(bucket[st], r, st)
        /\ closed'[st] = IF Agg!Flushes(bucket[st], Agg!Bucket(r.ts, st))
                         THEN Append(closed[st], bucket[st]) ELSE closed[st]
    BY DEF Agg!FeedSubBar
  <1>2. st \in Nat \ {0}
    BY AggConstants
  <1>3. Continues(seen, seen', st, Bucket(r.ts, st))
    BY DEF Continues, NewLines
  <1>4. AggHolds(seen, st, bucket[st], closed[st])
    OBVIOUS
  <1> QED
    BY <1>1, <1>2, <1>3, <1>4, AggStep

LEMMA BarIsItsOhlc ==
    ASSUME NEW s, NEW n, IsFile(s, n), NEW i \in DOMAIN s
    PROVE  s[i] = OhlcOf(s, s[i].ts, {i})
  <1>1. OhlcOf(s, s[i].ts, {i}) = [s[i] EXCEPT !.ts = s[i].ts]
    BY OneLine
  <1>2. s[i] \in BarType
    BY DEF IsFile
  <1> QED
    BY <1>1, <1>2 DEF BarType

LEMMA SubBarStep ==
    ASSUME program \in Programs, AggInv, Sub_Bar
    PROVE  AggInv'
  <1>1. PICK ts \in 0..Horizon[program], q \in Shapes[program] :
          /\ Arrives(Bar(ts, q)) /\ Agg!FeedSubBar(Bar(ts, q))
    BY DEF Sub_Bar
  <1> DEFINE b == Bar(ts, q)
             n == Len(seen)
  <1>2. b \in BarType
    BY BarOfShape
  <1>3. /\ program = "aggregators" /\ program' = "aggregators" /\ ~ended /\ ~ended'
        /\ seen' = Append(seen, b) /\ Agg!FeedSubBar(b)
    BY <1>1 DEF Sub_Bar, Arrives
  <1> HIDE DEF b
  <1>4. IsList(seen) /\ \A st \in Steps : AggHolds(seen, st, bucket[st], closed[st])
    BY <1>3 DEF AggInv, Aggregating
  <1>5. /\ seen' \in Seq(BarType) /\ n \in Nat /\ Len(seen') = n + 1
        /\ seen'[n + 1] = b /\ \A i \in 1..n : seen'[i] = seen[i]
    BY <1>2, <1>3, <1>4 DEF IsList
  <1>6. IsList(seen')
    BY <1>5, IsListOfBars
  <1> HIDE DEF n
  <1>7. NewLines(seen, seen') = {n + 1} /\ n + 1 \in DOMAIN seen'
    BY <1>5 DEF NewLines, n
  <1>8. /\ b = OhlcOf(seen', b.ts, NewLines(seen, seen'))
        /\ \A i \in NewLines(seen, seen') : seen'[i].ts = b.ts
    <2>1. seen'[n + 1] = OhlcOf(seen', seen'[n + 1].ts, {n + 1})
      BY <1>6, <1>7, BarIsItsOhlc DEF IsList
    <2> QED
      BY <1>5, <1>7, <2>1
  <1>9. \A st \in Steps : AggHolds(seen', st, bucket'[st], closed'[st])
    <2>1. Len(seen) < Len(seen') /\ \A i \in 1..Len(seen) : seen'[i] = seen[i]
      BY <1>5 DEF n
    <2> QED
      BY <1>3, <1>4, <1>6, <1>8, <2>1, FeedStep
  <1> QED
    BY <1>3, <1>6, <1>9 DEF AggInv

LEMMA EndStep ==
    ASSUME AggInv, End
    PROVE  AggInv'
  <1>1. /\ program = "aggregators" /\ program' = "aggregators" /\ ~ended /\ ended'
        /\ seen' = seen /\ Agg!CloseFinal
    BY DEF End
  <1>2. IsList(seen) /\ \A st \in Steps : AggHolds(seen, st, bucket[st], closed[st])
    BY <1>1 DEF AggInv, Aggregating
  <1>3. ASSUME NEW st \in Steps
        PROVE  bucket'[st] = Agg!NoBar /\ Bars(seen', st, closed'[st])
    <2>1. /\ bucket'[st] = Agg!NoBar
          /\ closed'[st] = IF bucket[st] = Agg!NoBar THEN closed[st]
                           ELSE Append(closed[st], bucket[st])
      BY <1>1 DEF Agg!CloseFinal
    <2>2. AggHolds(seen, st, bucket[st], closed[st])
      BY <1>2
    <2>3. CASE bucket[st] = Agg!NoBar
      <3>1. seen = <<>> /\ closed[st] = <<>>
        BY <2>2, <2>3 DEF AggHolds
      <3> QED
        BY <1>1, <2>1, <2>3, <3>1, NoBars
    <2>4. CASE bucket[st] # Agg!NoBar
      BY <1>1, <2>1, <2>2, <2>4 DEF AggHolds
    <2> QED
      BY <2>1, <2>3, <2>4
  <1>4. IsList(seen')
    BY <1>1, <1>2
  <1> QED
    BY <1>1, <1>3, <1>4 DEF AggInv

LEMMA QuoteIs ==
    ASSUME NEW label \in Nat, NEW x \in Nat
    PROVE  /\ Quote(label, x) \in BarType
           /\ Quote(label, x).ts = label /\ Quote(label, x).o = x
           /\ Quote(label, x).h = x /\ Quote(label, x).l = x
           /\ Quote(label, x).c = x /\ Quote(label, x).v = 0
  <1>1. Quote(label, x) = [ts |-> label, o |-> x, h |-> x, l |-> x, c |-> x, v |-> 0]
    BY DEF Quote, Bar
  <1> QED
    BY <1>1 DEF BarType

\* The last n bars of t are the quotes.
EndsWith(t, p, n, label, quotes) ==
    /\ Len(t) = p + n
    /\ \A i \in 1..n : t[p + i] = Quote(label, quotes[i])

\* The sub-bar of a turn is the bar of its quotes.
LEMMA PolledIs ==
    ASSUME NEW t, IsList(t), NEW p \in Nat, NEW n \in Nat \ {0},
           NEW label \in Nat, NEW quotes \in [1..n -> Nat],
           EndsWith(t, p, n, label, quotes)
    PROVE  PollOneMinute(label, quotes) = OhlcOf(t, label, (p + 1)..(p + n))
  <1> DEFINE M == (p + 1)..(p + n)
             found == {quotes[i] : i \in DOMAIN quotes}
  <1>0. Len(t) = p + n /\ \A i \in 1..n : t[p + i] = Quote(label, quotes[i])
    BY DEF EndsWith
  <1>1. /\ IsFile(t, Len(t)) /\ DOMAIN t = 1..(p + n)
    BY <1>0 DEF IsList
  <1>2. M \in SUBSET DOMAIN t /\ p + 1 \in M /\ p + n \in M /\ M # {}
    <2>1. p + 1 \in M /\ p + n \in M
      OBVIOUS
    <2>2. M \subseteq 1..(p + n)
      OBVIOUS
    <2> QED
      BY <1>1, <2>1, <2>2
  <1>3. \A i \in 1..n : /\ t[p + i].o = quotes[i] /\ t[p + i].h = quotes[i]
                        /\ t[p + i].l = quotes[i] /\ t[p + i].c = quotes[i]
                        /\ t[p + i].v = 0
    <2> SUFFICES ASSUME NEW i \in 1..n
                 PROVE  /\ t[p + i].o = quotes[i] /\ t[p + i].h = quotes[i]
                        /\ t[p + i].l = quotes[i] /\ t[p + i].c = quotes[i]
                        /\ t[p + i].v = 0
      OBVIOUS
    <2>1. t[p + i] = Quote(label, quotes[i]) /\ quotes[i] \in Nat
      BY <1>0
    <2> QED
      BY <2>1, QuoteIs
  <1>4. Min(M) = p + 1 /\ Max(M) = p + n
    <2>1. /\ Min(M) \in M /\ Max(M) \in M
          /\ \A i \in M : Min(M) =< i /\ Max(M) >= i
      <3> HIDE DEF M
      <3> QED
        BY <1>1, <1>2, PartOfFile
    <2> DEFINE a == Min(M)
               z == Max(M)
    <2> HIDE DEF a, z
    <2>2. a \in M /\ z \in M /\ a =< p + 1 /\ z >= p + n
      BY <1>2, <2>1 DEF a, z
    <2>3. a = p + 1 /\ z = p + n
      BY <2>2
    <2> QED
      BY <2>3 DEF a, z
  <1>5. /\ \A i \in M : i - p \in 1..n /\ i = p + (i - p)
        /\ \A i \in 1..n : p + i \in M
    OBVIOUS
  <1>6. \A i \in M : /\ Highs(t)[i] = quotes[i - p] /\ Lows(t)[i] = quotes[i - p]
                     /\ Volumes(t)[i] = 0
    <2> SUFFICES ASSUME NEW i \in M
                 PROVE  /\ Highs(t)[i] = quotes[i - p] /\ Lows(t)[i] = quotes[i - p]
                        /\ Volumes(t)[i] = 0
      OBVIOUS
    <2>1. i \in DOMAIN t
      BY <1>2
    <2>2. Highs(t)[i] = t[i].h /\ Lows(t)[i] = t[i].l /\ Volumes(t)[i] = t[i].v
      BY <2>1 DEF Highs, Lows, Volumes
    <2>3. i - p \in 1..n /\ i = p + (i - p)
      BY <1>5
    <2>4. t[i].h = quotes[i - p] /\ t[i].l = quotes[i - p] /\ t[i].v = 0
      BY <1>3, <2>3
    <2> QED
      BY <2>2, <2>4
  <1> HIDE DEF M
  <1>7. Image(Highs(t), M) = found /\ Image(Lows(t), M) = found
    <2>1. \A i \in 1..n : p + i \in M /\ (p + i) - p = i
      BY <1>5
    <2>2. {Highs(t)[i] : i \in M} = found
      <3>1. ASSUME NEW i \in M PROVE Highs(t)[i] \in found
        BY <1>5, <1>6
      <3>2. ASSUME NEW i \in 1..n PROVE quotes[i] \in {Highs(t)[j] : j \in M}
        <4>1. p + i \in M /\ (p + i) - p = i
          BY <2>1
        <4>2. Highs(t)[p + i] = quotes[i]
          BY <1>6, <4>1
        <4> QED
          BY <4>1, <4>2
      <3> QED
        BY <3>1, <3>2
    <2>3. {Lows(t)[i] : i \in M} = found
      <3>1. ASSUME NEW i \in M PROVE Lows(t)[i] \in found
        BY <1>5, <1>6
      <3>2. ASSUME NEW i \in 1..n PROVE quotes[i] \in {Lows(t)[j] : j \in M}
        <4>1. p + i \in M /\ (p + i) - p = i
          BY <2>1
        <4>2. Lows(t)[p + i] = quotes[i]
          BY <1>6, <4>1
        <4> QED
          BY <4>1, <4>2
      <3> QED
        BY <3>1, <3>2
    <2> QED
      BY <2>2, <2>3 DEF Image
  <1>8. SumOver(Volumes(t), M) = 0
    BY <1>1, <1>2, <1>6, PartOfFile, SumOverZero
  <1>9. t[Min(M)].o = quotes[1] /\ t[Max(M)].c = quotes[n]
    BY <1>3, <1>4
  <1>10. Len(quotes) = n
    OBVIOUS
  <1>11. PollOneMinute(label, quotes) =
           [ts |-> label, o |-> quotes[1], h |-> Max(found), l |-> Min(found),
            c |-> quotes[n], v |-> 0]
    BY <1>10 DEF PollOneMinute, Bar
  <1> QED
    BY <1>7, <1>8, <1>9, <1>11 DEF OhlcOf, M

LEMMA PollStep ==
    ASSUME AggInv, Poll
    PROVE  AggInv'
  <1>1. PICK n \in 0..Polls : \E quotes \in [1..n -> Quotes], lag \in Lags :
          LET label == clock' \div Polls
          IN /\ clock' = clock + Polls + lag
             /\ label <= Horizon[program]
             /\ seen' = seen \o [i \in 1..n |-> Quote(label, quotes[i])]
             /\ IF n = 0 THEN UNCHANGED aggVars
                ELSE Agg!FeedSubBar(PollOneMinute(label, quotes))
    BY DEF Poll
  <1>2. PICK quotes \in [1..n -> Quotes], lag \in Lags :
          LET label == clock' \div Polls
          IN /\ clock' = clock + Polls + lag
             /\ seen' = seen \o [i \in 1..n |-> Quote(label, quotes[i])]
             /\ IF n = 0 THEN UNCHANGED aggVars
                ELSE Agg!FeedSubBar(PollOneMinute(label, quotes))
    BY <1>1
  <1> DEFINE label == clock' \div Polls
             p == Len(seen)
             new == [i \in 1..n |-> Quote(label, quotes[i])]
  <1>3. /\ program = "live" /\ program' = "live" /\ ~ended /\ ~ended'
        /\ n \in Nat /\ quotes \in [1..n -> Nat]
    <2> HIDE DEF label, p, new
    <2>1. n \in Nat
      BY AggConstants
    <2>2. Quotes \subseteq Nat
      BY AggConstants
    <2>3. \A i \in 1..n : quotes[i] \in Nat
      BY <2>2
    <2>4. quotes \in [1..n -> Nat]
      BY <2>3
    <2> QED
      BY <2>1, <2>4 DEF Poll
  <1>4. /\ IsList(seen) /\ LiveInv
        /\ \A st \in Steps : AggHolds(seen, st, bucket[st], closed[st])
    BY <1>3 DEF AggInv, Aggregating
  <1>5. /\ clock \in Nat /\ clock' \in Nat /\ clock =< clock'
        /\ label \in Nat /\ clock \div Polls \in Nat /\ clock \div Polls =< label
    <2>1. clock \in Nat /\ clock' \in Nat /\ clock =< clock'
      BY <1>2, <1>4, AggConstants DEF LiveInv
    <2> QED
      BY <2>1, AggConstants, QuotientGrows
  <1> HIDE DEF label
  <1>6. \A i \in 1..n : Quote(label, quotes[i]) \in BarType
    BY <1>3, <1>5, QuoteIs
  <1>7. /\ seen' \in Seq(BarType) /\ p \in Nat /\ Len(seen') = p + n
        /\ \A i \in 1..p : seen'[i] = seen[i]
        /\ \A i \in 1..n : seen'[p + i] = Quote(label, quotes[i])
        /\ DOMAIN seen' = 1..(p + n)
    <2>1. seen \in Seq(BarType) /\ new \in Seq(BarType) /\ Len(new) = n
      BY <1>3, <1>4, <1>6 DEF IsList
    <2>2. seen' = seen \o new
      BY <1>2 DEF label
    <2>3. \A i \in 1..n : new[i] = Quote(label, quotes[i])
      OBVIOUS
    <2> HIDE DEF new
    <2> DEFINE t == seen \o new
    <2>4. /\ t \in Seq(BarType) /\ Len(seen) \in Nat /\ Len(t) = Len(seen) + n
          /\ DOMAIN t = 1..Len(t)
      BY <1>3, <2>1
    <2>5. \A i \in 1..n : t[Len(seen) + i] = new[i]
      <3> SUFFICES ASSUME NEW i \in 1..n PROVE t[Len(seen) + i] = new[i]
        OBVIOUS
      <3>1. Len(seen) + i \in 1..(Len(seen) + Len(new))
        BY <1>3, <2>1
      <3> QED
        BY <1>3, <2>1, <3>1
    <2>6. \A i \in 1..Len(seen) : t[i] = seen[i]
      BY <1>3, <2>1
    <2> HIDE DEF t
    <2> QED
      BY <2>2, <2>3, <2>4, <2>5, <2>6 DEF t
  <1>8. IsList(seen')
    BY <1>7, IsListOfBars
  <1> HIDE DEF p
  <1>9. LiveInv'
    <2>1. \A i \in 1..p : seen'[i].ts =< clock \div Polls /\ seen'[i].ts \in Nat
      <3> SUFFICES ASSUME NEW i \in 1..p
                   PROVE  seen'[i].ts =< clock \div Polls /\ seen'[i].ts \in Nat
        OBVIOUS
      <3>1. i \in DOMAIN seen /\ seen'[i] = seen[i]
        BY <1>4, <1>7 DEF IsList, p
      <3>2. seen[i].ts \in Nat
        BY <1>4, <3>1, LinesAre DEF IsList
      <3> QED
        BY <1>4, <3>1, <3>2 DEF LiveInv
    <2>2. \A i \in 1..n : seen'[p + i].ts = label
      <3> SUFFICES ASSUME NEW i \in 1..n PROVE seen'[p + i].ts = label
        OBVIOUS
      <3>1. seen'[p + i] = Quote(label, quotes[i]) /\ quotes[i] \in Nat
        BY <1>3, <1>7
      <3> QED
        BY <1>5, <3>1, QuoteIs
    <2>3. \A i \in (p + 1)..(p + n) : seen'[i].ts = label
      <3>1. \A i \in (p + 1)..(p + n) : i - p \in 1..n /\ i = p + (i - p)
        BY <1>3, <1>7
      <3> QED
        BY <2>2, <3>1
    <2>4. \A i \in 1..(p + n) : i \in 1..p \/ i \in (p + 1)..(p + n)
      BY <1>3, <1>7
    <2>5. \A i \in 1..(p + n) : seen'[i].ts =< label
      BY <1>5, <2>1, <2>3, <2>4
    <2>6. \A i, j \in 1..(p + n) : i < j => seen'[i].ts =< seen'[j].ts
      <3> SUFFICES ASSUME NEW i \in 1..(p + n), NEW j \in 1..(p + n), i < j
                   PROVE  seen'[i].ts =< seen'[j].ts
        OBVIOUS
      <3>1. CASE j \in (p + 1)..(p + n)
        BY <2>3, <2>5, <3>1
      <3>2. CASE j \in 1..p
        <4>1. i \in 1..p
          BY <1>7, <3>2
        <4>2. i \in DOMAIN seen /\ j \in DOMAIN seen
          BY <1>4, <3>2, <4>1 DEF IsList, p
        <4> QED
          BY <1>4, <1>7, <3>2, <4>1, <4>2 DEF LiveInv
      <3> QED
        BY <2>4, <3>1, <3>2
    <2> QED
      BY <1>3, <1>5, <1>7, <2>5, <2>6 DEF LiveInv, label
  <1>10. \A st \in Steps : AggHolds(seen', st, bucket'[st], closed'[st])
    <2>1. CASE n = 0
      <3>1. UNCHANGED aggVars
        BY <1>2, <2>1
      <3>2. seen' = seen
        <4>1. seen \in Seq(BarType) /\ Len(seen') = Len(seen)
          BY <1>4, <1>7, <2>1 DEF IsList, p
        <4> QED
          BY <1>7, <4>1 DEF p
      <3> QED
        BY <1>4, <3>1, <3>2 DEF aggVars
    <2>2. CASE n # 0
      <3> DEFINE r == PollOneMinute(label, quotes)
      <3>1. Agg!FeedSubBar(r)
        BY <1>2, <2>2 DEF label
      <3>2. r = OhlcOf(seen', label, (p + 1)..(p + n)) /\ n \in Nat \ {0}
        <4>1. n \in Nat \ {0}
          BY <1>3, <2>2
        <4>2. \A i \in 1..n : seen'[p + i] = Quote(label, quotes[i])
          BY <1>7
        <4>3. p \in Nat /\ Len(seen') = p + n
          BY <1>7
        <4> HIDE DEF r
        <4>4. PollOneMinute(label, quotes) = OhlcOf(seen', label, (p + 1)..(p + n))
          <5>1. EndsWith(seen', p, n, label, quotes)
            BY <4>2, <4>3 DEF EndsWith
          <5>2. label \in Nat /\ quotes \in [1..n -> Nat] /\ p \in Nat
            BY <1>3, <1>5, <4>3
          <5> QED
            BY <1>8, <4>1, <5>1, <5>2, PolledIs
        <4> QED
          BY <4>1, <4>4 DEF r
      <3> HIDE DEF r
      <3>3. NewLines(seen, seen') = (p + 1)..(p + n)
        BY <1>7 DEF NewLines, p
      <3>4. r.ts = label
        BY <3>2 DEF OhlcOf
      <3>5. \A i \in (p + 1)..(p + n) : seen'[i].ts = r.ts
        <4>1. \A i \in (p + 1)..(p + n) : i - p \in 1..n /\ i = p + (i - p)
          BY <1>3, <1>7
        <4>2. \A i \in 1..n : seen'[p + i].ts = label
          <5> SUFFICES ASSUME NEW i \in 1..n PROVE seen'[p + i].ts = label
            OBVIOUS
          <5>1. seen'[p + i] = Quote(label, quotes[i]) /\ quotes[i] \in Nat
            BY <1>3, <1>7
          <5> QED
            BY <1>5, <5>1, QuoteIs
        <4> QED
          BY <3>4, <4>1, <4>2
      <3>6. Len(seen) < Len(seen') /\ \A i \in 1..Len(seen) : seen'[i] = seen[i]
        BY <1>7, <3>2 DEF p
      <3> QED
        BY <1>4, <1>8, <3>1, <3>2, <3>3, <3>4, <3>5, <3>6, FeedStep
    <2> QED
      BY <2>1, <2>2
  <1> QED
    BY <1>3, <1>8, <1>9, <1>10 DEF AggInv

LEMMA AggSteps ==
    ASSUME program \in Programs, AggInv, [Next]_vars
    PROVE  AggInv'
  <1>1. CASE Sub_Bar
    BY <1>1, SubBarStep
  <1>2. CASE Poll
    BY <1>2, PollStep
  <1>3. CASE End
    BY <1>3, EndStep
  <1>4. CASE Context_Bar \/ Shock_Bar \/ Loaded_Bar \/ Drift_Run
    <2>1. program' \notin Aggregating
      BY <1>4 DEF Context_Bar, Shock_Bar, Loaded_Bar, Drift_Run, Arrives,
                  Aggregating
    <2> QED
      BY <2>1 DEF AggInv
  <1>5. CASE Finished \/ UNCHANGED vars
    <2>1. UNCHANGED <<program, seen, ended, clock, bucket, closed>>
      BY <1>5 DEF Finished, vars, aggVars
    <2> QED
      BY <2>1 DEF AggInv, LiveInv
  <1> QED
    BY <1>1, <1>2, <1>3, <1>4, <1>5 DEF Next

\* The bars a bridge hands to its engines, with the one in progress, are those
\* resample makes of the same sub-bars without the late ones, and no polled
\* quote is late (BarAggregator.add, poll_one_minute, resample).
THEOREM BarsFollowResample == Spec => []BarsMatchResample
  <1>1. Init => AggInv
    <2> SUFFICES ASSUME Init PROVE AggInv
      OBVIOUS
    <2>1. /\ seen = <<>> /\ ~ended /\ clock = 0
          /\ \A st \in Steps : bucket[st] = Agg!NoBar /\ closed[st] = <<>>
      BY DEF Init, Agg!AggInit
    <2>2. /\ DOMAIN seen = {} /\ seen \in Seq(BarType)
          /\ \A st \in Steps : closed[st] \in Seq(RowType)
      <3>1. <<>> \in Seq(BarType) /\ <<>> \in Seq(RowType)
        OBVIOUS
      <3> QED
        BY <2>1, <3>1, NoBars
    <2>3. IsList(seen) /\ LiveInv
      BY <2>1, <2>2, IsListOfBars DEF LiveInv
    <2> QED
      BY <2>1, <2>2, <2>3 DEF AggInv, AggHolds
  <1>2. StreamsInv /\ AggInv /\ [Next]_vars => AggInv'
    BY AggSteps DEF StreamsInv, StreamInv
  <1>3. AggInv => BarsMatchResample
    <2> SUFFICES ASSUME AggInv, program \in Aggregating, NEW st \in Steps
                 PROVE  /\ closed[st] \o (IF bucket[st] = Agg!NoBar THEN <<>>
                                          ELSE <<bucket[st]>>)
                             = Resample(OnTime(st), st)
                        /\ program = "live" => \A i \in DOMAIN seen : ~Late(i, st)
      BY DEF BarsMatchResample, Aggregating
    <2>1. IsList(seen) /\ (program = "live" => LiveInv)
      BY DEF AggInv
    <2>2. \A i : Late(i, st) <=> LateIn(seen, i, st)
      BY DEF Late, LateIn
    <2>3. program = "live" => \A i \in DOMAIN seen : ~Late(i, st)
      BY <2>1, <2>2, NothingLate
    <2> DEFINE X == closed[st] \o (IF bucket[st] = Agg!NoBar THEN <<>>
                                   ELSE <<bucket[st]>>)
               F == OnTime(st)
               G == InTime(seen, st)
    <2>4. Bars(seen, st, X)
      <3>1. CASE bucket[st] = Agg!NoBar
        <4>1. Bars(seen, st, closed[st])
          BY <3>1, NoBars DEF AggInv, AggHolds
        <4>2. X = closed[st]
          BY <3>1, <4>1 DEF Bars
        <4> QED
          BY <4>1, <4>2
      <3>2. CASE bucket[st] # Agg!NoBar
        <4>1. Bars(seen, st, Append(closed[st], bucket[st]))
              /\ closed[st] \in Seq(RowType) /\ bucket[st] \in RowType
          BY <3>2 DEF AggInv, AggHolds
        <4>2. X = Append(closed[st], bucket[st])
          BY <3>2, <4>1
        <4> QED
          BY <4>1, <4>2
      <3> QED
        BY <3>1, <3>2
    <2>5. DOMAIN F = G /\ \A i \in G : F[i] = seen[i]
      BY <2>2 DEF OnTime, InTime
    <2> HIDE DEF X, F, G
    <2>6. G \subseteq 1..Len(seen) /\ IsFile(F, Len(seen)) /\ IsFile(seen, Len(seen))
      <3>1. G \subseteq DOMAIN seen
        BY DEF G, InTime
      <3> QED
        BY <2>1, <2>5, <3>1 DEF IsList, IsFile
    <2>7. \A k : LinesOf(F, st, G, k) = LinesOf(seen, st, G, k)
      BY <2>5 DEF LinesOf
    <2>8. BucketsOf(F, st, G) = BucketsOf(seen, st, G)
      BY <2>5 DEF BucketsOf
    <2>9. \A i \in DOMAIN X : X[i] = OhlcOf(F, X[i].ts, LinesOf(F, st, DOMAIN F, X[i].ts))
      <3> SUFFICES ASSUME NEW i \in DOMAIN X
                   PROVE  X[i] = OhlcOf(F, X[i].ts, LinesOf(F, st, DOMAIN F, X[i].ts))
        OBVIOUS
      <3> DEFINE q == X[i].ts
                 I == LinesOf(seen, st, G, q)
      <3>1. X[i] = OhlcOf(seen, q, I) /\ q \in BucketsOf(seen, st, G)
        BY <2>4 DEF Bars, G, LabelsOf
      <3>2. I # {} /\ I \subseteq G
        BY <3>1 DEF BucketsOf, LinesOf
      <3>3. LinesOf(F, st, DOMAIN F, q) = I
        BY <2>5, <2>7
      <3> HIDE DEF I, q
      <3>4. /\ I \in SUBSET DOMAIN seen /\ I \subseteq DOMAIN F
            /\ \A x \in I : F[x] = seen[x]
        BY <2>1, <2>5, <2>6, <3>2 DEF IsList
      <3>5. OhlcOf(F, q, I) = OhlcOf(seen, q, I)
        BY <2>6, <3>2, <3>4, SameLines
      <3> QED
        BY <3>1, <3>3, <3>5 DEF q
    <2>10. LabelsOf(X) = BucketsOf(F, st, DOMAIN F)
      BY <2>4, <2>5, <2>8 DEF Bars, G
    <2>11. Listed(X) /\ X = [i \in 1..Len(X) |-> X[i]]
      BY <2>4 DEF Bars
    <2>12. Resample(F, st) = X
      BY <2>6, <2>9, <2>10, <2>11, ResampleIs
    <2> QED
      BY <2>3, <2>12 DEF X, F
  <1> QED
    BY <1>1, <1>2, <1>3, SpecStreams, PTL DEF Spec
-----------------------------------------------------------------------------
(* The days of the reports. *)

LEMMA ReportEnds ==
    /\ \A S : Reports!Max(S) = Max(S) /\ Reports!Min(S) = Min(S)
    /\ \A S : Reports!Cardinality(S) = Cardinality(S)
    /\ \A n : Reports!Abs(n) = Abs(n)
    /\ \A b, d : Reports!Near(b, d) = Near(b, d) /\ Reports!Far(b, d) = Far(b, d)
  BY DEF Reports!Max, Max, Reports!Min, Min, Reports!Abs, Abs,
         Reports!Near, Near, Reports!Far, Far, Reports!Cardinality, Cardinality

\* The bars of the reports are of their shapes.
Shaped(b) == \E q \in Shapes["days"] : b.o = q.o /\ b.c = q.c

ShapedInv == program = "days" => \A i \in DOMAIN seen : Shaped(seen[i])

LEMMA ShapedSteps ==
    ASSUME StreamInv, ShapedInv, [Next]_vars
    PROVE  ShapedInv'
  <1> SUFFICES ASSUME program' = "days" PROVE \A i \in DOMAIN seen' : Shaped(seen'[i])
    BY DEF ShapedInv
  <1>1. program = "days"
    BY StreamSteps
  <1>2. seen \in Seq(BarType) /\ \A i \in DOMAIN seen : Shaped(seen[i])
    BY <1>1 DEF StreamInv, ShapedInv, Sorted
  <1>3. CASE Loaded_Bar
    <2>1. PICK ts \in 0..Horizon[program], s \in Shapes[program] :
            seen' = Append(seen, Bar(ts, s))
      BY <1>3 DEF Loaded_Bar, Arrives
    <2>2. Shaped(Bar(ts, s)) /\ Bar(ts, s) \in BarType
      BY <1>1, BarOfShape DEF Shaped, Bar, StreamInv
    <2> DEFINE b == Bar(ts, s)
    <2> HIDE DEF b
    <2>3. \A i \in DOMAIN Append(seen, b) :
            Append(seen, b)[i] = b \/ (i \in DOMAIN seen /\ Append(seen, b)[i] = seen[i])
      BY <1>2, <2>2 DEF b
    <2> QED
      BY <1>2, <2>1, <2>2, <2>3 DEF b
  <1>4. CASE ~Loaded_Bar
    <2>1. seen' = seen
      BY <1>1, <1>4 DEF Next, vars, Sub_Bar, Poll, Context_Bar, Shock_Bar,
                        Drift_Run, End, Finished
    <2> QED
      BY <1>2, <2>1
  <1> QED
    BY <1>3, <1>4

LEMMA SpecShaped == Spec => []ShapedInv
  <1>1. Init => ShapedInv
    BY DEF Init, ShapedInv
  <1> QED
    BY <1>1, ShapedSteps, SpecStreams, PTL DEF Spec, StreamsInv
-----------------------------------------------------------------------------
\* Some bars of the file.
IsPart(x) ==
    /\ DOMAIN x # {} /\ DOMAIN x \in SUBSET DOMAIN seen
    /\ \A i \in DOMAIN x : x[i] = seen[i]

\* The file that is reported on.
Reported ==
    seen \in Seq(BarType) /\ \A i \in DOMAIN seen : Shaped(seen[i])

LEMMA PartOfReport ==
    ASSUME Reported, NEW x, IsPart(x)
    PROVE  /\ IsFiniteSet(DOMAIN x) /\ DOMAIN x \subseteq Int
           /\ \A i \in DOMAIN x : x[i] \in BarType /\ Shaped(x[i])
  <1>1. /\ Len(seen) \in Nat /\ DOMAIN seen = 1..Len(seen)
        /\ \A i \in DOMAIN seen : seen[i] \in BarType /\ Shaped(seen[i])
    BY DEF Reported
  <1>2. IsFiniteSet(1..Len(seen))
    BY <1>1, FS_Interval
  <1> QED
    BY <1>1, <1>2, FS_Subset DEF IsPart

\* The ends of some bars are those of one of them, and hold the others.
EndsOf(x, hi, lo, op, cl) ==
    /\ hi \in Nat /\ lo \in Nat /\ op \in Nat /\ cl \in Nat
    /\ lo =< op /\ op =< hi /\ lo =< cl /\ cl =< hi
    /\ \A i \in DOMAIN x : lo =< x[i].l /\ x[i].h =< hi
    /\ \E i \in DOMAIN x : x[i].h = hi
    /\ \E i \in DOMAIN x : x[i].l = lo
    /\ \E i \in DOMAIN x : x[i].c = cl
    /\ \E q \in Shapes["days"] : q.o = op
    /\ \E q \in Shapes["days"] : q.c = cl

LEMMA PartEnds ==
    ASSUME Reported, NEW x, IsPart(x)
    PROVE  EndsOf(x, Reports!High(x), Reports!Low(x),
                  Reports!Open(x), Reports!Close(x))
  <1> DEFINE hs == {x[i].h : i \in DOMAIN x}
             ls == {x[i].l : i \in DOMAIN x}
             f == Min(DOMAIN x)
             e == Max(DOMAIN x)
  <1>1. /\ IsFiniteSet(DOMAIN x) /\ DOMAIN x \subseteq Int /\ DOMAIN x # {}
        /\ \A i \in DOMAIN x : x[i] \in BarType /\ Shaped(x[i])
    BY PartOfReport DEF IsPart
  <1>2. \A i \in DOMAIN x :
          /\ x[i].h \in Nat /\ x[i].l \in Nat /\ x[i].o \in Nat /\ x[i].c \in Nat
          /\ x[i].l =< x[i].o /\ x[i].o =< x[i].h
          /\ x[i].l =< x[i].c /\ x[i].c =< x[i].h
    BY <1>1 DEF BarType
  <1>3. IsFiniteSet(hs) /\ hs \subseteq Int /\ hs # {}
        /\ IsFiniteSet(ls) /\ ls \subseteq Int /\ ls # {}
    <2>1. IsFiniteSet(hs) /\ IsFiniteSet(ls)
      <3> DEFINE h == [i \in DOMAIN x |-> x[i].h]
                 l == [i \in DOMAIN x |-> x[i].l]
      <3>1. hs = {h[i] : i \in DOMAIN x} /\ ls = {l[i] : i \in DOMAIN x}
        OBVIOUS
      <3>2. DOMAIN h = DOMAIN x /\ DOMAIN l = DOMAIN x
        OBVIOUS
      <3> HIDE DEF h, l, hs, ls
      <3> QED
        BY <1>1, <3>1, <3>2, FiniteImage
    <2> QED
      BY <1>1, <1>2, <2>1
  <1>4. f \in DOMAIN x /\ e \in DOMAIN x
    BY <1>1, MinIsLeast, MaxIsLargest
  <1>5. /\ Max(hs) \in hs /\ \A y \in hs : y =< Max(hs)
        /\ Min(ls) \in ls /\ \A y \in ls : Min(ls) =< y
    <2> HIDE DEF hs, ls
    <2> QED
      BY <1>3, MinIsLeast, MaxIsLargest
  <1>6. /\ Reports!High(x) = Max(hs) /\ Reports!Low(x) = Min(ls)
        /\ Reports!Open(x) = x[f].o /\ Reports!Close(x) = x[e].c
    BY ReportEnds DEF Reports!High, Reports!Low, Reports!Open, Reports!Close
  <1> DEFINE hi == Max(hs)
             lo == Min(ls)
  <1>7. /\ \A i \in DOMAIN x : lo =< x[i].l /\ x[i].h =< hi
        /\ \E i \in DOMAIN x : x[i].h = hi
        /\ \E i \in DOMAIN x : x[i].l = lo
    BY <1>5
  <1> HIDE DEF hi, lo, f, e, hs, ls
  <1>8. /\ hi \in Nat /\ lo \in Nat
        /\ lo =< x[f].o /\ x[f].o =< hi /\ lo =< x[e].c /\ x[e].c =< hi
    BY <1>2, <1>4, <1>7
  <1>9. EndsOf(x, hi, lo, x[f].o, x[e].c)
    BY <1>1, <1>2, <1>4, <1>7, <1>8 DEF EndsOf, Shaped
  <1> QED
    BY <1>6, <1>9 DEF hi, lo
-----------------------------------------------------------------------------
\* What a day of the reports says of itself and of the one before it.
IsDay(d) ==
    /\ IsPart(d.intraday)
    /\ d.high = Reports!High(d.intraday) /\ d.low = Reports!Low(d.intraday)
    /\ d.open = Reports!Open(d.intraday) /\ d.close = Reports!Close(d.intraday)
    /\ \E p : /\ IsPart(p) /\ d.prev_high = Reports!High(p)
              /\ d.prev_low = Reports!Low(p) /\ d.prev_close = Reports!Close(p)

LEMMA ReportDays ==
    ASSUME Reported
    PROVE  IsFiniteSet(Days) /\ \A d \in Days : IsDay(d)
  <1> DEFINE r == {i \in DOMAIN seen : Reports!InReport(seen[i].ts)}
             date(i) == seen[i].ts \div DayLen
             dates == {date(i) : i \in r}
             Lines(q) == {i \in r : date(i) = q}
             Intraday(q) == [i \in Lines(q) |-> seen[i]]
             Day(x, prev) ==
               [open |-> Reports!Open(x), high |-> Reports!High(x),
                low |-> Reports!Low(x), close |-> Reports!Close(x),
                intraday |-> x, prev_high |-> Reports!High(prev),
                prev_low |-> Reports!Low(prev), prev_close |-> Reports!Close(prev)]
             Before(q) == {p \in dates : p < q}
             later == {q \in dates : Before(q) # {}}
             Made(q) == Day(Intraday(q), Intraday(Max(Before(q))))
  <1>1. Days = {Made(q) : q \in later}
    BY ReportEnds DEF Days, Reports!LoadDays
  <1>2. IsFiniteSet(dates) /\ dates \subseteq Int
    <2>1. /\ Len(seen) \in Nat /\ DOMAIN seen = 1..Len(seen)
          /\ \A i \in DOMAIN seen : seen[i].ts \in Nat
      BY DEF Reported, BarType
    <2>2. IsFiniteSet(r)
      <3>1. IsFiniteSet(1..Len(seen))
        BY <2>1, FS_Interval
      <3> QED
        BY <2>1, <3>1, FS_Subset
    <2>3. IsFiniteSet(dates)
      <3> DEFINE g == [i \in r |-> date(i)]
      <3>1. dates = {g[i] : i \in r} /\ DOMAIN g = r
        OBVIOUS
      <3> HIDE DEF r, dates, g
      <3> QED
        BY <2>2, <3>1, FiniteImage
    <2>4. \A i \in r : date(i) \in Int
      BY <2>1, FeedConstants
    <2> QED
      BY <2>3, <2>4
  <1>3. \A q \in dates : IsPart(Intraday(q))
    BY DEF IsPart
  <1>4. ASSUME NEW q \in later PROVE IsDay(Made(q))
    <2> DEFINE p == Max(Before(q))
    <2>1. IsFiniteSet(Before(q)) /\ Before(q) \subseteq Int /\ Before(q) # {}
      <3> HIDE DEF dates
      <3> QED
        BY <1>2, FS_Subset
    <2>2. p \in Before(q)
      <3> HIDE DEF Before
      <3> QED
        BY <2>1, MaxIsLargest
    <2>3. p \in dates /\ q \in dates
      BY <2>2
    <2> DEFINE x == Intraday(q)
               y == Intraday(p)
    <2>4. IsPart(x) /\ IsPart(y)
      BY <1>3, <2>3
    <2> HIDE DEF x, y, Intraday, p
    <2>5. IsDay(Day(x, y))
      BY <2>4 DEF IsDay
    <2> QED
      BY <2>5 DEF x, y, p
  <1>5. IsFiniteSet(later)
    <2> HIDE DEF dates, Before
    <2> QED
      BY <1>2, FS_Subset
  <1>6. IsFiniteSet({Made(q) : q \in later})
    <2> DEFINE g == [q \in later |-> Made(q)]
               made == {Made(q) : q \in later}
    <2> HIDE DEF Made, later
    <2>1. made = {g[q] : q \in later} /\ DOMAIN g = later
      OBVIOUS
    <2> HIDE DEF g, made
    <2>2. IsFiniteSet(made)
      BY <1>5, <2>1, FiniteImage
    <2> QED
      BY <2>2 DEF made
  <1> HIDE DEF Made, later
  <1> QED
    BY <1>1, <1>4, <1>6

\* The numbers of a day.
DayNumbers(d) ==
    /\ d.open \in Nat /\ d.high \in Nat /\ d.low \in Nat /\ d.close \in Nat
    /\ d.prev_high \in Nat /\ d.prev_low \in Nat /\ d.prev_close \in Nat
    /\ d.low =< d.open /\ d.open =< d.high
    /\ d.prev_low =< d.prev_close /\ d.prev_close =< d.prev_high
    /\ 1000 * Abs(d.open - d.prev_close) < Buckets[Len(Buckets)][2] * d.prev_close

LEMMA NumbersOfDay ==
    ASSUME Reported, NEW d, IsDay(d)
    PROVE  /\ DayNumbers(d)
           /\ EndsOf(d.intraday, d.high, d.low, d.open, d.close)
  <1>1. EndsOf(d.intraday, d.high, d.low, d.open, d.close)
    BY PartEnds DEF IsDay
  <1>2. PICK p : /\ IsPart(p) /\ d.prev_high = Reports!High(p)
                 /\ d.prev_low = Reports!Low(p) /\ d.prev_close = Reports!Close(p)
    BY DEF IsDay
  <1>3. EndsOf(p, d.prev_high, d.prev_low, Reports!Open(p), d.prev_close)
    BY <1>2, PartEnds
  <1>4. \E s, q \in Shapes["days"] : s.o = d.open /\ q.c = d.prev_close
    BY <1>1, <1>3 DEF EndsOf
  <1>5. 1000 * Abs(d.open - d.prev_close) < Buckets[Len(Buckets)][2] * d.prev_close
    BY <1>4, FeedAssumption DEF FeedAssumption, SizesCovered
  <1> QED
    BY <1>1, <1>3, <1>5 DEF DayNumbers, EndsOf
-----------------------------------------------------------------------------
(* Every gap has one size. *)

LEMMA ProductGrows ==
    ASSUME NEW a \in Nat, NEW b \in Nat, NEW c \in Nat, a =< b
    PROVE  a * c =< b * c
  <1>1. PICK e \in Nat : b = a + e
    <2>1. b - a \in Nat /\ b = a + (b - a)
      OBVIOUS
    <2> QED
      BY <2>1
  <1>2. b * c = a * c + e * c /\ e * c \in Nat /\ a * c \in Nat
    BY <1>1
  <1> QED
    BY <1>2

\* A day is in the k-th bucket of sizes.
InSize(d, k) == Reports!InBucket(d, Buckets[k][1], Buckets[k][2])

LEMMA InSizeIs ==
    ASSUME NEW d, DayNumbers(d), NEW k \in DOMAIN Buckets
    PROVE  /\ Buckets[k][1] \in Nat /\ Buckets[k][2] \in Nat
           /\ InSize(d, k) <=>
                /\ Buckets[k][1] * d.prev_close =< 1000 * Abs(d.open - d.prev_close)
                /\ 1000 * Abs(d.open - d.prev_close) < Buckets[k][2] * d.prev_close
  <1>0. Buckets \in Seq(Nat \X Nat)
    BY FeedAssumption DEF FeedAssumption, SizesCovered
  <1>1. Buckets[k][1] \in Nat /\ Buckets[k][2] \in Nat
    <2>1. Buckets[k] \in Nat \X Nat
      BY <1>0
    <2> QED
      BY <2>1
  <1> DEFINE z == 1000 * Abs(d.open - d.prev_close)
             a == Buckets[k][1] * d.prev_close
             b == Buckets[k][2] * d.prev_close
  <1>2. InSize(d, k) <=> z \in a..(b - 1)
    BY ReportEnds DEF InSize, Reports!InBucket, Reports!Gap
  <1>3. z \in Nat /\ a \in Nat /\ b \in Nat
    <2>1. d.open \in Nat /\ d.prev_close \in Nat
      BY DEF DayNumbers
    <2>2. Abs(d.open - d.prev_close) \in Nat
      BY <2>1 DEF Abs
    <2> QED
      BY <1>1, <2>1, <2>2
  <1>4. InSize(d, k) <=> a =< z /\ z < b
    <2> HIDE DEF z, a, b
    <2> QED
      BY <1>2, <1>3
  <1> QED
    BY <1>1, <1>4

\* Every size of a gap falls into one bucket.
LEMMA OneSize ==
    ASSUME NEW d, DayNumbers(d)
    PROVE  /\ \E k \in DOMAIN Buckets : InSize(d, k)
           /\ \A j, k \in DOMAIN Buckets : InSize(d, j) /\ InSize(d, k) => j = k
  <1> DEFINE n == Len(Buckets)
             z == 1000 * Abs(d.open - d.prev_close)
             lo(k) == Buckets[k][1] * d.prev_close
             hi(k) == Buckets[k][2] * d.prev_close
             above == {k \in 1..n : z < hi(k)}
             m == Min(above)
  <1>1. /\ n \in Nat /\ n >= 1 /\ DOMAIN Buckets = 1..n
        /\ Buckets[1][1] = 0
        /\ \A j, k \in 1..n :
             /\ Buckets[j][1] \in Nat /\ Buckets[j][2] \in Nat
             /\ k = j + 1 => Buckets[j][2] = Buckets[k][1]
             /\ j < k => Buckets[j][2] =< Buckets[k][1]
    <2>1. /\ Buckets \in Seq(Nat \X Nat) /\ Buckets # <<>> /\ Buckets[1][1] = 0
          /\ \A j, k \in DOMAIN Buckets :
               /\ k = j + 1 => Buckets[j][2] = Buckets[k][1]
               /\ j < k => Buckets[j][2] =< Buckets[k][1]
      BY FeedAssumption DEF FeedAssumption, SizesCovered
    <2>2. n \in Nat /\ n >= 1 /\ DOMAIN Buckets = 1..n
      BY <2>1
    <2>3. \A j \in 1..n : Buckets[j] \in Nat \X Nat
      BY <2>1, <2>2
    <2>4. \A j \in 1..n : Buckets[j][1] \in Nat /\ Buckets[j][2] \in Nat
      BY <2>3
    <2> HIDE DEF n
    <2> QED
      BY <2>1, <2>2, <2>4
  <1>2. d.prev_close \in Nat /\ z \in Nat /\ z < hi(n)
    <2>1. d.open \in Nat /\ d.prev_close \in Nat /\ z < hi(n)
      BY DEF DayNumbers
    <2>2. Abs(d.open - d.prev_close) \in Nat
      BY <2>1 DEF Abs
    <2> QED
      BY <2>1, <2>2
  <1>3. \A k \in 1..n : lo(k) \in Nat /\ hi(k) \in Nat
    BY <1>1, <1>2
  <1>4. \A k \in 1..n : InSize(d, k) <=> lo(k) =< z /\ z < hi(k)
    BY <1>1, InSizeIs
  <1>5. \A j, k \in 1..n : j < k => hi(j) =< lo(k)
    <2> TAKE j, k \in 1..n
    <2> HAVE j < k
    <2>1. Buckets[j][2] \in Nat /\ Buckets[k][1] \in Nat /\ Buckets[j][2] =< Buckets[k][1]
      BY <1>1
    <2> QED
      BY <1>2, <2>1, ProductGrows
  <1>6. \A j, k \in 1..n : k = j + 1 => hi(j) = lo(k)
    BY <1>1
  <1>7. lo(1) = 0
    BY <1>1, <1>2
  <1> HIDE DEF z, lo, hi
  <1>8. m \in above /\ \A k \in above : m =< k
    <2>1. n \in above
      BY <1>1, <1>2
    <2>2. IsFiniteSet(above) /\ above \subseteq Int
      <3>1. IsFiniteSet(1..n) /\ above \in SUBSET (1..n)
        BY <1>1, FS_Interval
      <3> QED
        BY <3>1, FS_Subset
    <2> HIDE DEF above
    <2> QED
      BY <2>1, <2>2, MinIsLeast
  <1>9. lo(m) =< z
    <2>1. CASE m = 1
      BY <1>2, <1>7, <2>1
    <2>2. CASE m # 1
      <3>1. m - 1 \in 1..n /\ m - 1 \notin above /\ m \in 1..n
        BY <1>1, <1>8, <2>2
      <3>2. hi(m - 1) =< z
        BY <1>2, <1>3, <3>1
      <3>3. hi(m - 1) = lo(m)
        BY <1>6, <3>1
      <3> QED
        BY <3>2, <3>3
    <2> QED
      BY <2>1, <2>2
  <1>10. \E k \in 1..n : InSize(d, k)
    BY <1>4, <1>8, <1>9
  <1>11. ASSUME NEW j \in 1..n, NEW k \in 1..n, InSize(d, j), InSize(d, k), j < k
         PROVE  FALSE
    <2>1. z < hi(j) /\ hi(j) =< lo(k) /\ lo(k) =< z
      BY <1>4, <1>5, <1>11
    <2> QED
      BY <1>2, <1>3, <2>1
  <1>12. ASSUME NEW j \in 1..n, NEW k \in 1..n, InSize(d, j), InSize(d, k)
         PROVE  j = k
    <2>1. j < k \/ j = k \/ k < j
      BY <1>1
    <2> QED
      BY <1>11, <1>12, <2>1
  <1> QED
    BY <1>1, <1>10, <1>12

\* So the buckets part any days.
LEMMA SizesPart ==
    ASSUME Reported, NEW S \in SUBSET Days,
           NEW c, \A k \in DOMAIN Buckets : c[k] = Cardinality({d \in S : InSize(d, k)})
    PROVE  /\ Cardinality(S) = SumOver(c, DOMAIN Buckets)
           /\ IsFiniteSet(DOMAIN Buckets) /\ \A k \in DOMAIN Buckets : c[k] \in Int
  <1> DEFINE K == DOMAIN Buckets
             P == [k \in K |-> {d \in S : InSize(d, k)}]
  <1>1. IsFiniteSet(S)
    BY ReportDays, FS_Subset
  <1>2. IsFiniteSet(K)
    <2>1. Len(Buckets) \in Nat /\ K = 1..Len(Buckets)
      BY FeedAssumption DEF FeedAssumption, SizesCovered
    <2> QED
      BY <2>1, FS_Interval
  <1>3. \A d \in S : DayNumbers(d)
    BY ReportDays, NumbersOfDay
  <1>4. /\ P \in [K -> SUBSET S] /\ \A k \in K : c[k] = Cardinality(P[k])
    OBVIOUS
  <1>5. \A j, k \in K : j # k => P[j] \cap P[k] = {}
    BY <1>3, OneSize
  <1>6. \A d \in S : \E k \in K : d \in P[k]
    BY <1>3, OneSize
  <1>7. \A k \in K : c[k] \in Int
    <2> TAKE k \in K
    <2> DEFINE T == {d \in S : InSize(d, k)}
    <2>1. T \in SUBSET S /\ c[k] = Cardinality(T)
      OBVIOUS
    <2> HIDE DEF T
    <2>2. Cardinality(T) \in Nat
      BY <1>1, <2>1, NoMoreThan
    <2> QED
      BY <2>1, <2>2
  <1> HIDE DEF K, P
  <1>8. Cardinality(S) = SumOver(c, K)
    BY <1>1, <1>2, <1>4, <1>5, <1>6, PartsAddUp
  <1> QED
    BY <1>2, <1>7, <1>8 DEF K
-----------------------------------------------------------------------------
\* The sums of the property are the sums of a fold.
CountFold(F, dir, K) ==
    CHOOSE g : g = [s \in SUBSET K |->
                      IF s = {} THEN 0
                      ELSE F[Some(s)][dir].n + g[s \ {Some(s)}]]
FilledFold(F, dir, K) ==
    CHOOSE g : g = [s \in SUBSET K |->
                      IF s = {} THEN 0
                      ELSE F[Some(s)][dir].filled + g[s \ {Some(s)}]]

Tallied(F, dir, K, c, e) ==
    \A k \in K : /\ c[k] = F[k][dir].n /\ c[k] \in Int
                /\ e[k] = F[k][dir].filled /\ e[k] \in Int

LEMMA CountsAddUp ==
    ASSUME NEW K, IsFiniteSet(K), NEW F, NEW dir, NEW c, NEW e,
           Tallied(F, dir, K, c, e)
    PROVE  /\ CountFold(F, dir, K)[K] = SumOver(c, K)
           /\ FilledFold(F, dir, K)[K] = SumOver(e, K)
  <1> DEFINE P(g) == g = [s \in SUBSET K |->
                            IF s = {} THEN 0
                            ELSE F[Some(s)][dir].n + g[s \ {Some(s)}]]
             R(g) == g = [s \in SUBSET K |->
                            IF s = {} THEN 0
                            ELSE F[Some(s)][dir].filled + g[s \ {Some(s)}]]
  <1>1. /\ CountFold(F, dir, K)[K] = (CHOOSE g : P(g))[K]
        /\ FilledFold(F, dir, K)[K] = (CHOOSE g : R(g))[K]
    BY DEF CountFold, FilledFold
  <1>0. \A k \in K : c[k] \in Int /\ e[k] \in Int
    BY DEF Tallied
  <1>2. \A s \in SUBSET K : s # {} =>
          /\ c[Some(s)] = F[Some(s)][dir].n
          /\ e[Some(s)] = F[Some(s)][dir].filled
    <2>1. \A s \in SUBSET K : s # {} => Some(s) \in K
      BY DEF Some
    <2> QED
      BY <2>1 DEF Tallied
  <1>3. ASSUME NEW g
        PROVE  (P(g) <=> SumsBySome(g, c, K)) /\ (R(g) <=> SumsBySome(g, e, K))
    BY <1>2 DEF SumsBySome
  <1> HIDE DEF P, R
  <1>4. /\ SumsBySome(SumFold(c, K), c, K)
        /\ \A g : SumsBySome(g, c, K) => g[K] = SumOver(c, K)
    BY <1>0, SumOneWay
  <1>5. /\ SumsBySome(SumFold(e, K), e, K)
        /\ \A g : SumsBySome(g, e, K) => g[K] = SumOver(e, K)
    BY <1>0, SumOneWay
  <1>6. P(CHOOSE g : P(g))
    BY <1>3, <1>4
  <1>7. R(CHOOSE g : R(g))
    BY <1>3, <1>5
  <1>8. (CHOOSE g : P(g))[K] = SumOver(c, K)
    BY <1>3, <1>4, <1>6
  <1>9. (CHOOSE g : R(g))[K] = SumOver(e, K)
    BY <1>3, <1>5, <1>7
  <1> QED
    BY <1>1, <1>8, <1>9

\* The days of D that opened away from the close before, up or down.
Gaps(D, dir) ==
    {d \in D : IF dir = "up" THEN Reports!Gap(d) > 0 ELSE Reports!Gap(d) < 0}

LEMMA GapFillIs ==
    ASSUME NEW D, NEW dir \in Directions
    PROVE  LET G == Gaps(D, dir)
           IN /\ Reports!GapFill(D)[dir].n = Cardinality(G)
              /\ Reports!GapFill(D)[dir].filled =
                   Cardinality({d \in G : Reports!Filled(d)})
  <1>1. CASE dir = "up"
    BY <1>1, ReportEnds DEF Gaps, Reports!GapFill
  <1>2. CASE dir = "down"
    BY <1>2, ReportEnds DEF Gaps, Reports!GapFill
  <1> QED
    BY <1>1, <1>2 DEF Directions

LEMMA BucketsPart ==
    ASSUME Reported
    PROVE  BucketsPartGaps
  <1> SUFFICES ASSUME NEW dir \in Directions
               PROVE  LET bySize == Reports!GapFillBySize(Days)
                          gaps == Reports!GapFill(Days)
                      IN /\ gaps[dir].n =
                              MapThenSumSet(LAMBDA k : bySize[k][dir].n, DOMAIN bySize)
                         /\ gaps[dir].filled =
                              MapThenSumSet(LAMBDA k : bySize[k][dir].filled,
                                            DOMAIN bySize)
    BY DEF BucketsPartGaps
  <1> DEFINE K == DOMAIN Buckets
             G == Gaps(Days, dir)
             H == {d \in G : Reports!Filled(d)}
             Sized(k) == {d \in Days : InSize(d, k)}
             c == [k \in K |-> Cardinality({d \in G : InSize(d, k)})]
             e == [k \in K |-> Cardinality({d \in H : InSize(d, k)})]
             F == Reports!GapFillBySize(Days)
  <1>1. DOMAIN F = K /\ \A k \in K : F[k] = Reports!GapFill(Sized(k))
    BY DEF Reports!GapFillBySize, InSize
  <1>2. ASSUME NEW k \in K
        PROVE  c[k] = F[k][dir].n /\ e[k] = F[k][dir].filled
    <2>1. Gaps(Sized(k), dir) = {d \in G : InSize(d, k)}
      BY DEF Gaps
    <2>2. {d \in Gaps(Sized(k), dir) : Reports!Filled(d)} = {d \in H : InSize(d, k)}
      BY <2>1
    <2>3. /\ c[k] = Cardinality(Gaps(Sized(k), dir))
          /\ e[k] = Cardinality({d \in Gaps(Sized(k), dir) : Reports!Filled(d)})
      BY <2>1, <2>2
    <2> HIDE DEF Sized, c, e, F
    <2> QED
      BY <1>1, <2>3, GapFillIs
  <1>3. G \in SUBSET Days /\ H \in SUBSET Days
    BY DEF Gaps
  <1>4. /\ Cardinality(G) = SumOver(c, K) /\ IsFiniteSet(K)
        /\ \A k \in K : c[k] \in Int
    <2>1. \A k \in K : c[k] = Cardinality({d \in G : InSize(d, k)})
      OBVIOUS
    <2> HIDE DEF c, G
    <2> QED
      BY <1>3, <2>1, SizesPart
  <1>5. /\ Cardinality(H) = SumOver(e, K)
        /\ \A k \in K : e[k] \in Int
    <2>1. \A k \in K : e[k] = Cardinality({d \in H : InSize(d, k)})
      OBVIOUS
    <2> HIDE DEF e, H
    <2> QED
      BY <1>3, <2>1, SizesPart
  <1>6. /\ Reports!GapFill(Days)[dir].n = Cardinality(G)
        /\ Reports!GapFill(Days)[dir].filled = Cardinality(H)
    BY GapFillIs
  <1>7. Tallied(F, dir, K, c, e)
    <2> HIDE DEF c, e, F
    <2> QED
      BY <1>2, <1>4, <1>5 DEF Tallied
  <1>8. /\ MapThenSumSet(LAMBDA k : F[k][dir].n, DOMAIN F)
             = CountFold(F, dir, K)[K]
        /\ MapThenSumSet(LAMBDA k : F[k][dir].filled, DOMAIN F)
             = FilledFold(F, dir, K)[K]
    <2> HIDE DEF F, K
    <2> QED
      BY <1>1 DEF MapThenSumSet, MapThenFoldSet, CountFold, FilledFold, Some
  <1>9. /\ CountFold(F, dir, K)[K] = SumOver(c, K)
        /\ FilledFold(F, dir, K)[K] = SumOver(e, K)
    <2> HIDE DEF c, e, F, K
    <2> QED
      BY <1>4, <1>7, CountsAddUp
  <1> HIDE DEF c, e, G, H, K
  <1>10. /\ Reports!GapFill(Days)[dir].n =
              MapThenSumSet(LAMBDA k : F[k][dir].n, DOMAIN F)
         /\ Reports!GapFill(Days)[dir].filled =
              MapThenSumSet(LAMBDA k : F[k][dir].filled, DOMAIN F)
    <2> HIDE DEF F
    <2> QED
      BY <1>4, <1>5, <1>6, <1>8, <1>9
  <1> QED
    BY <1>10
-----------------------------------------------------------------------------
(* A fade against the gap it fades. *)

\* A fade, with the names of its parts.
FadeSide(d) == IF d.open - d.prev_close < 0 THEN 1 ELSE -1
FadeStops(d, m) ==
    {j \in DOMAIN d.intraday :
       Near(d.intraday[j], FadeSide(d)) =< FadeSide(d) * d.open - m}
FadeWins(d) ==
    {j \in DOMAIN d.intraday :
       Far(d.intraday[j], FadeSide(d)) >= FadeSide(d) * d.prev_close}

LEMMA FadeIs ==
    ASSUME NEW d, NEW rr, NEW m, m = rr * Abs(d.open - d.prev_close)
    PROVE  LET t == Reports!Fade(d, rr)
               both == FadeStops(d, m) \cup FadeWins(d)
           IN /\ t.day = d
              /\ t.won <=> FadeWins(d) # {} /\ Min(both) \notin FadeStops(d, m)
              /\ t.points =
                   IF both = {} THEN FadeSide(d) * (d.close - d.open)
                   ELSE IF Min(both) \in FadeStops(d, m) THEN -m
                   ELSE Abs(d.open - d.prev_close)
  <1> DEFINE side == IF Reports!Gap(d) < 0 THEN 1 ELSE -1
             x == d.intraday
             stop == side * d.open - rr * Reports!Abs(Reports!Gap(d))
             stops == {j \in DOMAIN x : Reports!Near(x[j], side) <= stop}
             wins == {j \in DOMAIN x : Reports!Far(x[j], side) >= side * d.prev_close}
             points == IF stops \cup wins = {} THEN side * (d.close - d.open)
                       ELSE IF Reports!Min(stops \cup wins) \in stops
                       THEN -(rr * Reports!Abs(Reports!Gap(d)))
                       ELSE Reports!Abs(Reports!Gap(d))
  <1>1. side = FadeSide(d) /\ rr * Reports!Abs(Reports!Gap(d)) = m
        /\ Reports!Abs(Reports!Gap(d)) = Abs(d.open - d.prev_close)
    BY ReportEnds DEF FadeSide, Reports!Gap
  <1>2. stops = FadeStops(d, m) /\ wins = FadeWins(d)
    BY <1>1, ReportEnds DEF FadeStops, FadeWins
  <1>3. Reports!Fade(d, rr) =
          [day |-> d, points |-> points, pnl |-> points - FadeFriction,
           won |-> wins # {} /\ Reports!Min(stops \cup wins) \notin stops]
    BY DEF Reports!Fade
  <1>4. Reports!Min(stops \cup wins) = Min(stops \cup wins)
    BY ReportEnds
  <1> DEFINE t == Reports!Fade(d, rr)
             both == FadeStops(d, m) \cup FadeWins(d)
  <1>5. stops \cup wins = both /\ Reports!Min(stops \cup wins) = Min(both)
    BY <1>2, <1>4
  <1>6. t.day = d /\ t.points = points
        /\ t.won = (wins # {} /\ Reports!Min(stops \cup wins) \notin stops)
    <2> HIDE DEF stops, wins, side, points
    <2> QED
      BY <1>3
  <1>7. t.won = (FadeWins(d) # {} /\ Min(both) \notin FadeStops(d, m))
    <2> HIDE DEF t, both, stops, wins
    <2> QED
      BY <1>2, <1>5, <1>6
  <1>8. points = IF both = {} THEN FadeSide(d) * (d.close - d.open)
                 ELSE IF Min(both) \in FadeStops(d, m) THEN -m
                 ELSE Abs(d.open - d.prev_close)
    <2> HIDE DEF both, stops, wins, side
    <2> QED
      BY <1>1, <1>2, <1>5
  <1> HIDE DEF t, both, points
  <1>9. t.won <=> FadeWins(d) # {} /\ Min(both) \notin FadeStops(d, m)
    BY <1>7
  <1> QED
    BY <1>6, <1>8, <1>9 DEF t, both

\* What a fade makes, against the gap it fades.
FadeRight(t, d, m) ==
    LET g == Abs(d.open - d.prev_close)
        filled == IF d.open - d.prev_close > 0 THEN d.low =< d.prev_close
                  ELSE d.high >= d.prev_close
    IN /\ t.won => filled /\ t.points = g
       /\ ~t.won => t.points < g
       /\ filled /\ ~t.won => t.points = -m
       /\ -m =< t.points

LEMMA FadeHolds ==
    ASSUME Reported, NEW d, IsDay(d), d.open - d.prev_close # 0,
           NEW rr \in Nat \ {0}
    PROVE  FadeRight(Reports!Fade(d, rr), d, rr * Abs(d.open - d.prev_close))
  <1> DEFINE t == Reports!Fade(d, rr)
             x == d.intraday
             g == Abs(d.open - d.prev_close)
             m == rr * g
             s == FadeSide(d)
             both == FadeStops(d, m) \cup FadeWins(d)
             e == Min(both)
  <1>1. DayNumbers(d) /\ EndsOf(x, d.high, d.low, d.open, d.close)
    BY NumbersOfDay
  <1>2. /\ d.open \in Nat /\ d.close \in Nat /\ d.prev_close \in Nat
        /\ d.high \in Nat /\ d.low \in Nat
    BY <1>1 DEF DayNumbers
  <1>3. g \in Nat \ {0}
    BY <1>2 DEF Abs
  <1>4. m \in Nat /\ g =< m
    <2> HIDE DEF g
    <2>1. m \in Nat
      BY <1>3
    <2>2. 1 * g =< rr * g
      BY <1>3, ProductGrows
    <2> QED
      BY <1>3, <2>1, <2>2
  <1>5. /\ IsFiniteSet(DOMAIN x) /\ DOMAIN x \subseteq Int
        /\ \A i \in DOMAIN x :
             /\ x[i].h \in Nat /\ x[i].l \in Nat /\ x[i].c \in Nat
             /\ x[i].l =< x[i].c /\ x[i].c =< x[i].h
    <2>1. IsPart(x)
      BY DEF IsDay
    <2>2. /\ IsFiniteSet(DOMAIN x) /\ DOMAIN x \subseteq Int
          /\ \A i \in DOMAIN x : x[i] \in BarType
      BY <2>1, PartOfReport
    <2> QED
      BY <2>2 DEF BarType
  <1>6. both # {} => e \in both
    <2>1. IsFiniteSet(both) /\ both \subseteq Int
      <3>1. both \in SUBSET DOMAIN x
        BY DEF FadeStops, FadeWins
      <3> QED
        BY <1>5, <3>1, FS_Subset
    <2> HIDE DEF both
    <2> QED
      BY <2>1, MinIsLeast
  <1>7. /\ t.won <=> FadeWins(d) # {} /\ e \notin FadeStops(d, m)
        /\ t.points = IF both = {} THEN s * (d.close - d.open)
                      ELSE IF e \in FadeStops(d, m) THEN -m ELSE g
    <2> HIDE DEF g
    <2>1. m = rr * Abs(d.open - d.prev_close)
      BY DEF g
    <2> HIDE DEF m
    <2> QED
      BY <2>1, FadeIs DEF g
  <1> DEFINE filled == IF d.open - d.prev_close > 0 THEN d.low =< d.prev_close
                       ELSE d.high >= d.prev_close
  <1>8. FadeWins(d) # {} <=> filled
    <2>1. /\ \A i \in DOMAIN x : d.low =< x[i].l /\ x[i].h =< d.high
          /\ \E i \in DOMAIN x : x[i].h = d.high
          /\ \E i \in DOMAIN x : x[i].l = d.low
      BY <1>1 DEF EndsOf
    <2>2. CASE d.open - d.prev_close < 0
      <3>1. FadeWins(d) = {j \in DOMAIN x : x[j].h >= d.prev_close}
        BY <1>2, <2>2 DEF FadeWins, FadeSide, Far
      <3> QED
        BY <1>2, <1>5, <2>1, <2>2, <3>1
    <2>3. CASE d.open - d.prev_close > 0
      <3>1. FadeWins(d) = {j \in DOMAIN x : x[j].l =< d.prev_close}
        <4>1. s = -1
          BY <1>2, <2>3 DEF FadeSide
        <4>2. \A j \in DOMAIN x :
                Far(x[j], s) >= s * d.prev_close <=> x[j].l =< d.prev_close
          BY <1>2, <1>5, <4>1 DEF Far
        <4> QED
          BY <4>2 DEF FadeWins
      <3> QED
        BY <1>2, <1>5, <2>1, <2>3, <3>1
    <2> QED
      BY <1>2, <2>2, <2>3
  <1>9. ASSUME both = {}
        PROVE  -m =< s * (d.close - d.open) /\ s * (d.close - d.open) < g
    <2>1. PICK i \in DOMAIN x : x[i].c = d.close
      BY <1>1 DEF EndsOf
    <2>2. i \notin FadeStops(d, m) /\ i \notin FadeWins(d)
      BY <1>9
    <2>3. ~(Near(x[i], s) =< s * d.open - m) /\ ~(Far(x[i], s) >= s * d.prev_close)
      BY <2>1, <2>2 DEF FadeStops, FadeWins
    <2>4. /\ x[i].h \in Nat /\ x[i].l \in Nat
          /\ x[i].l =< d.close /\ d.close =< x[i].h
      BY <1>5, <2>1
    <2>5. CASE d.open - d.prev_close < 0
      <3>1. s = 1 /\ g = d.prev_close - d.open
        BY <1>2, <2>5 DEF FadeSide, Abs
      <3>2. ~(x[i].l =< d.open - m) /\ ~(x[i].h >= d.prev_close)
        BY <1>2, <2>3, <3>1 DEF Near, Far
      <3> HIDE DEF m, s, g
      <3> QED
        BY <1>2, <1>4, <2>4, <3>1, <3>2
    <2>6. CASE d.open - d.prev_close > 0
      <3>1. s = -1 /\ g = d.open - d.prev_close
        BY <1>2, <2>6 DEF FadeSide, Abs
      <3>2. ~(-x[i].h =< -d.open - m) /\ ~(-x[i].l >= -d.prev_close)
        BY <1>2, <2>3, <3>1 DEF Near, Far
      <3> HIDE DEF m, s, g
      <3> QED
        BY <1>2, <1>4, <2>4, <3>1, <3>2
    <2> QED
      BY <1>2, <2>5, <2>6
  <1>10. /\ t.won => filled /\ t.points = g
         /\ ~t.won => t.points < g
         /\ filled /\ ~t.won => t.points = -m
         /\ -m =< t.points
    <2> DEFINE S == FadeStops(d, m)
               W == FadeWins(d)
               p == s * (d.close - d.open)
    <2>1. both = S \cup W
      OBVIOUS
    <2> HIDE DEF t, g, m, s, both, e, filled, S, W, p
    <2>2. /\ t.won <=> W # {} /\ e \notin S
          /\ t.points = IF both = {} THEN p ELSE IF e \in S THEN -m ELSE g
          /\ both = {} => -m =< p /\ p < g
          /\ W # {} <=> filled
      BY <1>7, <1>8, <1>9 DEF S, W, p
    <2>3. CASE both = {}
      BY <2>1, <2>2, <2>3
    <2>4. CASE both # {} /\ e \in S
      BY <1>3, <1>4, <2>1, <2>2, <2>4
    <2>5. CASE both # {} /\ e \notin S
      BY <1>3, <1>4, <1>6, <2>1, <2>2, <2>5
    <2> QED
      BY <2>3, <2>4, <2>5
  <1> QED
    BY <1>10 DEF FadeRight
-----------------------------------------------------------------------------
(* The reports on one list of days. *)

LEMMA FadesFollow ==
    ASSUME Reported
    PROVE  FadesFollowGaps
  <1> SUFFICES ASSUME NEW k \in DOMAIN Buckets, NEW dir \in Directions,
                      NEW rr \in {1, 2}
               PROVE  LET T == Reports!FadeTrades(Days, [min |-> Buckets[k][1],
                                 max |-> Buckets[k][2], dirs |-> {dir}, rr |-> rr])
                          gaps == Reports!GapFillBySize(Days)[k][dir]
                          Gap(t) == Abs(Reports!Gap(t.day))
                          Lost(t) == t.points = -rr * Gap(t)
                      IN /\ Cardinality(T) = gaps.n
                         /\ Cardinality({t \in T : t.won}) <= gaps.filled
                         /\ \A t \in T :
                              /\ t.won => t.points = Gap(t)
                              /\ ~t.won => t.points < Gap(t)
                              /\ Reports!Filled(t.day) /\ ~t.won => Lost(t)
                              /\ -rr * Gap(t) <= t.points
    BY DEF FadesFollowGaps
  <1> DEFINE cfg == [min |-> Buckets[k][1], max |-> Buckets[k][2],
                     dirs |-> {dir}, rr |-> rr]
             T == Reports!FadeTrades(Days, cfg)
             gaps == Reports!GapFillBySize(Days)[k][dir]
             X == Gaps({d \in Days : InSize(d, k)}, dir)
             Y == {d \in X : Reports!Filled(d)}
             f == [d \in X |-> Reports!Fade(d, rr)]
             W == {t \in T : t.won}
  <1>1. T = {f[d] : d \in X}
    <2>1. {d \in Days : /\ Reports!InBucket(d, cfg.min, cfg.max)
                        /\ \/ Reports!Gap(d) > 0 /\ "up" \in cfg.dirs
                           \/ Reports!Gap(d) < 0 /\ "down" \in cfg.dirs} = X
      BY DEF Gaps, InSize, Directions
    <2>2. T = {Reports!Fade(d, cfg.rr) : d \in X}
      BY <2>1 DEF Reports!FadeTrades
    <2>3. cfg.rr = rr /\ \A d \in X : f[d] = Reports!Fade(d, rr)
      OBVIOUS
    <2> HIDE DEF T, X, f, cfg
    <2> QED
      BY <2>2, <2>3
  <1>2. gaps.n = Cardinality(X) /\ gaps.filled = Cardinality(Y)
    <2> DEFINE Sized == {d \in Days : InSize(d, k)}
    <2>1. gaps = Reports!GapFill(Sized)[dir]
      BY DEF Reports!GapFillBySize, InSize
    <2> HIDE DEF Sized, gaps
    <2>2. LET G == Gaps(Sized, dir)
          IN /\ Reports!GapFill(Sized)[dir].n = Cardinality(G)
             /\ Reports!GapFill(Sized)[dir].filled =
                  Cardinality({d \in G : Reports!Filled(d)})
      BY GapFillIs
    <2> QED
      BY <2>1, <2>2 DEF Sized
  <1>3. /\ IsFiniteSet(X) /\ Y \in SUBSET X
        /\ \A d \in X : IsDay(d) /\ d.open - d.prev_close # 0
    <2>1. X \in SUBSET Days
      BY DEF Gaps
    <2>2. IsFiniteSet(X) /\ \A d \in X : IsDay(d) /\ DayNumbers(d)
      <3> HIDE DEF X
      <3> QED
        BY <2>1, ReportDays, NumbersOfDay, FS_Subset
    <2>3. \A d \in X : Reports!Gap(d) > 0 \/ Reports!Gap(d) < 0
      BY DEF Gaps
    <2>4. \A d \in X : d.open \in Nat /\ d.prev_close \in Nat
      BY <2>2 DEF DayNumbers
    <2>5. \A d \in X : d.open - d.prev_close # 0
      <3> HIDE DEF X
      <3> QED
        BY <2>3, <2>4 DEF Reports!Gap
    <2> QED
      BY <2>2, <2>5
  <1>4. \A d \in X : f[d].day = d
    <2> TAKE d \in X
    <2>1. f[d] = Reports!Fade(d, rr)
      OBVIOUS
    <2>2. Reports!Fade(d, rr).day = d
      BY FadeIs
    <2> QED
      BY <2>1, <2>2
  <1>5. \A d \in X : FadeRight(f[d], d, rr * Abs(d.open - d.prev_close))
    <2> TAKE d \in X
    <2>1. f[d] = Reports!Fade(d, rr)
      OBVIOUS
    <2>2. FadeRight(Reports!Fade(d, rr), d, rr * Abs(d.open - d.prev_close))
      <3> HIDE DEF X
      <3> QED
        BY <1>3, FadeHolds
    <2> QED
      BY <2>1, <2>2
  <1>6. DOMAIN f = X
    OBVIOUS
  <1>7. \A d \in X : Reports!Filled(d) <=>
          (IF d.open - d.prev_close > 0 THEN d.low =< d.prev_close
           ELSE d.high >= d.prev_close)
    BY DEF Reports!Filled, Reports!Gap
  <1> HIDE DEF X, f, T, gaps
  <1>8. Cardinality(T) = Cardinality(X) /\ IsFiniteSet(T)
    <2>1. \A x, y \in X : f[x] = f[y] => x = y
      BY <1>4
    <2> QED
      BY <1>1, <1>3, <1>6, <2>1, AsManyImages
  <1>9. Cardinality(W) =< Cardinality(Y)
    <2> DEFINE h == [d \in Y |-> f[d]]
               V == {h[d] : d \in Y}
    <2>1. W \in SUBSET V
      <3> SUFFICES ASSUME NEW t \in W PROVE t \in V
        OBVIOUS
      <3>1. PICK d \in X : t = f[d]
        BY <1>1
      <3>2. d \in Y
        BY <1>5, <1>7, <3>1 DEF FadeRight
      <3> QED
        BY <3>1, <3>2
    <2>2. \A x, y \in Y : h[x] = h[y] => x = y
      BY <1>3, <1>4
    <2>3. IsFiniteSet(Y)
      BY <1>3, FS_Subset
    <2>4. DOMAIN h = Y
      OBVIOUS
    <2> HIDE DEF h, Y
    <2>5. IsFiniteSet(V) /\ Cardinality(V) = Cardinality(Y)
      BY <2>2, <2>3, <2>4, AsManyImages
    <2> HIDE DEF V, W
    <2>6. Cardinality(W) =< Cardinality(V)
      BY <2>1, <2>5, NoMoreThan
    <2> QED
      BY <2>5, <2>6
  <1>10. ASSUME NEW t \in T
         PROVE  LET g == Abs(Reports!Gap(t.day))
                IN /\ t.won => t.points = g
                   /\ ~t.won => t.points < g
                   /\ Reports!Filled(t.day) /\ ~t.won => t.points = -rr * g
                   /\ -rr * g <= t.points
    <2>1. PICK d \in X : t = f[d]
      BY <1>1
    <2>2. t.day = d /\ FadeRight(t, d, rr * Abs(d.open - d.prev_close))
      BY <1>4, <1>5, <2>1
    <2>3. Reports!Gap(d) = d.open - d.prev_close
      BY DEF Reports!Gap
    <2> DEFINE g == Abs(d.open - d.prev_close)
    <2>4. -rr * g = -(rr * g)
      <3>1. d.open \in Nat /\ d.prev_close \in Nat
        BY <1>3, NumbersOfDay DEF DayNumbers
      <3>2. g \in Int
        BY <3>1 DEF Abs
      <3> HIDE DEF g
      <3> QED
        BY <3>2
    <2>5. LET filled == Reports!Filled(d)
          IN /\ t.won => filled /\ t.points = g
             /\ ~t.won => t.points < g
             /\ filled /\ ~t.won => t.points = -(rr * g)
             /\ -(rr * g) =< t.points
      BY <1>7, <2>2 DEF FadeRight
    <2> HIDE DEF g
    <2> QED
      BY <2>2, <2>3, <2>4, <2>5 DEF g
  <1>11. /\ Cardinality(T) = gaps.n
         /\ Cardinality(W) <= gaps.filled
    BY <1>2, <1>8, <1>9
  <1> QED
    BY <1>10, <1>11 DEF T, gaps

LEMMA RangesFollow ==
    ASSUME Reported
    PROVE  RangesFollowOpenings
  <1> DEFINE above == {d \in Days : d.open > d.prev_high}
             below == {d \in Days : d.open < d.prev_low}
             pdh == {d \in Days : d.high > d.prev_high}
             pdl == {d \in Days : d.low < d.prev_low}
             ups == Gaps(Days, "up")
             downs == Gaps(Days, "down")
             orb(d) == [i \in Reports!OpeningRange(d) |-> d.intraday[i]]
             rest(d) == [i \in Reports!Rest(d) |-> d.intraday[i]]
             both == {d \in Days : /\ Reports!OpeningRange(d) # {}
                                   /\ Reports!Rest(d) # {}}
             up == {d \in both : Reports!High(rest(d)) > Reports!High(orb(d))}
             cont == {d \in up : d.close >= Reports!High(orb(d))}
  <1>1. IsFiniteSet(Days) /\ \A d \in Days : IsDay(d) /\ DayNumbers(d)
    BY ReportDays, NumbersOfDay
  <1>2. \A d \in Days :
          /\ d.open \in Nat /\ d.prev_close \in Nat /\ d.high \in Nat /\ d.low \in Nat
          /\ d.prev_high \in Nat /\ d.prev_low \in Nat
          /\ d.low =< d.open /\ d.open =< d.high
          /\ d.prev_low =< d.prev_close /\ d.prev_close =< d.prev_high
          /\ Reports!Gap(d) = d.open - d.prev_close
    BY <1>1 DEF DayNumbers, Reports!Gap
  <1>3. /\ above \in SUBSET pdh /\ below \in SUBSET pdl
        /\ above \in SUBSET ups /\ below \in SUBSET downs
        /\ above \cap below = {} /\ above \cup below \in SUBSET Days
        /\ up \in SUBSET both /\ cont \in SUBSET up
    BY <1>2 DEF Gaps
  <1>4. /\ IsFiniteSet(above) /\ IsFiniteSet(below)
        /\ IsFiniteSet(pdh) /\ IsFiniteSet(pdl)
        /\ IsFiniteSet(ups) /\ IsFiniteSet(downs)
        /\ IsFiniteSet(both) /\ IsFiniteSet(up)
    <2>1. /\ above \in SUBSET Days /\ below \in SUBSET Days
          /\ pdh \in SUBSET Days /\ pdl \in SUBSET Days
          /\ ups \in SUBSET Days /\ downs \in SUBSET Days
          /\ both \in SUBSET Days /\ up \in SUBSET Days
      BY DEF Gaps
    <2> HIDE DEF above, below, pdh, pdl, ups, downs, both, up
    <2> QED
      BY <1>1, <2>1, FS_Subset
  <1>5. /\ Reports!OpeningStats(Days).above = Cardinality(above)
        /\ Reports!OpeningStats(Days).below = Cardinality(below)
        /\ Reports!OpeningStats(Days).inside =
             Cardinality(Days) - Cardinality(above) - Cardinality(below)
    BY ReportEnds DEF Reports!OpeningStats
  <1>6. /\ Reports!PreviousDaysRange(Days).pdh = Cardinality(pdh)
        /\ Reports!PreviousDaysRange(Days).pdl = Cardinality(pdl)
    BY ReportEnds DEF Reports!PreviousDaysRange
  <1>7. /\ Reports!GapFill(Days).up.n = Cardinality(ups)
        /\ Reports!GapFill(Days).down.n = Cardinality(downs)
    <2>1. "up" \in Directions /\ "down" \in Directions
      BY DEF Directions
    <2>2. /\ Reports!GapFill(Days)["up"].n = Cardinality(ups)
          /\ Reports!GapFill(Days)["down"].n = Cardinality(downs)
      BY <2>1, GapFillIs
    <2> QED
      BY <2>2
  <1>8. /\ Reports!Orb(Days).n = Cardinality(both)
        /\ Reports!Orb(Days).up = Cardinality(up)
        /\ Reports!Orb(Days).cont = Cardinality(cont)
    BY ReportEnds DEF Reports!Orb
  <1> HIDE DEF above, below, pdh, pdl, ups, downs, both, up, cont
  <1>9. /\ Cardinality(above) =< Cardinality(pdh)
        /\ Cardinality(below) =< Cardinality(pdl)
        /\ Cardinality(above) =< Cardinality(ups)
        /\ Cardinality(below) =< Cardinality(downs)
        /\ Cardinality(up) =< Cardinality(both)
        /\ Cardinality(cont) =< Cardinality(up)
    BY <1>3, <1>4, NoMoreThan
  <1>10. Cardinality(Days) - Cardinality(above) - Cardinality(below) >= 0
    <2>1. Cardinality(above \cup below) = Cardinality(above) + Cardinality(below)
      BY <1>3, <1>4, ApartAdd
    <2>2. Cardinality(above \cup below) =< Cardinality(Days) /\ Cardinality(Days) \in Nat
      BY <1>1, <1>3, NoMoreThan
    <2>3. Cardinality(above) \in Nat /\ Cardinality(below) \in Nat
      BY <1>4, FS_CardinalityType
    <2> QED
      BY <2>1, <2>2, <2>3
  <1> QED
    BY <1>5, <1>6, <1>7, <1>8, <1>9, <1>10 DEF RangesFollowOpenings

(* The reports of a list of days tell one story, whatever the bars, the      *)
(* session, the opening range and the buckets, as long as these start at no  *)
(* gap, follow one another and reach beyond every gap (edgeful_reports.py:   *)
(* 39-40, 59-170).                                                 *)
THEOREM GapReportsAgree == Spec => []GapViewsAgree
  <1>1. StreamInv /\ ShapedInv => GapViewsAgree
    <2> SUFFICES ASSUME StreamInv, ShapedInv, program = "days"
                 PROVE  BucketsPartGaps /\ FadesFollowGaps /\ RangesFollowOpenings
      BY DEF GapViewsAgree
    <2>1. Reported
      BY DEF StreamInv, ShapedInv, Reported, Sorted
    <2> QED
      BY <2>1, BucketsPart, FadesFollow, RangesFollow
  <1> QED
    BY <1>1, SpecStreams, SpecShaped, PTL DEF StreamsInv
=============================================================================
