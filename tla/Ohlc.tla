------------------------------- MODULE Ohlc -------------------------------
(***************************************************************************)
(* Bars, the bucket a bar falls into, and src/data/resample.py, which      *)
(* builds the bars of a longer timeframe from a whole file of short ones.  *)
(* Time counts in bars of the shortest timeframe.                          *)
(***************************************************************************)
EXTENDS Amounts, SequencesExt

Bar(ts, s) ==
    [ts |-> ts, o |-> s.o, h |-> s.h, l |-> s.l, c |-> s.c, v |-> s.v]

\* The ends of a bar for a trade of side d, signed: prices times the side, so
\* that up is what the trade wants.
Far(b, d)  == IF d = 1 THEN b.h ELSE -b.l
Near(b, d) == IF d = 1 THEN b.l ELSE -b.h

\* Clock-aligned, labelled by its start.
Bucket(ts, step) == ts - (ts % step)

\* A bar grows by one that falls into the same bucket.
Merge(b, r) ==
    [b EXCEPT !.h = Greatest(@, r.h), !.l = Least(@, r.l),
              !.c = r.c, !.v = @ + r.v]

\* A row of the file starts a bucket or grows the one it falls into.
Put(B, r, step) ==
    LET k == Bucket(r.ts, step)
    IN [q \in DOMAIN B \cup {k} |->
          IF q # k THEN B[q]
          ELSE IF k \in DOMAIN B THEN Merge(B[k], r) ELSE [r EXCEPT !.ts = k]]

\* One bar per bucket any row falls into, in the order of the buckets,
\* whatever the order of the rows; rows gives them by their line numbers.
Resample(rows, step) ==
    LET buckets == MapThenFoldSet(LAMBDA r, B : Put(B, r, step), <<>>,
                                  LAMBDA i : rows[i], LAMBDA I : Max(I),
                                  DOMAIN rows)
        Place(k) == Cardinality({q \in DOMAIN buckets : q <= k})
    IN [i \in 1..Cardinality(DOMAIN buckets) |->
          buckets[CHOOSE k \in DOMAIN buckets : Place(k) = i]]
=============================================================================
