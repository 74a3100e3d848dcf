---------------------------- MODULE FoldTheorems ----------------------------
(***************************************************************************)
(* Facts about the folds the models compute with: sums over finite sets    *)
(* and over sequences, and the largest and least of a set of integers.     *)
(*                                                                         *)
(* A fold is defined by recursion over the subsets of what it folds.  That *)
(* such a function exists, and that it is the same for a part of the set,  *)
(* is proved here from the well-foundedness of the subsets of a finite     *)
(* set.  Since no theorem can take an operator, what is folded is given by *)
(* functions: pick chooses the next element, step adds it.                 *)
(*                                                                         *)
(* And facts about lists in an order: a list of a finite set in which each *)
(* is at the place that those before it leave, which is the only one in    *)
(* that order, and what a stable sort by a key returns.                    *)
(***************************************************************************)
EXTENDS Integers, SequencesExt, FiniteSetTheorems, WellFoundedInduction, TLAPS

IsFold(g, S, pick, step, base) ==
    g = [s \in SUBSET S |->
           IF s = {} THEN base ELSE step[<<pick[s], g[s \ {pick[s]}]>>]]

\* A set of finite sets has a least one, of those that are part of another.
LEMMA LeastSubset ==
    ASSUME NEW S, IsFiniteSet(S), NEW C \in SUBSET (SUBSET S), C # {}
    PROVE  \E s \in C : \A t \in C : t \subseteq s => t = s
  <1>1. IsWellFoundedOn(StrictSubsetOrdering(S), FiniteSubsetsOf(S))
    BY FS_StrictSubsetOrderingWellFounded
  <1>2. C \subseteq FiniteSubsetsOf(S)
    BY FS_Subset DEF FiniteSubsetsOf
  <1>3. PICK s \in C : \A t \in C : <<t, s>> \notin StrictSubsetOrdering(S)
    BY <1>1, <1>2, WFMin, Zenon
  <1>4. \A t \in C : t \subseteq s => t = s
    BY <1>3 DEF StrictSubsetOrdering
  <1> QED
    BY <1>4
-----------------------------------------------------------------------------
(* Folds in general. *)

\* pick chooses of every part of S, step stays in V.
Folds(S, V, pick, step, base) ==
    /\ \A s \in SUBSET S : s # {} => pick[s] \in s
    /\ \A x \in S, v \in V : step[<<x, v>>] \in V
    /\ base \in V

LEMMA FoldUnfold ==
    ASSUME NEW g, NEW S, NEW pick, NEW step, NEW base,
           IsFold(g, S, pick, step, base)
    PROVE  \A s \in SUBSET S :
             /\ s = {} => g[s] = base
             /\ s # {} => g[s] = step[<<pick[s], g[s \ {pick[s]}]>>]
  BY DEF IsFold

LEMMA FoldInRange ==
    ASSUME NEW S, IsFiniteSet(S), NEW V, NEW pick, NEW step, NEW base,
           Folds(S, V, pick, step, base),
           NEW g, IsFold(g, S, pick, step, base)
    PROVE  g \in [SUBSET S -> V]
  <1> DEFINE C == {s \in SUBSET S : g[s] \notin V}
  <1>0. \A s \in SUBSET S :
          /\ s = {} => g[s] = base
          /\ s # {} => g[s] = step[<<pick[s], g[s \ {pick[s]}]>>]
    BY FoldUnfold
  <1>1. ASSUME C # {} PROVE FALSE
    <2>1. PICK s \in C : \A t \in C : t \subseteq s => t = s
      <3>1. C \in SUBSET (SUBSET S)
        OBVIOUS
      <3> HIDE DEF C
      <3> QED
        BY <1>1, <3>1, LeastSubset
    <2> HIDE DEF C
    <2>a. s \in SUBSET S /\ g[s] \notin V
      BY DEF C
    <2>2. s # {}
      BY <2>a, <1>0 DEF Folds
    <2>3. pick[s] \in s /\ pick[s] \in S
      BY <2>a, <2>2 DEF Folds
    <2>4. g[s \ {pick[s]}] \in V
      BY <2>1, <2>3, <2>a DEF C
    <2>5. g[s] = step[<<pick[s], g[s \ {pick[s]}]>>]
      BY <2>a, <2>2, <1>0
    <2>6. step[<<pick[s], g[s \ {pick[s]}]>>] \in V
      BY <2>3, <2>4 DEF Folds
    <2> QED
      BY <2>a, <2>5, <2>6
  <1>2. DOMAIN g = SUBSET S /\ g = [s \in DOMAIN g |-> g[s]]
    BY DEF IsFold
  <1> QED
    BY <1>1, <1>2

\* Folding a part of a set does not depend on the rest of it.
LEMMA FoldAgree ==
    ASSUME NEW S, IsFiniteSet(S), NEW T, S \subseteq T, NEW V,
           NEW pick, NEW step, NEW more, NEW base,
           Folds(S, V, pick, step, base),
           \A x \in S, v \in V : step[<<x, v>>] = more[<<x, v>>],
           NEW g, IsFold(g, S, pick, step, base),
           NEW h, IsFold(h, T, pick, more, base)
    PROVE  \A s \in SUBSET S : g[s] = h[s]
  <1> DEFINE C == {s \in SUBSET S : g[s] # h[s]}
  <1> SUFFICES ASSUME C # {} PROVE FALSE
    OBVIOUS
  <1>1. PICK s \in C : \A t \in C : t \subseteq s => t = s
    <2>1. C \in SUBSET (SUBSET S)
      OBVIOUS
    <2> HIDE DEF C
    <2> QED
      BY <2>1, LeastSubset
  <1> HIDE DEF C
  <1>a. s \in SUBSET S /\ s \in SUBSET T /\ g[s] # h[s]
    BY DEF C
  <1>g. \A t \in SUBSET S :
          /\ t = {} => g[t] = base
          /\ t # {} => g[t] = step[<<pick[t], g[t \ {pick[t]}]>>]
    BY FoldUnfold
  <1>h. \A t \in SUBSET T :
          /\ t = {} => h[t] = base
          /\ t # {} => h[t] = more[<<pick[t], h[t \ {pick[t]}]>>]
    BY FoldUnfold
  <1>2. s # {}
    BY <1>a, <1>g, <1>h
  <1>3. pick[s] \in s /\ pick[s] \in S /\ s \ {pick[s]} \in SUBSET S
    BY <1>a, <1>2 DEF Folds
  <1>4. g[s \ {pick[s]}] = h[s \ {pick[s]}]
    BY <1>1, <1>3 DEF C
  <1>5. g[s \ {pick[s]}] \in V
    <2>1. g \in [SUBSET S -> V]
      BY FoldInRange
    <2> QED
      BY <1>3, <2>1
  <1>6. g[s] = step[<<pick[s], g[s \ {pick[s]}]>>]
    BY <1>a, <1>2, <1>g
  <1>7. h[s] = more[<<pick[s], h[s \ {pick[s]}]>>]
    BY <1>a, <1>2, <1>h
  <1>8. step[<<pick[s], g[s \ {pick[s]}]>>] = more[<<pick[s], g[s \ {pick[s]}]>>]
    BY <1>3, <1>5
  <1> QED
    BY <1>a, <1>4, <1>6, <1>7, <1>8

\* Every finite set can be folded.
LEMMA FoldExists ==
    ASSUME NEW S, IsFiniteSet(S), NEW V, NEW pick, NEW step, NEW base,
           Folds(S, V, pick, step, base)
    PROVE  \E g : IsFold(g, S, pick, step, base)
  <1> DEFINE Has(s) == \E g : IsFold(g, s, pick, step, base)
             C == {s \in SUBSET S : ~Has(s)}
             F(s) == CHOOSE g : IsFold(g, s, pick, step, base)
             V0(s) == IF s = {} THEN base
                      ELSE step[<<pick[s], F(s \ {pick[s]})[s \ {pick[s]}]>>]
  <1>1. ASSUME C # {} PROVE FALSE
    <2>1. PICK T \in C : \A t \in C : t \subseteq T => t = T
      <3>1. C \in SUBSET (SUBSET S)
        OBVIOUS
      <3> HIDE DEF C
      <3> QED
        BY <1>1, <3>1, LeastSubset
    <2>2. \A t \in SUBSET T : t # T => IsFold(F(t), t, pick, step, base)
      BY <2>1
    <2> DEFINE g == [s \in SUBSET T |-> V0(s)]
    <2>3. ASSUME NEW t \in SUBSET T, t # T
          PROVE  g[t] = F(t)[t]
      <3>1. IsFold(F(t), t, pick, step, base)
        BY <2>2, <2>3
      <3>2. CASE t = {}
        <4>1. F(t)[t] = base
          <5> DEFINE f == F(t)
          <5>1. IsFold(f, t, pick, step, base)
            BY <3>1
          <5> HIDE DEF f
          <5>2. f[t] = base
            BY <3>2, <5>1 DEF IsFold
          <5> QED
            BY <5>2 DEF f
        <4>2. g[t] = base
          BY <3>2
        <4> QED
          BY <4>1, <4>2
      <3>3. CASE t # {}
        <4> DEFINE u == t \ {pick[t]}
        <4>1. pick[t] \in t
          BY <3>3 DEF Folds
        <4>2. u \in SUBSET T /\ u # T /\ u \subseteq t /\ u \in SUBSET S
          BY <4>1
        <4>3. IsFold(F(u), u, pick, step, base)
          BY <2>2, <4>2
        <4>4. IsFiniteSet(u) /\ Folds(u, V, pick, step, base)
          BY <4>2, FS_Subset DEF Folds
        <4> HIDE DEF F, u
        <4>5. F(u)[u] = F(t)[u]
          <5> DEFINE f == F(u)
                     h == F(t)
          <5>1. IsFold(f, u, pick, step, base) /\ IsFold(h, t, pick, step, base)
            BY <3>1, <4>3
          <5>2. \A x \in u, v \in V : step[<<x, v>>] = step[<<x, v>>]
            OBVIOUS
          <5> HIDE DEF f, h
          <5>3. \A s \in SUBSET u : f[s] = h[s]
            BY <4>2, <4>4, <5>1, <5>2, FoldAgree
          <5>4. f[u] = h[u]
            BY <5>3
          <5> QED
            BY <5>4 DEF f, h
        <4>6. F(t)[t] = step[<<pick[t], F(t)[u]>>]
          BY <3>1, <3>3, FoldUnfold DEF u
        <4>7. g[t] = step[<<pick[t], F(u)[u]>>]
          BY <3>3 DEF u
        <4> QED
          BY <4>5, <4>6, <4>7
      <3> QED
        BY <3>2, <3>3
    <2>4. ASSUME NEW s \in SUBSET T, s # {}
          PROVE  g[s] = step[<<pick[s], g[s \ {pick[s]}]>>]
      <3> DEFINE u == s \ {pick[s]}
      <3>1. u \in SUBSET T /\ u # T
        BY <2>4 DEF Folds
      <3>2. g[u] = F(u)[u]
        BY <2>3, <3>1
      <3>3. g[s] = step[<<pick[s], F(u)[u]>>]
        BY <2>4
      <3> QED
        BY <3>2, <3>3
    <2>5. {} \in SUBSET T => g[{}] = base
      OBVIOUS
    <2> HIDE DEF g
    <2>6. g = [s \in SUBSET T |-> g[s]]
      BY DEF g
    <2>7. IsFold(g, T, pick, step, base)
      BY <2>4, <2>5, <2>6 DEF IsFold
    <2> QED
      BY <2>1, <2>7
  <1> QED
    BY <1>1
-----------------------------------------------------------------------------
(* Sums over a finite set, MapThenSumSet of the community modules. *)

Some(s) == CHOOSE x \in s : TRUE

SumFold(f, S) ==
    CHOOSE g : g = [s \in SUBSET S |->
                      IF s = {} THEN 0 ELSE f[Some(s)] + g[s \ {Some(s)}]]

SumOver(f, S) == SumFold(f, S)[S]

PickSome(S) == [s \in SUBSET S |-> Some(s)]
AddValue(f, S) == [p \in S \X Int |-> f[p[1]] + p[2]]

LEMMA SumFolds ==
    ASSUME NEW S, NEW f, \A x \in S : f[x] \in Int
    PROVE  Folds(S, Int, PickSome(S), AddValue(f, S), 0)
  BY DEF Folds, PickSome, AddValue, Some

\* The sum's recursion is a fold, and there is one.
LEMMA SumFoldIsFold ==
    ASSUME NEW S, IsFiniteSet(S), NEW f, \A x \in S : f[x] \in Int
    PROVE  /\ IsFold(SumFold(f, S), S, PickSome(S), AddValue(f, S), 0)
           /\ \A s \in SUBSET S :
                /\ SumFold(f, S)[s] \in Int
                /\ s = {} => SumFold(f, S)[s] = 0
                /\ s # {} => SumFold(f, S)[s] =
                               f[Some(s)] + SumFold(f, S)[s \ {Some(s)}]
  <1> DEFINE Rec(g) ==
        g = [s \in SUBSET S |->
               IF s = {} THEN 0 ELSE f[Some(s)] + g[s \ {Some(s)}]]
  <1>1. Folds(S, Int, PickSome(S), AddValue(f, S), 0)
    BY SumFolds
  <1>2. PICK g : IsFold(g, S, PickSome(S), AddValue(f, S), 0)
    BY <1>1, FoldExists
  <1>3. g \in [SUBSET S -> Int]
    BY <1>1, <1>2, FoldInRange
  <1>4. \A s \in SUBSET S : s # {} => Some(s) \in s
    BY DEF Some
  <1>5. \A s \in SUBSET S : s # {} =>
          AddValue(f, S)[<<PickSome(S)[s], g[s \ {PickSome(S)[s]}]>>]
            = f[Some(s)] + g[s \ {Some(s)}]
    BY <1>3, <1>4 DEF AddValue, PickSome
  <1>6. Rec(g)
    BY <1>2, <1>5 DEF IsFold
  <1>7. Rec(SumFold(f, S))
    BY <1>6 DEF SumFold
  <1> DEFINE G == SumFold(f, S)
  <1> HIDE DEF G
  <1>8. Rec(G)
    BY <1>7 DEF G
  <1> DEFINE D == {s \in SUBSET S : G[s] \notin Int}
  <1>9. D = {}
    <2> SUFFICES ASSUME D # {} PROVE FALSE
      OBVIOUS
    <2>1. PICK s \in D : \A t \in D : t \subseteq s => t = s
      <3>1. D \in SUBSET (SUBSET S)
        OBVIOUS
      <3> HIDE DEF D
      <3> QED
        BY <3>1, LeastSubset
    <2>2. s # {}
      BY <2>1, <1>8
    <2>3. Some(s) \in s /\ s \ {Some(s)} \in SUBSET S /\ s \ {Some(s)} # s
      BY <1>4, <2>1, <2>2
    <2>4. G[s \ {Some(s)}] \in Int
      BY <2>1, <2>3
    <2>5. G[s] = f[Some(s)] + G[s \ {Some(s)}]
      BY <1>8, <2>1, <2>2
    <2> QED
      BY <2>1, <2>3, <2>4, <2>5
  <1>10. \A s \in SUBSET S :
           /\ G[s] \in Int
           /\ s = {} => G[s] = 0
           /\ s # {} => G[s] = f[Some(s)] + G[s \ {Some(s)}]
    BY <1>8, <1>9
  <1>11. \A s \in SUBSET S : s # {} =>
          AddValue(f, S)[<<PickSome(S)[s], G[s \ {PickSome(S)[s]}]>>]
            = f[Some(s)] + G[s \ {Some(s)}]
    BY <1>10, <1>4 DEF AddValue, PickSome
  <1>12. IsFold(G, S, PickSome(S), AddValue(f, S), 0)
    BY <1>8, <1>11 DEF IsFold
  <1> QED
    BY <1>10, <1>12 DEF G

\* Where two functions agree, so do their sums, over the set and its parts.
LEMMA SumFoldAgree ==
    ASSUME NEW T, IsFiniteSet(T), NEW S \in SUBSET T, NEW f, NEW h,
           \A x \in T : f[x] \in Int /\ h[x] \in Int,
           \A x \in S : f[x] = h[x]
    PROVE  \A s \in SUBSET S : SumFold(f, S)[s] = SumFold(h, T)[s]
  <1> DEFINE F == SumFold(f, S)
             H == SumFold(h, T)
             D == {s \in SUBSET S : F[s] # H[s]}
  <1>0. IsFiniteSet(S) /\ \A x \in S : f[x] \in Int
    BY FS_Subset
  <1>1. \A s \in SUBSET S :
          /\ s = {} => F[s] = 0
          /\ s # {} => F[s] = f[Some(s)] + F[s \ {Some(s)}]
    BY <1>0, SumFoldIsFold
  <1>2. \A s \in SUBSET T :
          /\ s = {} => H[s] = 0
          /\ s # {} => H[s] = h[Some(s)] + H[s \ {Some(s)}]
    BY SumFoldIsFold
  <1> HIDE DEF F, H
  <1> SUFFICES ASSUME D # {} PROVE FALSE
    BY DEF F, H
  <1>3. PICK s \in D : \A t \in D : t \subseteq s => t = s
    <2>1. D \in SUBSET (SUBSET S)
      OBVIOUS
    <2> HIDE DEF D
    <2> QED
      BY <1>0, <2>1, LeastSubset
  <1>4. s # {}
    BY <1>1, <1>2, <1>3
  <1>5. Some(s) \in s /\ s \ {Some(s)} \in SUBSET S /\ s \ {Some(s)} # s
    BY <1>3, <1>4 DEF Some
  <1>6. F[s \ {Some(s)}] = H[s \ {Some(s)}]
    BY <1>3, <1>5
  <1> QED
    BY <1>1, <1>2, <1>3, <1>4, <1>5, <1>6

LEMMA SumOverInt ==
    ASSUME NEW S, IsFiniteSet(S), NEW f, \A x \in S : f[x] \in Int
    PROVE  SumOver(f, S) \in Int
  BY SumFoldIsFold DEF SumOver

LEMMA SumOverNone ==
    ASSUME NEW f PROVE SumOver(f, {}) = 0
  BY SumFoldIsFold, FS_EmptySet DEF SumOver

LEMMA SumOverSame ==
    ASSUME NEW S, IsFiniteSet(S), NEW f, NEW h,
           \A x \in S : f[x] \in Int /\ f[x] = h[x]
    PROVE  SumOver(f, S) = SumOver(h, S)
  BY SumFoldAgree DEF SumOver

\* Any element can be taken out of a sum.
LEMMA SumOverRemove ==
    ASSUME NEW S, IsFiniteSet(S), NEW f, \A x \in S : f[x] \in Int, NEW y \in S
    PROVE  SumOver(f, S) = f[y] + SumOver(f, S \ {y})
  <1> DEFINE F == SumFold(f, S)
             D == {s \in SUBSET S : \E x \in s : F[s] # f[x] + F[s \ {x}]}
  <1>1. \A s \in SUBSET S :
          /\ F[s] \in Int
          /\ s # {} => F[s] = f[Some(s)] + F[s \ {Some(s)}]
    BY SumFoldIsFold
  <1>2. \A s \in SUBSET S : SumOver(f, s) = F[s]
    <2> TAKE s \in SUBSET S
    <2> QED
      BY SumFoldAgree DEF SumOver
  <1> HIDE DEF F
  <1>3. D = {}
    <2> SUFFICES ASSUME D # {} PROVE FALSE
      OBVIOUS
    <2>1. PICK s \in D : \A t \in D : t \subseteq s => t = s
      <3>1. D \in SUBSET (SUBSET S)
        OBVIOUS
      <3> HIDE DEF D
      <3> QED
        BY <3>1, LeastSubset
    <2>2. PICK x \in s : F[s] # f[x] + F[s \ {x}]
      BY <2>1
    <2> DEFINE p == Some(s)
    <2>3. p \in s /\ F[s] = f[p] + F[s \ {p}]
      BY <1>1, <2>1, <2>2 DEF Some
    <2> HIDE DEF p
    <2>4. x # p
      BY <2>2, <2>3
    <2> DEFINE r == (s \ {x}) \ {p}
    <2>5. (s \ {p}) \ {x} = r /\ r \in SUBSET S
      BY <2>1
    <2>6. F[s \ {p}] = f[x] + F[(s \ {p}) \ {x}]
      BY <2>1, <2>2, <2>3, <2>4
    <2>7. F[s \ {x}] = f[p] + F[r]
      BY <2>1, <2>2, <2>3, <2>4
    <2> HIDE DEF r, D
    <2>8. F[r] \in Int /\ f[x] \in Int /\ f[p] \in Int
      BY <1>1, <2>1, <2>2, <2>3, <2>5 DEF D
    <2>9. F[s \ {p}] = f[x] + F[r]
      BY <2>5, <2>6
    <2> QED
      BY <2>2, <2>3, <2>7, <2>8, <2>9
  <1>4. F[S] = f[y] + F[S \ {y}]
    BY <1>3
  <1> QED
    BY <1>2, <1>4

\* What one value's change does to the sum.
LEMMA SumOverChange ==
    ASSUME NEW S, IsFiniteSet(S), NEW f, NEW h, NEW y \in S,
           \A x \in S : f[x] \in Int /\ h[x] \in Int,
           \A x \in S \ {y} : h[x] = f[x]
    PROVE  SumOver(h, S) = SumOver(f, S) - f[y] + h[y]
  <1>1. IsFiniteSet(S \ {y})
    BY FS_Subset
  <1>2. SumOver(h, S) = h[y] + SumOver(h, S \ {y})
    BY SumOverRemove
  <1>3. SumOver(f, S) = f[y] + SumOver(f, S \ {y})
    BY SumOverRemove
  <1>4. SumOver(f, S \ {y}) = SumOver(h, S \ {y})
    BY <1>1, SumOverSame
  <1>5. SumOver(f, S \ {y}) \in Int
    BY <1>1, SumOverInt
  <1> QED
    BY <1>2, <1>3, <1>4, <1>5

\* Zeros add up to nothing.
LEMMA SumOverZero ==
    ASSUME NEW S, IsFiniteSet(S), NEW f, \A x \in S : f[x] = 0
    PROVE  SumOver(f, S) = 0
  <1> DEFINE F == SumFold(f, S)
             D == {s \in SUBSET S : F[s] # 0}
  <1>1. \A s \in SUBSET S :
          /\ s = {} => F[s] = 0
          /\ s # {} => F[s] = f[Some(s)] + F[s \ {Some(s)}]
    <2>1. \A x \in S : f[x] \in Int
      OBVIOUS
    <2> QED
      BY <2>1, SumFoldIsFold
  <1> HIDE DEF F
  <1>2. D = {}
    <2> SUFFICES ASSUME D # {} PROVE FALSE
      OBVIOUS
    <2>1. PICK s \in D : \A t \in D : t \subseteq s => t = s
      <3>1. D \in SUBSET (SUBSET S)
        OBVIOUS
      <3> HIDE DEF D
      <3> QED
        BY <3>1, LeastSubset
    <2>2. Some(s) \in s /\ F[s] = f[Some(s)] + F[s \ {Some(s)}]
      BY <1>1, <2>1 DEF Some
    <2>3. F[s \ {Some(s)}] = 0
      BY <2>1, <2>2
    <2> QED
      BY <2>1, <2>2, <2>3
  <1>3. F[S] = 0
    BY <1>2
  <1> QED
    BY <1>3 DEF F, SumOver

\* In whatever order the elements are taken, the sum is the same.
SumsInOrder(g, f, S, pick) ==
    g = [s \in SUBSET S |->
           IF s = {} THEN 0 ELSE g[s \ {pick[s]}] + f[pick[s]]]

Sums(f, S) == [s \in SUBSET S |-> SumOver(f, s)]

LEMMA SumAnyOrder ==
    ASSUME NEW S, IsFiniteSet(S), NEW f, \A x \in S : f[x] \in Int,
           NEW pick, \A s \in SUBSET S : s # {} => pick[s] \in s
    PROVE  /\ SumsInOrder(Sums(f, S), f, S, pick)
           /\ \A g : SumsInOrder(g, f, S, pick) =>
                       \A s \in SUBSET S : g[s] = SumOver(f, s)
  <1>0. \A s \in SUBSET S : IsFiniteSet(s)
    BY FS_Subset
  <1>1. \A s \in SUBSET S : s # {} =>
          SumOver(f, s) = f[pick[s]] + SumOver(f, s \ {pick[s]})
    <2> SUFFICES ASSUME NEW s \in SUBSET S, s # {}
                 PROVE  SumOver(f, s) = f[pick[s]] + SumOver(f, s \ {pick[s]})
      OBVIOUS
    <2>1. pick[s] \in s /\ IsFiniteSet(s) /\ \A x \in s : f[x] \in Int
      BY <1>0
    <2> DEFINE y == pick[s]
    <2> HIDE DEF y
    <2>2. SumOver(f, s) = f[y] + SumOver(f, s \ {y})
      BY <2>1, SumOverRemove DEF y
    <2> QED
      BY <2>2 DEF y
  <1>2. \A s \in SUBSET S : SumOver(f, s) \in Int
    <2> SUFFICES ASSUME NEW s \in SUBSET S PROVE SumOver(f, s) \in Int
      OBVIOUS
    <2> QED
      BY <1>0, SumOverInt
  <1>3. SumOver(f, {}) = 0
    BY SumOverNone
  <1>4. SumsInOrder(Sums(f, S), f, S, pick)
    <2> DEFINE g == Sums(f, S)
    <2>1. \A s \in SUBSET S : s # {} => g[s] = g[s \ {pick[s]}] + f[pick[s]]
      BY <1>1, <1>2 DEF Sums
    <2>2. {} \in SUBSET S => g[{}] = 0
      BY <1>3 DEF Sums
    <2>3. g = [s \in SUBSET S |-> g[s]]
      BY DEF Sums
    <2> HIDE DEF g
    <2>4. SumsInOrder(g, f, S, pick)
      BY <2>1, <2>2, <2>3 DEF SumsInOrder
    <2> QED
      BY <2>4 DEF g
  <1>5. ASSUME NEW g, SumsInOrder(g, f, S, pick)
        PROVE  \A s \in SUBSET S : g[s] = SumOver(f, s)
    <2> DEFINE D == {s \in SUBSET S : g[s] # SumOver(f, s)}
    <2> SUFFICES ASSUME D # {} PROVE FALSE
      OBVIOUS
    <2>0. \A s \in SUBSET S :
            /\ s = {} => g[s] = 0
            /\ s # {} => g[s] = g[s \ {pick[s]}] + f[pick[s]]
      BY <1>5 DEF SumsInOrder
    <2>1. PICK s \in D : \A t \in D : t \subseteq s => t = s
      <3>1. D \in SUBSET (SUBSET S)
        OBVIOUS
      <3> HIDE DEF D
      <3> QED
        BY <3>1, LeastSubset
    <2>2. s # {}
      BY <1>3, <2>0, <2>1
    <2>3. pick[s] \in s /\ s \ {pick[s]} \in SUBSET S /\ s \ {pick[s]} # s
      BY <2>1, <2>2
    <2>4. g[s \ {pick[s]}] = SumOver(f, s \ {pick[s]})
      BY <2>1, <2>3
    <2>5. /\ s \in SUBSET S /\ s # {}
          /\ g[s] # SumOver(f, s)
      BY <2>1, <2>2
    <2>6. g[s] = SumOver(f, s \ {pick[s]}) + f[pick[s]]
      BY <2>0, <2>4, <2>5
    <2>7. SumOver(f, s) = f[pick[s]] + SumOver(f, s \ {pick[s]})
      BY <1>1, <2>5
    <2>8. SumOver(f, s \ {pick[s]}) \in Int /\ f[pick[s]] \in Int
      BY <1>2, <2>3, <2>5
    <2> HIDE DEF D
    <2> QED
      BY <2>5, <2>6, <2>7, <2>8
  <1> QED
    BY <1>4, <1>5
-----------------------------------------------------------------------------
(* The largest and the least of a finite set of integers. *)

\* A function has an argument where it is least, on a finite set.
LEMMA ArgMinExists ==
    ASSUME NEW S, IsFiniteSet(S), S # {}, NEW f, \A x \in S : f[x] \in Int
    PROVE  \E m \in S : \A x \in S : f[m] =< f[x]
  <1> DEFINE HasLeast(s) == \E m \in s : \A x \in s : f[m] =< f[x]
             D == {s \in SUBSET S : s # {} /\ ~HasLeast(s)}
  <1> SUFFICES ASSUME D # {} PROVE FALSE
    OBVIOUS
  <1>1. PICK s \in D : \A t \in D : t \subseteq s => t = s
    <2>1. D \in SUBSET (SUBSET S)
      OBVIOUS
    <2> HIDE DEF D
    <2> QED
      BY <2>1, LeastSubset
  <1>2. s \in SUBSET S /\ s # {} /\ ~HasLeast(s)
    BY <1>1
  <1>3. PICK y \in s : TRUE
    BY <1>2
  <1>4. s \ {y} # {}
    <2>1. ~\A x \in s : f[y] =< f[x]
      BY <1>2
    <2>2. f[y] =< f[y]
      BY <1>2
    <2> QED
      BY <2>1, <2>2
  <1>5. s \ {y} \in SUBSET S /\ s \ {y} \subseteq s /\ s \ {y} # s
    BY <1>2
  <1>6. HasLeast(s \ {y})
    <2> HIDE DEF HasLeast
    <2> QED
      BY <1>1, <1>4, <1>5
  <1>7. PICK m \in s \ {y} : \A x \in s \ {y} : f[m] =< f[x]
    BY <1>6
  <1>8. f[m] \in Int /\ f[y] \in Int /\ \A x \in s : f[x] \in Int
    BY <1>2, <1>7
  <1>9. CASE f[m] =< f[y]
    <2>1. \A x \in s : f[m] =< f[x]
      BY <1>7, <1>9
    <2> QED
      BY <1>2, <2>1
  <1>10. CASE f[y] < f[m]
    <2>1. \A x \in s : f[y] =< f[x]
      BY <1>7, <1>8, <1>10
    <2> QED
      BY <1>2, <2>1
  <1> QED
    BY <1>8, <1>9, <1>10

LEMMA MinIsLeast ==
    ASSUME NEW S, IsFiniteSet(S), S \subseteq Int, S # {}
    PROVE  Min(S) \in S /\ \A x \in S : Min(S) =< x
  <1> DEFINE f == [x \in S |-> x]
  <1>1. \A x \in S : f[x] \in Int
    OBVIOUS
  <1> HIDE DEF f
  <1>2. PICK m \in S : \A x \in S : f[m] =< f[x]
    BY <1>1, ArgMinExists
  <1>3. \A x \in S : m =< x
    BY <1>2 DEF f
  <1> QED
    BY <1>3 DEF Min

LEMMA MaxIsLargest ==
    ASSUME NEW S, IsFiniteSet(S), S \subseteq Int, S # {}
    PROVE  Max(S) \in S /\ \A x \in S : Max(S) >= x
  <1> DEFINE f == [x \in S |-> -x]
  <1>1. \A x \in S : f[x] \in Int
    OBVIOUS
  <1> HIDE DEF f
  <1>2. PICK m \in S : \A x \in S : f[m] =< f[x]
    BY <1>1, ArgMinExists
  <1>3. \A x \in S : m >= x
    BY <1>2 DEF f
  <1> QED
    BY <1>3 DEF Max

LEMMA MinOfNats ==
    ASSUME NEW S \in SUBSET Nat, S # {}
    PROVE  Min(S) \in S /\ \A x \in S : Min(S) =< x
  <1> DEFINE R == {ss \in Nat \X Nat : ss[1] < ss[2]}
  <1>1. IsWellFoundedOn(R, Nat)
    BY NatLessThanWellFounded DEF OpToRel
  <1>2. PICK m \in S : \A x \in S : <<x, m>> \notin R
    BY <1>1, WFMin, Zenon
  <1>3. \A x, y \in Nat : x < y => <<x, y>> \in R
    OBVIOUS
  <1>4. \A x \in S : ~(x < m)
    BY <1>2, <1>3, Zenon
  <1>5. \A x \in S : m =< x
    BY <1>4
  <1> QED
    BY <1>5 DEF Min

\* Whatever the terms are read from, a sum by the same recursion is the same.
SumsBySome(g, f, S) ==
    g = [s \in SUBSET S |->
           IF s = {} THEN 0 ELSE f[Some(s)] + g[s \ {Some(s)}]]

LEMMA SumOneWay ==
    ASSUME NEW S, IsFiniteSet(S), NEW f, \A x \in S : f[x] \in Int
    PROVE  /\ SumsBySome(SumFold(f, S), f, S)
           /\ \A g : SumsBySome(g, f, S) => g[S] = SumOver(f, S)
  <1> DEFINE F == SumFold(f, S)
  <1>1. \A s \in SUBSET S :
          /\ F[s] \in Int
          /\ s = {} => F[s] = 0
          /\ s # {} => F[s] = f[Some(s)] + F[s \ {Some(s)}]
    BY SumFoldIsFold
  <1>2. F = [s \in SUBSET S |-> F[s]]
    <2>1. IsFold(F, S, PickSome(S), AddValue(f, S), 0)
      BY SumFoldIsFold
    <2> QED
      BY <2>1 DEF IsFold
  <1> HIDE DEF F
  <1>3. SumsBySome(F, f, S)
    BY <1>1, <1>2 DEF SumsBySome
  <1>4. ASSUME NEW g, SumsBySome(g, f, S) PROVE g[S] = F[S]
    <2> DEFINE D == {s \in SUBSET S : g[s] # F[s]}
    <2>1. \A s \in SUBSET S :
            /\ s = {} => g[s] = 0
            /\ s # {} => g[s] = f[Some(s)] + g[s \ {Some(s)}]
      BY <1>4 DEF SumsBySome
    <2>2. D = {}
      <3> SUFFICES ASSUME D # {} PROVE FALSE
        OBVIOUS
      <3>1. PICK s \in D : \A t \in D : t \subseteq s => t = s
        <4>1. D \in SUBSET (SUBSET S)
          OBVIOUS
        <4> HIDE DEF D
        <4> QED
          BY <4>1, LeastSubset
      <3>2. s # {} /\ s \in SUBSET S
        BY <1>1, <2>1, <3>1
      <3>3. Some(s) \in s /\ s \ {Some(s)} \in SUBSET S
        BY <3>2 DEF Some
      <3>4. g[s \ {Some(s)}] = F[s \ {Some(s)}]
        BY <3>1, <3>2, <3>3
      <3>5. g[s] = F[s]
        BY <1>1, <2>1, <3>2, <3>4
      <3> QED
        BY <3>1, <3>5
    <2> QED
      BY <2>2
  <1> QED
    BY <1>3, <1>4 DEF F, SumOver

\* Naturals add up to a natural, and to none only if there is none.
LEMMA SumOverNat ==
    ASSUME NEW S, IsFiniteSet(S), NEW f, \A x \in S : f[x] \in Nat
    PROVE  SumOver(f, S) \in Nat
  <1>1. Folds(S, Nat, PickSome(S), AddValue(f, S), 0)
    BY DEF Folds, PickSome, AddValue, Some
  <1>2. IsFold(SumFold(f, S), S, PickSome(S), AddValue(f, S), 0)
    <2>1. \A x \in S : f[x] \in Int
      OBVIOUS
    <2> QED
      BY <2>1, SumFoldIsFold
  <1>3. SumFold(f, S) \in [SUBSET S -> Nat]
    BY <1>1, <1>2, FoldInRange
  <1> QED
    BY <1>3 DEF SumOver

LEMMA SumOverPositive ==
    ASSUME NEW S, IsFiniteSet(S), NEW f, \A x \in S : f[x] \in Nat,
           NEW y \in S, f[y] > 0
    PROVE  SumOver(f, S) > 0
  <1>1. SumOver(f, S) = f[y] + SumOver(f, S \ {y})
    <2>1. \A x \in S : f[x] \in Int
      OBVIOUS
    <2> QED
      BY <2>1, SumOverRemove
  <1>2. SumOver(f, S \ {y}) \in Nat
    <2>1. IsFiniteSet(S \ {y}) /\ \A x \in S \ {y} : f[x] \in Nat
      BY FS_Subset
    <2> QED
      BY <2>1, SumOverNat
  <1> QED
    BY <1>1, <1>2

\* Sums of sums, of one value, and of larger values.
LEMMA SumOverAdd ==
    ASSUME NEW S, IsFiniteSet(S), NEW f, NEW h, NEW k,
           \A x \in S : /\ f[x] \in Int /\ h[x] \in Int
                        /\ k[x] = f[x] + h[x]
    PROVE  SumOver(k, S) = SumOver(f, S) + SumOver(h, S)
  <1> DEFINE D == {s \in SUBSET S : SumOver(k, s) # SumOver(f, s) + SumOver(h, s)}
  <1>1. D = {}
    <2> SUFFICES ASSUME D # {} PROVE FALSE
      OBVIOUS
    <2>1. PICK s \in D : \A t \in D : t \subseteq s => t = s
      <3>1. D \in SUBSET (SUBSET S)
        OBVIOUS
      <3> HIDE DEF D
      <3> QED
        BY <3>1, LeastSubset
    <2>2. s # {}
      <3>1. /\ SumOver(k, {}) = 0 /\ SumOver(f, {}) = 0 /\ SumOver(h, {}) = 0
        BY SumOverNone
      <3>2. SumOver(k, s) # SumOver(f, s) + SumOver(h, s)
        BY <2>1
      <3> HIDE DEF D
      <3>3. SumOver(k, {}) = SumOver(f, {}) + SumOver(h, {})
        BY <3>1
      <3> QED
        BY <3>2, <3>3, Zenon
    <2>3. PICK x \in s : TRUE
      BY <2>2
    <2>4. /\ IsFiniteSet(s) /\ IsFiniteSet(s \ {x})
          /\ \A y \in s : f[y] \in Int /\ h[y] \in Int /\ k[y] \in Int
          /\ \A y \in s \ {x} : f[y] \in Int /\ h[y] \in Int
      BY <2>1, FS_Subset
    <2>5. /\ SumOver(f, s) = f[x] + SumOver(f, s \ {x})
          /\ SumOver(h, s) = h[x] + SumOver(h, s \ {x})
          /\ SumOver(k, s) = k[x] + SumOver(k, s \ {x})
      BY <2>4, SumOverRemove
    <2>6. SumOver(k, s \ {x}) = SumOver(f, s \ {x}) + SumOver(h, s \ {x})
      BY <2>1, <2>3
    <2>7. SumOver(f, s \ {x}) \in Int /\ SumOver(h, s \ {x}) \in Int
      BY <2>4, SumOverInt
    <2>8. /\ f[x] \in Int /\ h[x] \in Int /\ k[x] = f[x] + h[x]
      BY <2>1, <2>3
    <2> HIDE DEF D
    <2>9. SumOver(k, s) = SumOver(f, s) + SumOver(h, s)
      BY <2>5, <2>6, <2>7, <2>8
    <2> QED
      BY <2>1, <2>9 DEF D
  <1> QED
    BY <1>1

LEMMA SumOverConstant ==
    ASSUME NEW S, IsFiniteSet(S), NEW c \in Int, NEW f, \A x \in S : f[x] = c
    PROVE  SumOver(f, S) = Cardinality(S) * c
  <1> DEFINE D == {s \in SUBSET S : SumOver(f, s) # Cardinality(s) * c}
  <1>1. D = {}
    <2> SUFFICES ASSUME D # {} PROVE FALSE
      OBVIOUS
    <2>1. PICK s \in D : \A t \in D : t \subseteq s => t = s
      <3>1. D \in SUBSET (SUBSET S)
        OBVIOUS
      <3> HIDE DEF D
      <3> QED
        BY <3>1, LeastSubset
    <2>2. s # {}
      <3>1. SumOver(f, {}) = 0 /\ Cardinality({}) = 0
        BY SumOverNone, FS_EmptySet
      <3>2. SumOver(f, s) # Cardinality(s) * c
        BY <2>1
      <3> HIDE DEF D
      <3>3. SumOver(f, {}) = Cardinality({}) * c
        BY <3>1
      <3> QED
        BY <3>2, <3>3, Zenon
    <2>3. PICK x \in s : TRUE
      BY <2>2
    <2>4. IsFiniteSet(s) /\ \A y \in s : f[y] \in Int
      BY <2>1, FS_Subset
    <2>5. SumOver(f, s) = c + SumOver(f, s \ {x})
      <3>1. SumOver(f, s) = f[x] + SumOver(f, s \ {x})
        BY <2>4, SumOverRemove
      <3>2. f[x] = c
        BY <2>1, <2>3
      <3> QED
        BY <3>1, <3>2
    <2>6. SumOver(f, s \ {x}) = Cardinality(s \ {x}) * c
      BY <2>1, <2>3
    <2>7. Cardinality(s \ {x}) = Cardinality(s) - 1 /\ Cardinality(s) \in Nat
      BY <2>4, FS_RemoveElement, FS_CardinalityType
    <2> DEFINE n == Cardinality(s)
    <2>8. n \in Nat /\ SumOver(f, s) = c + (n - 1) * c
      BY <2>5, <2>6, <2>7
    <2> HIDE DEF n, D
    <2>9. SumOver(f, s) = n * c
      BY <2>8
    <2> QED
      BY <2>1, <2>9 DEF D, n
  <1> QED
    BY <1>1

LEMMA SumOverLeq ==
    ASSUME NEW S, IsFiniteSet(S), NEW f, NEW h,
           \A x \in S : f[x] \in Int /\ h[x] \in Int /\ f[x] <= h[x]
    PROVE  SumOver(f, S) <= SumOver(h, S)
  <1> DEFINE r == [x \in S |-> h[x] - f[x]]
  <1>1. \A x \in S : r[x] \in Nat /\ r[x] \in Int /\ h[x] = f[x] + r[x]
    OBVIOUS
  <1> HIDE DEF r
  <1>2. SumOver(h, S) = SumOver(f, S) + SumOver(r, S)
    BY <1>1, SumOverAdd
  <1>3. SumOver(r, S) \in Nat
    BY <1>1, SumOverNat
  <1>4. SumOver(f, S) \in Int
    BY SumOverInt
  <1> QED
    BY <1>2, <1>3, <1>4

LEMMA SumOverOpposite ==
    ASSUME NEW S, IsFiniteSet(S), NEW f, NEW h,
           \A x \in S : f[x] \in Int /\ h[x] = -f[x]
    PROVE  SumOver(h, S) = -SumOver(f, S)
  <1> DEFINE z == [x \in S |-> 0]
  <1>1. \A x \in S : f[x] \in Int /\ h[x] \in Int /\ z[x] = f[x] + h[x]
    OBVIOUS
  <1>2. SumOver(z, S) = 0
    <2>1. \A x \in S : z[x] = 0
      OBVIOUS
    <2> HIDE DEF z
    <2> QED
      BY <2>1, SumOverZero
  <1> HIDE DEF z
  <1>3. SumOver(z, S) = SumOver(f, S) + SumOver(h, S)
    BY <1>1, SumOverAdd
  <1>4. SumOver(f, S) \in Int /\ SumOver(h, S) \in Int
    BY <1>1, SumOverInt
  <1> QED
    BY <1>2, <1>3, <1>4
-----------------------------------------------------------------------------
(* How many elements parts and images of a finite set have. *)

LEMMA ApartAdd ==
    ASSUME NEW A, IsFiniteSet(A), NEW B, IsFiniteSet(B), A \cap B = {}
    PROVE  Cardinality(A \cup B) = Cardinality(A) + Cardinality(B)
  <1>1. Cardinality(A \cup B) = Cardinality(A) + Cardinality(B)
                                   - Cardinality(A \cap B)
    BY FS_Union
  <1>2. Cardinality({}) = 0 /\ Cardinality(A) \in Nat /\ Cardinality(B) \in Nat
    BY FS_EmptySet, FS_CardinalityType
  <1>3. Cardinality(A \cap B) = Cardinality({})
    OBVIOUS
  <1> DEFINE a == Cardinality(A)
             b == Cardinality(B)
             u == Cardinality(A \cup B)
             n == Cardinality(A \cap B)
  <1>4. u = a + b - n /\ n = 0 /\ a \in Nat /\ b \in Nat
    BY <1>1, <1>2, <1>3
  <1> HIDE DEF a, b, u, n
  <1>5. u = a + b
    BY <1>4
  <1> QED
    BY <1>5 DEF a, b, u

\* Parts that share nothing add up to the whole.
LEMMA PartsAddUp ==
    ASSUME NEW D, IsFiniteSet(D), NEW K, IsFiniteSet(K), NEW P \in [K -> SUBSET D],
           \A j, k \in K : j # k => P[j] \cap P[k] = {},
           \A d \in D : \E k \in K : d \in P[k],
           NEW c, \A k \in K : c[k] = Cardinality(P[k])
    PROVE  Cardinality(D) = SumOver(c, K)
  <1> DEFINE U(s) == {d \in D : \E k \in s : d \in P[k]}
             Bad == {s \in SUBSET K : Cardinality(U(s)) # SumOver(c, s)}
  <1>1. \A k \in K : IsFiniteSet(P[k]) /\ Cardinality(P[k]) \in Nat /\ c[k] \in Int
    <2> SUFFICES ASSUME NEW k \in K
                 PROVE  IsFiniteSet(P[k]) /\ Cardinality(P[k]) \in Nat /\ c[k] \in Int
      OBVIOUS
    <2>1. IsFiniteSet(P[k])
      BY FS_Subset
    <2>2. Cardinality(P[k]) \in Nat
      BY <2>1, FS_CardinalityType
    <2> QED
      BY <2>1, <2>2
  <1>2. ASSUME Bad # {} PROVE FALSE
    <2>1. PICK s \in Bad : \A t \in Bad : t \subseteq s => t = s
      <3>1. Bad \in SUBSET (SUBSET K)
        OBVIOUS
      <3> HIDE DEF Bad
      <3> QED
        BY <1>2, <3>1, LeastSubset
    <2>2. s # {}
      <3>1. U({}) = {} /\ SumOver(c, {}) = 0
        BY SumOverNone
      <3> HIDE DEF U
      <3> QED
        BY <3>1, FS_EmptySet
    <2>3. PICK y \in s : TRUE
      BY <2>2
    <2> DEFINE r == s \ {y}
    <2>4. Cardinality(U(r)) = SumOver(c, r)
      BY <2>1, <2>3
    <2>5. /\ IsFiniteSet(s) /\ IsFiniteSet(r) /\ y \in K
          /\ \A k \in s : c[k] \in Int
      <3>1. s \in SUBSET K
        OBVIOUS
      <3>2. r \in SUBSET K
        BY <3>1
      <3>3. IsFiniteSet(s) /\ IsFiniteSet(r)
        BY <3>1, <3>2, FS_Subset
      <3> QED
        BY <1>1, <3>1, <3>3
    <2>6. SumOver(c, s) = c[y] + SumOver(c, r)
      BY <2>5, SumOverRemove
    <2>7. SumOver(c, r) \in Int
      BY <2>5, SumOverInt
    <2>8. U(s) = P[y] \cup U(r) /\ P[y] \cap U(r) = {}
      <3>1. s \in SUBSET K
        OBVIOUS
      <3>2. U(s) = P[y] \cup U(r)
        BY <2>5, <3>1
      <3>3. P[y] \cap U(r) = {}
        BY <2>5, <3>1
      <3> QED
        BY <3>2, <3>3
    <2>9. IsFiniteSet(U(r))
      <3>1. U(r) \in SUBSET D
        OBVIOUS
      <3> QED
        BY <3>1, FS_Subset
    <2>10. Cardinality(U(s)) = Cardinality(P[y]) + Cardinality(U(r))
      <3> HIDE DEF U
      <3> QED
        BY <1>1, <2>5, <2>8, <2>9, ApartAdd
    <2>11. Cardinality(U(s)) # SumOver(c, s)
      OBVIOUS
    <2> HIDE DEF U, r
    <2> QED
      BY <2>4, <2>5, <2>6, <2>10, <2>11
  <1>3. K \in SUBSET K /\ U(K) = D
    OBVIOUS
  <1> HIDE DEF U
  <1> QED
    BY <1>2, <1>3

\* An image of a finite set is finite.
LEMMA FiniteImage ==
    ASSUME NEW S, IsFiniteSet(S), NEW f, DOMAIN f = S
    PROVE  IsFiniteSet({f[x] : x \in S})
  <1> DEFINE T == {f[x] : x \in S}
             g == [x \in S |-> f[x]]
  <1>1. g \in Surjection(S, T)
    BY DEF Surjection
  <1> HIDE DEF T, g
  <1>2. IsFiniteSet(T)
    BY <1>1, FS_Surjection
  <1> QED
    BY <1>2 DEF T

\* An image that keeps elements apart has as many.
LEMMA AsManyImages ==
    ASSUME NEW S, IsFiniteSet(S), NEW f, DOMAIN f = S,
           \A x, y \in S : f[x] = f[y] => x = y
    PROVE  /\ IsFiniteSet({f[x] : x \in S})
           /\ Cardinality({f[x] : x \in S}) = Cardinality(S)
  <1> DEFINE T == {f[x] : x \in S}
             g == [x \in S |-> f[x]]
  <1>1. g \in Bijection(S, T)
    BY DEF Bijection, Injection, Surjection, IsInjective
  <1>2. ExistsBijection(S, T)
    BY <1>1 DEF ExistsBijection
  <1> HIDE DEF T
  <1>3. IsFiniteSet(T) /\ Cardinality(T) = Cardinality(S)
    BY <1>2, FS_Bijection
  <1> QED
    BY <1>3 DEF T

LEMMA NoMoreThan ==
    ASSUME NEW S, IsFiniteSet(S), NEW T \in SUBSET S
    PROVE  /\ Cardinality(T) =< Cardinality(S) /\ Cardinality(T) \in Nat
           /\ Cardinality(S) \in Nat
  BY FS_Subset, FS_CardinalityType
-----------------------------------------------------------------------------
(* Ordering and lists.  An order is a set of pairs. *)

\* R puts any two of S in order.
Ordering(R, S) ==
    /\ \A x \in S : <<x, x>> \notin R
    /\ \A x, y, z \in S : <<x, y>> \in R /\ <<y, z>> \in R => <<x, z>> \in R
    /\ \A x, y \in S : x # y => <<x, y>> \in R \/ <<y, x>> \in R

\* Those of S that come before x, and the place that leaves for x.
Below(R, S, x) == {y \in S : <<y, x>> \in R}
Rank(R, S, x) == Cardinality(Below(R, S, x)) + 1

\* q has each of S once.
Enumerates(q, S) ==
    /\ DOMAIN q = 1..Cardinality(S)
    /\ \A i \in DOMAIN q : q[i] \in S
    /\ \A x \in S : \E i \in DOMAIN q : q[i] = x
    /\ \A i, j \in DOMAIN q : i # j => q[i] # q[j]

Ascends(q, R) == \A i, j \in DOMAIN q : i < j => <<q[i], q[j]>> \in R

LEMMA BelowIs ==
    ASSUME NEW R, NEW S, NEW x
    PROVE  \A y : y \in Below(R, S, x) <=> y \in S /\ <<y, x>> \in R
  BY DEF Below

\* What comes later has the larger place.
LEMMA RankGrows ==
    ASSUME NEW S, IsFiniteSet(S), NEW R, Ordering(R, S)
    PROVE  /\ \A x \in S : Rank(R, S, x) \in 1..Cardinality(S)
           /\ \A x, y \in S : <<x, y>> \in R => Rank(R, S, x) < Rank(R, S, y)
           /\ \A x, y \in S : Rank(R, S, x) = Rank(R, S, y) => x = y
  <1> DEFINE n == Cardinality(S)
             B(x) == Below(R, S, x)
  <1>0. \A x, y : y \in B(x) <=> y \in S /\ <<y, x>> \in R
    BY BelowIs
  <1>1. n \in Nat
    BY FS_CardinalityType
  <1> HIDE DEF B
  <1>2. ASSUME NEW x \in S
        PROVE  IsFiniteSet(B(x)) /\ Cardinality(B(x)) \in Nat /\ Cardinality(B(x)) < n
    <2>1. B(x) \in SUBSET S /\ x \notin B(x)
      BY <1>0 DEF Ordering
    <2>0. B(x) # S
      BY <2>1
    <2>2. Cardinality(B(x)) <= n /\ Cardinality(B(x)) # n /\ IsFiniteSet(B(x))
      BY <2>0, <2>1, FS_Subset
    <2>3. Cardinality(B(x)) \in Nat
      BY <2>2, FS_CardinalityType
    <2> HIDE DEF B, n
    <2> QED
      BY <1>1, <2>2, <2>3
  <1>3. ASSUME NEW x \in S, NEW y \in S, <<x, y>> \in R
        PROVE  Cardinality(B(x)) < Cardinality(B(y))
    <2>1. B(x) \in SUBSET B(y)
      BY <1>0, <1>3 DEF Ordering
    <2>2. x \in B(y) /\ x \notin B(x)
      BY <1>0, <1>3 DEF Ordering
    <2>3. B(x) # B(y)
      BY <2>2
    <2>4. Cardinality(B(x)) <= Cardinality(B(y))
          /\ Cardinality(B(y)) # Cardinality(B(x))
      BY <1>2, <2>1, <2>3, FS_Subset
    <2> HIDE DEF B
    <2> QED
      BY <1>2, <2>4
  <1> HIDE DEF B, n
  <1>4. \A x \in S : Rank(R, S, x) = Cardinality(B(x)) + 1
    BY DEF Rank, B
  <1>5. \A x \in S : Rank(R, S, x) \in 1..n
    BY <1>1, <1>2, <1>4
  <1>6. ASSUME NEW x \in S, NEW y \in S, <<x, y>> \in R
        PROVE  Rank(R, S, x) < Rank(R, S, y)
    BY <1>2, <1>3, <1>4, <1>6
  <1>7. ASSUME NEW x \in S, NEW y \in S, Rank(R, S, x) = Rank(R, S, y)
        PROVE  x = y
    <2>1. Rank(R, S, x) \in Int
      BY <1>1, <1>5
    <2>2. ~(Rank(R, S, x) < Rank(R, S, y)) /\ ~(Rank(R, S, y) < Rank(R, S, x))
      BY <1>7, <2>1
    <2>3. <<x, y>> \notin R /\ <<y, x>> \notin R
      BY <1>6, <2>2
    <2> QED
      BY <2>3 DEF Ordering
  <1> QED
    BY <1>5, <1>6, <1>7 DEF n

\* Putting each at its place gives a list of all of them in order.
LEMMA RankLists ==
    ASSUME NEW S, IsFiniteSet(S), NEW R, Ordering(R, S), NEW q,
           DOMAIN q = 1..Cardinality(S),
           \A x \in S : q[Rank(R, S, x)] = x
    PROVE  Enumerates(q, S) /\ Ascends(q, R)
  <1> DEFINE n == Cardinality(S)
             r == [x \in S |-> Rank(R, S, x)]
  <1>1. /\ \A x \in S : r[x] \in 1..n
        /\ \A x, y \in S : <<x, y>> \in R => r[x] < r[y]
        /\ \A x, y \in S : r[x] = r[y] => x = y
    BY RankGrows
  <1>2. n \in Nat
    BY FS_CardinalityType
  <1>3. DOMAIN r = S /\ \A x \in S : q[r[x]] = x
    OBVIOUS
  <1>4. DOMAIN q = 1..n
    OBVIOUS
  <1>5. r = [x \in S |-> r[x]]
    OBVIOUS
  <1> HIDE DEF r
  <1>6. \A i \in 1..n : \E x \in S : r[x] = i
    <2>1. r \in Injection(S, 1..n)
      <3>1. r \in [S -> 1..n]
        BY <1>1, <1>5
      <3> QED
        BY <1>1, <3>1 DEF Injection, IsInjective
    <2>2. IsFiniteSet(1..n) /\ Cardinality(1..n) = n
      BY <1>2, FS_Interval
    <2>3. r \in Surjection(S, 1..n)
      BY <2>1, <2>2, FS_Injection
    <2> QED
      BY <2>3 DEF Surjection
  <1> HIDE DEF n
  <1>7. \A i \in 1..n : q[i] \in S /\ r[q[i]] = i
    BY <1>3, <1>6
  <1>8. \A x \in S : \E i \in DOMAIN q : q[i] = x
    BY <1>1, <1>3, <1>4
  <1>9. \A i, j \in DOMAIN q : i # j => q[i] # q[j]
    BY <1>4, <1>7
  <1>10. Enumerates(q, S)
    BY <1>4, <1>7, <1>8, <1>9 DEF Enumerates, n
  <1>11. ASSUME NEW i \in DOMAIN q, NEW j \in DOMAIN q, i < j
         PROVE  <<q[i], q[j]>> \in R
    <2>4. i \in 1..n /\ j \in 1..n
      BY <1>4
    <2>0. i \in 1..n /\ j \in 1..n /\ i # j
      BY <1>2, <1>11, <2>4
    <2>1. q[i] \in S /\ q[j] \in S /\ q[i] # q[j]
      BY <1>7, <2>0
    <2>2. <<q[i], q[j]>> \in R \/ <<q[j], q[i]>> \in R
      BY <2>1 DEF Ordering
    <2>3. <<q[j], q[i]>> \notin R
      <3>1. i \in Nat /\ j \in Nat /\ r[q[i]] = i /\ r[q[j]] = j
        BY <1>2, <1>7, <2>0
      <3>2. ~(r[q[j]] < r[q[i]])
        BY <1>11, <3>1
      <3> QED
        BY <1>1, <2>1, <3>2
    <2> QED
      BY <2>2, <2>3
  <1> QED
    BY <1>10, <1>11 DEF Ascends

\* A list in order has each at its place, so there is only one.
LEMMA ListRanks ==
    ASSUME NEW S, IsFiniteSet(S), NEW R, Ordering(R, S), NEW q,
           Enumerates(q, S), Ascends(q, R), NEW i \in DOMAIN q
    PROVE  Rank(R, S, q[i]) = i
  <1> DEFINE n == Cardinality(S)
             f == [j \in 1..(i - 1) |-> q[j]]
  <1>1. n \in Nat /\ DOMAIN q = 1..n /\ i \in 1..n
    BY FS_CardinalityType DEF Enumerates
  <1>2. \A j \in 1..(i - 1) : j \in 1..n /\ j # i /\ f[j] = q[j]
    BY <1>1
  <1>3. Below(R, S, q[i]) = {f[j] : j \in 1..(i - 1)}
    <2>1. ASSUME NEW y, y \in Below(R, S, q[i])
          PROVE  \E j \in 1..(i - 1) : f[j] = y
      <3>1. y \in S /\ <<y, q[i]>> \in R
        BY <2>1, BelowIs
      <3>2. PICK j \in DOMAIN q : q[j] = y
        BY <3>1 DEF Enumerates
      <3>3. q[i] \in S
        BY DEF Enumerates
      <3>4. j # i
        BY <3>1, <3>2, <3>3 DEF Ordering
      <3>5. ~(i < j)
        <4> SUFFICES ASSUME i < j PROVE FALSE
          OBVIOUS
        <4>1. <<q[i], y>> \in R
          BY <3>2 DEF Ascends
        <4>2. <<y, y>> \in R
          BY <3>1, <3>3, <4>1 DEF Ordering
        <4> QED
          BY <3>1, <4>2 DEF Ordering
      <3>6. j \in 1..(i - 1)
        BY <1>1, <3>2, <3>4, <3>5
      <3> QED
        BY <1>2, <3>2, <3>6
    <2>2. ASSUME NEW j \in 1..(i - 1)
          PROVE  f[j] \in Below(R, S, q[i])
      <3>1. j \in DOMAIN q /\ j < i
        BY <1>1, <1>2
      <3>2. <<q[j], q[i]>> \in R /\ q[j] \in S
        BY <3>1 DEF Ascends, Enumerates
      <3> QED
        BY <1>2, <3>2, BelowIs
    <2> HIDE DEF f
    <2> QED
      BY <2>1, <2>2
  <1>4. \A j, k \in 1..(i - 1) : f[j] = f[k] => j = k
    <2>1. \A j, k \in 1..n : q[j] = q[k] => j = k
      BY <1>1 DEF Enumerates
    <2> HIDE DEF f
    <2> QED
      BY <1>2, <2>1
  <1>5. Cardinality({f[j] : j \in 1..(i - 1)}) = i - 1
    <2>1. IsFiniteSet(1..(i - 1)) /\ Cardinality(1..(i - 1)) = i - 1
      <3>1. 1 \in Int /\ i - 1 \in Int /\ ~(1 > i - 1 /\ i - 1 # 0)
        BY <1>1
      <3>2. IsFiniteSet(1..(i - 1)) /\ Cardinality(1..(i - 1)) =
              IF 1 > i - 1 THEN 0 ELSE (i - 1) - 1 + 1
        BY <3>1, FS_Interval
      <3> QED
        BY <1>1, <3>2
    <2>2. DOMAIN f = 1..(i - 1)
      OBVIOUS
    <2>3. \A j, k \in 1..(i - 1) : f[j] = f[k] => j = k
      BY <1>4
    <2> DEFINE I == 1..(i - 1)
    <2>5. /\ IsFiniteSet(I) /\ Cardinality(I) = i - 1 /\ DOMAIN f = I
          /\ \A j, k \in I : f[j] = f[k] => j = k
      BY <2>1, <2>2, <2>3
    <2> HIDE DEF f, I
    <2>4. Cardinality({f[j] : j \in I}) = Cardinality(I)
      BY <2>5, AsManyImages
    <2> QED
      BY <2>4, <2>5 DEF I
  <1> HIDE DEF f, n
  <1> QED
    BY <1>1, <1>3, <1>5 DEF Rank

LEMMA OneOrder ==
    ASSUME NEW S, IsFiniteSet(S), NEW R, Ordering(R, S),
           NEW p, Enumerates(p, S), Ascends(p, R),
           NEW q, Enumerates(q, S), Ascends(q, R)
    PROVE  DOMAIN p = DOMAIN q /\ \A i \in DOMAIN p : p[i] = q[i]
  <1>1. DOMAIN p = DOMAIN q
    BY DEF Enumerates
  <1>2. ASSUME NEW i \in DOMAIN p PROVE p[i] = q[i]
    <2>1. Rank(R, S, p[i]) = i
      BY ListRanks
    <2>2. Rank(R, S, q[i]) = i
      BY <1>1, ListRanks
    <2>3. p[i] \in S /\ q[i] \in S
      BY <1>1 DEF Enumerates
    <2> QED
      BY <2>1, <2>2, <2>3, RankGrows
  <1> QED
    BY <1>1, <1>2

\* The same by a search among pairs of a place and what has it.
ByPlace(P, n) == [i \in 1..n |-> (CHOOSE p \in P : p[1] = i)[2]]

LEMMA PlacesList ==
    ASSUME NEW S, IsFiniteSet(S), NEW R, Ordering(R, S),
           NEW P, P = {<<Rank(R, S, x), x>> : x \in S},
           NEW q, q = ByPlace(P, Cardinality(S))
    PROVE  Enumerates(q, S) /\ Ascends(q, R)
  <1> DEFINE n == Cardinality(S)
  <1>1. q = [i \in 1..n |-> (CHOOSE p \in P : p[1] = i)[2]]
    BY DEF ByPlace
  <1>2. /\ \A x \in S : <<Rank(R, S, x), x>> \in P
        /\ \A p \in P : \E x \in S : p = <<Rank(R, S, x), x>>
    OBVIOUS
  <1>3. ASSUME NEW x \in S PROVE q[Rank(R, S, x)] = x
    <2> DEFINE i == Rank(R, S, x)
               c == CHOOSE p \in P : p[1] = i
    <2>1. i \in 1..n
      BY RankGrows
    <2>2. \E p \in P : p[1] = i
      BY <1>2
    <2>3. c \in P /\ c[1] = i
      BY <2>2
    <2>4. q[i] = c[2]
      BY <1>1, <2>1
    <2> HIDE DEF c
    <2>5. PICK y \in S : c = <<Rank(R, S, y), y>>
      BY <1>2, <2>3
    <2>6. Rank(R, S, y) = Rank(R, S, x)
      BY <2>3, <2>5
    <2>7. y = x
      BY <2>6, RankGrows
    <2> QED
      BY <2>4, <2>5, <2>7
  <1>4. DOMAIN q = 1..Cardinality(S)
    BY <1>1
  <1> QED
    BY <1>3, <1>4, RankLists

\* The line at i goes ahead of the one at j when lines are sorted by key.
GoesAhead(key, i, j) == IF i < j THEN ~(key[j] < key[i]) ELSE key[i] < key[j]

AheadPairs(key, n) == {p \in (1..n) \X (1..n) : GoesAhead(key, p[1], p[2])}

LEMMA AheadOrders ==
    ASSUME NEW n \in Nat, NEW key, \A i \in 1..n : key[i] \in Int
    PROVE  /\ Ordering(AheadPairs(key, n), 1..n)
           /\ \A i, j \in 1..n : <<i, j>> \in AheadPairs(key, n) => key[i] =< key[j]
  <1> DEFINE R == AheadPairs(key, n)
  <1>1. \A i, j \in 1..n : <<i, j>> \in R <=> GoesAhead(key, i, j)
    BY DEF AheadPairs
  <1>2. ASSUME NEW i \in 1..n, NEW j \in 1..n
        PROVE  GoesAhead(key, i, j) <=> key[i] < key[j] \/ (key[i] = key[j] /\ i < j)
    <2>1. key[i] \in Int /\ key[j] \in Int /\ i \in Int /\ j \in Int
      OBVIOUS
    <2> QED
      BY <2>1 DEF GoesAhead
  <1> HIDE DEF R
  <1>3. \A i, j \in 1..n : <<i, j>> \in R <=>
                             key[i] < key[j] \/ (key[i] = key[j] /\ i < j)
    BY <1>1, <1>2
  <1>4. \A i \in 1..n : i \in Int /\ key[i] \in Int
    OBVIOUS
  <1>5. \A x \in 1..n : <<x, x>> \notin R
    BY <1>3, <1>4
  <1>6. ASSUME NEW x \in 1..n, NEW y \in 1..n, NEW z \in 1..n,
               <<x, y>> \in R, <<y, z>> \in R
        PROVE  <<x, z>> \in R
    BY <1>3, <1>4, <1>6
  <1>7. ASSUME NEW x \in 1..n, NEW y \in 1..n, x # y
        PROVE  <<x, y>> \in R \/ <<y, x>> \in R
    BY <1>3, <1>4, <1>7
  <1>8. Ordering(R, 1..n)
    BY <1>5, <1>6, <1>7 DEF Ordering
  <1>9. \A i, j \in 1..n : <<i, j>> \in R => key[i] =< key[j]
    BY <1>3, <1>4
  <1> QED
    BY <1>8, <1>9 DEF R

\* What a stable sort by key lists: every line once, none after a larger one.
LEMMA SortPlaces ==
    ASSUME NEW n \in Nat, NEW key, \A i \in 1..n : key[i] \in Int, NEW place,
           place = ByPlace({<<Cardinality({y \in 1..n : GoesAhead(key, y, x)}) + 1, x>> :
                              x \in 1..n}, Cardinality(1..n))
    PROVE  /\ Enumerates(place, 1..n)
           /\ \A i, j \in DOMAIN place :
                i < j => key[place[i]] =< key[place[j]]
  <1> DEFINE R == AheadPairs(key, n)
             S == 1..n
  <1>1. IsFiniteSet(S) /\ Ordering(R, S)
    <2>1. IsFiniteSet(S)
      BY FS_Interval
    <2> QED
      BY <2>1, AheadOrders
  <1>2. \A x \in S : Cardinality({y \in S : GoesAhead(key, y, x)}) + 1 = Rank(R, S, x)
    <2> SUFFICES ASSUME NEW x \in S
                 PROVE  {y \in S : GoesAhead(key, y, x)} = Below(R, S, x)
      BY DEF Rank
    <2> QED
      BY DEF Below, AheadPairs
  <1>3. \A i, j \in S : <<i, j>> \in R => key[i] =< key[j]
    BY AheadOrders
  <1> DEFINE A == {<<Cardinality({y \in S : GoesAhead(key, y, x)}) + 1, x>> : x \in S}
             B == {<<Rank(R, S, x), x>> : x \in S}
  <1>4. A = B
    BY <1>2
  <1>8. place = ByPlace(A, Cardinality(S))
    BY DEF ByPlace
  <1> HIDE DEF A, R, S
  <1>6. Enumerates(place, S) /\ Ascends(place, R)
    BY <1>1, <1>4, <1>8, PlacesList
  <1>7. \A i, j \in DOMAIN place : i < j => key[place[i]] =< key[place[j]]
    BY <1>3, <1>6 DEF Enumerates, Ascends
  <1> QED
    BY <1>6, <1>7 DEF S

\* What holds of the first of some numbers, and of each if of the one before.
LEMMA Upwards ==
    ASSUME NEW n \in Nat, NEW P, P[0], \A k \in 1..n : P[k - 1] => P[k]
    PROVE  \A k \in 0..n : P[k]
  <1> DEFINE D == {k \in 0..n : ~P[k]}
  <1> SUFFICES ASSUME D # {} PROVE FALSE
    OBVIOUS
  <1>1. D \in SUBSET Nat
    OBVIOUS
  <1> DEFINE k == Min(D)
  <1>2. k \in D /\ \A x \in D : k =< x
    <2> HIDE DEF D
    <2> QED
      BY <1>1, MinOfNats
  <1> HIDE DEF k
  <1>3. k \in 0..n /\ k # 0
    BY <1>2
  <1>4. k \in 1..n /\ k - 1 \in 0..n /\ ~(k =< k - 1)
    BY <1>3
  <1>5. P[k - 1]
    BY <1>2, <1>4
  <1> QED
    BY <1>2, <1>4, <1>5

\* A sum over a list of them is the sum over the things listed.
LEMMA SumOverListed ==
    ASSUME NEW S, IsFiniteSet(S), NEW g, \A x \in S : g[x] \in Int,
           NEW q, Enumerates(q, S), NEW f, \A i \in DOMAIN q : f[i] = g[q[i]]
    PROVE  SumOver(f, DOMAIN q) = SumOver(g, S)
  <1> DEFINE I == DOMAIN q
             Img(s) == {q[i] : i \in s}
             Bad == {s \in SUBSET I : SumOver(f, s) # SumOver(g, Img(s))}
  <1>1. /\ IsFiniteSet(I) /\ \A i \in I : q[i] \in S
        /\ \A i, j \in I : i # j => q[i] # q[j]
        /\ \A x \in S : \E i \in I : q[i] = x
    <2>1. IsFiniteSet(I)
      BY FS_CardinalityType, FS_Interval DEF Enumerates
    <2> QED
      BY <2>1 DEF Enumerates
  <1>2. Img(I) = S
    BY <1>1
  <1>3. \A i \in I : f[i] \in Int /\ f[i] = g[q[i]]
    BY <1>1
  <1>4. Bad = {}
    <2> SUFFICES ASSUME Bad # {} PROVE FALSE
      OBVIOUS
    <2>1. PICK s \in Bad : \A t \in Bad : t \subseteq s => t = s
      <3>1. Bad \in SUBSET (SUBSET I)
        OBVIOUS
      <3> HIDE DEF Bad
      <3> QED
        BY <1>1, <3>1, LeastSubset
    <2>2. s \in SUBSET I /\ SumOver(f, s) # SumOver(g, Img(s))
      BY <2>1
    <2>3. s # {}
      <3> SUFFICES ASSUME s = {} PROVE FALSE
        OBVIOUS
      <3>1. Img(s) = {}
        OBVIOUS
      <3> HIDE DEF Img
      <3> QED
        BY <2>2, <3>1, SumOverNone
    <2>4. PICK i \in s : TRUE
      BY <2>3
    <2> DEFINE t == s \ {i}
    <2>5. t \in SUBSET I /\ t # s /\ t \subseteq s /\ i \in I
      BY <2>2, <2>4
    <2>6. SumOver(f, t) = SumOver(g, Img(t))
      BY <2>1, <2>5
    <2>7. Img(s) \ {q[i]} = Img(t) /\ q[i] \in Img(s) /\ Img(s) \in SUBSET S
      BY <1>1, <2>2, <2>4
    <2>8. IsFiniteSet(s) /\ IsFiniteSet(Img(s))
      BY <1>1, <2>2, <2>7, FS_Subset
    <2> HIDE DEF Img, t
    <2>9. SumOver(f, s) = f[i] + SumOver(f, t)
      <3>1. \A x \in s : f[x] \in Int
        BY <1>3, <2>2
      <3>2. SumOver(f, s) = f[i] + SumOver(f, s \ {i})
        BY <2>4, <2>8, <3>1, SumOverRemove
      <3> QED
        BY <3>2 DEF t
    <2>10. SumOver(g, Img(s)) = g[q[i]] + SumOver(g, Img(t))
      <3>1. \A x \in Img(s) : g[x] \in Int
        BY <2>7
      <3>2. SumOver(g, Img(s)) = g[q[i]] + SumOver(g, Img(s) \ {q[i]})
        BY <2>7, <2>8, <3>1, SumOverRemove
      <3> QED
        BY <2>7, <3>2
    <2> QED
      BY <1>3, <2>2, <2>5, <2>6, <2>9, <2>10
  <1>5. I \notin Bad
    BY <1>4
  <1>6. SumOver(f, I) = SumOver(g, Img(I))
    BY <1>5
  <1> QED
    BY <1>2, <1>6
=============================================================================
