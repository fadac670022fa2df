-------------------------- MODULE PortfolioProofs --------------------------
(***************************************************************************)
(* The portfolio's totals are sums over its balances: the lemmas about such *)
(* a sum, and from them what every sequence of operations keeps.           *)
(***************************************************************************)
EXTENDS PortfolioOps, FoldLemmas

-----------------------------------------------------------------------------
(* Summing contributions to the totals.                                     *)

\* Totals while they are being summed: nothing says yet that they are not negative.
Sums == [TotalNames -> Int]
Sum(c) == FoldFunction(Plus, NoTotals, c)
Pick(S) == CHOOSE x \in S : TRUE

\* A way to sum c over every part of S of at most n elements.
Step(c, g, T) == IF T = {} THEN NoTotals ELSE Plus(c[Pick(T)], g[T \ {Pick(T)}])

LEMMA SumUnfolded ==
    ASSUME NEW S, NEW c \in [S -> Sums]
    PROVE  Sum(c) = (CHOOSE g : g = [T \in SUBSET S |-> Step(c, g, T)])[S]
  BY DEF Sum, FoldFunction, FoldFunctionOnSet, MapThenFoldSet, Step, Pick

\* The sum over any part of S is the sum over the part without one of its elements,
\* and that element's contribution.
LEMMA SumByParts ==
    ASSUME NEW S, IsFiniteSet(S), NEW c \in [S -> Sums]
    PROVE  \E g : /\ \A T \in SUBSET S : g[T] = Step(c, g, T)
                  /\ Sum(c) = g[S]
<1> DEFINE Small(n) == {T \in SUBSET S : Cardinality(T) <= n}
           Sums_(n, g) == g = [T \in Small(n) |-> Step(c, g, T)]
           Unsummed == {n \in Nat : ~ \E g : Sums_(n, g)}
<1>0. \A T \in SUBSET S : /\ IsFiniteSet(T) /\ Cardinality(T) \in Nat
                          /\ Cardinality(T) <= Cardinality(S)
                          /\ T # {} => /\ Pick(T) \in T /\ T \ {Pick(T)} \in SUBSET S
                                       /\ Cardinality(T \ {Pick(T)}) = Cardinality(T) - 1
                          /\ Cardinality(T) = 0 <=> T = {}
  BY FS_Subset, FS_CardinalityType, FS_EmptySet, FS_RemoveElement DEF Pick
<1>1. Unsummed = {}
  <2> SUFFICES ASSUME Unsummed # {} PROVE FALSE
    OBVIOUS
  <2>1. PICK n \in Unsummed : \A m \in Unsummed : n <= m
    <3> HIDE DEF Unsummed
    <3>1. Unsummed \subseteq Nat
      BY DEF Unsummed
    <3> QED
      BY <3>1, LeastElement
  <2>2. CASE n = 0
    <3> DEFINE g == [T \in Small(n) |-> NoTotals]
    <3>1. \A T \in Small(n) : T = {}
      <4> SUFFICES ASSUME NEW T \in SUBSET S, Cardinality(T) <= 0 PROVE T = {}
        BY <2>2
      <4>1. Cardinality(T) \in Nat
        BY <1>0
      <4>2. Cardinality(T) = 0
        BY <4>1
      <4> QED
        BY <1>0, <4>2
    <3>2. Sums_(n, g)
      BY <3>1 DEF Step
    <3> QED
      BY <3>2
  <2>3. CASE n # 0
    <3>1. n \in Nat /\ n - 1 \in Nat /\ n - 1 \notin Unsummed
      <4> HIDE DEF Unsummed
      <4>1. n \in Nat
        BY DEF Unsummed
      <4>2. n - 1 \in Nat /\ ~ n <= n - 1
        BY <4>1, <2>3
      <4> QED
        BY <4>1, <4>2, <2>1
    <3>2. PICK h : Sums_(n - 1, h)
      BY <3>1
    <3> DEFINE g == [T \in Small(n) |-> Step(c, h, T)]
    <3> HIDE DEF Sums_
    <3>3. ASSUME NEW T \in Small(n - 1) PROVE g[T] = h[T]
      <4>1. T \in Small(n)
        <5>1. Cardinality(T) \in Nat /\ Cardinality(T) <= n - 1
          BY <1>0
        <5> QED
          BY <3>1, <5>1
      <4>2. h[T] = Step(c, h, T)
        BY <3>2 DEF Sums_
      <4> QED
        BY <4>1, <4>2
    <3>4. ASSUME NEW T \in Small(n) PROVE g[T] = Step(c, g, T)
      <4>1. CASE T = {}
        BY <4>1 DEF Step
      <4>2. CASE T # {}
        <5>1. T \ {Pick(T)} \in Small(n - 1)
          BY <1>0, <3>1, <4>2
        <5>2. g[T \ {Pick(T)}] = h[T \ {Pick(T)}]
          BY <3>3, <5>1
        <5> HIDE DEF Small
        <5>3. g[T] = Step(c, h, T)
          OBVIOUS
        <5> HIDE DEF g
        <5> QED
          BY <4>2, <5>2, <5>3 DEF Step
      <4> QED
        BY <4>1, <4>2
    <3>5. Sums_(n, g)
      <4> HIDE DEF Small
      <4>1. g = [T \in Small(n) |-> g[T]]
        OBVIOUS
      <4> HIDE DEF g
      <4> QED
        BY <3>4, <4>1 DEF Sums_
    <3>6. n \notin Unsummed
      <4> HIDE DEF Sums_, g
      <4> QED
        BY <3>5
    <3> QED
      BY <3>6
  <2> QED
    BY <2>2, <2>3
<1>2. Cardinality(S) \in Nat /\ Small(Cardinality(S)) = SUBSET S
  BY <1>0, FS_CardinalityType
<1>3. \E g : g = [T \in SUBSET S |-> Step(c, g, T)]
  <2>1. Cardinality(S) \notin Unsummed
    BY <1>1
  <2> QED
    BY <1>2, <2>1
<1> DEFINE h == CHOOSE g : g = [T \in SUBSET S |-> Step(c, g, T)]
<1>4. h = [T \in SUBSET S |-> Step(c, h, T)]
  BY <1>3
<1>5. Sum(c) = h[S]
  BY SumUnfolded
<1> HIDE DEF h
<1>6. \A T \in SUBSET S : h[T] = Step(c, h, T)
  BY <1>4
<1> QED
  BY <1>5, <1>6

\* What holds of the empty part, and of a part whenever it holds of it without the
\* element that is picked, holds of every part.
LEMMA PickInduction ==
    ASSUME NEW S, IsFiniteSet(S), NEW P, {} \in P,
           \A T \in SUBSET S : T # {} /\ T \ {Pick(T)} \in P => T \in P
    PROVE  \A T \in SUBSET S : T \in P
<1> DEFINE pick == [T \in SUBSET S |-> Pick(T)]
<1>1. \A T \in SUBSET S : T # {} => Pick(T) \in T
  BY DEF Pick
<1>2. Picks(S, pick)
  BY <1>1 DEF Picks
<1>3. \A T \in SUBSET S : pick[T] = Pick(T)
  OBVIOUS
<1> HIDE DEF pick
<1> QED
  BY <1>2, <1>3, PartsInduction

LEMMA NoTotalsAreSums == NoTotals \in Sums
  BY DEF Sums, NoTotals

LEMMA PlusTyped ==
    ASSUME NEW t \in Sums, NEW u \in Sums
    PROVE  /\ Plus(t, u) \in Sums /\ Minus(t, u) \in Sums
           /\ \A n \in TotalNames : Plus(t, u)[n] = t[n] + u[n] /\ Minus(t, u)[n] = t[n] - u[n]
  BY DEF Plus, Minus, Sums

LEMMA PlusAnyOrder ==
    ASSUME NEW t \in Sums, NEW u \in Sums, NEW v \in Sums
    PROVE  /\ Plus(Plus(t, u), v) = Plus(Plus(t, v), u)
           /\ Plus(t, Plus(u, v)) = Plus(Plus(t, u), v)
  BY DEF Plus, Sums

LEMMA SumTyped ==
    ASSUME NEW S, IsFiniteSet(S), NEW c \in [S -> Sums], NEW g,
           \A T \in SUBSET S : g[T] = Step(c, g, T)
    PROVE  \A T \in SUBSET S : g[T] \in Sums
<1> DEFINE P == {T \in SUBSET S : g[T] \in Sums}
<1>1. {} \in P
  BY NoTotalsAreSums DEF Step
<1>2. ASSUME NEW T \in SUBSET S, T # {}, T \ {Pick(T)} \in P PROVE T \in P
  <2>1. Pick(T) \in S /\ c[Pick(T)] \in Sums /\ g[T \ {Pick(T)}] \in Sums
    BY <1>2 DEF Pick
  <2>2. g[T] = Plus(c[Pick(T)], g[T \ {Pick(T)}])
    BY <1>2 DEF Step
  <2>3. g[T] \in Sums
    BY <2>1, <2>2, PlusTyped
  <2> QED
    BY <2>3
<1> HIDE DEF P
<1>3. \A T \in SUBSET S : T \in P
  BY <1>1, <1>2, PickInduction
<1> QED
  BY <1>3 DEF P

\* Adding to one contribution adds the same to the sum.
LEMMA SumChanged ==
    ASSUME NEW S, IsFiniteSet(S), NEW c \in [S -> Sums], NEW x \in S, NEW u \in Sums,
           NEW d \in [S -> Sums], d[x] = Plus(c[x], u), \A y \in S : y # x => d[y] = c[y]
    PROVE  Sum(d) = Plus(Sum(c), u)
<1>1. d[x] = Plus(c[x], u) /\ \A y \in S : y # x => d[y] = c[y]
  OBVIOUS
<1>2. PICK g : /\ \A T \in SUBSET S : g[T] = Step(c, g, T)
               /\ Sum(c) = g[S]
  BY SumByParts
<1>3. PICK h : /\ \A T \in SUBSET S : h[T] = Step(d, h, T)
               /\ Sum(d) = h[S]
  BY <1>1, SumByParts
<1>4. \A T \in SUBSET S : g[T] \in Sums
  BY <1>2, SumTyped
<1> DEFINE P == {T \in SUBSET S : h[T] = IF x \in T THEN Plus(g[T], u) ELSE g[T]}
<1>5. {} \in P
  BY <1>2, <1>3 DEF Step
<1>6. ASSUME NEW T \in SUBSET S, T # {}, T \ {Pick(T)} \in P PROVE T \in P
  <2> DEFINE y == Pick(T)
             U == T \ {y}
  <2>1. y \in T /\ y \in S /\ y \notin U /\ U \in SUBSET S
    BY <1>6 DEF Pick
  <2>2. g[T] = Plus(c[y], g[U]) /\ h[T] = Plus(d[y], h[U])
    BY <1>2, <1>3, <1>6 DEF Step
  <2>3. c[y] \in Sums /\ g[U] \in Sums
    BY <1>4, <2>1
  <2>4. h[U] = IF x \in U THEN Plus(g[U], u) ELSE g[U]
    BY <1>6
  <2> HIDE DEF y
  <2>5. CASE y = x
    <3>1. h[T] = Plus(Plus(c[y], u), g[U])
      BY <1>1, <2>1, <2>2, <2>4, <2>5
    <3>2. h[T] = Plus(g[T], u)
      BY <2>2, <2>3, <3>1, PlusAnyOrder
    <3> QED
      BY <2>1, <2>5, <3>2
  <2>6. CASE y # x /\ x \in T
    <3>1. h[T] = Plus(c[y], Plus(g[U], u))
      BY <1>1, <2>1, <2>2, <2>4, <2>6
    <3>2. h[T] = Plus(g[T], u)
      BY <2>2, <2>3, <3>1, PlusAnyOrder
    <3> QED
      BY <2>6, <3>2
  <2>7. CASE x \notin T
    BY <1>1, <2>1, <2>2, <2>4, <2>7
  <2> QED
    BY <2>5, <2>6, <2>7
<1> HIDE DEF P
<1>7. S \in P
  BY <1>5, <1>6, PickInduction
<1> QED
  BY <1>2, <1>3, <1>7 DEF P

\* A linear bound that holds of every contribution holds of the sums.
LEMMA SumBounded ==
    ASSUME NEW S, IsFiniteSet(S), NEW c \in [S -> Sums], NEW d \in [S -> Sums],
           NEW a \in Nat, NEW b \in Nat, NEW n \in TotalNames, NEW m \in TotalNames,
           \A x \in S : a * c[x][n] <= b * d[x][m]
    PROVE  a * Sum(c)[n] <= b * Sum(d)[m]
<1>1. PICK g : /\ \A T \in SUBSET S : g[T] = Step(c, g, T)
               /\ Sum(c) = g[S]
  BY SumByParts
<1>2. PICK h : /\ \A T \in SUBSET S : h[T] = Step(d, h, T)
               /\ Sum(d) = h[S]
  BY SumByParts
<1>3. \A T \in SUBSET S : g[T] \in Sums /\ h[T] \in Sums
  BY <1>1, <1>2, SumTyped
<1> DEFINE P == {T \in SUBSET S : a * g[T][n] <= b * h[T][m]}
<1>4. {} \in P
  <2>1. g[{}] = NoTotals /\ h[{}] = NoTotals
    BY <1>1, <1>2 DEF Step
  <2>2. a * g[{}][n] <= b * h[{}][m]
    BY <2>1 DEF NoTotals
  <2> QED
    BY <2>2
<1>5. ASSUME NEW T \in SUBSET S, T # {}, T \ {Pick(T)} \in P PROVE T \in P
  <2> DEFINE y == Pick(T)
             U == T \ {y}
  <2>1. y \in S /\ U \in SUBSET S
    BY <1>5 DEF Pick
  <2>2. g[T][n] = c[y][n] + g[U][n] /\ h[T][m] = d[y][m] + h[U][m]
    BY <1>1, <1>2, <1>5 DEF Step, Plus
  <2>3. /\ c[y][n] \in Int /\ g[U][n] \in Int /\ d[y][m] \in Int /\ h[U][m] \in Int
        /\ a * c[y][n] <= b * d[y][m] /\ a * g[U][n] <= b * h[U][m]
    BY <1>3, <1>5, <2>1 DEF Sums
  <2>4. a * g[T][n] <= b * h[T][m]
    <3> HIDE DEF y, U
    <3>1. /\ a * (c[y][n] + g[U][n]) = a * c[y][n] + a * g[U][n]
          /\ b * (d[y][m] + h[U][m]) = b * d[y][m] + b * h[U][m]
      BY <2>3
    <3> QED
      BY <2>2, <2>3, <3>1
  <2> QED
    BY <2>4
<1> HIDE DEF P
<1>6. S \in P
  BY <1>4, <1>5, PickInduction
<1> QED
  BY <1>1, <1>2, <1>6 DEF P

-----------------------------------------------------------------------------
(* What one supply or one borrow contributes.                               *)

Supplied(supplies) == [s \in SupplyTokens |-> SupplyTotals(s, supplies[s])]
Borrowed(borrows) == [b \in BorrowTokens |-> BorrowTotals(b, borrows[b])]

LEMMA Listed ==
    /\ IsFiniteSet(SupplyTokens) /\ IsFiniteSet(BorrowTokens)
    /\ \A t \in Tokens : /\ Price[t] \in Nat /\ SupplyAPY[t] \in Int /\ BorrowAPY[t] \in Int
                         /\ LTV[t] \in Nat /\ Threshold[t] \in Nat
    /\ SupplyTokens \subseteq Tokens /\ BorrowTokens \subseteq Tokens
  BY TokenAssumption, FigureAssumption, FS_Subset

\* The collateral an amount of a supply counts for, in USD.
CollateralUSD(s, amount) == IF s \in Collateral THEN amount * Price[s] ELSE 0

LEMMA SupplyContribution ==
    ASSUME NEW s \in SupplyTokens, NEW amount \in Int
    PROVE  LET c == SupplyTotals(s, amount)
           IN  /\ c \in Sums
               /\ c["supplyUSD"] = amount * Price[s]
               /\ c["positive"] = (amount * Price[s]) * SupplyAPY[s]
               /\ c["collateralUSD"] = CollateralUSD(s, amount)
               /\ c["capacity"] = CollateralUSD(s, amount) * LTV[s]
               /\ c["limit"] = CollateralUSD(s, amount) * Threshold[s]
               /\ c["borrowUSD"] = 0 /\ c["negative"] = 0
<1>1. s \in Tokens /\ amount * Price[s] \in Int /\ CollateralUSD(s, amount) \in Int
  BY Listed DEF CollateralUSD
<1>2. /\ (amount * Price[s]) * SupplyAPY[s] \in Int
      /\ CollateralUSD(s, amount) * LTV[s] \in Int
      /\ CollateralUSD(s, amount) * Threshold[s] \in Int
  BY <1>1, Listed
<1> QED
  BY <1>1, <1>2 DEF SupplyTotals, CollateralUSD, Sums, NoTotals, TotalNames

LEMMA BorrowContribution ==
    ASSUME NEW b \in BorrowTokens, NEW amount \in Int
    PROVE  LET c == BorrowTotals(b, amount)
           IN  /\ c \in Sums
               /\ c["borrowUSD"] = amount * Price[b]
               /\ c["negative"] = (amount * Price[b]) * BorrowAPY[b]
               /\ \A n \in TotalNames \ {"borrowUSD", "negative"} : c[n] = 0
<1>1. b \in Tokens /\ amount * Price[b] \in Int /\ (amount * Price[b]) * BorrowAPY[b] \in Int
  BY Listed
<1> QED
  BY <1>1 DEF BorrowTotals, Sums, NoTotals, TotalNames

LEMMA Spread ==
    ASSUME NEW a \in Int, NEW d \in Int, NEW k \in Int
    PROVE  (a + d) * k = a * k + d * k /\ (-a) * k = -(a * k)
  OBVIOUS

\* The contribution of a sum of amounts is the sum of their contributions.
LEMMA SupplyIsLinear ==
    ASSUME NEW s \in SupplyTokens, NEW a \in Int, NEW d \in Int
    PROVE  /\ SupplyTotals(s, a + d) = Plus(SupplyTotals(s, a), SupplyTotals(s, d))
           /\ \A t \in Sums : Plus(t, SupplyTotals(s, -d)) = Minus(t, SupplyTotals(s, d))
<1> DEFINE usd(x) == x * Price[s]
<1>1. s \in Tokens /\ a + d \in Int /\ -d \in Int
  BY Listed
<1>2. /\ usd(a) \in Int /\ usd(d) \in Int /\ usd(a + d) = usd(a) + usd(d) /\ usd(-d) = -usd(d)
  BY <1>1, Listed, Spread
<1>3. /\ CollateralUSD(s, a) \in Int /\ CollateralUSD(s, d) \in Int
      /\ CollateralUSD(s, a + d) = CollateralUSD(s, a) + CollateralUSD(s, d)
      /\ CollateralUSD(s, -d) = -CollateralUSD(s, d)
  BY <1>2 DEF CollateralUSD
<1>4. /\ usd(a + d) * SupplyAPY[s] = usd(a) * SupplyAPY[s] + usd(d) * SupplyAPY[s]
      /\ usd(-d) * SupplyAPY[s] = -(usd(d) * SupplyAPY[s])
  <2> HIDE DEF usd
  <2> QED
    BY <1>1, <1>2, Listed, Spread
<1>5. ASSUME NEW k \in Int
      PROVE  /\ CollateralUSD(s, a + d) * k = CollateralUSD(s, a) * k + CollateralUSD(s, d) * k
             /\ CollateralUSD(s, -d) * k = -(CollateralUSD(s, d) * k)
  BY <1>3, Spread
<1>6. LTV[s] \in Int /\ Threshold[s] \in Int
  BY <1>1, Listed
<1>7. /\ SupplyTotals(s, a) \in Sums /\ SupplyTotals(s, d) \in Sums
      /\ SupplyTotals(s, a + d) \in Sums /\ SupplyTotals(s, -d) \in Sums
  BY <1>1, SupplyContribution
<1>8. ASSUME NEW n \in TotalNames
      PROVE  /\ SupplyTotals(s, a + d)[n] = SupplyTotals(s, a)[n] + SupplyTotals(s, d)[n]
             /\ SupplyTotals(s, -d)[n] = -SupplyTotals(s, d)[n]
  <2> HIDE DEF usd
  <2>1. n \in {"supplyUSD", "positive", "collateralUSD", "capacity", "limit",
              "borrowUSD", "negative"}
    BY DEF TotalNames
  <2>2. CASE n = "supplyUSD"
    BY <1>1, <1>2, <2>2, SupplyContribution DEF usd
  <2>3. CASE n = "positive"
    BY <1>1, <1>4, <2>3, SupplyContribution DEF usd
  <2>4. CASE n = "collateralUSD"
    BY <1>1, <1>3, <2>4, SupplyContribution
  <2>5. CASE n = "capacity"
    BY <1>1, <1>5, <1>6, <2>5, SupplyContribution
  <2>6. CASE n = "limit"
    BY <1>1, <1>5, <1>6, <2>6, SupplyContribution
  <2>7. CASE n \in {"borrowUSD", "negative"}
    BY <1>1, <2>7, SupplyContribution
  <2> QED
    BY <2>1, <2>2, <2>3, <2>4, <2>5, <2>6, <2>7
<1> QED
  BY <1>7, <1>8 DEF Plus, Minus, Sums

LEMMA BorrowIsLinear ==
    ASSUME NEW b \in BorrowTokens, NEW a \in Int, NEW d \in Int
    PROVE  /\ BorrowTotals(b, a + d) = Plus(BorrowTotals(b, a), BorrowTotals(b, d))
           /\ \A t \in Sums : Plus(t, BorrowTotals(b, -d)) = Minus(t, BorrowTotals(b, d))
<1> DEFINE usd(x) == x * Price[b]
<1>1. b \in Tokens /\ a + d \in Int /\ -d \in Int
  BY Listed
<1>2. /\ usd(a) \in Int /\ usd(d) \in Int /\ usd(a + d) = usd(a) + usd(d) /\ usd(-d) = -usd(d)
  BY <1>1, Listed, Spread
<1>3. /\ usd(a + d) * BorrowAPY[b] = usd(a) * BorrowAPY[b] + usd(d) * BorrowAPY[b]
      /\ usd(-d) * BorrowAPY[b] = -(usd(d) * BorrowAPY[b])
  <2> HIDE DEF usd
  <2> QED
    BY <1>1, <1>2, Listed, Spread
<1>4. /\ BorrowTotals(b, a) \in Sums /\ BorrowTotals(b, d) \in Sums
      /\ BorrowTotals(b, a + d) \in Sums /\ BorrowTotals(b, -d) \in Sums
  BY <1>1, BorrowContribution
<1>5. ASSUME NEW n \in TotalNames
      PROVE  /\ BorrowTotals(b, a + d)[n] = BorrowTotals(b, a)[n] + BorrowTotals(b, d)[n]
             /\ BorrowTotals(b, -d)[n] = -BorrowTotals(b, d)[n]
  <2> HIDE DEF usd
  <2>1. CASE n = "borrowUSD"
    BY <1>1, <1>2, <2>1, BorrowContribution DEF usd
  <2>2. CASE n = "negative"
    BY <1>1, <1>3, <2>2, BorrowContribution DEF usd
  <2>3. CASE n \notin {"borrowUSD", "negative"}
    BY <1>1, <2>3, BorrowContribution
  <2> QED
    BY <2>1, <2>2, <2>3
<1> QED
  BY <1>4, <1>5 DEF Plus, Minus, Sums

-----------------------------------------------------------------------------
(* The totals of a change of one balance.                                   *)

LEMMA SupplyChanged ==
    ASSUME NEW supplies \in [SupplyTokens -> Int], NEW s \in SupplyTokens, NEW d \in Int
    PROVE  Sum(Supplied([supplies EXCEPT ![s] = @ + d]))
             = Plus(Sum(Supplied(supplies)), SupplyTotals(s, d))
<1> DEFINE more == [supplies EXCEPT ![s] = @ + d]
<1>1. Supplied(supplies) \in [SupplyTokens -> Sums] /\ Supplied(more) \in [SupplyTokens -> Sums]
  BY SupplyContribution DEF Supplied
<1>2. SupplyTotals(s, d) \in Sums
  BY SupplyContribution
<1>3. Supplied(more)[s] = Plus(Supplied(supplies)[s], SupplyTotals(s, d))
  BY SupplyIsLinear DEF Supplied
<1>4. \A t \in SupplyTokens : t # s => Supplied(more)[t] = Supplied(supplies)[t]
  BY DEF Supplied
<1>5. IsFiniteSet(SupplyTokens) /\ IsFiniteSet(BorrowTokens)
  BY Listed
<1> HIDE DEF more
<1>6. Sum(Supplied(more)) = Plus(Sum(Supplied(supplies)), SupplyTotals(s, d))
  BY <1>1, <1>2, <1>3, <1>4, <1>5, SumChanged
<1> QED
  BY <1>6 DEF more

LEMMA BorrowChanged ==
    ASSUME NEW borrows \in [BorrowTokens -> Int], NEW b \in BorrowTokens, NEW d \in Int
    PROVE  Sum(Borrowed([borrows EXCEPT ![b] = @ + d]))
             = Plus(Sum(Borrowed(borrows)), BorrowTotals(b, d))
<1> DEFINE more == [borrows EXCEPT ![b] = @ + d]
<1>1. Borrowed(borrows) \in [BorrowTokens -> Sums] /\ Borrowed(more) \in [BorrowTokens -> Sums]
  BY BorrowContribution DEF Borrowed
<1>2. BorrowTotals(b, d) \in Sums
  BY BorrowContribution
<1>3. Borrowed(more)[b] = Plus(Borrowed(borrows)[b], BorrowTotals(b, d))
  BY BorrowIsLinear DEF Borrowed
<1>4. \A t \in BorrowTokens : t # b => Borrowed(more)[t] = Borrowed(borrows)[t]
  BY DEF Borrowed
<1>5. IsFiniteSet(SupplyTokens) /\ IsFiniteSet(BorrowTokens)
  BY Listed
<1> HIDE DEF more
<1>6. Sum(Borrowed(more)) = Plus(Sum(Borrowed(borrows)), BorrowTotals(b, d))
  BY <1>1, <1>2, <1>3, <1>4, <1>5, SumChanged
<1> QED
  BY <1>6 DEF more

LEMMA SumOfBalances ==
    ASSUME NEW supplies \in [SupplyTokens -> Int], NEW borrows \in [BorrowTokens -> Int]
    PROVE  /\ Supplied(supplies) \in [SupplyTokens -> Sums]
           /\ Borrowed(borrows) \in [BorrowTokens -> Sums]
           /\ Sum(Supplied(supplies)) \in Sums /\ Sum(Borrowed(borrows)) \in Sums
<1>1. /\ Supplied(supplies) \in [SupplyTokens -> Sums]
      /\ Borrowed(borrows) \in [BorrowTokens -> Sums]
  BY SupplyContribution, BorrowContribution DEF Supplied, Borrowed
<1>2. ASSUME NEW S, IsFiniteSet(S), NEW c \in [S -> Sums] PROVE Sum(c) \in Sums
  <2>1. PICK g : (\A T \in SUBSET S : g[T] = Step(c, g, T)) /\ Sum(c) = g[S]
    BY <1>2, SumByParts
  <2> QED
    BY <1>2, <2>1, SumTyped
<1> QED
  BY <1>1, <1>2, Listed

-----------------------------------------------------------------------------
(* A balanced portfolio: its totals are the sums over its balances.  They   *)
(* are natural numbers for that reason only: a withdrawal subtracts.        *)

Balanced(p) ==
    /\ p \in [supplies : [SupplyTokens -> Nat], borrows : [BorrowTokens -> Nat], totals : Sums]
    /\ p.totals = Plus(Sum(Supplied(p.supplies)), Sum(Borrowed(p.borrows)))

LEMMA BalancedIsItsClone ==
    ASSUME NEW p, Balanced(p)
    PROVE  Clone(p) = p
  BY DEF Balanced, Clone, NewPortfolio, Sum, Supplied, Borrowed

LEMMA NewIsBalanced ==
    ASSUME NEW supplies \in [SupplyTokens -> Nat], NEW borrows \in [BorrowTokens -> Nat]
    PROVE  Balanced(NewPortfolio(supplies, borrows))
<1>1. Plus(Sum(Supplied(supplies)), Sum(Borrowed(borrows))) \in Sums
  BY SumOfBalances, PlusTyped
<1> QED
  BY <1>1 DEF Balanced, NewPortfolio, Sum, Supplied, Borrowed

\* A linear bound between two totals, checked on each contribution.
LEMMA TotalsBounded ==
    ASSUME NEW p, Balanced(p), NEW q, Balanced(q), NEW a \in Nat, NEW b \in Nat,
           NEW n \in TotalNames, NEW m \in TotalNames,
           \A s \in SupplyTokens :
             a * SupplyTotals(s, p.supplies[s])[n] <= b * SupplyTotals(s, q.supplies[s])[m],
           \A t \in BorrowTokens :
             a * BorrowTotals(t, p.borrows[t])[n] <= b * BorrowTotals(t, q.borrows[t])[m]
    PROVE  a * p.totals[n] <= b * q.totals[m]
<1> DEFINE ps == Sum(Supplied(p.supplies))
           pb == Sum(Borrowed(p.borrows))
           qs == Sum(Supplied(q.supplies))
           qb == Sum(Borrowed(q.borrows))
<1>1. /\ p.supplies \in [SupplyTokens -> Int] /\ p.borrows \in [BorrowTokens -> Int]
      /\ q.supplies \in [SupplyTokens -> Int] /\ q.borrows \in [BorrowTokens -> Int]
  BY DEF Balanced
<1>2. /\ Supplied(p.supplies) \in [SupplyTokens -> Sums]
      /\ Supplied(q.supplies) \in [SupplyTokens -> Sums]
      /\ Borrowed(p.borrows) \in [BorrowTokens -> Sums]
      /\ Borrowed(q.borrows) \in [BorrowTokens -> Sums]
      /\ ps \in Sums /\ pb \in Sums /\ qs \in Sums /\ qb \in Sums
  BY <1>1, SumOfBalances
<1>3. a * ps[n] <= b * qs[m]
  <2>1. \A s \in SupplyTokens : a * Supplied(p.supplies)[s][n] <= b * Supplied(q.supplies)[s][m]
    BY DEF Supplied
  <2> QED
    BY <1>2, <2>1, Listed, SumBounded
<1>4. a * pb[n] <= b * qb[m]
  <2>1. \A t \in BorrowTokens : a * Borrowed(p.borrows)[t][n] <= b * Borrowed(q.borrows)[t][m]
    BY DEF Borrowed
  <2> QED
    BY <1>2, <2>1, Listed, SumBounded
<1> HIDE DEF ps, pb, qs, qb
<1>5. p.totals[n] = ps[n] + pb[n] /\ q.totals[m] = qs[m] + qb[m]
  BY <1>2, PlusTyped DEF Balanced, ps, pb, qs, qb
<1>6. ps[n] \in Int /\ pb[n] \in Int /\ qs[m] \in Int /\ qb[m] \in Int
  BY <1>2 DEF Sums
<1>7. a * (ps[n] + pb[n]) = a * ps[n] + a * pb[n] /\ b * (qs[m] + qb[m]) = b * qs[m] + b * qb[m]
  BY <1>6
<1> QED
  BY <1>3, <1>4, <1>5, <1>6, <1>7

\* A product of natural numbers is one, and grows with its first factor.
LEMMA Product ==
    ASSUME NEW a \in Nat, NEW b \in Nat, NEW k \in Nat
    PROVE  a * k \in Nat /\ (a <= b => a * k <= b * k)
<1>1. a * k \in Nat
  OBVIOUS
<1>2. ASSUME a <= b PROVE a * k <= b * k
  <2>1. b - a \in Nat /\ (b - a) * k \in Nat
    BY <1>2
  <2>2. b * k = a * k + (b - a) * k
    OBVIOUS
  <2> QED
    BY <1>1, <2>1, <2>2
<1> QED
  BY <1>1, <1>2

-----------------------------------------------------------------------------
(* The operations keep a portfolio balanced.                                *)

LEMMA SupplyOf ==
    ASSUME NEW p, Balanced(p), NEW s \in SupplyTokens, NEW d \in Int, p.supplies[s] + d \in Nat,
           NEW q, q = [supplies |-> [p.supplies EXCEPT ![s] = @ + d], borrows |-> p.borrows,
                       totals |-> Plus(p.totals, SupplyTotals(s, d))]
    PROVE  Balanced(q)
<1> DEFINE ps == Sum(Supplied(p.supplies))
           pb == Sum(Borrowed(p.borrows))
<1>1. p.supplies \in [SupplyTokens -> Int] /\ p.borrows \in [BorrowTokens -> Int]
  BY DEF Balanced
<1>2. ps \in Sums /\ pb \in Sums /\ SupplyTotals(s, d) \in Sums
  BY <1>1, SumOfBalances, SupplyContribution
<1>3. Sum(Supplied(q.supplies)) = Plus(ps, SupplyTotals(s, d))
  BY <1>1, SupplyChanged
<1> HIDE DEF ps, pb
<1>4. q.totals = Plus(Plus(ps, pb), SupplyTotals(s, d))
  BY DEF Balanced, ps, pb
<1>5. q.totals = Plus(Sum(Supplied(q.supplies)), pb)
  BY <1>2, <1>3, <1>4, PlusAnyOrder
<1>6. q.totals \in Sums
  BY <1>2, <1>4, PlusTyped
<1>7. q.supplies \in [SupplyTokens -> Nat] /\ q.borrows \in [BorrowTokens -> Nat]
  BY DEF Balanced
<1> QED
  BY <1>5, <1>6, <1>7 DEF Balanced, pb

LEMMA BorrowOf ==
    ASSUME NEW p, Balanced(p), NEW b \in BorrowTokens, NEW d \in Int, p.borrows[b] + d \in Nat,
           NEW q, q = [supplies |-> p.supplies, borrows |-> [p.borrows EXCEPT ![b] = @ + d],
                       totals |-> Plus(p.totals, BorrowTotals(b, d))]
    PROVE  Balanced(q)
<1> DEFINE ps == Sum(Supplied(p.supplies))
           pb == Sum(Borrowed(p.borrows))
<1>1. p.supplies \in [SupplyTokens -> Int] /\ p.borrows \in [BorrowTokens -> Int]
  BY DEF Balanced
<1>2. ps \in Sums /\ pb \in Sums /\ BorrowTotals(b, d) \in Sums
  BY <1>1, SumOfBalances, BorrowContribution
<1>3. Sum(Borrowed(q.borrows)) = Plus(pb, BorrowTotals(b, d))
  BY <1>1, BorrowChanged
<1> HIDE DEF ps, pb
<1>4. q.totals = Plus(Plus(ps, pb), BorrowTotals(b, d))
  BY DEF Balanced, ps, pb
<1>5. q.totals = Plus(ps, Sum(Borrowed(q.borrows)))
  BY <1>2, <1>3, <1>4, PlusAnyOrder
<1>6. q.totals \in Sums
  BY <1>2, <1>4, PlusTyped
<1>7. q.supplies \in [SupplyTokens -> Nat] /\ q.borrows \in [BorrowTokens -> Nat]
  BY DEF Balanced
<1> QED
  BY <1>5, <1>6, <1>7 DEF Balanced, ps

LEMMA Lookup ==
    ASSUME NEW t \in Tokens
    PROVE  /\ HasSupply(t) => FindSupply(t) \in SupplyTokens
           /\ HasBorrow(t) => FindBorrow(t) \in BorrowTokens
  BY DEF HasSupply, FindSupply, HasBorrow, FindBorrow

LEMMA OperationsBalance ==
    ASSUME NEW p, Balanced(p), NEW t \in Tokens, NEW amount \in Nat
    PROVE  /\ Balanced(Supply(p, t, amount)) /\ Balanced(Withdraw(p, t, amount))
           /\ Balanced(Borrow(p, t, amount)) /\ Balanced(Repay(p, t, amount))
<1> DEFINE s == FindSupply(t)
           b == FindBorrow(t)
<1>0. p = [supplies |-> p.supplies, borrows |-> p.borrows, totals |-> p.totals]
      /\ p.totals \in Sums
      /\ p.supplies \in [SupplyTokens -> Nat] /\ p.borrows \in [BorrowTokens -> Nat]
  BY DEF Balanced
<1>1. Balanced(Supply(p, t, amount))
  <2>1. CASE HasSupply(t)
    <3>1. s \in SupplyTokens /\ p.supplies[s] + amount \in Nat
      BY <1>0, <2>1, Lookup
    <3> DEFINE q == [supplies |-> [p.supplies EXCEPT ![s] = @ + amount], borrows |-> p.borrows,
                     totals |-> Plus(p.totals, SupplyTotals(s, amount))]
    <3>2. Supply(p, t, amount) = q
      BY <1>0, <2>1 DEF Supply
    <3> HIDE DEF s
    <3> QED
      BY <3>1, <3>2, SupplyOf
  <2> QED
    BY <2>1 DEF Supply
<1>2. Balanced(Withdraw(p, t, amount))
  <2>1. CASE HasSupply(t)
    <3> DEFINE taken == SmallerOf(amount, p.supplies[s])
               q == [supplies |-> [p.supplies EXCEPT ![s] = @ + (-taken)], borrows |-> p.borrows,
                     totals |-> Plus(p.totals, SupplyTotals(s, -taken))]
    <3>1. s \in SupplyTokens /\ taken \in Nat /\ p.supplies[s] + (-taken) \in Nat
      BY <1>0, <2>1, Lookup DEF SmallerOf
    <3>2. Plus(p.totals, SupplyTotals(s, -taken)) = Minus(p.totals, SupplyTotals(s, taken))
      BY <1>0, <3>1, SupplyIsLinear
    <3>3. [p.supplies EXCEPT ![s] = @ + (-taken)] = [p.supplies EXCEPT ![s] = @ - taken]
      BY <1>0, <3>1
    <3>4. Withdraw(p, t, amount) = q
      BY <1>0, <2>1, <3>2, <3>3 DEF Withdraw
    <3> HIDE DEF s, taken
    <3> QED
      BY <3>1, <3>4, SupplyOf
  <2> QED
    BY <2>1 DEF Withdraw
<1>3. Balanced(Borrow(p, t, amount))
  <2>1. CASE HasBorrow(t)
    <3>1. b \in BorrowTokens /\ p.borrows[b] + amount \in Nat
      BY <1>0, <2>1, Lookup
    <3> DEFINE q == [supplies |-> p.supplies, borrows |-> [p.borrows EXCEPT ![b] = @ + amount],
                     totals |-> Plus(p.totals, BorrowTotals(b, amount))]
    <3>2. Borrow(p, t, amount) = q
      BY <1>0, <2>1 DEF Borrow
    <3> HIDE DEF b
    <3> QED
      BY <3>1, <3>2, BorrowOf
  <2> QED
    BY <2>1 DEF Borrow
<1>4. Balanced(Repay(p, t, amount))
  <2>1. CASE HasBorrow(t)
    <3> DEFINE paid == SmallerOf(amount, p.borrows[b])
               q == [supplies |-> p.supplies, borrows |-> [p.borrows EXCEPT ![b] = @ + (-paid)],
                     totals |-> Plus(p.totals, BorrowTotals(b, -paid))]
    <3>1. b \in BorrowTokens /\ paid \in Nat /\ p.borrows[b] + (-paid) \in Nat
      BY <1>0, <2>1, Lookup DEF SmallerOf
    <3>2. Plus(p.totals, BorrowTotals(b, -paid)) = Minus(p.totals, BorrowTotals(b, paid))
      BY <1>0, <3>1, BorrowIsLinear
    <3>3. [p.borrows EXCEPT ![b] = @ + (-paid)] = [p.borrows EXCEPT ![b] = @ - paid]
      BY <1>0, <3>1
    <3>4. Repay(p, t, amount) = q
      BY <1>0, <2>1, <3>2, <3>3 DEF Repay
    <3> HIDE DEF b, paid
    <3> QED
      BY <3>1, <3>4, BorrowOf
  <2> QED
    BY <2>1 DEF Repay
<1> QED
  BY <1>1, <1>2, <1>3, <1>4

LEMMA ContributionsAreNatural ==
    ASSUME NEW amount \in Nat, NEW n \in TotalNames \ Weighed
    PROVE  /\ \A s \in SupplyTokens : SupplyTotals(s, amount)[n] \in Nat
           /\ \A b \in BorrowTokens : BorrowTotals(b, amount)[n] \in Nat
<1>1. ASSUME NEW s \in SupplyTokens PROVE SupplyTotals(s, amount)[n] \in Nat
  <2>1. s \in Tokens /\ amount * Price[s] \in Nat /\ CollateralUSD(s, amount) \in Nat
    BY Listed DEF CollateralUSD
  <2>2. CollateralUSD(s, amount) * LTV[s] \in Nat /\ CollateralUSD(s, amount) * Threshold[s] \in Nat
    BY <2>1, Listed
  <2> QED
    BY <2>1, <2>2, SupplyContribution DEF TotalNames, Weighed
<1>2. ASSUME NEW b \in BorrowTokens PROVE BorrowTotals(b, amount)[n] \in Nat
  <2>1. b \in Tokens /\ amount * Price[b] \in Nat
    BY Listed
  <2> QED
    BY <2>1, BorrowContribution DEF TotalNames, Weighed
<1> QED
  BY <1>1, <1>2

LEMMA BalancedIsTyped ==
    ASSUME NEW p, Balanced(p)
    PROVE  p \in Portfolios
<1>1. ASSUME NEW n \in TotalNames \ Weighed PROVE p.totals[n] \in Nat
  <2>1. \A s \in SupplyTokens :
          0 * SupplyTotals(s, p.supplies[s])[n] <= 1 * SupplyTotals(s, p.supplies[s])[n]
    BY ContributionsAreNatural DEF Balanced
  <2>2. \A b \in BorrowTokens :
          0 * BorrowTotals(b, p.borrows[b])[n] <= 1 * BorrowTotals(b, p.borrows[b])[n]
    BY ContributionsAreNatural DEF Balanced
  <2>3. 0 * p.totals[n] <= 1 * p.totals[n]
    BY <2>1, <2>2, TotalsBounded
  <2>4. p.totals[n] \in Int
    BY DEF Balanced, Sums
  <2> QED
    BY <2>3, <2>4
<1> QED
  BY <1>1 DEF Balanced, Sums, Portfolios

\* The totals that are no weighed APYs are natural numbers.
LEMMA TotalsAreNatural ==
    ASSUME NEW p, Balanced(p)
    PROVE  /\ p.totals["capacity"] \in Nat /\ p.totals["limit"] \in Nat
           /\ p.totals["borrowUSD"] \in Nat
BY BalancedIsTyped DEF Portfolios, TotalNames, Weighed

\* A relation of ltv and threshold that every supplied collateral has, the borrow
\* capacity and the liquidation limit have too.
LEMMA LimitCoversCapacity ==
    ASSUME NEW p, Balanced(p), NEW k \in Nat, NEW l \in Nat,
           \A s \in Collateral : p.supplies[s] > 0 => k * LTV[s] <= l * Threshold[s]
    PROVE  k * p.totals["capacity"] <= l * p.totals["limit"]
<1>1. ASSUME NEW s \in SupplyTokens
      PROVE  k * SupplyTotals(s, p.supplies[s])["capacity"]
               <= l * SupplyTotals(s, p.supplies[s])["limit"]
  <2> DEFINE usd == CollateralUSD(s, p.supplies[s])
  <2>1. p.supplies[s] \in Nat /\ s \in Tokens
    BY Listed DEF Balanced
  <2>2. usd \in Nat
    BY <2>1, Listed DEF CollateralUSD
  <2>3. /\ SupplyTotals(s, p.supplies[s])["capacity"] = usd * LTV[s]
        /\ SupplyTotals(s, p.supplies[s])["limit"] = usd * Threshold[s]
    BY <2>1, SupplyContribution
  <2>4. CASE s \in Collateral /\ p.supplies[s] > 0
    <3>1. k * LTV[s] \in Nat /\ l * Threshold[s] \in Nat /\ k * LTV[s] <= l * Threshold[s]
      BY <2>1, <2>4, Listed
    <3>2. (k * LTV[s]) * usd <= (l * Threshold[s]) * usd
      BY <2>2, <3>1, Product
    <3>3. LTV[s] \in Nat /\ Threshold[s] \in Nat
      BY <2>1, Listed
    <3>4. /\ (k * LTV[s]) * usd = k * (usd * LTV[s])
          /\ (l * Threshold[s]) * usd = l * (usd * Threshold[s])
      <4> HIDE DEF usd
      <4> QED
        BY <2>2, <3>3
    <3> QED
      BY <2>3, <3>2, <3>4
  <2>5. CASE ~ (s \in Collateral /\ p.supplies[s] > 0)
    <3>1. usd = 0
      BY <2>1, <2>5, Listed DEF CollateralUSD
    <3>2. usd * LTV[s] = 0 /\ usd * Threshold[s] = 0
      BY <2>1, <3>1, Listed
    <3> QED
      BY <2>3, <3>2
  <2> QED
    BY <2>4, <2>5
<1>2. \A b \in BorrowTokens : k * BorrowTotals(b, p.borrows[b])["capacity"]
                               <= l * BorrowTotals(b, p.borrows[b])["limit"]
  BY BorrowContribution DEF Balanced, TotalNames
<1> QED
  BY <1>1, <1>2, TotalsBounded DEF TotalNames

\* What canBorrow says of the health of a portfolio.
LEMMA BorrowableIsHealthy ==
    ASSUME Balanced(portfolio)
    PROVE  CanBorrowIsHealthy
<1> SUFFICES ASSUME CanBorrow(portfolio) PROVE CanBorrowIsHealthy
  BY DEF CanBorrowIsHealthy
<1> DEFINE capacity == portfolio.totals["capacity"]
           limit == portfolio.totals["limit"]
           debt == portfolio.totals["borrowUSD"]
<1>1. capacity \in Nat /\ limit \in Nat /\ debt \in Nat
  BY TotalsAreNatural
<1>2. capacity > debt * 10000
  BY DEF CanBorrow, HasBorrowCapacity
<1>3. \A s \in Collateral : LTV[s] \in Nat /\ Threshold[s] \in Nat
  BY Listed, TokenAssumption
<1>4. ASSUME \A s \in SuppliedCollateral : Threshold[s] >= LTV[s] PROVE limit > debt * 10000
  <2>1. \A s \in Collateral : portfolio.supplies[s] > 0 => 1 * LTV[s] <= 1 * Threshold[s]
    BY <1>3, <1>4 DEF SuppliedCollateral
  <2>2. 1 * capacity <= 1 * limit
    BY <2>1, LimitCoversCapacity
  <2> QED
    BY <1>1, <1>2, <2>2
<1>5. ASSUME \A s \in SuppliedCollateral : Threshold[s] * 10000 >= LTV[s] * 10001
      PROVE  IsHealthy(portfolio)
  <2>1. \A s \in Collateral : portfolio.supplies[s] > 0 => 10001 * LTV[s] <= 10000 * Threshold[s]
    BY <1>3, <1>5 DEF SuppliedCollateral
  <2>2. 10001 * capacity <= 10000 * limit
    BY <2>1, LimitCoversCapacity
  <2>3. limit > debt * 10001
    BY <1>1, <1>2, <2>2
  <2> QED
    BY <2>3 DEF IsHealthy
<1> QED
  BY <1>4, <1>5 DEF CanBorrowIsHealthy

\* More of every supply and less of every debt: a limit as high, a debt as low.
LEMMA HealthMonotone ==
    ASSUME NEW p, Balanced(p), NEW q, Balanced(q),
           \A s \in SupplyTokens : p.supplies[s] <= q.supplies[s],
           \A b \in BorrowTokens : q.borrows[b] <= p.borrows[b]
    PROVE  p.totals["limit"] <= q.totals["limit"] /\ q.totals["borrowUSD"] <= p.totals["borrowUSD"]
<1>0. /\ \A s \in SupplyTokens : p.supplies[s] \in Nat /\ q.supplies[s] \in Nat
      /\ \A b \in BorrowTokens : p.borrows[b] \in Nat /\ q.borrows[b] \in Nat
  BY DEF Balanced
<1>1. ASSUME NEW s \in SupplyTokens
      PROVE  /\ 1 * SupplyTotals(s, p.supplies[s])["limit"] <= 1 * SupplyTotals(s, q.supplies[s])["limit"]
             /\ 1 * SupplyTotals(s, q.supplies[s])["borrowUSD"]
                  <= 1 * SupplyTotals(s, p.supplies[s])["borrowUSD"]
  <2> DEFINE a == CollateralUSD(s, p.supplies[s])
             b == CollateralUSD(s, q.supplies[s])
  <2>1. s \in Tokens /\ Price[s] \in Nat /\ Threshold[s] \in Nat
    BY Listed
  <2>2. a \in Nat /\ b \in Nat /\ a <= b
    BY <1>0, <2>1, Product DEF CollateralUSD
  <2>3. a * Threshold[s] \in Nat /\ b * Threshold[s] \in Nat
        /\ a * Threshold[s] <= b * Threshold[s]
    <3> HIDE DEF a, b
    <3> QED
      BY <2>1, <2>2, Product
  <2> QED
    BY <1>0, <2>3, SupplyContribution
<1>2. ASSUME NEW b \in BorrowTokens
      PROVE  /\ 1 * BorrowTotals(b, p.borrows[b])["limit"] <= 1 * BorrowTotals(b, q.borrows[b])["limit"]
             /\ 1 * BorrowTotals(b, q.borrows[b])["borrowUSD"]
                  <= 1 * BorrowTotals(b, p.borrows[b])["borrowUSD"]
  <2>1. b \in Tokens /\ Price[b] \in Nat
    BY Listed
  <2>2. q.borrows[b] * Price[b] \in Nat /\ p.borrows[b] * Price[b] \in Nat
        /\ q.borrows[b] * Price[b] <= p.borrows[b] * Price[b]
    BY <1>0, <2>1, Product
  <2> QED
    BY <1>0, <2>2, BorrowContribution DEF TotalNames
<1>3. 1 * p.totals["limit"] <= 1 * q.totals["limit"]
  BY <1>1, <1>2, TotalsBounded DEF TotalNames
<1>4. 1 * q.totals["borrowUSD"] <= 1 * p.totals["borrowUSD"]
  BY <1>1, <1>2, TotalsBounded DEF TotalNames
<1>5. /\ p.totals["limit"] \in Nat /\ q.totals["limit"] \in Nat
      /\ p.totals["borrowUSD"] \in Nat /\ q.totals["borrowUSD"] \in Nat
  BY TotalsAreNatural
<1> QED
  BY <1>3, <1>4, <1>5

-----------------------------------------------------------------------------
(* The theorems.                                                            *)

\* The inductive invariant: the portfolio is balanced.
IInv == Balanced(portfolio)

\* It holds after any sequence of operations.
THEOREM AlwaysBalanced == Spec => []IInv
<1>1. Init => IInv
  BY NewIsBalanced DEF Init, IInv
<1>2. IInv /\ [Next]_portfolio => IInv'
  BY OperationsBalance, AmountAssumption
     DEF Next, DoSupply, DoWithdraw, DoBorrow, DoRepay, IInv
<1> QED
  BY <1>1, <1>2, PTL DEF Spec

\* Every balance stays a natural number, and so does every running total but the two
\* that weigh APYs, whatever is withdrawn or repaid: protocol.portfolio.ts cuts both to
\* the balance.  The gross APY of a borrow may be negative, and so may its total.
THEOREM TypeCorrect == Spec => []TypeOK
<1>1. IInv => TypeOK
  BY BalancedIsTyped DEF IInv, TypeOK
<1> QED
  BY <1>1, AlwaysBalanced, PTL

\* After any sequence of operations the running totals are what the constructor
\* computes from the balances, so that clone() changes no figure.
THEOREM TotalsAlwaysMatch == Spec => []TotalsMatchBalances
<1>1. IInv => TotalsMatchBalances
  BY BalancedIsItsClone DEF IInv, TotalsMatchBalances
<1> QED
  BY <1>1, AlwaysBalanced, PTL

\* A portfolio that can borrow has a health rate above 1, or above 1.0001, as far as the
\* thresholds of its supplied collateral lie above their ltvs (CanBorrowIsHealthy).
THEOREM BorrowersAreHealthy == Spec => []CanBorrowIsHealthy
<1>1. IInv => CanBorrowIsHealthy
  BY BorrowableIsHealthy DEF IInv, CanBorrowIsHealthy
<1> QED
  BY <1>1, AlwaysBalanced, PTL

\* The health rate, computed from two totals, drops only in a step that takes from a
\* supply or adds to a debt.
THEOREM HealthKept == Spec => HealthDropsOnlyByRisk
<1> DEFINE Risk == \/ \E s \in SupplyTokens : portfolio'.supplies[s] < portfolio.supplies[s]
                   \/ \E b \in BorrowTokens : portfolio'.borrows[b] > portfolio.borrows[b]
           Drop == portfolio'.totals["limit"] * portfolio.totals["borrowUSD"]
                     < portfolio.totals["limit"] * portfolio'.totals["borrowUSD"]
<1>1. ASSUME IInv, IInv', ~ Risk PROVE ~ Drop
  <2> DEFINE l == portfolio.totals["limit"]
             m == portfolio'.totals["limit"]
             d == portfolio.totals["borrowUSD"]
             e == portfolio'.totals["borrowUSD"]
  <2>1. /\ \A s \in SupplyTokens : portfolio.supplies[s] \in Nat /\ portfolio'.supplies[s] \in Nat
        /\ \A b \in BorrowTokens : portfolio.borrows[b] \in Nat /\ portfolio'.borrows[b] \in Nat
    BY <1>1 DEF IInv, Balanced
  <2>2. l <= m /\ e <= d
    BY <1>1, <2>1, HealthMonotone DEF IInv
  <2>3. l \in Nat /\ m \in Nat /\ d \in Nat /\ e \in Nat
    BY <1>1, TotalsAreNatural DEF IInv
  <2> HIDE DEF l, m, d, e
  <2>4. l * e <= m * e /\ e * m <= d * m
    BY <2>2, <2>3, Product
  <2>5. ~ m * d < l * e
    BY <2>3, <2>4
  <2> QED
    BY <2>5 DEF l, m, d, e
<1>2. IInv /\ IInv' => [Drop => Risk]_portfolio
  BY <1>1
<1> QED
  BY <1>2, AlwaysBalanced, PTL DEF HealthDropsOnlyByRisk
=============================================================================
