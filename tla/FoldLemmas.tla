----------------------------- MODULE FoldLemmas -----------------------------
(***************************************************************************)
(* Induction over numbers, finite sets and sequences, and the folds of the *)
(* community modules, which are defined by recursion over the parts of a   *)
(* set.  A step of a fold is a function here, so that one lemma serves     *)
(* every fold; an induction hypothesis is the set of what it holds of.     *)
(* Then division, and lists of logics: how they are joined, and when each  *)
(* of their flash loans encloses what they do on the market.               *)
(***************************************************************************)
EXTENDS SequencesExt, SequenceTheorems, FiniteSetTheorems, TLAPS

\* A set of natural numbers that is not empty has a least element.
LEMMA LeastElement ==
    ASSUME NEW T, T \subseteq Nat, T # {}
    PROVE  \E n \in T : \A m \in T : n <= m
<1> DEFINE Less == {p \in Nat \X Nat : p[1] < p[2]}
<1>1. IsWellFoundedOn(Less, Nat)
  BY NatLessThanWellFounded DEF OpToRel
<1>2. PICK n \in T : \A m \in T : <<m, n>> \notin Less
  <2> HIDE DEF Less
  <2> QED
    BY <1>1, WFMin
<1>3. ASSUME NEW m \in T PROVE n <= m
  <2>1. m \in Nat /\ n \in Nat /\ <<m, n>> \notin Less
    BY <1>2
  <2>2. <<m, n>> \in Nat \X Nat /\ <<m, n>>[1] = m /\ <<m, n>>[2] = n
    BY <2>1
  <2> QED
    BY <2>1, <2>2
<1> QED
  BY <1>3

\* What holds of 0, and of i whenever it holds of i - 1, holds up to n.
LEMMA UpTo ==
    ASSUME NEW n \in Nat, NEW P, 0 \in P, \A i \in 1..n : i - 1 \in P => i \in P
    PROVE  \A i \in 0..n : i \in P
<1> DEFINE Others == {i \in 0..n : i \notin P}
<1> SUFFICES ASSUME Others # {} PROVE FALSE
  OBVIOUS
<1>1. PICK i \in Others : \A j \in Others : i <= j
  <2>1. Others \subseteq Nat
    OBVIOUS
  <2> HIDE DEF Others
  <2> QED
    BY <2>1, LeastElement
<1>2. i \in 1..n /\ i - 1 \in 0..n /\ i - 1 \notin Others
  BY <1>1
<1> QED
  BY <1>1, <1>2

-----------------------------------------------------------------------------
\* One element of every part of S that has one.
Picks(S, pick) == \A T \in SUBSET S : T # {} => pick[T] \in T

LEMMA SmallerPart ==
    ASSUME NEW S, IsFiniteSet(S), NEW pick, Picks(S, pick), NEW T \in SUBSET S
    PROVE  /\ Cardinality(T) \in Nat
           /\ Cardinality(T) = 0 <=> T = {}
           /\ T # {} => /\ T \ {pick[T]} \in SUBSET S
                        /\ Cardinality(T \ {pick[T]}) = Cardinality(T) - 1
  BY FS_Subset, FS_CardinalityType, FS_EmptySet, FS_RemoveElement DEF Picks

\* What holds of the empty part, and of a part whenever it holds of it without the
\* element that is picked, holds of every part.
LEMMA PartsInduction ==
    ASSUME NEW S, IsFiniteSet(S), NEW pick, Picks(S, pick), NEW P, {} \in P,
           \A T \in SUBSET S : T # {} /\ T \ {pick[T]} \in P => T \in P
    PROVE  \A T \in SUBSET S : T \in P
<1> DEFINE Others == {T \in SUBSET S : T \notin P}
           Sizes == {Cardinality(T) : T \in Others}
<1> SUFFICES ASSUME Others # {} PROVE FALSE
  OBVIOUS
<1>1. \A T \in SUBSET S : Cardinality(T) \in Nat
  BY SmallerPart
<1>2. PICK n \in Sizes : \A m \in Sizes : n <= m
  <2>1. Sizes \subseteq Nat /\ Sizes # {}
    BY <1>1
  <2> HIDE DEF Sizes
  <2> QED
    BY <2>1, LeastElement
<1>3. PICK T \in Others : Cardinality(T) = n
  OBVIOUS
<1>4. T # {}
  OBVIOUS
<1>5. Cardinality(T \ {pick[T]}) = Cardinality(T) - 1
  BY <1>4, SmallerPart
<1>6. T \ {pick[T]} \in Others
  BY <1>4
<1>7. Cardinality(T \ {pick[T]}) \in Sizes
  BY <1>6
<1>8. Cardinality(T) \in Nat /\ Cardinality(T) <= Cardinality(T) - 1
  BY <1>1, <1>2, <1>3, <1>5, <1>7
<1> QED
  BY <1>8

\* F folds step over the parts of S, from base on; X is what it may come to.
FoldsParts(F, S, pick, X, base, step) ==
    /\ F \in [SUBSET S -> X]
    /\ \A T \in SUBSET S : F[T] = IF T = {} THEN base ELSE step[<<pick[T], F[T \ {pick[T]}]>>]

\* The recursion over the parts of a set that a fold is defined by has a solution.
LEMMA FoldExists ==
    ASSUME NEW S, IsFiniteSet(S), NEW pick, Picks(S, pick), NEW X, NEW base \in X,
           NEW step \in [S \X X -> X]
    PROVE  \E F : FoldsParts(F, S, pick, X, base, step)
<1> DEFINE Value(g, T) == IF T = {} THEN base ELSE step[<<pick[T], g[T \ {pick[T]}]>>]
           Small(n) == {T \in SUBSET S : Cardinality(T) <= n}
           Solves(n, g) == g \in [Small(n) -> X] /\ \A T \in Small(n) : g[T] = Value(g, T)
           P == {n \in 0..Cardinality(S) : \E g : Solves(n, g)}
<1>1. 0 \in P
  <2> DEFINE g == [T \in Small(0) |-> base]
  <2>1. \A T \in Small(0) : T = {}
    <3> SUFFICES ASSUME NEW T \in SUBSET S, Cardinality(T) <= 0 PROVE T = {}
      OBVIOUS
    <3>1. Cardinality(T) \in Nat
      BY SmallerPart
    <3>2. Cardinality(T) = 0
      BY <3>1
    <3> QED
      BY <3>2, SmallerPart
  <2>2. Solves(0, g)
    BY <2>1
  <2>3. 0 \in 0..Cardinality(S)
    BY FS_CardinalityType
  <2> HIDE DEF Solves
  <2> QED
    BY <2>2, <2>3
<1>2. ASSUME NEW n \in 1..Cardinality(S), n - 1 \in P PROVE n \in P
  <2>1. PICK h : Solves(n - 1, h)
    BY <1>2
  <2> DEFINE g == [T \in Small(n) |-> Value(h, T)]
  <2>2. n \in Nat /\ n - 1 \in Nat
    BY FS_CardinalityType
  <2>3. ASSUME NEW T \in Small(n), T # {}
        PROVE  T \ {pick[T]} \in Small(n - 1) /\ T \ {pick[T]} \in Small(n)
    <3>1. Cardinality(T) \in Nat /\ Cardinality(T) <= n /\ T \ {pick[T]} \in SUBSET S
          /\ Cardinality(T \ {pick[T]}) = Cardinality(T) - 1
      BY <2>3, SmallerPart
    <3> QED
      BY <2>2, <3>1
  <2>4. ASSUME NEW T \in Small(n - 1) PROVE T \in Small(n) /\ g[T] = h[T]
    <3>1. Cardinality(T) \in Nat /\ Cardinality(T) <= n - 1
      BY SmallerPart
    <3>2. T \in Small(n)
      BY <2>2, <3>1
    <3> QED
      BY <2>1, <3>2
  <2>5. ASSUME NEW T \in Small(n) PROVE g[T] \in X /\ g[T] = Value(g, T)
    <3>1. CASE T = {}
      BY <3>1
    <3>2. CASE T # {}
      <4>1. g[T] = Value(h, T)
        OBVIOUS
      <4>2. g[T \ {pick[T]}] = h[T \ {pick[T]}] /\ h[T \ {pick[T]}] \in X
        BY <2>1, <2>3, <2>4, <3>2
      <4>3. pick[T] \in S
        BY <3>2 DEF Picks
      <4> HIDE DEF g, Small
      <4>4. g[T] = step[<<pick[T], h[T \ {pick[T]}]>>]
        BY <3>2, <4>1
      <4>5. <<pick[T], h[T \ {pick[T]}]>> \in S \X X
        BY <4>2, <4>3
      <4>6. g[T] \in X
        BY <4>4, <4>5
      <4> QED
        BY <3>2, <4>2, <4>4, <4>6
    <3> QED
      BY <3>1, <3>2
  <2>6. Solves(n, g)
    <3>1. g = [T \in Small(n) |-> g[T]]
      OBVIOUS
    <3> HIDE DEF g, Small, Value
    <3>2. g \in [Small(n) -> X]
      BY <2>5, <3>1
    <3> QED
      BY <2>5, <3>2
  <2>7. n \in 0..Cardinality(S)
    BY FS_CardinalityType
  <2> HIDE DEF Solves, g
  <2> QED
    BY <2>6, <2>7
<1>3. Cardinality(S) \in Nat /\ Small(Cardinality(S)) = SUBSET S
  <2>1. \A T \in SUBSET S : Cardinality(T) <= Cardinality(S)
    BY FS_Subset
  <2> QED
    BY <2>1, FS_CardinalityType
<1>4. Cardinality(S) \in P
  <2> HIDE DEF P
  <2>1. \A i \in 0..Cardinality(S) : i \in P
    BY <1>1, <1>2, <1>3, UpTo
  <2> QED
    BY <1>3, <2>1
<1>5. PICK g : Solves(Cardinality(S), g)
  BY <1>4
<1>6. g \in [SUBSET S -> X] /\ \A T \in SUBSET S : g[T] = Value(g, T)
  BY <1>3, <1>5
<1> QED
  BY <1>6 DEF FoldsParts

-----------------------------------------------------------------------------
(* FoldLeft takes the positions of a sequence from the last one down.       *)

LEMMA LastPosition ==
    ASSUME NEW n \in Nat
    PROVE  /\ \A T \in SUBSET (1..n) : T # {} => Max(T) \in T /\ \A i \in T : i <= Max(T)
           /\ \A i \in 1..n : Max(1..i) = i /\ (1..i) \ {i} = 1..(i - 1)
<1>1. ASSUME NEW T \in SUBSET (1..n), T # {} PROVE \E x \in T : \A y \in T : x >= y
  <2> DEFINE Below == {n - x : x \in T}
  <2>1. \A x \in T : n - x \in Nat
    OBVIOUS
  <2>2. PICK m \in Below : \A k \in Below : m <= k
    <3>1. Below \subseteq Nat /\ Below # {}
      BY <1>1, <2>1
    <3> HIDE DEF Below
    <3> QED
      BY <3>1, LeastElement
  <2>3. PICK x \in T : m = n - x
    OBVIOUS
  <2>4. ASSUME NEW y \in T PROVE x >= y
    <3>1. m <= n - y /\ x \in Int /\ y \in Int
      BY <2>2
    <3> QED
      BY <2>3, <3>1
  <2> QED
    BY <2>4
<1>2. ASSUME NEW i \in 1..n PROVE Max(1..i) = i /\ (1..i) \ {i} = 1..(i - 1)
  <2>1. i \in 1..i /\ \A y \in 1..i : i >= y
    OBVIOUS
  <2>2. \A x \in 1..i : (\A y \in 1..i : x >= y) => x = i
    BY <2>1
  <2> QED
    BY <2>1, <2>2 DEF Max
<1>3. ASSUME NEW T \in SUBSET (1..n), T # {} PROVE Max(T) \in T /\ \A i \in T : i <= Max(T)
  <2>1. Max(T) \in T /\ \A i \in T : Max(T) >= i
    BY <1>1, <1>3 DEF Max
  <2> QED
    BY <2>1
<1> QED
  BY <1>2, <1>3

FoldsSeq(F, X, base, n, s, step) ==
    /\ F \in [SUBSET (1..n) -> X]
    /\ \A T \in SUBSET (1..n) : F[T] = IF T = {} THEN base ELSE step[<<F[T \ {Max(T)}], s[Max(T)]>>]

LEMMA SeqFoldExists ==
    ASSUME NEW X, NEW base \in X, NEW E, NEW n \in Nat, NEW s \in [1..n -> E],
           NEW step \in [X \X E -> X]
    PROVE  \E F : FoldsSeq(F, X, base, n, s, step)
<1> DEFINE pick == [T \in SUBSET (1..n) |-> Max(T)]
           at == [p \in (1..n) \X X |-> step[<<p[2], s[p[1]]>>]]
<1>1. IsFiniteSet(1..n)
  BY FS_Interval
<1>2. Picks(1..n, pick)
  BY LastPosition DEF Picks
<1>3. at \in [(1..n) \X X -> X]
  OBVIOUS
<1> HIDE DEF at, pick
<1>4. PICK F : FoldsParts(F, 1..n, pick, X, base, at)
  BY <1>1, <1>2, <1>3, FoldExists
<1>5. ASSUME NEW T \in SUBSET (1..n), T # {}
      PROVE  F[T] = step[<<F[T \ {Max(T)}], s[Max(T)]>>]
  <2>1. pick[T] = Max(T) /\ Max(T) \in 1..n /\ T \ {Max(T)} \in SUBSET (1..n)
    BY <1>5, LastPosition DEF pick
  <2>2. F[T] = at[<<Max(T), F[T \ {Max(T)}]>>]
    BY <1>4, <1>5, <2>1 DEF FoldsParts
  <2>3. <<Max(T), F[T \ {Max(T)}]>> \in (1..n) \X X
    BY <1>4, <2>1 DEF FoldsParts
  <2> QED
    BY <2>2, <2>3 DEF at
<1>6. F \in [SUBSET (1..n) -> X] /\ F[{}] = base
  BY <1>4 DEF FoldsParts
<1> QED
  BY <1>5, <1>6 DEF FoldsSeq

\* r[i] is where step has led from base after the first i of the n elements of s.
Leads(r, X, base, n, s, step) ==
    /\ r \in [0..n -> X] /\ r[0] = base
    /\ \A i \in 1..n : r[i] = step[<<r[i - 1], s[i]>>]

\* So a step that is taken for every element in turn leads somewhere after each.
LEMMA SeqSteps ==
    ASSUME NEW X, NEW base \in X, NEW E, NEW n \in Nat, NEW s \in [1..n -> E],
           NEW step \in [X \X E -> X]
    PROVE  \E r : Leads(r, X, base, n, s, step)
<1>1. PICK F : FoldsSeq(F, X, base, n, s, step)
  BY SeqFoldExists
<1> DEFINE r == [i \in 0..n |-> F[1..i]]
<1>2. \A i \in 0..n : 1..i \in SUBSET (1..n) /\ r[i] = F[1..i]
  OBVIOUS
<1> HIDE DEF r
<1>3. r \in [0..n -> X]
  <2>1. \A i \in 0..n : F[1..i] \in X
    BY <1>1, <1>2 DEF FoldsSeq
  <2> QED
    BY <2>1 DEF r
<1>4. r[0] = base
  <2>1. 1..0 = {} /\ 0 \in 0..n
    OBVIOUS
  <2> QED
    BY <1>1, <1>2, <2>1 DEF FoldsSeq
<1>5. ASSUME NEW i \in 1..n PROVE r[i] = step[<<r[i - 1], s[i]>>]
  <2>1. i \in 0..n /\ i - 1 \in 0..n /\ i \in 1..i
    OBVIOUS
  <2>2. Max(1..i) = i /\ (1..i) \ {i} = 1..(i - 1)
    BY LastPosition
  <2>3. F[1..i] = step[<<F[(1..i) \ {Max(1..i)}], s[Max(1..i)]>>]
    BY <1>1, <1>2, <2>1 DEF FoldsSeq
  <2> QED
    BY <1>2, <2>1, <2>2, <2>3
<1> QED
  BY <1>3, <1>4, <1>5 DEF Leads

\* Sequences laid end to end, one more each time.
Flattens(r, X, n, s) ==
    /\ r \in [0..n -> Seq(X)] /\ r[0] = <<>>
    /\ \A i \in 1..n : r[i] = r[i - 1] \o s[i]

LEMMA Flattened ==
    ASSUME NEW X, NEW n \in Nat, NEW s \in [1..n -> Seq(X)]
    PROVE  \E r : Flattens(r, X, n, s) /\ FlattenSeq(s) = r[n]
<1> DEFINE Rec(F) == F = [i \in 1..n |-> IF i = 1 THEN s[i] ELSE F[i - 1] \o s[i]]
           F == CHOOSE F : Rec(F)
           Y == Seq(X)
           step == [p \in Y \X Y |-> p[1] \o p[2]]
<1>1. \A t \in Y : <<>> \o t = t
  BY ConcatEmptySeq
<1>2. step \in [Y \X Y -> Y] /\ <<>> \in Y
  <2>1. \A t, u \in Y : t \o u \in Y
    BY ConcatProperties
  <2>2. <<>> \in Y
    BY EmptySeq
  <2> HIDE DEF Y
  <2> QED
    BY <2>1, <2>2
<1>3. Len(s) = n /\ s \in [1..n -> Y]
  OBVIOUS
<1>4. FlattenSeq(s) = IF n = 0 THEN s ELSE F[n]
  BY <1>3 DEF FlattenSeq
<1> HIDE DEF Y, step
<1>5. PICK r : Leads(r, Y, <<>>, n, s, step)
  BY <1>2, <1>3, SeqSteps
<1>6. r \in [0..n -> Y] /\ r[0] = <<>>
  BY <1>5 DEF Leads
<1>7. ASSUME NEW i \in 1..n
      PROVE  s[i] \in Y /\ r[i] = r[i - 1] \o s[i] /\ (i = 1 => r[i] = s[i])
  <2>1. i - 1 \in 0..n
    OBVIOUS
  <2>2. <<r[i - 1], s[i]>> \in Y \X Y
    BY <1>3, <1>6, <2>1
  <2>3. r[i] = r[i - 1] \o s[i]
    BY <1>5, <2>2 DEF Leads, step
  <2> QED
    BY <1>1, <1>3, <1>6, <2>3
<1>8. Rec([i \in 1..n |-> r[i]])
  <2> DEFINE G == [i \in 1..n |-> r[i]]
  <2>1. ASSUME NEW i \in 1..n PROVE r[i] = IF i = 1 THEN s[i] ELSE G[i - 1] \o s[i]
    <3>1. i # 1 => i - 1 \in 1..n
      OBVIOUS
    <3> QED
      BY <1>7, <3>1
  <2> QED
    BY <2>1
<1>9. Rec(F)
  BY <1>8
<1>10. n # 0 => F[n] = r[n]
  <2> DEFINE P == {j \in 0..n : j # 0 => F[j] = r[j]}
  <2>1. 0 \in P
    OBVIOUS
  <2>2. ASSUME NEW i \in 1..n, i - 1 \in P PROVE i \in P
    <3>1. F[i] = IF i = 1 THEN s[i] ELSE F[i - 1] \o s[i]
      BY <1>9
    <3>2. i # 1 => F[i - 1] = r[i - 1]
      BY <2>2
    <3> HIDE DEF F
    <3>3. F[i] = r[i]
      BY <1>7, <3>1, <3>2
    <3> QED
      BY <3>3
  <2>3. n \in 0..n
    OBVIOUS
  <2> HIDE DEF P
  <2>4. \A i \in 0..n : i \in P
    BY <2>1, <2>2, UpTo
  <2> QED
    BY <2>3, <2>4 DEF P
<1>11. FlattenSeq(s) = r[n]
  <2>1. CASE n = 0
    <3>1. s = <<>>
      BY <1>3, <2>1
    <3> QED
      BY <1>4, <1>6, <2>1, <3>1
  <2>2. CASE n # 0
    BY <1>4, <1>10, <2>2
  <2> QED
    BY <2>1, <2>2
<1> QED
  BY <1>6, <1>7, <1>11 DEF Y, Flattens

\* What is laid stays where it is.
Stays(r, i, n) ==
    /\ Len(r[i]) \in Nat /\ Len(r[n]) \in Nat /\ Len(r[i]) <= Len(r[n])
    /\ \A k \in 1..Len(r[i]) : r[n][k] = r[i][k]

LEMMA FlattenPrefix ==
    ASSUME NEW X, NEW n \in Nat, NEW s \in [1..n -> Seq(X)], NEW r, Flattens(r, X, n, s), NEW i \in 0..n
    PROVE  Stays(r, i, n)
<1> DEFINE P == {m \in 0..n : i <= m => /\ Len(r[i]) <= Len(r[m])
                                      /\ \A k \in 1..Len(r[i]) : r[m][k] = r[i][k]}
<1>1. \A m \in 0..n : r[m] \in Seq(X) /\ Len(r[m]) \in Nat
  BY LenProperties DEF Flattens
<1>2. 0 \in P
  <2>1. i <= 0 => i = 0
    OBVIOUS
  <2> QED
    BY <1>1, <2>1
<1>3. ASSUME NEW m \in 1..n, m - 1 \in P PROVE m \in P
  <2>1. m - 1 \in 0..n /\ m \in 0..n
    OBVIOUS
  <2>2. CASE ~(i <= m - 1)
    <3>1. i <= m => i = m
      BY <2>2
    <3> QED
      BY <1>1, <2>1, <3>1
  <2>3. CASE i <= m - 1
    <3>1. /\ Len(r[i]) <= Len(r[m - 1])
          /\ \A k \in 1..Len(r[i]) : r[m - 1][k] = r[i][k]
      BY <1>3, <2>3
    <3>2. /\ Len(r[m]) = Len(r[m - 1]) + Len(s[m]) /\ Len(s[m]) \in Nat
          /\ \A k \in 1..Len(r[m - 1]) : r[m][k] = r[m - 1][k]
      <4>1. r[m] = r[m - 1] \o s[m] /\ r[m - 1] \in Seq(X) /\ s[m] \in Seq(X)
        BY <1>1, <2>1 DEF Flattens
      <4>2. Len(s[m]) \in Nat /\ Len(r[m - 1]) \in Nat
        BY <4>1, LenProperties
      <4>3. \A k \in 1..Len(r[m - 1]) : k \in 1..(Len(r[m - 1]) + Len(s[m])) /\ k <= Len(r[m - 1])
        BY <4>2
      <4> QED
        BY <4>1, <4>2, <4>3, ConcatProperties
    <3>3. Len(r[i]) \in Nat /\ Len(r[m - 1]) \in Nat
      BY <1>1, <2>1
    <3>4. Len(r[i]) <= Len(r[m])
      BY <3>1, <3>2, <3>3
    <3>5. \A k \in 1..Len(r[i]) : r[m][k] = r[i][k]
      <4>1. \A k \in 1..Len(r[i]) : k \in 1..Len(r[m - 1])
        BY <3>1, <3>3
      <4> QED
        BY <3>1, <3>2, <4>1
    <3> QED
      BY <2>1, <3>4, <3>5
  <2> QED
    BY <2>2, <2>3
<1>4. n \in P
  <2>1. n \in 0..n
    OBVIOUS
  <2> HIDE DEF P
  <2>2. \A m \in 0..n : m \in P
    BY <1>2, <1>3, UpTo
  <2> QED
    BY <2>1, <2>2
<1>5. Len(r[i]) \in Nat /\ Len(r[n]) \in Nat
  BY <1>1
<1>6. i <= n
  OBVIOUS
<1> QED
  BY <1>4, <1>5, <1>6 DEF Stays

-----------------------------------------------------------------------------
(* The loop that appends an image of those elements of s that are Kept.    *)

\* out has the images of the first k elements that are Kept, each once: out[i] is of at[i].
SiftedBy(out, at, s, k, Kept, image) ==
    /\ at \in [DOMAIN out -> 1..k]
    /\ \A i, j \in DOMAIN out : at[i] = at[j] => i = j
    /\ \A i \in DOMAIN out : s[at[i]] \in Kept /\ out[i] = image[s[at[i]]]
    /\ \A m \in 1..k : s[m] \in Kept => \E i \in DOMAIN out : at[i] = m

\* r[i] is what has been appended after the first i of them.
Sifts(r, n, s, Kept, image) ==
    /\ r[0] = <<>>
    /\ \A i \in 1..n : r[i] = IF s[i] \in Kept THEN Append(r[i - 1], image[s[i]]) ELSE r[i - 1]

Sifted(out, Y, n, s, Kept, image) ==
    out \in Seq(Y) /\ \E at : SiftedBy(out, at, s, n, Kept, image)

LEMMA Sifting ==
    ASSUME NEW E, NEW Y, NEW n \in Nat, NEW s \in [1..n -> E], NEW Kept,
           NEW image \in [Kept -> Y],
           NEW r, Sifts(r, n, s, Kept, image)
    PROVE  Sifted(r[n], Y, n, s, Kept, image)
<1> DEFINE P == {k \in 0..n : r[k] \in Seq(Y) /\ \E at : SiftedBy(r[k], at, s, k, Kept, image)}
<1>1. 0 \in P
  <2>1. <<>> \in Seq(Y) /\ DOMAIN <<>> = {} /\ 0 \in 0..n
    BY EmptySeq
  <2>2. SiftedBy(<<>>, <<>>, s, 0, Kept, image)
    BY <2>1 DEF SiftedBy
  <2>3. r[0] = <<>>
    BY DEF Sifts
  <2> QED
    BY <2>1, <2>2, <2>3
<1>2. ASSUME NEW k \in 1..n, k - 1 \in P PROVE k \in P
  <2>1. PICK old : SiftedBy(r[k - 1], old, s, k - 1, Kept, image)
    BY <1>2
  <2> DEFINE q == r[k - 1]
  <2>2. q \in Seq(Y) /\ Len(q) \in Nat /\ DOMAIN q = 1..Len(q)
    BY <1>2, LenProperties
  <2>3. /\ old \in [1..Len(q) -> 1..(k - 1)]
        /\ \A i, j \in 1..Len(q) : old[i] = old[j] => i = j
        /\ \A i \in 1..Len(q) : s[old[i]] \in Kept /\ q[i] = image[s[old[i]]]
        /\ \A m \in 1..(k - 1) : s[m] \in Kept => \E i \in 1..Len(q) : old[i] = m
    BY <2>1, <2>2 DEF SiftedBy
  <2>4. \A m \in 1..k : m \in 1..(k - 1) \/ m = k
    OBVIOUS
  <2>5. 1..(k - 1) \subseteq 1..k /\ k \notin 1..(k - 1) /\ k \in 1..k
    OBVIOUS
  <2>6. CASE s[k] \notin Kept
    <3>1. r[k] = q
      BY <2>6 DEF Sifts
    <3>2. SiftedBy(q, old, s, k, Kept, image)
      <4> HIDE DEF q
      <4>1. old \in [DOMAIN q -> 1..k]
        BY <2>2, <2>3, <2>5
      <4>2. \A m \in 1..k : s[m] \in Kept => \E i \in DOMAIN q : old[i] = m
        BY <2>2, <2>3, <2>4, <2>6
      <4> QED
        BY <2>2, <2>3, <4>1, <4>2 DEF SiftedBy
    <3> QED
      BY <2>2, <3>1, <3>2
  <2>7. CASE s[k] \in Kept
    <3> DEFINE y == image[s[k]]
               out == Append(q, y)
               at == [i \in 1..(Len(q) + 1) |-> IF i = Len(q) + 1 THEN k ELSE old[i]]
    <3>1. y \in Y
      BY <2>7
    <3>2. r[k] = out
      BY <2>7 DEF Sifts
    <3> HIDE DEF q, y
    <3>3. /\ out \in Seq(Y) /\ DOMAIN out = 1..(Len(q) + 1)
          /\ \A i \in 1..Len(q) : out[i] = q[i]
          /\ out[Len(q) + 1] = y
      BY <2>2, <3>1, AppendProperties, LenProperties
    <3>4. \A i \in 1..(Len(q) + 1) : i \in 1..Len(q) \/ i = Len(q) + 1
      BY <2>2
    <3>5. Len(q) + 1 \notin 1..Len(q) /\ Len(q) + 1 \in 1..(Len(q) + 1) /\ 1..Len(q) \subseteq 1..(Len(q) + 1)
      BY <2>2
    <3>6. at[Len(q) + 1] = k /\ \A i \in 1..Len(q) : at[i] = old[i] /\ old[i] \in 1..(k - 1)
      BY <2>3, <3>5
    <3>7. at \in [1..(Len(q) + 1) -> 1..k]
      BY <2>3, <2>5, <3>4, <3>5
    <3> HIDE DEF at, out
    <3>8. \A i, j \in 1..(Len(q) + 1) : at[i] = at[j] => i = j
      BY <2>3, <2>5, <3>4, <3>6
    <3>9. \A i \in 1..(Len(q) + 1) : s[at[i]] \in Kept /\ out[i] = image[s[at[i]]]
      BY <2>3, <2>7, <3>3, <3>4, <3>6 DEF y
    <3>10. \A m \in 1..k : s[m] \in Kept => \E i \in 1..(Len(q) + 1) : at[i] = m
      <4> SUFFICES ASSUME NEW m \in 1..k, s[m] \in Kept PROVE \E i \in 1..(Len(q) + 1) : at[i] = m
        OBVIOUS
      <4>1. CASE m = k
        BY <3>5, <3>6, <4>1
      <4>2. CASE m # k
        <5>1. m \in 1..(k - 1)
          BY <2>4, <4>2
        <5>2. PICK i \in 1..Len(q) : old[i] = m
          BY <2>3, <5>1
        <5> QED
          BY <3>5, <3>6, <5>2
      <4> QED
        BY <4>1, <4>2
    <3>11. SiftedBy(out, at, s, k, Kept, image)
      BY <3>3, <3>7, <3>8, <3>9, <3>10 DEF SiftedBy
    <3> QED
      BY <3>2, <3>3, <3>11
  <2> QED
    BY <2>6, <2>7
<1>3. n \in P
  <2>1. n \in 0..n
    OBVIOUS
  <2> HIDE DEF P
  <2>2. \A i \in 0..n : i \in P
    BY <1>1, <1>2, UpTo
  <2> QED
    BY <2>1, <2>2
<1> QED
  BY <1>3 DEF Sifted

\* The same loop as FoldLeft computes it.
SiftFold(F, n, s, Kept, image) ==
    F = [T \in SUBSET (1..n) |-> IF T = {} THEN <<>>
                                ELSE IF s[Max(T)] \in Kept THEN Append(F[T \ {Max(T)}], image[s[Max(T)]])
                                ELSE F[T \ {Max(T)}]]

LEMMA SiftFoldExists ==
    ASSUME NEW E, NEW Y, NEW n \in Nat, NEW s \in [1..n -> E], NEW Kept,
           NEW image \in [Kept -> Y]
    PROVE  \E F : SiftFold(F, n, s, Kept, image)
<1> DEFINE X == Seq(Y)
           step == [p \in X \X E |-> IF p[2] \in Kept THEN Append(p[1], image[p[2]]) ELSE p[1]]
<1>1. <<>> \in X /\ step \in [X \X E -> X]
  <2>1. \A q \in X : \A e \in Y : Append(q, e) \in X
    BY AppendProperties
  <2>2. <<>> \in X
    BY EmptySeq
  <2> HIDE DEF X
  <2> QED
    BY <2>1, <2>2
<1> HIDE DEF X
<1>2. PICK F : FoldsSeq(F, X, <<>>, n, s, step)
  <2> HIDE DEF step
  <2> QED
    BY <1>1, SeqFoldExists
<1>3. ASSUME NEW T \in SUBSET (1..n), T # {}
      PROVE  F[T] = IF s[Max(T)] \in Kept THEN Append(F[T \ {Max(T)}], image[s[Max(T)]])
                    ELSE F[T \ {Max(T)}]
  <2>1. Max(T) \in 1..n
    BY <1>3, LastPosition
  <2>2. s[Max(T)] \in E /\ F[T \ {Max(T)}] \in X
    BY <1>2, <2>1 DEF FoldsSeq
  <2>3. F[T] = step[<<F[T \ {Max(T)}], s[Max(T)]>>]
    BY <1>2, <1>3 DEF FoldsSeq
  <2> QED
    BY <2>2, <2>3
<1>4. F \in [SUBSET (1..n) -> X] /\ F[{}] = <<>>
  BY <1>2 DEF FoldsSeq
<1>5. SiftFold(F, n, s, Kept, image)
  BY <1>3, <1>4 DEF SiftFold
<1> QED
  BY <1>5

LEMMA SiftFoldSifts ==
    ASSUME NEW n \in Nat, NEW s, NEW Kept, NEW image, NEW F, SiftFold(F, n, s, Kept, image)
    PROVE  \E r : Sifts(r, n, s, Kept, image) /\ r[n] = F[1..n]
<1> DEFINE r == [i \in 0..n |-> F[1..i]]
<1>1. r[0] = <<>>
  <2>1. 1..0 = {} /\ 0 \in 0..n /\ {} \in SUBSET (1..n)
    OBVIOUS
  <2>2. F[{}] = <<>>
    BY <2>1 DEF SiftFold
  <2> QED
    BY <2>1, <2>2
<1>2. ASSUME NEW i \in 1..n
      PROVE  r[i] = IF s[i] \in Kept THEN Append(r[i - 1], image[s[i]]) ELSE r[i - 1]
  <2>1. i \in 0..n /\ i - 1 \in 0..n /\ i \in 1..i /\ 1..i \in SUBSET (1..n)
    OBVIOUS
  <2>2. Max(1..i) = i /\ (1..i) \ {i} = 1..(i - 1)
    BY LastPosition
  <2>3. F[1..i] = IF s[i] \in Kept THEN Append(F[1..(i - 1)], image[s[i]]) ELSE F[1..(i - 1)]
    BY <2>1, <2>2 DEF SiftFold
  <2> QED
    BY <2>1, <2>3
<1>3. n \in 0..n /\ r[n] = F[1..n]
  OBVIOUS
<1> HIDE DEF r
<1> QED
  BY <1>1, <1>2, <1>3 DEF Sifts

LEMMA SiftFoldSifted ==
    ASSUME NEW E, NEW Y, NEW n \in Nat, NEW s \in [1..n -> E], NEW Kept,
           NEW image \in [Kept -> Y],
           NEW F, SiftFold(F, n, s, Kept, image)
    PROVE  Sifted(F[1..n], Y, n, s, Kept, image)
<1>1. PICK r : Sifts(r, n, s, Kept, image) /\ r[n] = F[1..n]
  BY SiftFoldSifts
<1>2. Sifted(r[n], Y, n, s, Kept, image)
  BY <1>1, Sifting
<1> QED
  BY <1>1, <1>2

-----------------------------------------------------------------------------
(* Integer division.                                                         *)

\* The quotient: the largest multiple that fits.
LEMMA DivBounds ==
    ASSUME NEW a \in Nat, NEW b \in Nat \ {0}
    PROVE  /\ a \div b \in Nat
           /\ b * (a \div b) <= a
           /\ a < b * (a \div b) + b
  OBVIOUS

\* A quotient of at most q is what makes the dividend less than q + 1 divisors.
LEMMA DivAtMost ==
    ASSUME NEW a \in Nat, NEW b \in Nat \ {0}, NEW q \in Nat, a < b * (q + 1)
    PROVE  a \div b <= q
  OBVIOUS

-----------------------------------------------------------------------------
(* Lists, joined, and the loans paired in a list of logics.                  *)

List(s) == Len(s) \in Nat /\ s = [i \in 1..Len(s) |-> s[i]]

\* Every logic of the list is of one of these kinds.
OnlyKinds(s, kinds) == List(s) /\ \A i \in 1..Len(s) : s[i].kind \in kinds

\* What stands between a flash loan and its repayment, and what may stand outside.
Market == {"supply", "withdraw", "borrow", "repay"}
Aside == {"swap", "send", "pull", "wrap"}
Inner == Market \cup Aside

\* A list that takes one loan to begin with, and one that repays it in the end.
TakesLoan(s, loan) ==
    /\ List(s) /\ Len(s) > 0 /\ s[1].kind = "loan" /\ s[1].output = loan
    /\ \A i \in 2..Len(s) : s[i].kind \in Inner
RepaysLoan(s, loan) ==
    /\ List(s) /\ Len(s) > 0 /\ s[Len(s)].kind = "loanRepay" /\ s[Len(s)].input = loan
    /\ \A i \in 1..(Len(s) - 1) : s[i].kind \in Inner

\* LoansPaired of a list.
Encloses(s, i, j) ==
    /\ s[j].kind = "loanRepay" /\ s[i].output = s[j].input
    /\ \A k \in 1..Len(s) : s[k].kind \in Market => i < k /\ k < j
Paired(s) ==
    /\ List(s)
    /\ \A i \in 1..Len(s) : s[i].kind = "loan" => \E j \in 1..Len(s) : Encloses(s, i, j)

\* What stands where in a joined list.
LEMMA Joined ==
    ASSUME NEW s, NEW t, List(s), List(t)
    PROVE  /\ List(s \o t) /\ Len(s \o t) = Len(s) + Len(t)
           /\ \A i \in 1..Len(s) : (s \o t)[i] = s[i]
           /\ \A i \in (Len(s) + 1)..(Len(s) + Len(t)) :
                 (s \o t)[i] = t[i - Len(s)] /\ i - Len(s) \in 1..Len(t)
<1> DEFINE S == {s[i] : i \in 1..Len(s)} \cup {t[i] : i \in 1..Len(t)}
<1>1. s \in Seq(S) /\ t \in Seq(S)
  <2>1. \A i \in 1..Len(s) : s[i] \in S
    OBVIOUS
  <2>2. \A i \in 1..Len(t) : t[i] \in S
    OBVIOUS
  <2> HIDE DEF S
  <2> QED
    BY <2>1, <2>2 DEF List
<1> HIDE DEF S
<1>2. s \o t \in Seq(S) /\ Len(s \o t) = Len(s) + Len(t)
  BY <1>1, ConcatProperties
<1>3. List(s \o t)
  <2>1. ASSUME NEW u \in Seq(S) PROVE Len(u) \in Nat /\ u = [i \in 1..Len(u) |-> u[i]]
    OBVIOUS
  <2> QED
    BY <1>2, <2>1 DEF List
<1>4. \A i \in 1..(Len(s) + Len(t)) :
        (s \o t)[i] = IF i <= Len(s) THEN s[i] ELSE t[i - Len(s)]
  BY <1>1, ConcatProperties
<1> QED
  BY <1>2, <1>3, <1>4 DEF List

\* A position of a joined list is one of its parts'.
LEMMA Parts ==
    ASSUME NEW s, NEW t, List(s), List(t), NEW i \in 1..Len(s \o t)
    PROVE  \/ i \in 1..Len(s) /\ (s \o t)[i] = s[i]
           \/ i > Len(s) /\ i - Len(s) \in 1..Len(t) /\ (s \o t)[i] = t[i - Len(s)]
  BY Joined DEF List

LEMMA KindsJoined ==
    ASSUME NEW s, NEW t, NEW kinds, OnlyKinds(s, kinds), OnlyKinds(t, kinds)
    PROVE  OnlyKinds(s \o t, kinds)
<1>1. \A i \in 1..Len(s \o t) : (s \o t)[i].kind \in kinds
  BY Parts DEF OnlyKinds
<1> QED
  BY <1>1, Joined DEF OnlyKinds

LEMMA KindsWiden ==
    ASSUME NEW s, NEW few, NEW many, OnlyKinds(s, few), few \subseteq many
    PROVE  OnlyKinds(s, many)
  BY DEF OnlyKinds

LEMMA NothingPaired ==
    ASSUME NEW s, OnlyKinds(s, Inner)
    PROVE  Paired(s)
  BY DEF OnlyKinds, Paired, Inner, Market, Aside

LEMMA LoanGoesOn ==
    ASSUME NEW s, NEW t, NEW loan, TakesLoan(s, loan), OnlyKinds(t, Inner)
    PROVE  TakesLoan(s \o t, loan)
<1>1. List(s) /\ List(t) /\ Len(s) > 0
  BY DEF TakesLoan, OnlyKinds
<1>2. \A i \in 2..Len(s \o t) : (s \o t)[i].kind \in Inner
  BY <1>1, Parts, Joined DEF TakesLoan, OnlyKinds, List
<1>3. 1 \in 1..Len(s)
  BY <1>1 DEF List
<1>4. (s \o t)[1] = s[1] /\ List(s \o t) /\ Len(s \o t) > 0
  BY <1>1, <1>3, Joined DEF List
<1> QED
  BY <1>2, <1>4 DEF TakesLoan

LEMMA LoanRepaid ==
    ASSUME NEW s, NEW t, NEW loan, TakesLoan(s, loan), RepaysLoan(t, loan)
    PROVE  Paired(s \o t)
<1> DEFINE n == Len(s) + Len(t)
<1>1. List(s) /\ List(t) /\ Len(s) > 0 /\ Len(t) > 0 /\ Len(s) \in Nat /\ Len(t) \in Nat
  BY DEF TakesLoan, RepaysLoan, List
<1>2. List(s \o t) /\ Len(s \o t) = n /\ n \in 1..n /\ 1 < n
  BY <1>1, Joined
<1>3. (s \o t)[1] = s[1] /\ (s \o t)[n] = t[Len(t)]
  BY <1>1, Joined
<1>4. ASSUME NEW k \in 1..n, k # 1, k # n PROVE (s \o t)[k].kind \in Inner
  <2>1. CASE k \in 1..Len(s) /\ (s \o t)[k] = s[k]
    BY <1>4, <2>1 DEF TakesLoan
  <2>2. CASE k > Len(s) /\ k - Len(s) \in 1..Len(t) /\ (s \o t)[k] = t[k - Len(s)]
    <3>1. k - Len(s) \in 1..(Len(t) - 1)
      BY <1>1, <1>4, <2>2
    <3> QED
      BY <2>2, <3>1 DEF RepaysLoan
  <2> QED
    BY <1>1, <1>2, <2>1, <2>2, Parts
<1>5. (s \o t)[1].kind = "loan" /\ (s \o t)[1].output = loan
      /\ (s \o t)[n].kind = "loanRepay" /\ (s \o t)[n].input = loan
  BY <1>3 DEF TakesLoan, RepaysLoan
<1>6. Encloses(s \o t, 1, n)
  BY <1>1, <1>2, <1>4, <1>5 DEF Encloses, Market
<1>7. \A i \in 1..n : (s \o t)[i].kind = "loan" => i = 1
  BY <1>4, <1>5 DEF Inner, Market, Aside
<1> HIDE DEF n
<1> QED
  BY <1>2, <1>6, <1>7 DEF Paired

\* Nothing on the market may be added before the loan or after its repayment.
LEMMA PairedBefore ==
    ASSUME NEW s, NEW t, OnlyKinds(s, Aside), Paired(t)
    PROVE  Paired(s \o t)
<1>1. List(s) /\ List(t) /\ Len(s) \in Nat /\ Len(t) \in Nat
  BY DEF OnlyKinds, Paired, List
<1>2. List(s \o t) /\ Len(s \o t) = Len(s) + Len(t)
  BY <1>1, Joined
<1>3. ASSUME NEW i \in 1..Len(s \o t), (s \o t)[i].kind = "loan"
      PROVE  \E j \in 1..Len(s \o t) : Encloses(s \o t, i, j)
  <2>1. i - Len(s) \in 1..Len(t) /\ (s \o t)[i] = t[i - Len(s)]
    BY <1>1, <1>3, Parts DEF OnlyKinds, Aside
  <2>2. PICK j \in 1..Len(t) : Encloses(t, i - Len(s), j)
    BY <1>3, <2>1 DEF Paired
  <2>3. j + Len(s) \in (Len(s) + 1)..(Len(s) + Len(t)) /\ j + Len(s) - Len(s) = j
    BY <1>1, <2>2
  <2>4. (s \o t)[j + Len(s)] = t[j] /\ j + Len(s) \in 1..Len(s \o t)
    BY <1>1, <1>2, <2>3, Joined
  <2>5. ASSUME NEW k \in 1..Len(s \o t), (s \o t)[k].kind \in Market
        PROVE  i < k /\ k < j + Len(s)
    <3>1. k - Len(s) \in 1..Len(t) /\ (s \o t)[k] = t[k - Len(s)]
      BY <1>1, <2>5, Parts DEF OnlyKinds, Aside, Market
    <3>2. i - Len(s) < k - Len(s) /\ k - Len(s) < j
      BY <2>2, <2>5, <3>1 DEF Encloses
    <3> QED
      BY <1>1, <1>2, <3>2
  <2> QED
    BY <2>1, <2>2, <2>4, <2>5 DEF Encloses
<1> QED
  BY <1>2, <1>3 DEF Paired

LEMMA PairedAfter ==
    ASSUME NEW s, NEW t, Paired(s), OnlyKinds(t, Aside)
    PROVE  Paired(s \o t)
<1>1. List(s) /\ List(t) /\ Len(s) \in Nat /\ Len(t) \in Nat
  BY DEF OnlyKinds, Paired, List
<1>2. List(s \o t) /\ Len(s \o t) = Len(s) + Len(t)
  BY <1>1, Joined
<1>3. ASSUME NEW i \in 1..Len(s \o t), (s \o t)[i].kind = "loan"
      PROVE  \E j \in 1..Len(s \o t) : Encloses(s \o t, i, j)
  <2>1. i \in 1..Len(s) /\ (s \o t)[i] = s[i]
    <3>1. (s \o t)[i].kind \notin Aside
      BY <1>3 DEF Aside
    <3> QED
      BY <1>1, <3>1, Parts DEF OnlyKinds
  <2>2. PICK j \in 1..Len(s) : Encloses(s, i, j)
    BY <1>3, <2>1 DEF Paired
  <2>3. (s \o t)[j] = s[j] /\ j \in 1..Len(s \o t)
    BY <1>1, <1>2, Joined
  <2>4. ASSUME NEW k \in 1..Len(s \o t), (s \o t)[k].kind \in Market PROVE i < k /\ k < j
    <3>1. (s \o t)[k].kind \notin Aside
      BY <2>4 DEF Aside, Market
    <3>2. k \in 1..Len(s) /\ (s \o t)[k] = s[k]
      BY <1>1, <3>1, Parts DEF OnlyKinds
    <3> QED
      BY <2>2, <2>4, <3>2 DEF Encloses
  <2> QED
    BY <2>1, <2>2, <2>3, <2>4 DEF Encloses
<1> QED
  BY <1>2, <1>3 DEF Paired

\* The empty list adds nothing.
LEMMA JoinNothing ==
    ASSUME NEW s, List(s)
    PROVE  <<>> \o s = s /\ s \o <<>> = s
<1>1. List(<<>>) /\ Len(<<>>) = 0
  BY DEF List
<1> DEFINE e == <<>>
<1> HIDE DEF e
<1>2. List(e) /\ Len(e) = 0 /\ Len(s) \in Nat
  BY <1>1 DEF e, List
<1>3. e \o s = s
  <2>1. /\ List(e \o s) /\ Len(e \o s) = 0 + Len(s)
        /\ \A i \in (0 + 1)..(0 + Len(s)) : (e \o s)[i] = s[i - 0]
    BY <1>2, Joined
  <2>2. Len(e \o s) = Len(s) /\ \A i \in 1..Len(s) : (e \o s)[i] = s[i]
    BY <1>2, <2>1
  <2> QED
    BY <2>1, <2>2 DEF List
<1>4. s \o e = s
  <2>1. /\ List(s \o e) /\ Len(s \o e) = Len(s) + 0
        /\ \A i \in 1..Len(s) : (s \o e)[i] = s[i]
    BY <1>2, Joined
  <2>2. Len(s \o e) = Len(s)
    BY <1>2, <2>1
  <2> QED
    BY <2>1, <2>2 DEF List
<1> QED
  BY <1>3, <1>4 DEF e

\* Lists of two and three logics are joined of shorter ones.
LEMMA InOne ==
    ASSUME NEW k, NEW l, NEW m
    PROVE  <<k>> \o <<l>> = <<k, l>> /\ <<k, l>> \o <<m>> = <<k, l, m>>
<1>1. List(<<k>>) /\ Len(<<k>>) = 1 /\ <<k>>[1] = k
  BY DEF List
<1>2. List(<<l>>) /\ Len(<<l>>) = 1 /\ <<l>>[1] = l
  BY DEF List
<1>3. List(<<m>>) /\ Len(<<m>>) = 1 /\ <<m>>[1] = m
  BY DEF List
<1>4. List(<<k, l>>) /\ Len(<<k, l>>) = 2 /\ <<k, l>>[1] = k /\ <<k, l>>[2] = l
  BY DEF List
<1>5. /\ List(<<k, l, m>>) /\ Len(<<k, l, m>>) = 3
      /\ <<k, l, m>>[1] = k /\ <<k, l, m>>[2] = l /\ <<k, l, m>>[3] = m
  BY DEF List
<1> DEFINE two == <<k, l>>
           three == <<k, l, m>>
           s == <<k>> \o <<l>>
           t == two \o <<m>>
<1>6. List(s) /\ Len(s) = 2 /\ s[1] = k /\ s[2] = l
  <2>1. List(s) /\ Len(s) = 1 + 1 /\ (\A i \in 1..1 : s[i] = <<k>>[i])
        /\ (\A i \in (1 + 1)..(1 + 1) : s[i] = <<l>>[i - 1])
    BY <1>1, <1>2, Joined
  <2> HIDE DEF s
  <2> QED
    BY <1>1, <1>2, <2>1
<1>7. List(t) /\ Len(t) = 3 /\ t[1] = k /\ t[2] = l /\ t[3] = m
  <2> HIDE DEF two
  <2>1. List(t) /\ Len(t) = 2 + 1 /\ (\A i \in 1..2 : t[i] = two[i])
        /\ (\A i \in (2 + 1)..(2 + 1) : t[i] = <<m>>[i - 2])
    BY <1>3, <1>4, Joined DEF two
  <2> HIDE DEF t
  <2> QED
    BY <1>3, <1>4, <2>1 DEF two
<1> HIDE DEF s, t, two, three
<1>8. s = two
  <2>1. \A i \in 1..2 : s[i] = two[i]
    BY <1>4, <1>6 DEF two
  <2> QED
    BY <1>4, <1>6, <2>1 DEF List, two
<1>9. t = three
  <2>1. \A i \in 1..3 : t[i] = three[i]
    BY <1>5, <1>7 DEF three
  <2> QED
    BY <1>5, <1>7, <2>1 DEF List, three
<1> QED
  BY <1>8, <1>9 DEF s, t, two, three

\* A set of at most one member has one order.
LEMMA OneInTurn ==
    ASSUME NEW r
    PROVE  SetToSeq({}) = <<>> /\ SetToSeq({r}) = <<r>>
<1>1. SetToSeq({}) = <<>>
  <2> DEFINE e == <<>>
  <2>1. List(e) /\ Len(e) = 0
    BY DEF List
  <2> HIDE DEF e
  <2>2. e = [i \in 1..0 |-> e[i]] /\ 1..0 = {}
    BY <2>1 DEF List
  <2>3. e \in [1..0 -> {}] /\ IsInjective(e)
    BY <2>2 DEF IsInjective
  <2>4. SetToSeq({}) \in [1..0 -> {}]
    <3>1. Cardinality({}) = 0
      BY FS_EmptySet
    <3>2. SetToSeq({}) = CHOOSE f \in [1..0 -> {}] : IsInjective(f)
      BY <3>1 DEF SetToSeq
    <3> QED
      BY <2>3, <3>2
  <2>5. SetToSeq({}) = e
    BY <2>2, <2>4
  <2> QED
    BY <2>5 DEF e
<1>2. SetToSeq({r}) = <<r>>
  <2> DEFINE e == <<r>>
  <2>1. List(e) /\ Len(e) = 1 /\ e[1] = r
    BY DEF List
  <2> HIDE DEF e
  <2>2. e = [i \in 1..1 |-> r] /\ 1..1 = {1}
    BY <2>1 DEF List
  <2>3. e \in [1..1 -> {r}] /\ IsInjective(e)
    BY <2>2 DEF IsInjective
  <2>4. SetToSeq({r}) \in [1..1 -> {r}]
    <3>1. Cardinality({r}) = 1
      BY FS_Singleton
    <3>2. SetToSeq({r}) = CHOOSE f \in [1..1 -> {r}] : IsInjective(f)
      BY <3>1 DEF SetToSeq
    <3> QED
      BY <2>3, <3>2
  <2>5. SetToSeq({r}) = e
    BY <2>2, <2>4
  <2> QED
    BY <2>5 DEF e
<1> QED
  BY <1>1, <1>2

LEMMA FiveInTwo ==
    ASSUME NEW k, NEW l, NEW m, NEW n, NEW o
    PROVE  <<k, l, m>> \o <<n, o>> = <<k, l, m, n, o>>
<1> DEFINE s == <<k, l, m>>
           t == <<n, o>>
           u == <<k, l, m, n, o>>
           v == s \o t
<1>1. List(s) /\ Len(s) = 3 /\ s[1] = k /\ s[2] = l /\ s[3] = m
  BY DEF List
<1>2. List(t) /\ Len(t) = 2 /\ t[1] = n /\ t[2] = o
  BY DEF List
<1>3. List(u) /\ Len(u) = 5 /\ u[1] = k /\ u[2] = l /\ u[3] = m /\ u[4] = n /\ u[5] = o
  BY DEF List
<1> HIDE DEF s, t, u
<1>4. List(v) /\ Len(v) = 3 + 2 /\ (\A i \in 1..3 : v[i] = s[i])
      /\ (\A i \in (3 + 1)..(3 + 2) : v[i] = t[i - 3])
  <2>1. /\ List(v) /\ Len(v) = Len(s) + Len(t)
        /\ \A i \in 1..Len(s) : v[i] = s[i]
        /\ \A i \in (Len(s) + 1)..(Len(s) + Len(t)) : v[i] = t[i - Len(s)]
    BY <1>1, <1>2, Joined
  <2> HIDE DEF v
  <2> QED
    BY <1>1, <1>2, <2>1
<1> HIDE DEF v
<1>5. \A i \in 1..5 : v[i] = u[i]
  <2>1. v[1] = u[1] /\ v[2] = u[2] /\ v[3] = u[3] /\ v[4] = u[4] /\ v[5] = u[5]
    BY <1>1, <1>2, <1>3, <1>4
  <2> QED
    BY <2>1
<1>6. v = u
  BY <1>3, <1>4, <1>5 DEF List
<1> QED
  BY <1>6 DEF s, t, u, v

\* What a list keeps when neither its loans nor a kind changes.
LEMMA PairedKept ==
    ASSUME NEW s, NEW t, Paired(s), List(t), Len(t) = Len(s),
           \A i \in 1..Len(s) : t[i].kind = s[i].kind,
           \A i \in 1..Len(s) : s[i].kind \in {"loan", "loanRepay"} => t[i] = s[i]
    PROVE  Paired(t)
<1>1. ASSUME NEW i \in 1..Len(t), t[i].kind = "loan" PROVE \E j \in 1..Len(t) : Encloses(t, i, j)
  <2>1. PICK j \in 1..Len(s) : Encloses(s, i, j)
    BY <1>1 DEF Paired
  <2>2. t[i] = s[i] /\ t[j] = s[j]
    BY <1>1, <2>1 DEF Encloses
  <2> QED
    BY <2>1, <2>2 DEF Encloses
<1> QED
  BY <1>1 DEF Paired

-----------------------------------------------------------------------------
(* A zap that joins the k-th logic of a list.                                *)

Within(s, k) == List(s) /\ k \in 1..Len(s)

ZappedInto(s, k, z, i) ==
    IF i = k THEN [s[i] EXCEPT !.input.amount = @ + z, !.bps = TRUE]
    ELSE IF i = k - 1 /\ s[i].kind = "swap" THEN [s[i] EXCEPT !.output.amount = @ + z]
    ELSE s[i]
Zapped(s, k, z) == [i \in 1..Len(s) |-> ZappedInto(s, k, z, i)]

\* What is appended to the list stays as it is.
LEMMA ZappedOn ==
    ASSUME NEW s, NEW k, Within(s, k), NEW t, List(t), NEW z
    PROVE  Within(s \o t, k) /\ Zapped(s \o t, k, z) = Zapped(s, k, z) \o t
<1> DEFINE u == s \o t
           x == Zapped(s, k, z)
           m == Len(s)
           n == Len(t)
<1>1. /\ List(u) /\ Len(u) = m + n /\ m \in Nat /\ n \in Nat /\ k \in 1..m
      /\ \A i \in 1..m : u[i] = s[i]
      /\ \A i \in (m + 1)..(m + n) : u[i] = t[i - m] /\ i - m \in 1..n
  BY Joined DEF Within, List
<1> HIDE DEF u
<1>2. List(x) /\ Len(x) = m /\ \A i \in 1..m : x[i] = ZappedInto(s, k, z, i)
  <2>1. x = [i \in 1..m |-> ZappedInto(s, k, z, i)]
    BY DEF Zapped
  <2> HIDE DEF x
  <2>2. Len(x) = m
    BY <1>1, <2>1
  <2> QED
    BY <1>1, <2>1, <2>2 DEF List
<1> HIDE DEF x
<1>3. /\ List(x \o t) /\ Len(x \o t) = m + n
      /\ \A i \in 1..m : (x \o t)[i] = x[i]
      /\ \A i \in (m + 1)..(m + n) : (x \o t)[i] = t[i - m]
  BY <1>2, Joined
<1>4. ASSUME NEW i \in 1..(m + n) PROVE ZappedInto(u, k, z, i) = (x \o t)[i]
  <2>1. CASE i \in 1..m
    <3>1. u[i] = s[i] /\ (x \o t)[i] = ZappedInto(s, k, z, i)
      BY <1>1, <1>2, <1>3, <2>1
    <3> QED
      BY <3>1 DEF ZappedInto
  <2>2. CASE i \in (m + 1)..(m + n)
    <3>1. i # k /\ i # k - 1
      BY <1>1, <2>2
    <3> QED
      BY <1>1, <1>3, <2>2, <3>1 DEF ZappedInto
  <2>3. i \in 1..m \/ i \in (m + 1)..(m + n)
    <3> HIDE DEF m, n
    <3> QED
      BY <1>1
  <2> QED
    BY <2>1, <2>2, <2>3
<1>5. Zapped(u, k, z) = x \o t
  <2>1. x \o t = [i \in 1..(m + n) |-> (x \o t)[i]]
    BY <1>3 DEF List
  <2>2. Zapped(u, k, z) = [i \in 1..(m + n) |-> ZappedInto(u, k, z, i)]
    BY <1>1 DEF Zapped
  <2> HIDE DEF m, n
  <2> QED
    BY <1>4, <2>1, <2>2
<1> QED
  BY <1>1, <1>5 DEF Within, u, x

=============================================================================
