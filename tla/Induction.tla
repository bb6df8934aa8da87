----------------------------- MODULE Induction -----------------------------
(***************************************************************************)
(* Induction and recursion over data, for the proofs about what the        *)
(* recursive definitions of the models compute.  The induction theorems of *)
(* the library speak of all predicates; these speak of all sets, so that   *)
(* first-order provers can use them.                                       *)
(***************************************************************************)
EXTENDS SequencesExt, SequenceTheorems, WellFoundedInduction, TLAPS

-----------------------------------------------------------------------------
(* Every set of numbers has a least element.                               *)

(* The order of the natural numbers as a well-founded relation.            *)
LEMMA LessThan ==
    \E R : IsWellFoundedOn(R, Nat) /\ \A x, y \in Nat : <<y, x>> \in R <=> y < x
<1>1. IsWellFoundedOn(OpToRel(<, Nat), Nat)
  BY NatLessThanWellFounded
<1>2. \A x, y \in Nat : <<y, x>> \in OpToRel(<, Nat) <=> y < x
  BY DEF OpToRel
<1> QED BY <1>1, <1>2, Zenon

(* Every nonempty set of natural numbers has a least element.              *)
LEMMA NatMinimum ==
    ASSUME NEW T, T \subseteq Nat, T # {}
    PROVE  \E x \in T : \A y \in T : x <= y
<1>1. PICK R : IsWellFoundedOn(R, Nat) /\ \A x, y \in Nat : <<y, x>> \in R <=> y < x
  BY LessThan
<1>2. PICK x \in T : \A y \in T : ~ (<<y, x>> \in R)
  BY <1>1, WFMin
<1>3. \A y \in T : ~ (y < x)
  BY <1>1, <1>2
<1>4. \A y \in T : x <= y
  BY <1>3
<1> QED BY <1>4

(* The least of some numbers is one of them, and no greater than any.      *)
LEMMA MinOfNats ==
    ASSUME NEW S, S \subseteq Nat, S # {}
    PROVE  Min(S) \in S /\ \A y \in S : Min(S) <= y
  BY NatMinimum DEF Min

(* Numbers up to a bound have a greatest one.                              *)
LEMMA MaxOfNats ==
    ASSUME NEW n \in Nat, NEW S, S \subseteq 0..n, S # {}
    PROVE  Max(S) \in S /\ \A y \in S : y <= Max(S)
<1> DEFINE T == {n - x : x \in S}
<1>1. T \subseteq Nat /\ T # {}
  <2>1. \A x \in S : n - x \in Nat
    OBVIOUS
  <2>2. PICK x \in S : TRUE
    OBVIOUS
  <2>3. n - x \in T
    OBVIOUS
  <2> QED BY <2>1, <2>3
<1>2. PICK m \in T : \A y \in T : m <= y
  BY <1>1, NatMinimum
<1>3. PICK x \in S : m = n - x
  BY <1>2
<1>4. \A y \in S : x >= y
  <2> SUFFICES ASSUME NEW y \in S
               PROVE  x >= y
    OBVIOUS
  <2>1. n - y \in T /\ x \in 0..n /\ y \in 0..n
    BY <1>3
  <2>2. n - x <= n - y
    BY <1>2, <1>3, <2>1
  <2> QED BY <2>1, <2>2
<1>5. Max(S) \in S /\ \A y \in S : Max(S) >= y
  BY <1>4 DEF Max
<1> QED BY <1>5

(* A number of the set that is no greater than any is the least.           *)
LEMMA LeastIs ==
    ASSUME NEW S, S \subseteq Nat, NEW x \in S, \A y \in S : x <= y
    PROVE  Min(S) = x
<1>1. Min(S) \in S /\ Min(S) <= x
  BY MinOfNats
<1>2. \A a, b \in Nat : a <= b /\ b <= a => a = b
  OBVIOUS
<1> QED BY <1>1, <1>2, Zenon

(* A number of the set that is no less than any is the greatest.           *)
LEMMA GreatestIs ==
    ASSUME NEW n \in Nat, NEW S, S \subseteq 0..n, NEW x \in S, \A y \in S : y <= x
    PROVE  Max(S) = x
<1>1. Max(S) \in S /\ x <= Max(S) /\ Max(S) <= x
  BY MaxOfNats
<1>2. \A a, b \in 0..n : a <= b /\ b <= a => a = b
  OBVIOUS
<1> QED BY <1>1, <1>2, Zenon

(* Induction, said of a set instead of a predicate.                        *)
LEMMA SetInduction ==
    ASSUME NEW S, 0 \in S, \A n \in Nat : n \in S => n + 1 \in S
    PROVE  Nat \subseteq S
<1> SUFFICES ASSUME Nat \ S # {}
             PROVE  FALSE
  OBVIOUS
<1>1. PICK m \in Nat \ S : \A y \in Nat \ S : m <= y
  BY NatMinimum
<1>2. m - 1 \in Nat /\ m - 1 + 1 = m
  BY <1>1
<1> QED BY <1>1, <1>2

(* The elements of I have a rank; what holds of each if it holds of all of *)
(* a lower rank holds of all.                                              *)
LEMMA RankedInduction ==
    ASSUME NEW I, NEW r \in [I -> Nat], NEW S,
           \A i \in I : (\A j \in I : r[j] < r[i] => j \in S) => i \in S
    PROVE  I \subseteq S
<1> SUFFICES ASSUME NEW i0 \in I, i0 \notin S
             PROVE  FALSE
  OBVIOUS
<1> DEFINE T == {r[i] : i \in I \ S}
<1>1. T \subseteq Nat /\ T # {}
  OBVIOUS
<1> HIDE DEF T
<1>2. PICK k \in T : \A y \in T : k <= y
  BY <1>1, NatMinimum
<1>3. PICK i \in I \ S : r[i] = k
  BY <1>2 DEF T
<1>4. \A j \in I : r[j] < r[i] => j \in S
  <2> SUFFICES ASSUME NEW j \in I, r[j] < r[i], j \notin S
               PROVE  FALSE
    OBVIOUS
  <2>1. r[j] \in T
    BY DEF T
  <2> QED BY <1>2, <1>3, <2>1
<1> QED BY <1>3, <1>4

(* A function whose value at i depends on its values at lower ranks only:  *)
(* F[i][g] is the value at i if g has the values at those.                 *)
Steps(I, V) == [I -> [[I -> V] -> V]]
LooksDown(F, I, V, r) ==
    \A i \in I : \A g, h \in [I -> V] :
        (\A j \in I : r[j] < r[i] => g[j] = h[j]) => F[i][g] = F[i][h]
Solves(g, F, I) == \A i \in I : g[i] = F[i][g]

(* Such a function exists, however F was come by.                          *)
LEMMA RankedRecursion ==
    ASSUME NEW I, NEW V, V # {}, NEW K \in Nat, NEW r \in [I -> Nat],
           \A i \in I : r[i] < K,
           NEW F \in Steps(I, V), LooksDown(F, I, V, r)
    PROVE  \E g \in [I -> V] : Solves(g, F, I)
<1> USE DEF Steps
<1>0. \A i \in I : \A g, h \in [I -> V] :
        (\A j \in I : r[j] < r[i] => g[j] = h[j]) => F[i][g] = F[i][h]
  BY DEF LooksDown
<1> DEFINE S == {k \in Nat : \E g \in [I -> V] : \A i \in I : r[i] < k => g[i] = F[i][g]}
<1>1. 0 \in S
  <2>1. PICK v \in V : TRUE
    OBVIOUS
  <2>2. [i \in I |-> v] \in [I -> V] /\ \A i \in I : ~(r[i] < 0)
    OBVIOUS
  <2> QED BY <2>2
<1>2. ASSUME NEW k \in Nat, k \in S
      PROVE  k + 1 \in S
  <2>1. PICK g \in [I -> V] : \A i \in I : r[i] < k => g[i] = F[i][g]
    BY <1>2
  <2> DEFINE h == [i \in I |-> IF r[i] = k THEN F[i][g] ELSE g[i]]
  <2>2. h \in [I -> V]
    OBVIOUS
  <2>3. \A i \in I : r[i] < k => h[i] = g[i]
    OBVIOUS
  <2>4. ASSUME NEW i \in I, r[i] < k + 1
        PROVE  h[i] = F[i][h]
    <3>1. \A j \in I : r[j] < r[i] => g[j] = h[j]
      BY <2>3, <2>4
    <3>2. F[i][g] = F[i][h]
      BY <1>0, <2>2, <3>1
    <3>3. CASE r[i] = k
      BY <3>2, <3>3
    <3>4. CASE r[i] < k
      BY <2>1, <2>3, <3>2, <3>4
    <3>5. r[i] = k \/ r[i] < k
      <4>1. \A a, b \in Nat : a < b + 1 => a = b \/ a < b
        OBVIOUS
      <4>2. r[i] \in Nat
        OBVIOUS
      <4> QED BY <2>4, <4>1, <4>2
    <3> QED BY <3>3, <3>4, <3>5
  <2> HIDE DEF h
  <2>5. \E x \in [I -> V] : \A i \in I : r[i] < k + 1 => x[i] = F[i][x]
    BY <2>2, <2>4
  <2> QED BY <2>5
<1> HIDE DEF S
<1>3. K \in S
  BY <1>1, <1>2, SetInduction
<1> QED BY <1>3 DEF S, Solves

-----------------------------------------------------------------------------
(* Upwards and downwards through the positions 1..m.                       *)

LooksBack(F, V, m) ==
    \A i \in 1..m : \A g, h \in [1..m -> V] :
        (\A j \in 1..i-1 : g[j] = h[j]) => F[i][g] = F[i][h]
LooksAhead(F, V, m) ==
    \A i \in 1..m : \A g, h \in [1..m -> V] :
        (\A j \in i+1..m : g[j] = h[j]) => F[i][g] = F[i][h]

(* What holds at a position if it holds at all before it holds at all.     *)
LEMMA UpwardInduction ==
    ASSUME NEW m \in Nat, NEW S,
           \A i \in 1..m : (\A j \in 1..i-1 : j \in S) => i \in S
    PROVE  1..m \subseteq S
<1> DEFINE I == 1..m
           r == [i \in I |-> i]
<1>1. r \in [I -> Nat] /\ \A i \in I : r[i] = i
  OBVIOUS
<1> HIDE DEF r
<1>2. ASSUME NEW i \in I, \A j \in I : r[j] < r[i] => j \in S
      PROVE  i \in S
  <2>1. \A j \in 1..i-1 : j \in S
    BY <1>1, <1>2
  <2> QED BY <2>1
<1> HIDE DEF I
<1>3. I \subseteq S
  BY <1>1, <1>2, RankedInduction
<1> QED BY <1>3 DEF I

(* What holds at a position if it holds at all after it holds at all.      *)
LEMMA DownwardInduction ==
    ASSUME NEW m \in Nat, NEW S,
           \A i \in 1..m : (\A j \in i+1..m : j \in S) => i \in S
    PROVE  1..m \subseteq S
<1> DEFINE I == 1..m
           r == [i \in I |-> m - i]
<1>1. r \in [I -> Nat] /\ \A i \in I : r[i] = m - i
  OBVIOUS
<1> HIDE DEF r
<1>2. ASSUME NEW i \in I, \A j \in I : r[j] < r[i] => j \in S
      PROVE  i \in S
  <2>1. \A j \in i+1..m : j \in S
    BY <1>1, <1>2
  <2> QED BY <2>1
<1> HIDE DEF I
<1>3. I \subseteq S
  BY <1>1, <1>2, RankedInduction
<1> QED BY <1>3 DEF I

(* A function by recursion on the positions before.                        *)
LEMMA UpwardRecursion ==
    ASSUME NEW V, V # {}, NEW m \in Nat, NEW F \in Steps(1..m, V),
           LooksBack(F, V, m)
    PROVE  \E g \in [1..m -> V] : Solves(g, F, 1..m)
<1> DEFINE I == 1..m
           K == m + 1
           r == [i \in I |-> i]
<1>1. K \in Nat /\ r \in [I -> Nat] /\ \A i \in I : r[i] < K
  OBVIOUS
<1>2. F \in Steps(I, V)
  OBVIOUS
<1>3. \A i \in I : r[i] = i
  OBVIOUS
<1> HIDE DEF r, K
<1>4. LooksDown(F, I, V, r)
  <2> SUFFICES ASSUME NEW i \in I, NEW g \in [I -> V], NEW h \in [I -> V],
                      \A j \in I : r[j] < r[i] => g[j] = h[j]
               PROVE  F[i][g] = F[i][h]
    BY DEF LooksDown
  <2>1. \A j \in 1..i-1 : g[j] = h[j]
    BY <1>3
  <2> QED BY <2>1 DEF LooksBack
<1> HIDE DEF I
<1>5. \E g \in [I -> V] : Solves(g, F, I)
  BY <1>1, <1>2, <1>4, RankedRecursion
<1> QED BY <1>5 DEF I

(* A function by recursion on the positions after.                         *)
LEMMA DownwardRecursion ==
    ASSUME NEW V, V # {}, NEW m \in Nat, NEW F \in Steps(1..m, V),
           LooksAhead(F, V, m)
    PROVE  \E g \in [1..m -> V] : Solves(g, F, 1..m)
<1> DEFINE I == 1..m
           K == m
           r == [i \in I |-> m - i]
<1>1. K \in Nat /\ r \in [I -> Nat] /\ \A i \in I : r[i] < K
  OBVIOUS
<1>2. F \in Steps(I, V)
  OBVIOUS
<1>3. \A i \in I : r[i] = m - i
  OBVIOUS
<1> HIDE DEF r, K
<1>4. LooksDown(F, I, V, r)
  <2> SUFFICES ASSUME NEW i \in I, NEW g \in [I -> V], NEW h \in [I -> V],
                      \A j \in I : r[j] < r[i] => g[j] = h[j]
               PROVE  F[i][g] = F[i][h]
    BY DEF LooksDown
  <2>1. \A j \in i+1..m : g[j] = h[j]
    BY <1>3
  <2> QED BY <2>1 DEF LooksAhead
<1> HIDE DEF I
<1>5. \E g \in [I -> V] : Solves(g, F, I)
  BY <1>1, <1>2, <1>4, RankedRecursion
<1> QED BY <1>5 DEF I

-----------------------------------------------------------------------------
(* FlattenSeq, piece by piece.                                             *)

(* The pieces one after the other make the whole.                          *)
LEMMA Flattening ==
    ASSUME NEW T, NEW ss \in Seq(Seq(T))
    PROVE  \E g \in [0..Len(ss) -> Seq(T)] :
              /\ g[0] = <<>>
              /\ \A i \in 1..Len(ss) : g[i] = g[i-1] \o ss[i]
              /\ FlattenSeq(ss) = g[Len(ss)]
<1> DEFINE n == Len(ss)
           V == Seq(T)
           Body(g, i) == IF i = 1 THEN ss[i] ELSE g[i-1] \o ss[i]
           F == [i \in 1..n |-> [g \in [1..n -> V] |-> Body(g, i)]]
<1>1. n \in Nat /\ (\A i \in 1..n : ss[i] \in V) /\ V # {}
  OBVIOUS
<1>2. \A i \in 1..n : \A g \in [1..n -> V] : Body(g, i) \in V
  <2> SUFFICES ASSUME NEW i \in 1..n, NEW g \in [1..n -> V], i # 1
               PROVE  g[i-1] \o ss[i] \in V
    BY <1>1
  <2>1. i - 1 \in 1..n
    BY <1>1
  <2>2. g[i-1] \in V /\ ss[i] \in V
    BY <1>1, <2>1
  <2> QED BY <2>2, ConcatProperties
<1>3. /\ F \in Steps(1..n, V)
      /\ \A i \in 1..n : \A g \in [1..n -> V] : F[i][g] = Body(g, i)
  BY <1>2 DEF Steps
<1>4. LooksBack(F, V, n)
  <2> SUFFICES ASSUME NEW i \in 1..n, NEW g \in [1..n -> V], NEW h \in [1..n -> V],
                      \A j \in 1..i-1 : g[j] = h[j]
               PROVE  Body(g, i) = Body(h, i)
    BY <1>3 DEF LooksBack
  <2>1. i # 1 => i - 1 \in 1..i-1
    BY <1>1
  <2> QED BY <2>1
<1> HIDE DEF F, n, V
<1>5. PICK g \in [1..n -> V] : Solves(g, F, 1..n)
  BY <1>1, <1>3, <1>4, UpwardRecursion
<1>6. g = [i \in 1..n |-> Body(g, i)]
  BY <1>3, <1>5 DEF Solves
<1> DEFINE flatten == CHOOSE h : h = [i \in 1..n |-> Body(h, i)]
<1>7. flatten = [i \in 1..n |-> Body(flatten, i)]
  BY <1>6
<1> HIDE DEF flatten
<1>8. 1..n \subseteq {i \in 1..n : flatten[i] \in V}
  <2> DEFINE S == {i \in 1..n : flatten[i] \in V}
  <2>1. ASSUME NEW i \in 1..n, \A j \in 1..i-1 : j \in S
        PROVE  i \in S
    <3>1. CASE i = 1
      BY <1>1, <1>7, <3>1
    <3>2. CASE i # 1
      <4>1. i - 1 \in 1..i-1
        BY <1>1, <3>2
      <4>2. flatten[i-1] \in V /\ ss[i] \in V
        BY <1>1, <2>1, <4>1
      <4>3. flatten[i] = flatten[i-1] \o ss[i]
        BY <1>7, <3>2
      <4>4. flatten[i-1] \o ss[i] \in V
        BY <4>2, ConcatProperties DEF V
      <4> QED BY <4>3, <4>4
    <3> QED BY <3>1, <3>2
  <2> HIDE DEF S
  <2>2. 1..n \subseteq S
    BY <1>1, <2>1, UpwardInduction
  <2> QED BY <2>2 DEF S
<1> DEFINE pieces == [i \in 0..n |-> IF i = 0 THEN <<>> ELSE flatten[i]]
<1>9. pieces \in [0..n -> V] /\ pieces[0] = <<>>
  BY <1>1, <1>8 DEF V
<1>10. \A i \in 1..n : pieces[i] = pieces[i-1] \o ss[i]
  <2> SUFFICES ASSUME NEW i \in 1..n
               PROVE  pieces[i] = pieces[i-1] \o ss[i]
    OBVIOUS
  <2>1. i \in 0..n /\ i - 1 \in 0..n /\ i # 0
    BY <1>1
  <2>2. pieces[i] = flatten[i]
    BY <2>1
  <2>3. CASE i = 1
    BY <1>1, <1>7, <2>1, <2>2, <2>3, ConcatEmptySeq DEF V
  <2>4. CASE i # 1
    <3>1. pieces[i-1] = flatten[i-1]
      BY <2>1, <2>4
    <3> QED BY <1>7, <2>2, <2>4, <3>1
  <2> QED BY <2>3, <2>4
<1>11. FlattenSeq(ss) = pieces[n]
  <2>1. CASE n = 0
    <3>1. ss = <<>>
      BY <2>1, EmptySeq DEF n
    <3> QED BY <2>1, <3>1 DEF FlattenSeq, n
  <2>2. CASE n # 0
    <3>1. FlattenSeq(ss) = flatten[n]
      BY <2>2 DEF FlattenSeq, n, flatten
    <3> QED BY <1>1, <2>2, <3>1
  <2> QED BY <2>1, <2>2
<1> HIDE DEF pieces
<1> QED BY <1>9, <1>10, <1>11 DEF n, V

(* Where each piece begins in the whole, and where the whole ends.         *)
PiecesAt(at, ss) ==
    /\ at[1] = 1
    /\ \A i \in 1..Len(ss) : at[i+1] = at[i] + Len(ss[i])
    /\ at[Len(ss)+1] = Len(FlattenSeq(ss)) + 1
    /\ \A i \in 1..Len(ss) : \A k \in 1..Len(ss[i]) :
          /\ at[i] + k - 1 \in 1..Len(FlattenSeq(ss))
          /\ FlattenSeq(ss)[at[i] + k - 1] = ss[i][k]

(* There are such places for every sequence of pieces.                     *)
LEMMA FlattenPlaces ==
    ASSUME NEW T, NEW ss \in Seq(Seq(T))
    PROVE  \E at \in [1..Len(ss)+1 -> Nat \ {0}] : PiecesAt(at, ss)
<1> DEFINE n == Len(ss)
           V == Seq(T)
           whole == FlattenSeq(ss)
<1>1. n \in Nat /\ \A i \in 1..n : ss[i] \in V
  OBVIOUS
<1>2. PICK g \in [0..n -> V] :
         g[0] = <<>> /\ (\A i \in 1..n : g[i] = g[i-1] \o ss[i]) /\ whole = g[n]
  BY Flattening
<1> HIDE DEF n, whole
<1> DEFINE len == [i \in 0..n |-> Len(g[i])]
           size == [i \in 1..n |-> Len(ss[i])]
<1>a. len \in [0..n -> Nat] /\ size \in [1..n -> Nat]
  BY <1>1
<1>b. (\A i \in 0..n : Len(g[i]) = len[i]) /\ (\A i \in 1..n : Len(ss[i]) = size[i])
  OBVIOUS
<1>c. \A i \in 1..n : i \in 0..n /\ i - 1 \in 0..n
  BY <1>1
<1>d. n \in 0..n /\ Len(whole) = len[n] /\ 0 \in 0..n /\ len[0] = 0
  BY <1>1, <1>2
<1> HIDE DEF len, size
<1>3. ASSUME NEW i \in 1..n
      PROVE  /\ len[i] = len[i-1] + size[i]
             /\ \A k \in 1..len[i-1] : g[i][k] = g[i-1][k]
             /\ \A k \in 1..size[i] : g[i][len[i-1] + k] = ss[i][k]
  <2>1. i \in 0..n /\ i - 1 \in 0..n
    BY <1>1
  <2>2. g[i] \in V /\ g[i-1] \in V
    BY <2>1
  <2>3. g[i] = g[i-1] \o ss[i]
    BY <1>2
  <2>4. ss[i] \in V
    BY <1>1
  <2> DEFINE a == g[i-1]
             b == ss[i]
  <2>5. a \in V /\ b \in V
    BY <2>2, <2>4
  <2> HIDE DEF a, b
  <2>6. /\ Len(a \o b) = Len(a) + Len(b) /\ Len(a) \in Nat /\ Len(b) \in Nat
        /\ \A k \in 1..Len(a)+Len(b) : (a \o b)[k] = IF k <= Len(a) THEN a[k] ELSE b[k - Len(a)]
    BY <2>5, ConcatProperties
  <2>7. \A k \in 1..Len(a) : (a \o b)[k] = a[k]
    BY <2>6
  <2>8. \A k \in 1..Len(b) : (a \o b)[Len(a) + k] = b[k]
    <3> SUFFICES ASSUME NEW k \in 1..Len(b)
                 PROVE  (a \o b)[Len(a) + k] = b[k]
      OBVIOUS
    <3>1. Len(a) + k \in 1..Len(a)+Len(b) /\ ~(Len(a) + k <= Len(a)) /\ Len(a) + k - Len(a) = k
      BY <2>6
    <3> QED BY <2>6, <3>1
  <2>9. Len(a) = len[i-1] /\ Len(b) = size[i] /\ Len(g[i]) = len[i]
    BY <1>b, <2>1 DEF a, b
  <2> QED BY <2>3, <2>6, <2>7, <2>8, <2>9 DEF a, b
<1>4. ASSUME NEW i \in 1..n
      PROVE  len[i] <= len[n] /\ \A k \in 1..len[i] : whole[k] = g[i][k]
  <2> DEFINE S == {j \in 1..n : j >= i =>
                      len[i] <= len[j] /\ \A k \in 1..len[i] : g[j][k] = g[i][k]}
  <2>1. ASSUME NEW j \in 1..n, \A k \in 1..j-1 : k \in S
        PROVE  j \in S
    <3>1. CASE j <= i
      <4>1. j >= i => j = i
        BY <1>1, <3>1
      <4>2. len[i] \in Nat
        BY <1>a, <1>c
      <4> QED BY <4>1, <4>2
    <3>2. CASE j > i
      <4>1. j - 1 \in 1..n /\ j - 1 \in 1..j-1 /\ j - 1 >= i
        BY <1>1, <3>2
      <4>2. len[i] <= len[j-1] /\ \A k \in 1..len[i] : g[j-1][k] = g[i][k]
        BY <2>1, <4>1
      <4>3. /\ len[j] = len[j-1] + size[j]
            /\ \A k \in 1..len[j-1] : g[j][k] = g[j-1][k]
        BY <1>3
      <4>4. len[j-1] \in Nat /\ size[j] \in Nat /\ len[i] \in Nat /\ len[j] \in Nat
        BY <1>a, <1>c
      <4>5. len[i] <= len[j]
        BY <4>2, <4>3, <4>4
      <4>6. \A k \in 1..len[i] : k \in 1..len[j-1]
        BY <4>2, <4>4
      <4> QED BY <4>2, <4>3, <4>5, <4>6
    <3> QED BY <1>1, <3>1, <3>2
  <2> HIDE DEF S
  <2>2. 1..n \subseteq S
    BY <1>1, <2>1, UpwardInduction
  <2>3. n \in 1..n /\ n >= i
    BY <1>1
  <2> QED BY <1>2, <2>2, <2>3 DEF S
<1> DEFINE at == [i \in 1..n+1 |-> len[i-1] + 1]
<1>5. at \in [1..n+1 -> Nat \ {0}]
  <2> SUFFICES ASSUME NEW i \in 1..n+1
               PROVE  len[i-1] + 1 \in Nat \ {0}
    OBVIOUS
  <2>1. i - 1 \in 0..n
    BY <1>1
  <2>2. len[i-1] \in Nat
    BY <1>a, <2>1
  <2> QED BY <2>2
<1>6. at[1] = 1
  BY <1>1, <1>d
<1>7. \A i \in 1..n : at[i] = len[i-1] + 1 /\ at[i+1] = len[i] + 1
  BY <1>1
<1>8. at[n+1] = Len(whole) + 1
  BY <1>1, <1>d
<1> HIDE DEF at
<1>9. ASSUME NEW i \in 1..n
      PROVE  at[i+1] = at[i] + Len(ss[i])
  <2>1. len[i] = len[i-1] + size[i] /\ len[i-1] \in Nat /\ size[i] \in Nat /\ Len(ss[i]) = size[i]
    BY <1>a, <1>b, <1>c, <1>3
  <2> QED BY <1>7, <2>1
<1>10. ASSUME NEW i \in 1..n, NEW k \in 1..Len(ss[i])
       PROVE  at[i] + k - 1 \in 1..Len(whole) /\ whole[at[i] + k - 1] = ss[i][k]
  <2>1. /\ len[i] = len[i-1] + size[i] /\ len[i-1] \in Nat /\ size[i] \in Nat
        /\ len[n] \in Nat /\ k \in 1..size[i]
    BY <1>a, <1>b, <1>c, <1>d, <1>3
  <2>2. at[i] + k - 1 = len[i-1] + k /\ len[i-1] + k \in 1..len[i]
    <3>1. at[i] = len[i-1] + 1
      BY <1>7
    <3>2. k \in Nat /\ k >= 1 /\ k <= size[i]
      BY <2>1
    <3> DEFINE a == len[i-1]
               b == size[i]
               c == len[i]
    <3>3. a \in Nat /\ b \in Nat /\ c = a + b /\ k <= b
      BY <2>1, <3>2
    <3> HIDE DEF a, b, c
    <3>4. a + 1 + k - 1 = a + k /\ a + k \in 1..c
      BY <3>2, <3>3
    <3> QED BY <3>1, <3>4 DEF a, b, c
  <2>3. len[i-1] + k \in 1..Len(whole)
    BY <1>4, <1>d, <2>1, <2>2
  <2>4. whole[len[i-1] + k] = g[i][len[i-1] + k]
    BY <1>4, <2>2
  <2>5. g[i][len[i-1] + k] = ss[i][k]
    BY <1>3, <2>1
  <2> QED BY <2>2, <2>3, <2>4, <2>5
<1> QED BY <1>5, <1>6, <1>8, <1>9, <1>10 DEF PiecesAt, n, whole

(* Pieces over a set make a whole over that set.                           *)
LEMMA FlattenType ==
    ASSUME NEW T, NEW ss \in Seq(Seq(T))
    PROVE  FlattenSeq(ss) \in Seq(T)
<1>1. PICK g \in [0..Len(ss) -> Seq(T)] : FlattenSeq(ss) = g[Len(ss)]
  BY Flattening
<1>2. Len(ss) \in 0..Len(ss)
  OBVIOUS
<1> QED BY <1>1, <1>2

(* A sequence of one element.                                              *)
LEMMA One ==
    ASSUME NEW T, NEW x \in T
    PROVE  <<x>> \in Seq(T) /\ Len(<<x>>) = 1 /\ <<x>>[1] = x
  OBVIOUS

(* A sequence is the whole of its elements.                                *)
LEMMA FlattenOnes ==
    ASSUME NEW T, NEW f \in Seq(T)
    PROVE  FlattenSeq([i \in 1..Len(f) |-> <<f[i]>>]) = f
<1> DEFINE n == Len(f)
           ss == [i \in 1..n |-> <<f[i]>>]
           whole == FlattenSeq(ss)
<1>1. n \in Nat /\ \A i \in 1..n : f[i] \in T
  OBVIOUS
<1>2. \A i \in 1..n : <<f[i]>> \in Seq(T)
  BY <1>1, One
<1>3. ss \in Seq(Seq(T)) /\ Len(ss) = n
  BY <1>1, <1>2, IsASeq
<1>4. \A i \in 1..n : Len(ss[i]) = 1 /\ ss[i][1] = f[i]
  BY <1>1, One
<1> HIDE DEF ss
<1>5. whole \in Seq(T)
  BY <1>3, FlattenType
<1>6. PICK at \in [1..n+1 -> Nat \ {0}] :
         /\ at[1] = 1
         /\ \A i \in 1..n : at[i+1] = at[i] + Len(ss[i])
         /\ at[n+1] = Len(whole) + 1
         /\ \A i \in 1..n : \A k \in 1..Len(ss[i]) :
               /\ at[i] + k - 1 \in 1..Len(whole)
               /\ whole[at[i] + k - 1] = ss[i][k]
  <2>1. PICK at \in [1..Len(ss)+1 -> Nat \ {0}] : PiecesAt(at, ss)
    BY <1>3, FlattenPlaces
  <2> HIDE DEF n
  <2>2. at \in [1..n+1 -> Nat \ {0}]
    BY <1>3, <2>1
  <2> QED BY <1>3, <2>1, <2>2 DEF PiecesAt
<1> HIDE DEF n, whole
<1>7. 1..n+1 \subseteq {i \in 1..n+1 : at[i] = i}
  <2> DEFINE S == {i \in 1..n+1 : at[i] = i}
  <2>1. ASSUME NEW i \in 1..n+1, \A j \in 1..i-1 : j \in S
        PROVE  i \in S
    <3>1. CASE i = 1
      BY <1>6, <3>1
    <3>2. CASE i # 1
      <4>1. i - 1 \in 1..n /\ i - 1 \in 1..i-1 /\ i - 1 + 1 = i
        BY <1>1, <3>2
      <4>2. at[i-1] = i - 1
        BY <2>1, <4>1
      <4>3. at[i] = at[i-1] + 1
        BY <1>4, <1>6, <4>1
      <4> QED BY <4>1, <4>2, <4>3
    <3> QED BY <3>1, <3>2
  <2>2. n + 1 \in Nat
    BY <1>1
  <2> HIDE DEF S
  <2>3. 1..n+1 \subseteq S
    BY <2>1, <2>2, UpwardInduction
  <2> QED BY <2>3 DEF S
<1>8. Len(whole) = n
  <2>1. n + 1 \in 1..n+1
    BY <1>1
  <2>2. Len(whole) \in Nat
    BY <1>5
  <2> QED BY <1>1, <1>6, <1>7, <2>1, <2>2
<1>9. \A i \in 1..n : whole[i] = f[i]
  <2> SUFFICES ASSUME NEW i \in 1..n
               PROVE  whole[i] = f[i]
    OBVIOUS
  <2>1. 1 \in 1..Len(ss[i]) /\ at[i] = i /\ i + 1 - 1 = i
    BY <1>1, <1>4, <1>7
  <2> QED BY <1>4, <1>6, <2>1
<1>10. whole = f
  BY <1>5, <1>8, <1>9, SeqEqual DEF n
<1> QED BY <1>10 DEF whole, ss, n

-----------------------------------------------------------------------------
(* Folds.                                                                  *)

(* A segment is the segment before and its last position.                  *)
LEMMA Segment ==
    ASSUME NEW k \in Nat \ {0}
    PROVE  Max(1..k) = k /\ (1..k) \ {k} = 1..k-1 /\ 1..k # {}
<1>1. 1..k \subseteq 0..k /\ k \in 1..k
  OBVIOUS
<1>2. Max(1..k) \in 1..k /\ \A y \in 1..k : y <= Max(1..k)
  BY <1>1, MaxOfNats
<1>3. Max(1..k) = k
  BY <1>1, <1>2
<1> QED BY <1>1, <1>3

(* Every set of positions is folded: the greatest after the others.        *)
Folds(g, base, F) ==
    \A s \in DOMAIN g : g[s] = IF s = {} THEN base ELSE F[Max(s)][g[s \ {Max(s)}]]

(* There is such a fold, whatever the positions do to the values.          *)
LEMMA FoldExists ==
    ASSUME NEW V, NEW n \in Nat, NEW base \in V, NEW F \in [1..n -> [V -> V]]
    PROVE  \E g \in [SUBSET (1..n) -> V] : Folds(g, base, F)
<1> DEFINE I == SUBSET (1..n)
           r == [s \in I |-> IF s = {} THEN 0 ELSE Max(s)]
           G == [s \in I |-> [g \in [I -> V] |->
                    IF s = {} THEN base ELSE F[Max(s)][g[s \ {Max(s)}]]]]
<1>1. ASSUME NEW s \in I, s # {}
      PROVE  Max(s) \in s /\ Max(s) \in 1..n /\ s \ {Max(s)} \in I /\ \A y \in s : y <= Max(s)
  <2>1. s \subseteq 0..n
    OBVIOUS
  <2> QED BY <1>1, <2>1, MaxOfNats
<1>2. r \in [I -> Nat] /\ \A s \in I : r[s] < n + 1
  BY <1>1
<1>3. \A s \in I : s # {} => r[s \ {Max(s)}] < r[s]
  <2> SUFFICES ASSUME NEW s \in I, s # {}
               PROVE  r[s \ {Max(s)}] < r[s]
    OBVIOUS
  <2> DEFINE t == s \ {Max(s)}
  <2>1. t \in I /\ Max(s) \in 1..n /\ r[s] = Max(s)
    BY <1>1
  <2>2. CASE t = {}
    BY <2>1, <2>2
  <2>3. CASE t # {}
    <3>1. Max(t) \in s /\ Max(t) # Max(s) /\ Max(t) \in 1..n
      BY <1>1, <2>1, <2>3
    <3>2. Max(t) <= Max(s) /\ r[t] = Max(t)
      BY <1>1, <2>1, <2>3, <3>1
    <3> QED BY <2>1, <3>1, <3>2
  <2> QED BY <2>2, <2>3
<1>4. \A s \in I : \A g \in [I -> V] :
         (IF s = {} THEN base ELSE F[Max(s)][g[s \ {Max(s)}]]) \in V
  BY <1>1
<1>5. G \in Steps(I, V)
  BY <1>4 DEF Steps
<1>6. LooksDown(G, I, V, r)
  <2> HIDE DEF r, I
  <2>1. \A s \in I : \A g, h \in [I -> V] :
           (\A t \in I : r[t] < r[s] => g[t] = h[t]) => G[s][g] = G[s][h]
    BY <1>1, <1>3
  <2> QED BY <2>1 DEF LooksDown
<1>7. n + 1 \in Nat /\ V # {}
  OBVIOUS
<1>8. PICK g \in [I -> V] : Solves(g, G, I)
  <2> HIDE DEF r, I, G
  <2> QED BY <1>2, <1>5, <1>6, <1>7, RankedRecursion
<1>9. \A s \in I : g[s] = G[s][g]
  BY <1>8 DEF Solves
<1>10. \A s \in I : g[s] = IF s = {} THEN base ELSE F[Max(s)][g[s \ {Max(s)}]]
  BY <1>9
<1> QED BY <1>10 DEF Folds

(* A fold from left to right passes through the segments.                  *)
Passes(h, base, F) == h[0] = base /\ \A k \in DOMAIN F : h[k] = F[k][h[k-1]]
Folding(iter, base, F, V, n) ==
    iter[{}] = base /\ \A k \in 1..n : iter[1..k-1] \in V => iter[1..k] = F[k][iter[1..k-1]]
Folded(last, base, F, V, n) == \E h \in [0..n -> V] : Passes(h, base, F) /\ h[n] = last

(* What folds the segments of 1..n goes through n + 1 values, each made of *)
(* the one before.                                                         *)
LEMMA FoldSegments ==
    ASSUME NEW V, NEW n \in Nat, NEW base \in V, NEW F \in [1..n -> [V -> V]], NEW iter,
           Folding(iter, base, F, V, n)
    PROVE  Folded(iter[1..n], base, F, V, n)
<1> USE DEF Folding
<1> DEFINE S == {k \in 1..n+1 : iter[1..k-1] \in V}
           h == [k \in 0..n |-> iter[1..k]]
<1>1. ASSUME NEW k \in 1..n+1, \A j \in 1..k-1 : j \in S
      PROVE  iter[1..k-1] \in V
  <2>1. CASE k = 1
    <3>1. 1..k-1 = {}
      BY <2>1
    <3> QED BY <3>1
  <2>2. CASE k # 1
    <3> DEFINE j == k - 1
    <3>1. j \in 1..n /\ j \in 1..k-1
      BY <2>2
    <3>2. iter[1..j-1] \in V
      BY <1>1, <3>1
    <3> HIDE DEF j
    <3>3. iter[1..j] \in V
      BY <3>1, <3>2
    <3> QED BY <3>3 DEF j
  <2> QED BY <2>1, <2>2
<1>2. 1..n+1 \subseteq S
  <2>1. \A k \in 1..n+1 : (\A j \in 1..k-1 : j \in S) => k \in S
    BY <1>1
  <2>2. n + 1 \in Nat
    OBVIOUS
  <2> HIDE DEF S
  <2> QED BY <2>1, <2>2, UpwardInduction
<1>3. ASSUME NEW k \in 0..n
      PROVE  iter[1..k] \in V
  <2>1. k + 1 \in 1..n+1 /\ k + 1 - 1 = k
    OBVIOUS
  <2>2. k + 1 \in S
    BY <1>2, <2>1
  <2>3. iter[1..k+1-1] \in V
    BY <2>2
  <2> QED BY <2>1, <2>3
<1>4. h \in [0..n -> V] /\ h[n] = iter[1..n]
  BY <1>3
<1>5. h[0] = base
  <2>1. 0 \in 0..n /\ 1..0 = {}
    OBVIOUS
  <2>2. h[0] = iter[1..0]
    BY <2>1
  <2> QED BY <2>1, <2>2
<1>6. ASSUME NEW k \in 1..n
      PROVE  h[k] = F[k][h[k-1]]
  <2>1. k \in 0..n /\ k - 1 \in 0..n
    OBVIOUS
  <2>2. h[k] = iter[1..k] /\ h[k-1] = iter[1..k-1] /\ iter[1..k-1] \in V
    BY <1>3, <2>1
  <2> HIDE DEF h
  <2> QED BY <2>2
<1> HIDE DEF h
<1>7. Passes(h, base, F)
  BY <1>5, <1>6 DEF Passes
<1> QED BY <1>4, <1>7 DEF Folded

=============================================================================
