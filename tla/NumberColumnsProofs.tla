------------------------- MODULE NumberColumnsProofs -------------------------
(***************************************************************************)
(* The invariants of NumberColumns for any texts.  What a check digit is   *)
(* depends on a sum over the digits in front of it, and what a number is   *)
(* on the first digit that is not 0; both are found by induction, which is *)
(* done here by hand: a set of numbers that is not empty has a least one.  *)
(***************************************************************************)
EXTENDS NumberColumns, FiniteSetTheorems, SequenceTheorems, WellFoundedInduction, TLAPS

-----------------------------------------------------------------------------
(* Sums.                                                                   *)

\* A set of positions that is not empty has a first one.
LEMMA FirstPosition ==
  ASSUME NEW S, S \subseteq Nat, S # {}
  PROVE  \E i \in S : \A j \in S : i <= j
<1> DEFINE R == {ss \in Nat \X Nat : ss[1] < ss[2]}
<1>1. IsWellFoundedOn(R, Nat)
  BY NatLessThanWellFounded DEF OpToRel
<1>2. PICK i \in S : \A j \in S : <<j, i>> \notin R
  BY <1>1, WFMin
<1>3. \A j \in S : ~(j < i)
  BY <1>2
<1> QED BY <1>3

\* What is true of 0 and of every successor is true of every number.
LEMMA Induction ==
  ASSUME NEW S, S \subseteq Nat, 0 \in S, \A n \in S : n + 1 \in S
  PROVE  S = Nat
<1> SUFFICES ASSUME Nat \ S # {} PROVE FALSE
  OBVIOUS
<1>1. PICK n \in Nat \ S : \A j \in Nat \ S : n <= j
  BY FirstPosition
<1>2. n - 1 \in Nat /\ ~(n <= n - 1)
  BY <1>1
<1>3. n - 1 \in S
  BY <1>1, <1>2
<1>4. (n - 1) + 1 = n
  BY <1>1
<1> QED BY <1>1, <1>3, <1>4

\* The sum of finitely many numbers is a number.
LEMMA SumIsNatural ==
  ASSUME NEW f, IsFiniteSet(DOMAIN f), \A i \in DOMAIN f : f[i] \in Nat
  PROVE  FoldFunction(+, 0, f) \in Nat
<1> DEFINE one(s) == CHOOSE x \in s : TRUE
           Subsets(k) == {s \in SUBSET DOMAIN f : Cardinality(s) <= k}
           IsSum(g, S) == g = [s \in S |-> IF s = {} THEN 0 ELSE f[one(s)] + g[s \ {one(s)}]]
           iter == CHOOSE g : IsSum(g, SUBSET DOMAIN f)
           n == Cardinality(DOMAIN f)
<1>1. FoldFunction(+, 0, f) = iter[DOMAIN f]
  BY DEF FoldFunction, FoldFunctionOnSet, MapThenFoldSet
<1>2. n \in Nat
  BY FS_CardinalityType
<1>3. ASSUME NEW s \in SUBSET DOMAIN f
      PROVE  /\ IsFiniteSet(s) /\ Cardinality(s) \in Nat /\ Cardinality(s) <= n
             /\ Cardinality(s) = 0 => s = {}
  BY <1>2, FS_Subset, FS_CardinalityType, FS_EmptySet
<1>4. ASSUME NEW s \in SUBSET DOMAIN f, s # {}
       PROVE  /\ one(s) \in DOMAIN f /\ s \ {one(s)} \in SUBSET DOMAIN f
              /\ Cardinality(s \ {one(s)}) = Cardinality(s) - 1
  <2>1. one(s) \in s
    BY <1>4
  <2> HIDE DEF one
  <2> QED BY <1>3, <2>1, FS_RemoveElement
<1> HIDE DEF one, Subsets, IsSum, iter, n
<1>5. \A s \in Subsets(0) : s = {}
  <2> SUFFICES ASSUME NEW s \in Subsets(0) PROVE s = {}
    OBVIOUS
  <2>1. s \in SUBSET DOMAIN f /\ Cardinality(s) <= 0
    BY DEF Subsets
  <2> QED BY <1>3, <2>1
<1>6. ASSUME NEW k \in Nat, NEW s \in Subsets(k + 1), s # {}
      PROVE  s \ {one(s)} \in Subsets(k) /\ f[one(s)] \in Nat
  <2>1. s \in SUBSET DOMAIN f /\ Cardinality(s) <= k + 1
    BY DEF Subsets
  <2>2. /\ one(s) \in DOMAIN f /\ s \ {one(s)} \in SUBSET DOMAIN f
        /\ Cardinality(s \ {one(s)}) = Cardinality(s) - 1 /\ Cardinality(s) \in Nat
    BY <1>3, <1>4, <1>6, <2>1
  <2> QED BY <2>1, <2>2 DEF Subsets
<1>7. \A k \in Nat : \E g : IsSum(g, Subsets(k))
  <2> DEFINE K == {k \in Nat : \E g : IsSum(g, Subsets(k))}
  <2>1. 0 \in K
    <3>1. IsSum([s \in Subsets(0) |-> 0], Subsets(0))
      BY <1>5 DEF IsSum
    <3> QED BY <3>1
  <2>2. ASSUME NEW k \in K PROVE k + 1 \in K
    <3>1. PICK g : IsSum(g, Subsets(k))
      OBVIOUS
    <3> DEFINE h == [s \in Subsets(k + 1) |->
                       IF s = {} THEN 0 ELSE f[one(s)] + g[s \ {one(s)}]]
    <3>2. \A s \in Subsets(k) : s \in Subsets(k + 1)
      <4> SUFFICES ASSUME NEW s \in Subsets(k) PROVE s \in Subsets(k + 1)
        OBVIOUS
      <4>1. s \in SUBSET DOMAIN f /\ Cardinality(s) <= k /\ k \in Nat
        BY DEF Subsets
      <4>2. Cardinality(s) \in Nat
        BY <1>3, <4>1
      <4> QED BY <4>1, <4>2 DEF Subsets
    <3>3. \A s \in Subsets(k) : h[s] = g[s]
      BY <3>1, <3>2 DEF IsSum
    <3>4. \A s \in Subsets(k + 1) : s # {} => s \ {one(s)} \in Subsets(k)
      BY <1>6
    <3>5. IsSum(h, Subsets(k + 1))
      BY <3>3, <3>4 DEF IsSum
    <3> HIDE DEF h
    <3> QED BY <3>5
  <2> HIDE DEF K
  <2>3. K = Nat
    <3>1. K \subseteq Nat
      BY DEF K
    <3> QED BY <2>1, <2>2, <3>1, Induction
  <2> QED BY <2>3 DEF K
<1>8. IsSum(iter, SUBSET DOMAIN f)
  <2>1. Subsets(n) = SUBSET DOMAIN f
    BY <1>3 DEF Subsets
  <2>2. \E g : IsSum(g, SUBSET DOMAIN f)
    BY <1>2, <1>7, <2>1
  <2> QED BY <2>2 DEF iter
<1>9. \A k \in Nat : \A s \in Subsets(k) : iter[s] \in Nat
  <2> DEFINE K == {k \in Nat : \A s \in Subsets(k) : iter[s] \in Nat}
  <2>1. 0 \in K
    BY <1>5, <1>8 DEF IsSum
  <2>2. ASSUME NEW k \in K PROVE k + 1 \in K
    <3>1. \A s \in Subsets(k + 1) : s # {} => /\ s \ {one(s)} \in Subsets(k)
                                              /\ f[one(s)] \in Nat
      BY <1>6
    <3>2. \A s \in Subsets(k + 1) : iter[s] \in Nat
      <4> SUFFICES ASSUME NEW s \in Subsets(k + 1) PROVE iter[s] \in Nat
        OBVIOUS
      <4>1. iter[s] = IF s = {} THEN 0 ELSE f[one(s)] + iter[s \ {one(s)}]
        BY <1>8 DEF IsSum, Subsets
      <4>2. s # {} => iter[s \ {one(s)}] \in Nat /\ f[one(s)] \in Nat
        BY <3>1
      <4> QED BY <4>1, <4>2
    <3> QED BY <3>2
  <2> HIDE DEF K
  <2>3. K = Nat
    <3>1. K \subseteq Nat
      BY DEF K
    <3> QED BY <2>1, <2>2, <3>1, Induction
  <2> QED BY <2>3 DEF K
<1>10. DOMAIN f \in Subsets(n)
  BY <1>2 DEF Subsets, n
<1> QED BY <1>1, <1>2, <1>9, <1>10
-----------------------------------------------------------------------------
(* Check digits.                                                           *)

\* The two ways to make a digit of a sum.
LEMMA Remainders ==
  ASSUME NEW w \in Nat
  PROVE  (IF w % 11 < 2 THEN 0 ELSE 11 - (w % 11)) = ((10 * w) % 11) % 10
<1> DEFINE q == w \div 11
           r == w % 11
           d == IF r = 0 THEN 0 ELSE 11 - r
           p == IF r = 0 THEN 10 * q ELSE 10 * q + r - 1
<1>1. q \in Int /\ r \in 0..10 /\ w = 11 * q + r
  OBVIOUS
<1> HIDE DEF q, r
<1>2. d \in 0..10 /\ p \in Int /\ 10 * w = 11 * p + d
  BY <1>1
<1>3. (10 * w) % 11 = d
  <2> HIDE DEF d, p
  <2>1. \A x, y \in Int : y \in 0..10 => (11 * x + y) % 11 = y
    OBVIOUS
  <2> QED BY <1>2, <2>1
<1>4. d % 10 = IF r < 2 THEN 0 ELSE 11 - r
  BY <1>1
<1> QED BY <1>3, <1>4 DEF r

\* What the constructor compares with is the official digit.
LEMMA CheckDigitIsOfficial ==
  ASSUME NEW s \in Seq(Digit), NEW n \in Nat, n <= Len(s)
  PROVE  CheckDigit(s, n) = Official(s, n)
<1> DEFINE f == [i \in 1..n |-> s[i] * (n + 2 - i)]
           w == FoldFunction(+, 0, f)
<1>1. IsFiniteSet(DOMAIN f)
  BY FS_Interval
<1>2. \A i \in DOMAIN f : f[i] \in Nat
  <2> SUFFICES ASSUME NEW i \in 1..n PROVE s[i] * (n + 2 - i) \in Nat
    OBVIOUS
  <2>1. s[i] \in Nat /\ n + 2 - i \in Nat
    BY DEF Digit
  <2> QED BY <2>1
<1>3. w \in Nat
  <2> HIDE DEF f
  <2> QED BY <1>1, <1>2, SumIsNatural
<1>4. CheckDigit(s, n) = IF w % 11 < 2 THEN 0 ELSE 11 - (w % 11)
  BY DEF CheckDigit
<1>5. Official(s, n) = ((10 * w) % 11) % 10
  BY DEF Official
<1> HIDE DEF w
<1> QED BY <1>3, <1>4, <1>5, Remainders

\* The constructor of CPF accepts the official numbers.
LEMMA CpfIsOfficial ==
  ASSUME NEW s \in Seq(Digit)
  PROVE  IsCpf(s) <=> Len(s) = 11 /\ s[10] = Official(s, 9) /\ s[11] = Official(s, 10)
<1> SUFFICES ASSUME Len(s) = 11
             PROVE  IsCpf(s) <=> s[10] = Official(s, 9) /\ s[11] = Official(s, 10)
  BY DEF IsCpf
<1> DEFINE first == CheckDigit(s, 9)
<1>1. first = Official(s, 9) /\ CheckDigit(s, 10) = Official(s, 10)
  <2>1. 9 \in Nat /\ 10 \in Nat /\ 9 <= Len(s) /\ 10 <= Len(s)
    OBVIOUS
  <2> QED BY <2>1, CheckDigitIsOfficial
<1>2. IsCpf(s) <=> s[10] = first /\ s[11] = CheckDigit([s EXCEPT ![10] = first], 10)
  BY DEF IsCpf
<1> HIDE DEF first
<1>3. s[10] = first => [s EXCEPT ![10] = first] = s
  OBVIOUS
<1> QED BY <1>1, <1>2, <1>3

-----------------------------------------------------------------------------
(* Numbers.                                                                *)

\* Where the number in a text begins: after its leading zeros.
LEMMA NumberIs ==
  ASSUME NEW s \in Seq(Digit), \E i \in 1..Len(s) : s[i] # 0
  PROVE  \E k \in 1..Len(s) :
            /\ s[k] # 0 /\ \A i \in 1..(k - 1) : s[i] = 0
            /\ Number(s) = SubSeq(s, k, Len(s))
<1> DEFINE significant == {i \in DOMAIN s : s[i] # 0}
           k == CHOOSE i \in significant : \A j \in significant : i <= j
<1>1. significant # {} /\ significant \subseteq Nat /\ DOMAIN s = 1..Len(s)
  OBVIOUS
<1>2. Number(s) = SubSeq(s, k, Len(s))
  BY <1>1 DEF Number
<1>3. k \in significant /\ \A j \in significant : k <= j
  <2> HIDE DEF significant
  <2>1. \E i \in significant : \A j \in significant : i <= j
    BY <1>1, FirstPosition
  <2> QED BY <2>1
<1> HIDE DEF k
<1>4. \A i \in 1..(k - 1) : s[i] = 0
  BY <1>1, <1>3
<1> QED BY <1>1, <1>2, <1>3, <1>4

\* The number in a text of zeros.
LEMMA NumberIsZero ==
  ASSUME NEW s, \A i \in DOMAIN s : s[i] = 0
  PROVE  Number(s) = Zero
  BY DEF Number

\* A number has no leading zeros.
LEMMA NumberOfNumber ==
  ASSUME NEW s \in Seq(Digit), Len(s) > 0, s[1] # 0
  PROVE  Number(s) = s
<1>1. PICK k \in 1..Len(s) : /\ s[k] # 0 /\ \A i \in 1..(k - 1) : s[i] = 0
                             /\ Number(s) = SubSeq(s, k, Len(s))
  BY NumberIs
<1>2. k = 1
  BY <1>1
<1> QED BY <1>1, <1>2

\* The zeros in front.
LEMMA ZerosAre ==
  ASSUME NEW m \in Int
  PROVE  LET z == [i \in 1..m |-> 0]
         IN  /\ z \in Seq(Digit) /\ Len(z) = IF m > 0 THEN m ELSE 0
             /\ \A i \in 1..Len(z) : z[i] = 0
<1> DEFINE z == [i \in 1..m |-> 0]
           l == IF m > 0 THEN m ELSE 0
<1>1. l \in Nat /\ 1..m = 1..l
  OBVIOUS
<1>2. z \in [1..l -> Digit]
  BY <1>1 DEF Digit
<1> HIDE DEF z, l
<1>3. z \in Seq(Digit) /\ Len(z) = l
  BY <1>1, <1>2
<1>4. \A i \in 1..l : z[i] = 0
  BY <1>1 DEF z
<1> QED BY <1>3, <1>4 DEF z, l

\* A padded number: zeros, and the number.
LEMMA PaddedIs ==
  ASSUME NEW k \in Kinds, NEW n \in Seq(Digit)
  PROVE  \E m \in Nat :
            /\ m = IF MinLength(k) > Len(n) THEN MinLength(k) - Len(n) ELSE 0
            /\ Padded(k, n) \in Seq(Digit) /\ Len(Padded(k, n)) = m + Len(n)
            /\ \A i \in 1..m : Padded(k, n)[i] = 0
            /\ \A i \in 1..Len(n) : Padded(k, n)[m + i] = n[i]
<1> DEFINE d == MinLength(k) - Len(n)
           z == [i \in 1..d |-> 0]
           m == IF d > 0 THEN d ELSE 0
<1>1. MinLength(k) \in Nat /\ d \in Int /\ Len(n) \in Nat /\ m \in Nat
  BY DEF MinLength, Kinds
<1>2. z \in Seq(Digit) /\ Len(z) = m /\ \A i \in 1..Len(z) : z[i] = 0
  BY <1>1, ZerosAre
<1>3. Padded(k, n) = z \o n
  BY DEF Padded
<1>4. m = IF MinLength(k) > Len(n) THEN MinLength(k) - Len(n) ELSE 0
  BY <1>1
<1> HIDE DEF z, m
<1>5. z \o n \in Seq(Digit) /\ Len(z \o n) = m + Len(n)
  BY <1>2
<1>6. \A i \in 1..m : (z \o n)[i] = 0
  BY <1>1, <1>2
<1>7. \A i \in 1..Len(n) : (z \o n)[m + i] = n[i]
  BY <1>1, <1>2
<1> QED BY <1>1, <1>3, <1>4, <1>5, <1>6, <1>7

\* A text of the minimal length is its number, padded.
LEMMA PaddedNumber ==
  ASSUME NEW k \in Kinds, NEW s \in Seq(Digit), Len(s) = MinLength(k)
  PROVE  Padded(k, Number(s)) = s
<1>1. Len(s) \in Nat /\ Len(s) >= 1
  BY DEF MinLength, Kinds
<1>2. \E b \in 1..Len(s) :
         /\ \A i \in 1..(b - 1) : s[i] = 0
         /\ Number(s) \in Seq(Digit) /\ Len(Number(s)) = Len(s) - b + 1
         /\ \A i \in 1..(Len(s) - b + 1) : Number(s)[i] = s[b + i - 1]
  <2>1. CASE \E i \in 1..Len(s) : s[i] # 0
    <3>1. PICK b \in 1..Len(s) : /\ \A i \in 1..(b - 1) : s[i] = 0
                                 /\ Number(s) = SubSeq(s, b, Len(s))
      BY <2>1, NumberIs
    <3>2. /\ SubSeq(s, b, Len(s)) \in Seq(Digit) /\ Len(SubSeq(s, b, Len(s))) = Len(s) - b + 1
          /\ \A i \in 1..(Len(s) - b + 1) : SubSeq(s, b, Len(s))[i] = s[b + i - 1]
      BY <1>1
    <3> QED BY <3>1, <3>2
  <2>2. CASE \A i \in 1..Len(s) : s[i] = 0
    <3>1. Number(s) = <<0>>
      BY <2>2, NumberIsZero DEF Zero
    <3>2. <<0>> \in Seq(Digit) /\ Len(<<0>>) = 1 /\ <<0>>[1] = 0
      BY DEF Digit
    <3>3. \A i \in 1..(Len(s) - 1) : s[i] = 0
      BY <1>1, <2>2
    <3>4. Len(s) \in 1..Len(s) /\ s[Len(s)] = 0 /\ Len(s) - Len(s) + 1 = 1
      BY <1>1, <2>2
    <3> QED BY <3>1, <3>2, <3>3, <3>4
  <2> QED BY <2>1, <2>2
<1>3. PICK b \in 1..Len(s) :
         /\ \A i \in 1..(b - 1) : s[i] = 0
         /\ Number(s) \in Seq(Digit) /\ Len(Number(s)) = Len(s) - b + 1
         /\ \A i \in 1..(Len(s) - b + 1) : Number(s)[i] = s[b + i - 1]
  BY <1>2
<1> DEFINE n == Number(s)
           t == Padded(k, n)
<1> HIDE DEF n, t
<1>4. /\ t \in Seq(Digit) /\ Len(t) = Len(s)
      /\ \A i \in 1..(b - 1) : t[i] = 0
      /\ \A i \in 1..(Len(s) - b + 1) : t[(b - 1) + i] = s[b + i - 1]
  <2>1. n \in Seq(Digit) /\ Len(n) = Len(s) - b + 1
    BY <1>3 DEF n
  <2>2. PICK m \in Nat :
            /\ m = IF MinLength(k) > Len(n) THEN MinLength(k) - Len(n) ELSE 0
            /\ t \in Seq(Digit) /\ Len(t) = m + Len(n)
            /\ \A i \in 1..m : t[i] = 0
            /\ \A i \in 1..Len(n) : t[m + i] = n[i]
    BY <2>1, PaddedIs DEF t
  <2>3. m = b - 1
    BY <1>1, <2>1, <2>2
  <2>4. t \in Seq(Digit) /\ \A i \in 1..(b - 1) : t[i] = 0
    <3>1. \A i \in 1..m : t[i] = 0
      BY <2>2
    <3>2. t \in Seq(Digit)
      BY <2>2
    <3> QED BY <2>3, <3>1, <3>2
  <2>5. Len(t) = Len(s)
    <3>1. Len(t) = m + Len(n)
      BY <2>2
    <3> QED BY <1>1, <2>1, <2>3, <3>1
  <2>6. ASSUME NEW i \in 1..(Len(s) - b + 1)
        PROVE  t[(b - 1) + i] = s[b + i - 1]
    <3>1. t[m + i] = n[i]
      BY <2>1, <2>2
    <3>2. n[i] = s[b + i - 1]
      BY <1>3 DEF n
    <3> QED BY <2>3, <3>1, <3>2
  <2> QED BY <2>4, <2>5, <2>6
<1>5. \A i \in 1..Len(s) : t[i] = s[i]
  <2> SUFFICES ASSUME NEW i \in 1..Len(s) PROVE t[i] = s[i]
    OBVIOUS
  <2>1. CASE i <= b - 1
    BY <1>3, <1>4, <2>1
  <2>2. CASE i > b - 1
    <3> DEFINE j == i - b + 1
    <3>1. j \in 1..(Len(s) - b + 1) /\ (b - 1) + j = i /\ b + j - 1 = i
      BY <1>1, <2>2
    <3> HIDE DEF j
    <3> QED BY <1>4, <3>1
  <2> QED BY <2>1, <2>2
<1>6. t = s
  BY <1>4, <1>5, SeqEqual
<1> QED BY <1>6 DEF t, n

\* Padding does not change what the number is.
LEMMA NumberOfPadded ==
  ASSUME NEW k \in Kinds, NEW n \in Seq(Digit), n = Zero \/ (Len(n) > 0 /\ n[1] # 0)
  PROVE  Number(Padded(k, n)) = n
<1> DEFINE t == Padded(k, n)
<1>1. PICK m \in Nat : /\ t \in Seq(Digit) /\ Len(t) = m + Len(n)
                       /\ \A i \in 1..m : t[i] = 0
                       /\ \A i \in 1..Len(n) : t[m + i] = n[i]
  BY PaddedIs
<1> HIDE DEF t
<1>0. CASE n = Zero
  <2>1. Len(n) = 1 /\ n[1] = 0
    BY <1>0 DEF Zero
  <2>2. \A i \in 1..(m + 1) : t[i] = 0
    <3> SUFFICES ASSUME NEW i \in 1..(m + 1) PROVE t[i] = 0
      OBVIOUS
    <3>1. i \in 1..m \/ i = m + 1
      OBVIOUS
    <3> QED BY <1>1, <2>1, <3>1
  <2>3. DOMAIN t = 1..(m + 1)
    BY <1>1, <2>1
  <2>4. Number(t) = n
    BY <1>0, <2>2, <2>3, NumberIsZero
  <2> QED BY <2>4 DEF t
<1> SUFFICES ASSUME Len(n) > 0, n[1] # 0 PROVE Number(t) = n
  BY <1>0 DEF t
<1>2. Len(n) \in Nat /\ m + 1 \in 1..Len(t) /\ t[m + 1] # 0
  BY <1>1
<1>3. PICK b \in 1..Len(t) : /\ t[b] # 0 /\ \A i \in 1..(b - 1) : t[i] = 0
                             /\ Number(t) = SubSeq(t, b, Len(t))
  BY <1>1, <1>2, NumberIs
<1>4. b = m + 1
  <2>1. ~(b <= m)
    BY <1>1, <1>3
  <2>2. ~(b > m + 1)
    BY <1>2, <1>3
  <2> QED BY <2>1, <2>2
<1>5. /\ SubSeq(t, b, Len(t)) \in Seq(Digit) /\ Len(SubSeq(t, b, Len(t))) = Len(n)
      /\ \A i \in 1..Len(n) : SubSeq(t, b, Len(t))[i] = n[i]
  BY <1>1, <1>2, <1>4
<1> QED BY <1>3, <1>5, SeqEqual

\* A number is digits, no more than there were, and has no leading zeros.
LEMMA NumberIsNumber ==
  ASSUME NEW s \in Seq(Digit)
  PROVE  /\ Number(s) \in Seq(Digit) /\ Len(Number(s)) \in Nat
         /\ Len(s) > 0 => Len(Number(s)) <= Len(s)
         /\ \A m \in Nat : m > 0 /\ Len(s) <= m => Len(Number(s)) <= m
         /\ Number(s) = Zero \/ (Len(Number(s)) > 0 /\ Number(s)[1] # 0)
<1>1. CASE \E i \in 1..Len(s) : s[i] # 0
  <2>1. PICK k \in 1..Len(s) : s[k] # 0 /\ Number(s) = SubSeq(s, k, Len(s))
    BY <1>1, NumberIs
  <2>2. /\ SubSeq(s, k, Len(s)) \in Seq(Digit) /\ Len(SubSeq(s, k, Len(s))) = Len(s) - k + 1
        /\ SubSeq(s, k, Len(s))[1] = s[k]
    OBVIOUS
  <2>3. Len(s) \in Nat
    OBVIOUS
  <2> QED BY <2>1, <2>2, <2>3
<1>2. CASE \A i \in 1..Len(s) : s[i] = 0
  <2>1. DOMAIN s = 1..Len(s)
    OBVIOUS
  <2>2. Number(s) = Zero
    BY <1>2, <2>1, NumberIsZero
  <2>3. Zero \in Seq(Digit) /\ Len(Zero) = 1
    BY DEF Zero, Digit
  <2>4. Len(s) \in Nat
    OBVIOUS
  <2> QED BY <2>2, <2>3, <2>4
<1> QED BY <1>1, <1>2

\* The lengths of the four kinds.
LEMMA MinLengths ==
  ASSUME NEW k
  PROVE  /\ k = "CPF" => MinLength(k) = 11
         /\ k = "CNPJ" => MinLength(k) = 14
         /\ k = "CEP" => MinLength(k) = 8
         /\ k = "phone" => MinLength(k) = 10
  BY DEF MinLength

-----------------------------------------------------------------------------
(* The inductive invariant.                                                *)

\* What the column and the loaded text are, once they are there.
IInv ==
    /\ kind \in Kinds /\ text \in Texts[kind]
    /\ stage \in {"typed", "refused", "rejected", "stored", "loaded"}
    /\ stage # "typed" => (stage # "refused" <=> Accepts(kind, text))
    /\ stage \in {"stored", "loaded"} =>
          /\ column # Error
          /\ column = Cast(text) \/ (kind = "CEP" /\ column = ParseInt(text))
    /\ stage = "loaded" => loaded = Loaded(kind, column)

\* Every request goes through the stages, with what it carries.
LEMMA Invariance == Spec => []IInv
<1>1. Init => IInv
  BY DEF Init, IInv
<1>2. IInv /\ [Next]_vars => IInv'
  <2> SUFFICES ASSUME IInv, [Next]_vars PROVE IInv'
    OBVIOUS
  <2>1. CASE Refuse
    BY <2>1 DEF IInv, Refuse
  <2>2. CASE Insert
    <3>1. /\ stage = "typed" /\ Accepts(kind, text) /\ column' # Error
          /\ stage' = "stored" /\ UNCHANGED <<kind, text, loaded>>
          /\ column' = Cast(text) \/ (kind = "CEP" /\ column' = ParseInt(text))
      BY <2>2 DEF Insert, Store
    <3> QED BY <3>1 DEF IInv
  <2>3. CASE Update
    BY <2>3 DEF IInv, Update, Store
  <2>4. CASE Reject
    BY <2>4 DEF IInv, Reject
  <2>5. CASE Load
    BY <2>5 DEF IInv, Load
  <2>6. CASE UNCHANGED vars
    BY <2>6 DEF IInv, vars
  <2> QED BY <2>1, <2>2, <2>3, <2>4, <2>5, <2>6 DEF Next
<1> QED BY <1>1, <1>2, PTL DEF Spec

\* What a text is.
LEMMA TextIs ==
  ASSUME IInv
  PROVE  /\ kind \in Kinds /\ text.digits \in Seq(Digit)
         /\ Len(text.digits) \in Nat /\ text.length \in Nat
         /\ text.form = "digits" => text.length = Len(text.digits)
         /\ text.form = "around" => text.length > Len(text.digits)
<1>1. kind \in Kinds /\ text \in Texts[kind]
  BY DEF IInv
<1>2. text \in Text
  BY <1>1, TextsAreTexts
<1>3. text.digits \in Seq(Digit) /\ text.length \in Nat
  BY <1>2 DEF Text
<1> QED BY <1>1, <1>3, TextsAreTexts

\* The number in the column is that of the digits, if what is not a digit is
\* blanks or a sign, or if the cast has read it.
LEMMA StoredIs ==
  ASSUME IInv, stage \in {"stored", "loaded"},
         kind # "CEP" \/ text.form \in {"digits", "around"}
  PROVE  column = Number(text.digits) /\ text.digits # <<>> /\ Accepts(kind, text)
<1>1. column # Error /\ Accepts(kind, text)
  BY DEF IInv
<1>2. column = Cast(text) \/ (text.form # "binary" /\ column = ParseInt(text))
  BY DEF IInv
<1> QED BY <1>1, <1>2 DEF Cast, ParseInt

-----------------------------------------------------------------------------
(* The theorems.                                                           *)

\* A CPF is accepted if and only if its check digits are the official ones.
THEOREM CpfsAreTheOfficialOnesHolds == Spec => []CpfsAreTheOfficialOnes
<1>1. IInv => CpfsAreTheOfficialOnes
  <2> SUFFICES ASSUME IInv, kind = "CPF", stage # "typed"
               PROVE  stage # "refused" <=>
                        /\ text.form = "digits" /\ text.length = 11
                        /\ text.digits[10] = Official(text.digits, 9)
                        /\ text.digits[11] = Official(text.digits, 10)
    BY DEF CpfsAreTheOfficialOnes
  <2>1. stage # "refused" <=> text.form = "digits" /\ IsCpf(text.digits)
    BY DEF IInv, Accepts
  <2> QED BY <2>1, TextIs, CpfIsOfficial
<1> QED BY <1>1, Invariance, PTL

\* CNPJ and CEP of digits come back from their columns as they were written, and
\* with blanks or a sign as the same number, padded with zeros.
THEOREM CondominiumNumbersComeBackHolds == Spec => []CondominiumNumbersComeBack
<1>1. IInv => CondominiumNumbersComeBack
  <2> SUFFICES ASSUME IInv, kind \in {"CNPJ", "CEP"}, stage = "loaded",
                      text.form \in {"digits", "around"}
               PROVE  /\ text.form = "digits" => loaded = text.digits
                      /\ text.form = "around" =>
                            Len(loaded) = text.length /\ Number(loaded) = Number(text.digits)
    BY DEF CondominiumNumbersComeBack
  <2> DEFINE n == Number(text.digits)
             min == MinLength(kind)
             padded == Padded(kind, n)
  <2>1. column = n /\ text.digits # <<>> /\ Accepts(kind, text)
    BY StoredIs
  <2>2. min \in {14, 8} /\ text.length = min
    BY <2>1, MinLengths DEF Accepts
  <2>3. Len(text.digits) \in 1..min
    <3>1. Len(text.digits) > 0
      BY <2>1, TextIs
    <3> HIDE DEF min
    <3> QED BY <2>2, <3>1, TextIs
  <2>4. /\ n \in Seq(Digit) /\ Len(n) \in Nat /\ Len(n) <= min
        /\ n = Zero \/ (Len(n) > 0 /\ n[1] # 0)
    <3> HIDE DEF min
    <3>1. /\ n \in Seq(Digit) /\ Len(n) \in Nat /\ Len(n) <= Len(text.digits)
          /\ n = Zero \/ (Len(n) > 0 /\ n[1] # 0)
      BY <2>3, TextIs, NumberIsNumber
    <3> QED BY <2>2, <2>3, <3>1
  <2>0. kind \in Kinds
    BY TextIs
  <2> HIDE DEF n, min
  <2>5. AsDouble(n) = n
    BY <2>2, <2>4 DEF AsDouble
  <2>6. Len(padded) = text.length
    <3>1. PICK m \in Nat : /\ m = IF min > Len(n) THEN min - Len(n) ELSE 0
                           /\ Len(padded) = m + Len(n)
      BY <2>0, <2>4, PaddedIs DEF min
    <3> HIDE DEF padded
    <3> QED BY <2>2, <2>4, <3>1
  <2>7. loaded = padded
    <3>1. Accepts(kind, Digits(padded))
      <4>1. Digits(padded).form = "digits" /\ Digits(padded).length = text.length
        BY <2>6 DEF Digits
      <4> HIDE DEF padded
      <4> QED BY <2>1, <4>1 DEF Accepts
    <3>2. loaded = Loaded(kind, n)
      BY <2>1 DEF IInv
    <3> QED BY <2>5, <3>1, <3>2 DEF Loaded
  <2>8. text.form = "digits" => padded = text.digits
    BY <2>2, TextIs, PaddedNumber DEF n, min
  <2>9. Number(padded) = n
    BY <2>4, TextIs, NumberOfPadded
  <2> QED BY <2>6, <2>7, <2>8, <2>9 DEF n
<1> QED BY <1>1, Invariance, PTL

\* What is read of a CPF, or of a phone number a double holds, is the number that
\* was written.
THEOREM OnlyLeadingZerosAreLostHolds == Spec => []OnlyLeadingZerosAreLost
<1>1. IInv => OnlyLeadingZerosAreLost
  <2> SUFFICES ASSUME IInv, kind \in {"CPF", "phone"}, stage = "loaded",
                      loaded \notin {Null, Error},
                      ~(kind = "phone" /\ Len(Number(text.digits)) > 15)
               PROVE  /\ Number(loaded) = Number(text.digits)
                      /\ text.form = "digits" => Len(loaded) \in MinLength(kind)..text.length
    BY DEF OnlyLeadingZerosAreLost
  <2> DEFINE n == Number(text.digits)
             min == MinLength(kind)
  <2>1. column = n /\ text.digits # <<>> /\ Accepts(kind, text)
    BY StoredIs
  <2>2. /\ n \in Seq(Digit) /\ Len(n) \in Nat /\ Len(n) <= Len(text.digits)
        /\ n = Zero \/ (Len(n) > 0 /\ n[1] # 0)
    <3>1. Len(text.digits) > 0
      BY <2>1, TextIs
    <3> QED BY <3>1, TextIs, NumberIsNumber
  <2>3. loaded = Padded(kind, AsDouble(n)) /\ (kind = "CPF" => IsCpf(n))
    BY <2>1 DEF IInv, Loaded
  <2>4. AsDouble(n) = n
    <3>1. kind = "CPF" => Len(n) = 11
      BY <2>3 DEF IsCpf
    <3>2. kind = "phone" => ~(Len(n) > 15)
      OBVIOUS
    <3> HIDE DEF n
    <3>3. ~(Len(n) > 15)
      <4>1. CASE kind = "CPF"
        <5>1. \A x \in Nat : x = 11 => ~(x > 15)
          OBVIOUS
        <5> QED BY <2>2, <3>1, <4>1, <5>1
      <4>2. CASE kind = "phone"
        BY <3>2, <4>2
      <4> QED BY <4>1, <4>2
    <3> QED BY <3>3 DEF AsDouble
  <2>5. Number(loaded) = n
    <3> HIDE DEF n
    <3> QED BY <2>2, <2>3, <2>4, TextIs, NumberOfPadded
  <2>6. ASSUME text.form = "digits"
        PROVE  min \in Nat /\ min <= text.length /\ Len(n) <= text.length /\ text.length \in Nat
    <3>1. text.length = Len(text.digits) /\ text.length \in Nat
      BY <2>6, TextIs
    <3>2. \/ min = 11 /\ text.length = 11
          \/ min = 10 /\ text.length \in 10..20
      BY <2>1, <3>1, MinLengths DEF Accepts, IsCpf
    <3>3. Len(n) \in Nat /\ Len(n) <= text.length
      BY <2>2, <3>1
    <3> DEFINE len == text.length
    <3>4. (min = 11 /\ len = 11) \/ (min = 10 /\ len \in 10..20)
      BY <3>2
    <3> HIDE DEF min, n, len
    <3>5. min \in Nat /\ min <= len
      BY <3>4
    <3> QED BY <3>1, <3>3, <3>5 DEF len
  <2>7. PICK m \in Nat :
           /\ m = IF MinLength(kind) > Len(n) THEN MinLength(kind) - Len(n) ELSE 0
           /\ Len(loaded) = m + Len(n)
    <3> HIDE DEF n
    <3>1. kind \in Kinds /\ n \in Seq(Digit) /\ loaded = Padded(kind, n)
      BY <2>2, <2>3, <2>4, TextIs
    <3>2. \E p \in Nat :
             /\ p = IF MinLength(kind) > Len(n) THEN MinLength(kind) - Len(n) ELSE 0
             /\ Len(Padded(kind, n)) = p + Len(n)
      BY <3>1, PaddedIs
    <3> QED BY <3>1, <3>2
  <2> HIDE DEF n
  <2>8. text.form = "digits" => Len(loaded) \in MinLength(kind)..text.length
    BY <2>2, <2>6, <2>7
  <2> QED BY <2>5, <2>8 DEF n
<1> QED BY <1>1, Invariance, PTL

\* A CPF is lost if it starts with 0, and comes back as it was written if not.
THEOREM CpfIsReadUnlessItStartsWithZeroHolds == Spec => []CpfIsReadUnlessItStartsWithZero
<1>1. IInv => CpfIsReadUnlessItStartsWithZero
  <2> SUFFICES ASSUME IInv, kind = "CPF", stage = "loaded"
               PROVE  loaded = IF text.digits[1] = 0 THEN Error ELSE text.digits
    BY DEF CpfIsReadUnlessItStartsWithZero
  <2> DEFINE s == text.digits
             n == Number(s)
  <2>1. column = n /\ s \in Seq(Digit) /\ IsCpf(s) /\ Len(s) = 11
    BY StoredIs, TextIs DEF Accepts, IsCpf
  <2>2. loaded = Loaded("CPF", n)
    BY <2>1 DEF IInv
  <2> HIDE DEF s
  <2>3. CASE s[1] # 0
    <3>1. n = s
      BY <2>1, <2>3, NumberOfNumber
    <3>2. AsDouble(n) = s
      <4>1. ~(Len(s) > 15)
        BY <2>1
      <4>2. AsDouble(s) = s
        BY <4>1 DEF AsDouble
      <4> QED BY <3>1, <4>2
    <3>3. Padded("CPF", s) = s
      <4>1. "CPF" \in Kinds /\ Len(s) = MinLength("CPF")
        BY <2>1, MinLengths DEF Kinds
      <4> QED BY <2>1, <3>1, <4>1, PaddedNumber
    <3>4. Accepts("CPF", Digits(s))
      BY <2>1 DEF Accepts, Digits
    <3> HIDE DEF n
    <3>5. Loaded("CPF", n) = s
      BY <2>1, <3>1, <3>2, <3>3, <3>4 DEF Loaded
    <3> QED BY <2>2, <2>3, <3>5 DEF s
  <2>4. CASE s[1] = 0
    <3>1. ASSUME \E i \in 1..Len(s) : s[i] # 0
          PROVE  Len(n) # 11
      <4>1. PICK b \in 1..Len(s) : s[b] # 0 /\ n = SubSeq(s, b, Len(s))
        BY <2>1, <3>1, NumberIs
      <4>2. b > 1 /\ Len(n) = 12 - b
        BY <2>1, <2>4, <4>1
      <4>3. Len(n) # 11
        BY <2>1, <4>2
      <4> QED BY <4>3
    <3>2. ASSUME \A i \in 1..Len(s) : s[i] = 0
          PROVE  Len(n) # 11
      <4>1. DOMAIN s = 1..Len(s)
        BY <2>1
      <4>2. n = Zero
        BY <3>2, <4>1, NumberIsZero
      <4> QED BY <4>2 DEF Zero
    <3>3. ~IsCpf(n)
      BY <3>1, <3>2 DEF IsCpf
    <3> HIDE DEF n
    <3>4. Loaded("CPF", n) = Error
      BY <3>3 DEF Loaded
    <3> QED BY <2>2, <2>4, <3>4 DEF s
  <2> QED BY <2>3, <2>4
<1> QED BY <1>1, Invariance, PTL
=============================================================================
