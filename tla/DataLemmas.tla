----------------------------- MODULE DataLemmas -----------------------------
(***************************************************************************)
(* Facts that the proofs about what instructions compute rest on:          *)
(* induction over the naturals, stated of a set so that it can be cited,   *)
(* recursively defined sums, arithmetic on words, and optional values.     *)
(* The numbers M, H and B stand for powers of two, of which the provers    *)
(* know nothing.                                                           *)
(***************************************************************************)
EXTENDS Integers, FiniteSetTheorems, WellFoundedInduction, TLAPS

\* A set of naturals that is not empty has a least member.
LEMMA LeastMember ==
  ASSUME NEW T \in SUBSET Nat, T # {}
  PROVE  \E n \in T : \A m \in T : n <= m
<1>1. IsWellFoundedOn(OpToRel(<, Nat), Nat)
  BY NatLessThanWellFounded
<1>2. \E x \in T : \A y \in T : ~(<<y, x>> \in OpToRel(<, Nat))
  BY <1>1, WFMin
<1>3. ASSUME NEW x \in Nat, NEW y \in Nat, <<y, x>> \notin OpToRel(<, Nat)
      PROVE  x <= y
  BY <1>3 DEF OpToRel
<1> QED
  BY <1>2, <1>3

\* Induction up to a bound, for the numbers in a set.
LEMMA Induction ==
  ASSUME NEW N \in Nat, NEW S,
         0 \in S, \A n \in 0..(N - 1) : n \in S => n + 1 \in S
  PROVE  \A n \in 0..N : n \in S
<1> SUFFICES ASSUME NEW b \in 0..N, b \notin S PROVE FALSE
  OBVIOUS
<1> DEFINE T == {n \in 0..N : n \notin S}
<1>1. T \in SUBSET Nat /\ T # {}
  OBVIOUS
<1>2. PICK n \in T : \A m \in T : n <= m
  BY <1>1, LeastMember
<1>3. n \in 0..N /\ n # 0
  OBVIOUS
<1>4. n - 1 \in 0..(N - 1) /\ (n - 1) + 1 = n
  BY <1>3
<1>5. n - 1 \notin T
  BY <1>2, <1>3
<1>6. n - 1 \in S
  BY <1>4, <1>5
<1> QED
  BY <1>2, <1>4, <1>6

-----------------------------------------------------------------------------
(* Sums of a function's values, as recursive definitions write them.        *)

\* g holds the sums of t's values up to each index from 0 to n.
Sums(g, t, n) ==
  g = [l \in 0..n |-> IF l = 0 THEN 0 ELSE g[l - 1] + t[l]]

\* There are such sums: the recursive definition defines something.
LEMMA SumsExist ==
  ASSUME NEW N \in Nat, NEW t
  PROVE  \E g : Sums(g, t, N)
<1> DEFINE S == {n \in 0..N : \E g : Sums(g, t, n)}
<1>1. 0 \in S
  <2> DEFINE g0 == [l \in 0..0 |-> 0]
  <2>1. Sums(g0, t, 0)
    BY DEF Sums
  <2> QED
    BY <2>1
<1>2. ASSUME NEW n \in 0..(N - 1), n \in S PROVE n + 1 \in S
  <2>1. PICK g : Sums(g, t, n)
    BY <1>2
  <2> DEFINE h == [l \in 0..(n + 1) |-> IF l = n + 1 THEN g[n] + t[n + 1] ELSE g[l]]
  <2>2. ASSUME NEW l \in 0..(n + 1)
        PROVE  h[l] = IF l = 0 THEN 0 ELSE h[l - 1] + t[l]
    <3>1. CASE l = n + 1
      <4>1. h[l] = g[n] + t[n + 1] /\ l # 0 /\ l - 1 = n /\ n \in 0..(n + 1) /\ n # n + 1
        BY <3>1
      <4>2. h[n] = g[n]
        BY <4>1
      <4> HIDE DEF h
      <4> QED
        BY <3>1, <4>1, <4>2
    <3>2. CASE l # n + 1 /\ l = 0
      <4>1. h[l] = g[l] /\ l \in 0..n
        BY <3>2
      <4> HIDE DEF h
      <4> QED
        BY <2>1, <3>2, <4>1 DEF Sums
    <3>3. CASE l # n + 1 /\ l # 0
      <4>1. h[l] = g[l] /\ l \in 0..n
        BY <3>3
      <4>2. h[l - 1] = g[l - 1]
        BY <3>3
      <4>3. g[l] = g[l - 1] + t[l]
        BY <2>1, <3>3, <4>1 DEF Sums
      <4> HIDE DEF h
      <4> QED
        BY <3>3, <4>1, <4>2, <4>3
    <3> QED
      BY <3>1, <3>2, <3>3
  <2>3. Sums(h, t, n + 1)
    <3>1. h = [l \in 0..(n + 1) |-> h[l]]
      OBVIOUS
    <3> HIDE DEF h
    <3> QED
      BY <2>2, <3>1 DEF Sums
  <2> HIDE DEF h
  <2> QED
    BY <2>3
<1> HIDE DEF S
<1>3. \A n \in 0..N : n \in S
  BY <1>1, <1>2, Induction
<1> QED
  BY <1>3 DEF S

\* Sums of integers are integers.
LEMMA SumsOfIntegers ==
  ASSUME NEW N \in Nat, NEW t, NEW g, Sums(g, t, N), \A l \in 1..N : t[l] \in Int
  PROVE  g \in [0..N -> Int]
<1> DEFINE S == {n \in 0..N : g[n] \in Int}
<1>1. 0 \in S
  BY DEF Sums
<1>2. ASSUME NEW n \in 0..(N - 1), n \in S PROVE n + 1 \in S
  <2>1. n + 1 \in 0..N /\ n + 1 \in 1..N /\ (n + 1) - 1 = n
    OBVIOUS
  <2>2. g[n + 1] = g[n] + t[n + 1]
    BY <2>1 DEF Sums
  <2> QED
    BY <1>2, <2>1, <2>2
<1>3. \A n \in 0..N : n \in S
  <2> HIDE DEF S
  <2> QED
    BY <1>1, <1>2, Induction
<1> QED
  BY <1>3 DEF Sums

-----------------------------------------------------------------------------
(* Words.                                                                   *)

\* What is reduced modulo M and shifted down by half of it is a signed word.
LEMMA SignedWord ==
  ASSUME NEW n \in Int, NEW H \in Nat \ {0}, NEW M, M = 2 * H
  PROVE  ((n + H) % M) - H \in -H .. (H - 1)
<1>1. M \in Nat \ {0} /\ n + H \in Int
  OBVIOUS
<1>2. (n + H) % M \in 0..(M - 1)
  BY <1>1
<1> QED
  BY <1>2

\* A remainder is a word.
LEMMA Remainder ==
  ASSUME NEW n \in Int, NEW M \in Nat \ {0}
  PROVE  n % M \in 0 .. (M - 1)
OBVIOUS

\* A word of two parts, of which the upper one has less than A values.
LEMMA UpperPart ==
  ASSUME NEW n \in Nat, NEW A \in Nat \ {0}, NEW B \in Nat \ {0}, n < A * B
  PROVE  n \div B \in 0 .. (A - 1)
<1>1. n \div B \in Nat
  OBVIOUS
<1>2. n \div B < A
  OBVIOUS
<1> QED
  BY <1>1, <1>2

\* What is added for one bit keeps a sum below the next power of two.
LEMMA NextPower ==
  ASSUME NEW s \in Nat, NEW B \in Nat \ {0}, NEW x \in 0..1, NEW y \in 0..1, s < B
  PROVE  /\ s + x * y * B \in Nat
         /\ s + x * y * B < 2 * B
<1>1. x * y \in 0..1
  OBVIOUS
<1>2. x * y * B = 0 \/ x * y * B = B
  <2>1. CASE x * y = 0
    BY <2>1
  <2>2. CASE x * y = 1
    BY <2>2
  <2> QED
    BY <1>1, <2>1, <2>2
<1> QED
  BY <1>2

-----------------------------------------------------------------------------
(* Optional values are sets of at most one.                                 *)

AtMostOne(s, T) == s = {} \/ \E x \in T : s = {x}

\* A value that is there is one of the set's.
LEMMA TheValue ==
  ASSUME NEW s, NEW T, AtMostOne(s, T), s # {}
  PROVE  (CHOOSE e \in s : TRUE) \in T
BY DEF AtMostOne

LEMMA AtMostOneCounts ==
  ASSUME NEW s, NEW T, AtMostOne(s, T)
  PROVE  s \subseteq T /\ Cardinality(s) <= 1
<1>1. CASE s = {}
  BY <1>1, FS_EmptySet
<1>2. CASE \E x \in T : s = {x}
  <2>1. PICK x \in T : s = {x}
    BY <1>2
  <2>2. Cardinality(s) = 1
    BY <2>1, FS_Singleton
  <2> QED
    BY <2>1, <2>2
<1> QED
  BY <1>1, <1>2 DEF AtMostOne

=============================================================================
