------------------------------ MODULE Extremes -------------------------------
(***************************************************************************)
(* Sets of numbers have least and greatest members: what the searches for  *)
(* a free slot and for the line used longest ago rest on.  And the sizes   *)
(* of finite sets, and counters that wrap: what the counts of references   *)
(* and the ring of a pipe rest on.                                         *)
(***************************************************************************)
EXTENDS Integers, FiniteSetsExt, WellFoundedInduction, FiniteSetTheorems, TLAPS

(* A set of natural numbers that is not empty has a least member           *)
LEMMA LeastMember ==
    ASSUME NEW S, S \subseteq Nat, S # {}
    PROVE  \E i \in S : \A j \in S : i <= j
  <1>. DEFINE R == {ss \in Nat \X Nat : ss[1] < ss[2]}
  <1>1. R = OpToRel(<, Nat)
    BY DEF OpToRel
  <1>2. IsWellFoundedOn(R, Nat)
    BY <1>1, NatLessThanWellFounded
  <1>. HIDE DEF R
  <1>3. \E i \in S : \A j \in S : ~(<<j, i>> \in R)
    BY ZenonT(30), <1>2, WFMin
  <1>4. \A i, j \in Nat : <<j, i>> \in R <=> j < i
    BY DEF R
  <1>5. PICK i \in S : \A j \in S : ~(<<j, i>> \in R)
    BY <1>3
  <1>6. \A j \in S : i <= j
    <2>. TAKE j \in S
    <2>1. i \in Nat /\ j \in Nat
      OBVIOUS
    <2>2. ~(j < i)
      BY ZenonT(30), <1>4, <1>5, <2>1
    <2>. QED BY <2>1, <2>2
  <1>. QED BY <1>6

(* A set of numbers up to n that is not empty has a greatest member        *)
LEMMA GreatestMember ==
    ASSUME NEW n \in Nat, NEW S, S \subseteq 0 .. n, S # {}
    PROVE  \E i \in S : \A j \in S : j <= i
  <1>. DEFINE D == {n - i : i \in S}
  <1>1. D \subseteq Nat /\ D # {}
    <2>1. \A i \in S : n - i \in Nat
      OBVIOUS
    <2>2. PICK i \in S : TRUE
      OBVIOUS
    <2>3. n - i \in D
      OBVIOUS
    <2>. QED BY <2>1, <2>3
  <1>. HIDE DEF D
  <1>2. PICK m \in D : \A k \in D : m <= k
    BY ZenonT(30), <1>1, LeastMember
  <1>3. PICK i \in S : m = n - i
    BY DEF D
  <1>4. \A j \in S : n - j \in D
    BY DEF D
  <1>5. \A j \in S : j <= i
    <2>. TAKE j \in S
    <2>1. n - i <= n - j
      BY <1>2, <1>3, <1>4
    <2>2. i \in Int /\ j \in Int
      OBVIOUS
    <2>. QED BY <2>1, <2>2
  <1>. QED BY <1>5

(* Row p of a set of pairs, and two sets of pairs that differ in it only   *)
Row(D, p, S) == {d \in D : <<p, d>> \in S}

OneRow(P, D, p, S, T) ==
    /\ IsFiniteSet(P) /\ IsFiniteSet(D) /\ p \in P
    /\ S \subseteq P \X D /\ T \subseteq P \X D
    /\ \A q \in P \ {p}, d \in D : <<q, d>> \in S <=> <<q, d>> \in T

(* They differ in size by that row's members                               *)
LEMMA RowCount ==
    ASSUME NEW P, NEW D, NEW p, NEW S, NEW T, OneRow(P, D, p, S, T)
    PROVE  /\ Cardinality(T) = Cardinality(S) - Cardinality(Row(D, p, S)) + Cardinality(Row(D, p, T))
           /\ Cardinality(S) \in Nat /\ Cardinality(T) \in Nat
           /\ Cardinality(Row(D, p, S)) \in Nat /\ Cardinality(Row(D, p, T)) \in Nat
           /\ Cardinality(Row(D, p, S)) <= Cardinality(S)
  <1>. USE DEF OneRow
  <1>. DEFINE A == {d \in D : <<p, d>> \in S}
              B == {d \in D : <<p, d>> \in T}
              R == {x \in S : x[1] # p}
              U == {p} \X A
              V == {p} \X B
  <1>1. IsFiniteSet(P \X D)
    BY FS_Product
  <1>2. IsFiniteSet(S) /\ IsFiniteSet(T) /\ IsFiniteSet(A) /\ IsFiniteSet(B) /\ IsFiniteSet(R)
    <2>1. R \in SUBSET (P \X D) /\ A \in SUBSET D /\ B \in SUBSET D
      OBVIOUS
    <2>. QED BY ZenonT(30), <1>1, <2>1, FS_Subset
  <1>3. IsFiniteSet({p}) /\ Cardinality({p}) = 1
    BY ZenonT(30), FS_Singleton
  <1>4. /\ IsFiniteSet(U) /\ Cardinality(U) = 1 * Cardinality(A)
        /\ IsFiniteSet(V) /\ Cardinality(V) = 1 * Cardinality(B)
    BY ZenonT(30), <1>2, <1>3, FS_Product
  <1>5. S = R \cup U /\ R \cap U = {}
    OBVIOUS
  <1>6. T = R \cup V /\ R \cap V = {}
    <2>1. \A x \in T : x = <<x[1], x[2]>> /\ x[1] \in P /\ x[2] \in D
      OBVIOUS
    <2>2. \A x \in S : x = <<x[1], x[2]>> /\ x[1] \in P /\ x[2] \in D
      OBVIOUS
    <2>3. \A x \in T : x[1] # p => x \in R
      BY <2>1
    <2>4. \A x \in R : x \in T
      BY <2>2
    <2>5. \A x \in T : x[1] = p => x \in V
      BY <2>1
    <2>6. \A x \in V : x \in T
      OBVIOUS
    <2>. QED BY <2>3, <2>4, <2>5, <2>6
  <1>. HIDE DEF A, B, R, U, V
  <1>7. /\ Cardinality(R) \in Nat /\ Cardinality(A) \in Nat /\ Cardinality(B) \in Nat
        /\ Cardinality(S) \in Nat /\ Cardinality(T) \in Nat
    BY <1>2, FS_CardinalityType
  <1>8. Cardinality({}) = 0
    BY FS_EmptySet
  <1>9. Cardinality(S) = Cardinality(R) + Cardinality(A)
    <2>1. Cardinality(R \cup U) = Cardinality(R) + Cardinality(U) - Cardinality(R \cap U)
      BY <1>2, <1>4, FS_Union
    <2>2. Cardinality(R \cup U) = Cardinality(S) /\ Cardinality(R \cap U) = 0
      BY <1>5, <1>8, Zenon
    <2>. QED BY <2>1, <2>2, <1>4, <1>7
  <1>10. Cardinality(T) = Cardinality(R) + Cardinality(B)
    <2>1. Cardinality(R \cup V) = Cardinality(R) + Cardinality(V) - Cardinality(R \cap V)
      BY <1>2, <1>4, FS_Union
    <2>2. Cardinality(R \cup V) = Cardinality(T) /\ Cardinality(R \cap V) = 0
      BY <1>6, <1>8, Zenon
    <2>. QED BY <2>1, <2>2, <1>4, <1>7
  <1>11. /\ Cardinality(T) = Cardinality(S) - Cardinality(A) + Cardinality(B)
         /\ Cardinality(A) <= Cardinality(S)
    BY <1>7, <1>9, <1>10
  <1>. QED BY <1>7, <1>11 DEF A, B, Row

(* What is left of a finite set, and how much                              *)
LEMMA RestCount ==
    ASSUME NEW S, IsFiniteSet(S), NEW T, T \subseteq S
    PROVE  /\ Cardinality(S \ T) = Cardinality(S) - Cardinality(T)
           /\ Cardinality(S) \in Nat /\ Cardinality(T) \in Nat /\ Cardinality(S \ T) \in Nat
           /\ IsFiniteSet(T) /\ IsFiniteSet(S \ T)
  <1>1. T \in SUBSET S /\ (S \ T) \in SUBSET S
    OBVIOUS
  <1>2. IsFiniteSet(T) /\ IsFiniteSet(S \ T)
    BY <1>1, FS_Subset
  <1>3. (S \ T) \cup T = S /\ (S \ T) \cap T = {}
    OBVIOUS
  <1>4. Cardinality((S \ T) \cup T) = Cardinality(S \ T) + Cardinality(T) - Cardinality((S \ T) \cap T)
    BY <1>2, FS_Union
  <1>5. Cardinality({}) = 0
    BY FS_EmptySet
  <1>6. Cardinality(S) \in Nat /\ Cardinality(T) \in Nat /\ Cardinality(S \ T) \in Nat
    BY <1>2, FS_CardinalityType
  <1>7. Cardinality((S \ T) \cup T) = Cardinality(S) /\ Cardinality((S \ T) \cap T) = 0
    BY <1>3, <1>5, Zenon
  <1>. QED BY <1>2, <1>4, <1>6, <1>7

(* The lesser of two numbers                                               *)
LEMMA MinTwo ==
    ASSUME NEW a \in Int, NEW b \in Int
    PROVE  /\ Min({a, b}) = IF a <= b THEN a ELSE b
           /\ Min({a, b}) \in Int /\ Min({a, b}) <= a /\ Min({a, b}) <= b
  <1>1. Min({a, b}) \in {a, b} /\ \A y \in {a, b} : Min({a, b}) <= y
    <2>1. \E x \in {a, b} : \A y \in {a, b} : x <= y
      OBVIOUS
    <2>. QED BY <2>1 DEF Min
  <1>. QED BY <1>1

(* Counters that wrap at W                                                 *)
LEMMA WrapOnce ==
    ASSUME NEW W \in Nat \ {0}, NEW x \in Int
    PROVE  /\ x \in 0 .. W - 1 => x % W = x
           /\ x \in W .. 2 * W - 1 => x % W = x - W
           /\ x \in -W .. -1 => x % W = x + W
  <1>1. x \in 0 .. W - 1 => x % W = x
    OBVIOUS
  <1>2. x \in W .. 2 * W - 1 => x % W = x - W
    OBVIOUS
  <1>3. x \in -W .. -1 => x % W = x + W
    OBVIOUS
  <1>. QED BY <1>1, <1>2, <1>3

(* Their sums and differences                                              *)
LEMMA WrapSum ==
    ASSUME NEW W \in Nat \ {0}, NEW a \in 0 .. W - 1, NEW m \in 0 .. W - 1
    PROVE  /\ (a + m) % W = IF a + m < W THEN a + m ELSE a + m - W
           /\ (a + m) % W \in 0 .. W - 1
  <1>. DEFINE x == a + m
  <1>1. x \in Int /\ (x < W => x \in 0 .. W - 1) /\ (~(x < W) => x \in W .. 2 * W - 1)
    OBVIOUS
  <1>. HIDE DEF x
  <1>2. x % W = IF x < W THEN x ELSE x - W
    BY <1>1, WrapOnce
  <1>3. x % W \in 0 .. W - 1
    BY <1>1, <1>2
  <1>. QED BY <1>2, <1>3 DEF x

LEMMA WrapDiff ==
    ASSUME NEW W \in Nat \ {0}, NEW a \in 0 .. W - 1, NEW b \in 0 .. W - 1
    PROVE  /\ (a - b) % W = IF b <= a THEN a - b ELSE a - b + W
           /\ (a - b) % W \in 0 .. W - 1
  <1>. DEFINE x == a - b
  <1>1. x \in Int /\ (0 <= x => x \in 0 .. W - 1) /\ (~(0 <= x) => x \in -W .. -1) /\ (0 <= x <=> b <= a)
    OBVIOUS
  <1>. HIDE DEF x
  <1>2. x % W = IF 0 <= x THEN x ELSE x + W
    BY <1>1, WrapOnce
  <1>3. x % W \in 0 .. W - 1
    BY <1>1, <1>2
  <1>4. x % W = IF b <= a THEN x ELSE x + W
    BY <1>1, <1>2
  <1>. QED BY <1>3, <1>4 DEF x
=============================================================================
