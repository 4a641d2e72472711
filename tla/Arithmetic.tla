---------------------------- MODULE Arithmetic ----------------------------
(***************************************************************************)
(* Facts about numbers that the proofs of several modules rest on.         *)
(***************************************************************************)
EXTENDS Integers, WellFoundedInduction, TLAPS

(* Euclidean division by a positive number. *)
LEMMA DivMod ==
    ASSUME NEW x \in Nat, NEW b \in Nat \ {0}
    PROVE  /\ x \div b \in Nat
           /\ x % b \in 0..b-1
           /\ x = b * (x \div b) + (x % b)
  BY SMT

(* A quotient is determined by its remainder being in range. *)
LEMMA DivUnique ==
    ASSUME NEW b \in Nat \ {0}, NEW q \in Nat, NEW r \in 0..b-1
    PROVE  (b * q + r) \div b = q /\ (b * q + r) % b = r
  <1> DEFINE x == b * q + r
             p == x \div b
             s == x % b
  <1>1. x \in Nat
    BY SMT
  <1>2. p \in Nat /\ s \in 0..b-1 /\ x = b * p + s
    BY <1>1, DivMod
  <1>3. b * q + r = b * p + s
    BY <1>2
  <1> HIDE DEF p, s, x
  <1>4. p = q
    <2>1. ~ p >= q + 1
      <3>1. SUFFICES ASSUME p >= q + 1 PROVE FALSE
        OBVIOUS
      <3>2. PICK k \in Nat : p = q + 1 + k
        <4>1. p - q - 1 \in Nat /\ p = q + 1 + (p - q - 1)
          BY <1>2, <3>1
        <4> QED BY <4>1
      <3>3. b * p = b * q + b + b * k
        BY <3>2
      <3>4. b * k \in Nat
        BY <3>2
      <3>5. b * q \in Nat
        OBVIOUS
      <3> QED BY <1>2, <1>3, <3>3, <3>4, <3>5
    <2>2. ~ q >= p + 1
      <3>1. SUFFICES ASSUME q >= p + 1 PROVE FALSE
        OBVIOUS
      <3>2. PICK k \in Nat : q = p + 1 + k
        <4>1. q - p - 1 \in Nat /\ q = p + 1 + (q - p - 1)
          BY <1>2, <3>1
        <4> QED BY <4>1
      <3>3. b * q = b * p + b + b * k
        BY <1>2, <3>2
      <3>4. b * k \in Nat
        BY <3>2
      <3>5. b * p \in Nat
        BY <1>2
      <3> QED BY <1>2, <1>3, <3>3, <3>4, <3>5
    <2> QED BY <1>2, <2>1, <2>2
  <1>5. s = r
    <2>1. b * q \in Nat
      OBVIOUS
    <2> QED BY <1>2, <1>3, <1>4, <2>1
  <1> QED BY <1>4, <1>5 DEF p, s, x

(* Shifting twice is shifting once by the product. *)
LEMMA NestedDiv ==
    ASSUME NEW x \in Nat, NEW a \in Nat \ {0}, NEW b \in Nat \ {0}
    PROVE  x \div (a * b) = (x \div a) \div b
  <1> DEFINE q == x \div a
             r == x % a
             p == q \div b
             s == q % b
  <1>1. q \in Nat /\ r \in 0..a-1 /\ x = a * q + r
    BY DivMod
  <1>2. p \in Nat /\ s \in 0..b-1 /\ q = b * p + s
    BY <1>1, DivMod
  <1> HIDE DEF q, r, p, s
  <1>3. a * b \in Nat \ {0}
    BY SMT
  <1>4. x = (a * b) * p + (a * s + r)
    <2>1. a * q = (a * b) * p + a * s
      BY <1>2
    <2>2. (a * b) * p \in Nat /\ a * s \in Nat /\ a * q \in Nat
      BY <1>1, <1>2
    <2> QED BY <1>1, <2>1, <2>2
  <1>5. a * s + r \in 0..a * b - 1
    <2>1. a * s \in Nat
      BY <1>2
    <2>2. PICK k \in Nat : b = s + 1 + k
      <3>1. b - s - 1 \in Nat /\ b = s + 1 + (b - s - 1)
        BY <1>2
      <3> QED BY <3>1
    <2>3. a * b = a * s + a + a * k
      BY <1>2, <2>2
    <2>4. a * k \in Nat
      BY <2>2
    <2> QED BY <1>1, <2>1, <2>3, <2>4
  <1>6. x \div (a * b) = p
    BY <1>2, <1>3, <1>4, <1>5, DivUnique
  <1> QED BY <1>6 DEF p, q

(* Every nonempty set of natural numbers has a least element. *)
LEMMA LeastElement ==
    ASSUME NEW T, T \subseteq Nat, T # {}
    PROVE  \E x \in T : \A y \in T : x <= y
  <1> DEFINE R == OpToRel(<, Nat)
  <1>1. PICK x \in T : \A y \in T : <<y, x>> \notin R
    <2>1. IsWellFoundedOn(R, Nat)
      BY NatLessThanWellFounded
    <2> HIDE DEF R
    <2> QED BY <2>1, WFMin
  <1>2. \A y \in T : ~ (y < x)
    BY <1>1 DEF OpToRel
  <1> QED BY <1>2

(* f iterates G from a: each of its values up to n is made of the one      *)
(* before it.                                                              *)
IteratesOver(f, n, S, a, G) ==
    /\ f \in [0..n -> S]
    /\ f[0] = a
    /\ \A i \in 1..n : f[i] = G[i][f[i-1]]

(* Such a recursion has a solution. *)
LEMMA Iterates ==
    ASSUME NEW n \in Nat, NEW S, NEW a \in S, NEW G \in [1..n -> [S -> S]]
    PROVE  \E f : IteratesOver(f, n, S, a, G)
  <1> DEFINE Solves(f, k) == IteratesOver(f, k, S, a, G)
             T == {k \in 0..n : ~ \E f : Solves(f, k)}
  <1>1. ASSUME T # {} PROVE FALSE
    <2>1. T \subseteq Nat
      OBVIOUS
    <2> HIDE DEF T
    <2>2. PICK x \in T : \A y \in T : x <= y
      BY <1>1, <2>1, LeastElement
    <2>3. x \in 0..n /\ ~ \E f : Solves(f, x)
      BY <2>2 DEF T
    <2>4. x # 0
      <3>1. Solves([i \in 0..0 |-> a], 0)
        BY DEF IteratesOver
      <3> QED BY <2>3, <3>1
    <2>5. x - 1 \in 0..n /\ x \in 1..n /\ ~(x <= x - 1)
      BY <2>3, <2>4
    <2>6. PICK f : Solves(f, x - 1)
      BY <2>2, <2>5 DEF T
    <2>a. /\ f \in [0..x-1 -> S] /\ f[0] = a
          /\ \A i \in 1..x-1 : f[i] = G[i][f[i-1]]
      BY <2>6 DEF IteratesOver
    <2> DEFINE h == [i \in 0..x |-> IF i = x THEN G[x][f[x-1]] ELSE f[i]]
    <2>7. x - 1 \in 0..x-1 /\ f[x-1] \in S /\ G[x][f[x-1]] \in S
      BY <2>5, <2>a
    <2>8. h \in [0..x -> S]
      <3>1. \A i \in 0..x : i # x => i \in 0..x-1
        BY <2>5
      <3>2. \A i \in 0..x : i # x => f[i] \in S
        BY <2>a, <3>1
      <3> QED BY <2>7, <3>2
    <2>9. h[0] = a
      BY <2>5, <2>a
    <2>10. ASSUME NEW i \in 1..x PROVE h[i] = G[i][h[i-1]]
      <3>1. i \in 0..x /\ i - 1 \in 0..x /\ i - 1 # x
        BY <2>5
      <3>2. CASE i = x
        BY <3>1, <3>2
      <3>3. CASE i # x
        <4>1. i \in 1..x-1
          BY <2>5, <3>3
        <4> QED BY <2>a, <3>1, <3>3, <4>1
      <3> QED BY <3>2, <3>3
    <2> HIDE DEF h
    <2>11. Solves(h, x)
      BY <2>8, <2>9, <2>10 DEF IteratesOver
    <2> QED BY <2>3, <2>11
  <1>2. PICK f : Solves(f, n)
    <2>1. n \in 0..n
      OBVIOUS
    <2> HIDE DEF Solves
    <2> QED BY <1>1, <2>1
  <1> QED BY <1>2
===========================================================================
