----------------------------- MODULE WotsProofs -----------------------------
(***************************************************************************)
(* Proofs about Wots, for every length of digests and every digest.        *)
(*                                                                         *)
(* The argument for the checksum: if no chain of another digest were       *)
(* shorter, some chain of the message would be longer, so fewer steps      *)
(* would be left, so the checksum would be less, so one of its digits      *)
(* would be less after all.                                                *)
(***************************************************************************)
EXTENDS Wots, Arithmetic

(* The digits of the checksum do not fill their last byte (for w = 256     *)
(* they would, and wots_checksum moves the sum out of its bytes), and its  *)
(* largest value has that many digits.                                     *)
ChecksumFits ==
    /\ (WotsLen2 * WotsLogW) % 8 # 0
    /\ WotsLen1 * (WotsW - 1) < Pow2[WotsLogW * WotsLen2]

---------------------------------------------------------------------------
(* Powers, and widths *)

LEMMA PowerFacts ==
    /\ MaxShift \in Nat /\ MaxShift >= 8
    /\ Pow2[0] = 1
    /\ \A k \in 0..MaxShift : Pow2[k] \in Nat \ {0}
    /\ Pow2[2] = 4 /\ Pow2[4] = 16 /\ Pow2[6] = 64 /\ Pow2[8] = 256
  <1>1. MaxShift \in Nat /\ MaxShift >= 8
    BY WotsAssumption DEF MaxShift
  <1>2. \A k \in 0..MaxShift : Pow2[k] \in Nat \ {0}
    BY Pow2Assumption
  <1>3. ASSUME NEW a \in 0..8, NEW b \in 0..8, a + b <= 8
        PROVE  Pow2[a + b] = Pow2[a] * Pow2[b]
    <2>1. a \in 0..MaxShift /\ b \in 0..MaxShift /\ a + b <= MaxShift
      BY <1>1, <1>3
    <2> QED BY <1>3, <2>1, Pow2Assumption, Zenon
  <1>4. Pow2[0] = 1
    <2>1. 0 \in 0..8 /\ 1 \in 0..8 /\ 0 + 1 <= 8 /\ 0 + 1 = 1
      OBVIOUS
    <2>2. Pow2[0 + 1] = Pow2[0] * Pow2[1]
      BY <1>3, <2>1
    <2>3. Pow2[0] \in Nat
      BY <1>1, <1>2
    <2> QED BY <2>1, <2>2, <2>3, Pow2Assumption
  <1>5. Pow2[1] = 2
    BY Pow2Assumption
  <1>6. Pow2[1 + 1] = Pow2[1] * Pow2[1]
    BY <1>3
  <1>7. Pow2[2 + 2] = Pow2[2] * Pow2[2] /\ Pow2[4 + 2] = Pow2[4] * Pow2[2]
    BY <1>3
  <1>8. Pow2[4 + 4] = Pow2[4] * Pow2[4]
    BY <1>3
  <1> QED BY <1>1, <1>2, <1>4, <1>5, <1>6, <1>7, <1>8

LEMMA WidthFacts ==
    /\ \/ WotsLogW = 2 /\ WotsW = 4
       \/ WotsLogW = 4 /\ WotsW = 16
       \/ WotsLogW = 8 /\ WotsW = 256
    /\ WotsLogW * WotsLen2 \in 0..MaxShift
    /\ WotsLen1 \in Nat \ {0} /\ WotsLen2 \in Nat \ {0} /\ WotsLen = WotsLen1 + WotsLen2
    /\ WotsLen1 = (8 \div WotsLogW) * N
  <1>1. N \in Nat \ {0} /\ WotsLen2 \in Nat \ {0} /\ WotsLogW \in {2, 4, 8}
    BY WotsAssumption
  <1> QED BY <1>1, PowerFacts DEF WotsW, WotsLen1, WotsLen, MaxShift

(* The registered sets are within the hypothesis: w is 16, the checksum    *)
(* has three digits and n is 64 at most (params.rs).                       *)
LEMMA RegisteredSetsFit ==
    WotsLogW = 4 /\ WotsLen2 = 3 /\ N <= 64 => ChecksumFits
  <1> SUFFICES ASSUME WotsLogW = 4, WotsLen2 = 3, N <= 64 PROVE ChecksumFits
    OBVIOUS
  <1>1. MaxShift = 24
    BY DEF MaxShift
  <1>2. Pow2[8 + 4] = Pow2[8] * Pow2[4]
    BY <1>1, Pow2Assumption
  <1>3. Pow2[12] = 4096
    BY <1>2, PowerFacts
  <1> QED BY <1>3, WotsAssumption, PowerFacts DEF ChecksumFits, WotsW, WotsLen1

(* Shifting by b and then by c is shifting by b + c. *)
LEMMA ShiftTwice ==
    ASSUME NEW x \in Nat, NEW b \in 0..MaxShift, NEW c \in 0..MaxShift, b + c <= MaxShift
    PROVE  x \div Pow2[b + c] = (x \div Pow2[b]) \div Pow2[c]
  <1>1. Pow2[b + c] = Pow2[b] * Pow2[c]
    BY Pow2Assumption
  <1> QED BY <1>1, PowerFacts, NestedDiv

(* What was moved up comes back down. *)
LEMMA ShiftBack ==
    ASSUME NEW x \in Nat, NEW b \in 0..MaxShift
    PROVE  (x * Pow2[b]) \div Pow2[b] = x
  <1>1. Pow2[b] \in Nat \ {0} /\ 0 \in 0..Pow2[b]-1
    BY PowerFacts
  <1>2. (Pow2[b] * x + 0) \div Pow2[b] = x
    BY <1>1, DivUnique
  <1>3. Pow2[b] * x + 0 = x * Pow2[b]
    BY <1>1
  <1> QED BY <1>2, <1>3

(* A digit of a byte is a digit of any number that ends in the byte. *)
LEMMA DigitOfByte ==
    ASSUME NEW y \in Nat, NEW b \in 0..8, b + WotsLogW <= 8
    PROVE  ((y % 256) \div Pow2[b]) % WotsW = (y \div Pow2[b]) % WotsW
  <1> DEFINE q == y \div 256
             r == y % 256
             c == Pow2[b]
             k == 8 - b - WotsLogW
             m == Pow2[k]
             t == r \div c
             s == r % c
  <1>1. q \in Nat /\ r \in Nat /\ y = 256 * q + r
    BY SMT
  <1>2. /\ k \in 0..MaxShift /\ b \in 0..MaxShift /\ WotsLogW \in 0..MaxShift
        /\ WotsLogW + k \in 0..MaxShift /\ WotsLogW + k <= MaxShift
        /\ b + (WotsLogW + k) = 8 /\ b + (WotsLogW + k) <= MaxShift
    BY PowerFacts, WotsAssumption
  <1>3. c \in Nat \ {0} /\ m \in Nat \ {0} /\ WotsW \in Nat \ {0}
    BY <1>2, PowerFacts DEF WotsW
  <1>4. 256 = c * (WotsW * m)
    <2>1. Pow2[b + (WotsLogW + k)] = Pow2[b] * Pow2[WotsLogW + k]
      BY <1>2, Pow2Assumption
    <2>2. Pow2[WotsLogW + k] = Pow2[WotsLogW] * Pow2[k]
      BY <1>2, Pow2Assumption
    <2>3. Pow2[8] = 256
      BY PowerFacts
    <2> QED BY <1>2, <2>1, <2>2, <2>3 DEF WotsW
  <1> HIDE DEF q, r, c, k, m
  <1>5. t \in Nat /\ s \in 0..c-1 /\ r = c * t + s
    BY <1>1, <1>3, DivMod
  <1> HIDE DEF t, s
  <1> DEFINE u == WotsW * (m * q) + t
  <1>6. u \in Nat /\ m * q \in Nat
    <2>1. m * q \in Nat
      BY <1>1, <1>3
    <2>2. WotsW * (m * q) \in Nat
      BY <1>3, <2>1
    <2> QED BY <1>5, <2>1, <2>2
  <1>7. y = c * u + s
    <2>1. 256 * q = c * (WotsW * (m * q))
      <3>1. WotsW * (m * q) = (WotsW * m) * q
        BY <1>1, <1>3
      <3>2. WotsW * m \in Nat
        BY <1>3
      <3>3. c * ((WotsW * m) * q) = (c * (WotsW * m)) * q
        BY <1>1, <1>3, <3>2
      <3> QED BY <1>4, <3>1, <3>3
    <2>2. c * u = c * (WotsW * (m * q)) + c * t
      <3>1. WotsW * (m * q) \in Nat
        BY <1>3, <1>6
      <3> QED BY <1>3, <1>5, <3>1
    <2> QED BY <1>1, <1>3, <1>5, <1>6, <2>1, <2>2
  <1>8. y \div c = u
    BY <1>3, <1>5, <1>6, <1>7, DivUnique
  <1>9. u % WotsW = t % WotsW
    <2> DEFINE v == t \div WotsW
               z == t % WotsW
    <2>1. v \in Nat /\ z \in 0..WotsW-1 /\ t = WotsW * v + z
      BY <1>3, <1>5, DivMod
    <2> HIDE DEF v, z
    <2>2. m * q + v \in Nat
      BY <1>6, <2>1
    <2>3. u = WotsW * (m * q + v) + z
      BY <1>3, <1>6, <2>1
    <2>4. u % WotsW = z
      BY <1>3, <2>1, <2>2, <2>3, DivUnique
    <2> QED BY <2>4 DEF z
  <1> QED BY <1>8, <1>9 DEF t, c, r

---------------------------------------------------------------------------
(* Sums *)

(* A sum can be taken: the recursion has a solution, on numbers. *)
LEMMA SumExists ==
    ASSUME NEW n \in Nat, NEW f, \A i \in 1..n : f[i] \in Nat
    PROVE  \E g \in [0..n -> Nat] :
              g = [i \in 0..n |-> IF i = 0 THEN 0 ELSE g[i-1] + f[i]]
  <1> DEFINE G == [i \in 1..n |-> [x \in Nat |-> x + f[i]]]
  <1>1. G \in [1..n -> [Nat -> Nat]]
    OBVIOUS
  <1> HIDE DEF G
  <1>a. PICK g : IteratesOver(g, n, Nat, 0, G)
    <2>1. 0 \in Nat
      OBVIOUS
    <2> QED BY <1>1, <2>1, Iterates, Zenon
  <1>2. g \in [0..n -> Nat] /\ g[0] = 0 /\ \A i \in 1..n : g[i] = G[i][g[i-1]]
    BY <1>a DEF IteratesOver
  <1>3. g = [i \in 0..n |-> IF i = 0 THEN 0 ELSE g[i-1] + f[i]]
    <2>1. ASSUME NEW i \in 0..n PROVE g[i] = IF i = 0 THEN 0 ELSE g[i-1] + f[i]
      <3>1. i # 0 => i \in 1..n /\ i - 1 \in 0..n
        OBVIOUS
      <3>2. i # 0 => g[i-1] \in Nat
        BY <1>2, <3>1
      <3> QED BY <1>2, <3>1, <3>2 DEF G
    <2> QED BY <1>2, <2>1
  <1> QED BY <1>2, <1>3

(* g adds up f: it starts from 0 and adds one summand at a time. *)
AddsUp(g, f, n) ==
    /\ g \in [0..n -> Nat]
    /\ g[0] = 0
    /\ \A i \in 1..n : g[i] = g[i-1] + f[i]

(* SumTo(f, n) is the end of a function that adds up f. *)
LEMMA SumSteps ==
    ASSUME NEW n \in Nat, NEW f, \A i \in 1..n : f[i] \in Nat
    PROVE  \E g : AddsUp(g, f, n) /\ SumTo(f, n) = g[n]
  <1> DEFINE Adds(g) == g = [i \in 0..n |-> IF i = 0 THEN 0 ELSE g[i-1] + f[i]]
             sum == CHOOSE g : Adds(g)
  <1>1. PICK h \in [0..n -> Nat] : Adds(h)
    BY SumExists
  <1>2. SumTo(f, n) = sum[n]
    BY DEF SumTo
  <1>3. Adds(sum)
    <2> HIDE DEF Adds
    <2> QED BY <1>1
  <1> HIDE DEF sum
  <1>4. sum[0] = 0 /\ \A i \in 1..n : sum[i] = sum[i-1] + f[i]
    <2>1. \A i \in 0..n : sum[i] = IF i = 0 THEN 0 ELSE sum[i-1] + f[i]
      BY <1>3
    <2> QED BY <2>1
  <1>5. sum \in [0..n -> Nat]
    <2> DEFINE T == {i \in 0..n : sum[i] \notin Nat}
    <2>1. ASSUME T # {} PROVE FALSE
      <3>1. T \subseteq Nat
        OBVIOUS
      <3> HIDE DEF T
      <3>2. PICK x \in T : \A y \in T : x <= y
        BY <2>1, <3>1, LeastElement
      <3>3. x \in 0..n /\ sum[x] \notin Nat
        BY <3>2 DEF T
      <3>4. x \in 1..n /\ x - 1 \in 0..n /\ ~(x <= x - 1)
        BY <1>4, <3>3
      <3>5. sum[x-1] \in Nat /\ f[x] \in Nat
        BY <3>2, <3>4 DEF T
      <3>6. sum[x] = sum[x-1] + f[x]
        BY <1>4, <3>4
      <3> QED BY <3>3, <3>5, <3>6
    <2>2. DOMAIN sum = 0..n /\ sum = [i \in 0..n |-> sum[i]]
      BY <1>3
    <2> QED BY <2>1, <2>2
  <1>6. AddsUp(sum, f, n)
    BY <1>4, <1>5 DEF AddsUp
  <1> QED BY <1>2, <1>6, Zenon

LEMMA SumType ==
    ASSUME NEW n \in Nat, NEW f, \A i \in 1..n : f[i] \in Nat
    PROVE  SumTo(f, n) \in Nat
  <1>1. PICK g : AddsUp(g, f, n) /\ SumTo(f, n) = g[n]
    BY SumSteps, Zenon
  <1> QED BY <1>1 DEF AddsUp

(* The sum is no more than what the summands are each no more than. *)
LEMMA SumBound ==
    ASSUME NEW n \in Nat, NEW c \in Nat, NEW f, \A i \in 1..n : f[i] \in 0..c
    PROVE  SumTo(f, n) <= n * c
  <1>0. PICK g : AddsUp(g, f, n) /\ SumTo(f, n) = g[n]
    <2>1. \A i \in 1..n : f[i] \in Nat
      OBVIOUS
    <2> QED BY <2>1, SumSteps, Zenon
  <1>1. /\ g \in [0..n -> Nat] /\ SumTo(f, n) = g[n]
        /\ g[0] = 0
        /\ \A i \in 1..n : g[i] = g[i-1] + f[i]
    BY <1>0 DEF AddsUp
  <1> DEFINE T == {i \in 0..n : ~ g[i] <= i * c}
  <1>2. ASSUME T # {} PROVE FALSE
    <2>1. T \subseteq Nat
      OBVIOUS
    <2> HIDE DEF T
    <2>2. PICK x \in T : \A y \in T : x <= y
      BY <1>2, <2>1, LeastElement
    <2>3. x \in 0..n /\ ~ g[x] <= x * c
      BY <2>2 DEF T
    <2>4. x # 0
      BY <1>1, <2>3
    <2>5. x \in 1..n /\ x - 1 \in 0..n /\ ~(x <= x - 1)
      BY <2>3, <2>4
    <2>6. g[x-1] <= (x - 1) * c
      BY <2>2, <2>5 DEF T
    <2>7. g[x] = g[x-1] + f[x] /\ f[x] \in 0..c /\ g[x-1] \in Nat
      BY <1>1, <2>5
    <2>8. x * c = (x - 1) * c + c /\ (x - 1) * c \in Nat
      BY <2>5
    <2>9. g[x] <= x * c
      BY <2>6, <2>7, <2>8
    <2> QED BY <2>3, <2>9
  <1>3. n \in 0..n
    OBVIOUS
  <1> QED BY <1>1, <1>2, <1>3

(* Where no summand is more and one is less, the sum is less. *)
LEMMA SumStrictlyMonotonic ==
    ASSUME NEW n \in Nat,
           NEW f, \A i \in 1..n : f[i] \in Nat,
           NEW g, \A i \in 1..n : g[i] \in Nat,
           \A i \in 1..n : f[i] <= g[i],
           NEW k \in 1..n, f[k] < g[k]
    PROVE  SumTo(f, n) < SumTo(g, n)
  <1>a. PICK F : AddsUp(F, f, n) /\ SumTo(f, n) = F[n]
    BY SumSteps, Zenon
  <1>b. PICK G : AddsUp(G, g, n) /\ SumTo(g, n) = G[n]
    BY SumSteps, Zenon
  <1>1. /\ F \in [0..n -> Nat] /\ SumTo(f, n) = F[n]
        /\ F[0] = 0
        /\ \A i \in 1..n : F[i] = F[i-1] + f[i]
    BY <1>a DEF AddsUp
  <1>2. /\ G \in [0..n -> Nat] /\ SumTo(g, n) = G[n]
        /\ G[0] = 0
        /\ \A i \in 1..n : G[i] = G[i-1] + g[i]
    BY <1>b DEF AddsUp
  <1> DEFINE Fine(i) == F[i] <= G[i] /\ (i >= k => F[i] < G[i])
             T == {i \in 0..n : ~ Fine(i)}
  <1>3. ASSUME T # {} PROVE FALSE
    <2>1. T \subseteq Nat
      OBVIOUS
    <2> HIDE DEF T
    <2>2. PICK x \in T : \A y \in T : x <= y
      BY <1>3, <2>1, LeastElement
    <2>3. x \in 0..n /\ ~ Fine(x)
      BY <2>2 DEF T
    <2>4. x # 0
      BY <1>1, <1>2, <2>3
    <2>5. x \in 1..n /\ x - 1 \in 0..n /\ ~(x <= x - 1)
      BY <2>3, <2>4
    <2>6. Fine(x - 1)
      BY <2>2, <2>5 DEF T
    <2>7. /\ F[x] = F[x-1] + f[x] /\ G[x] = G[x-1] + g[x]
          /\ F[x-1] \in Nat /\ G[x-1] \in Nat /\ f[x] \in Nat /\ g[x] \in Nat
          /\ f[x] <= g[x]
      <3>1. F[x] = F[x-1] + f[x]
        BY <1>1, <2>5
      <3>2. G[x] = G[x-1] + g[x]
        BY <1>2, <2>5
      <3>3. F[x-1] \in Nat
        BY <1>1, <2>5
      <3>4. G[x-1] \in Nat
        BY <1>2, <2>5
      <3>5. f[x] \in Nat /\ g[x] \in Nat /\ f[x] <= g[x]
        BY <2>5
      <3> QED BY <3>1, <3>2, <3>3, <3>4, <3>5
    <2>8. x >= k => x = k \/ x - 1 >= k
      BY <2>5
    <2>9. F[x] <= G[x]
      BY <2>6, <2>7
    <2>10. x - 1 >= k => F[x] < G[x]
      BY <2>6, <2>7
    <2>11. x = k => F[x] < G[x]
      BY <2>6, <2>7
    <2> QED BY <2>3, <2>8, <2>9, <2>10, <2>11
  <1>4. Fine(n)
    <2>1. n \in 0..n
      OBVIOUS
    <2> HIDE DEF Fine
    <2> QED BY <1>3, <2>1
  <1> QED BY <1>1, <1>2, <1>4

---------------------------------------------------------------------------
(* Digits *)

LEMMA DigitType ==
    ASSUME NEW bytes, NEW len \in Nat, NEW i \in 1..len,
           bytes[(i - 1) \div (8 \div WotsLogW) + 1] \in Nat
    PROVE  BaseW(bytes, len)[i] \in 0..WotsW-1
  <1> DEFINE bits == 8 - WotsLogW * (((i - 1) % (8 \div WotsLogW)) + 1)
             byte == bytes[(i - 1) \div (8 \div WotsLogW) + 1]
  <1>1. bits \in 0..MaxShift
    BY WidthFacts, PowerFacts
  <1>2. byte \div Pow2[bits] \in Nat
    <2> HIDE DEF bits, byte
    <2>1. Pow2[bits] \in Nat \ {0}
      BY <1>1, PowerFacts
    <2>2. byte \in Nat
      BY DEF byte
    <2> QED BY <2>1, <2>2, DivMod
  <1>3. BaseW(bytes, len)[i] = (byte \div Pow2[bits]) % WotsW
    BY DEF BaseW
  <1>4. WotsW \in Nat \ {0}
    BY WidthFacts
  <1> HIDE DEF bits, byte
  <1> QED BY <1>2, <1>3, <1>4, DivMod

(* The bytes the digits of a digest are taken from. *)
LEMMA MessageDigits ==
    ASSUME NEW digest \in Digests, NEW i \in 1..WotsLen1
    PROVE  BaseW(digest, WotsLen1)[i] \in 0..WotsW-1
  <1> DEFINE place == (i - 1) \div (8 \div WotsLogW) + 1
  <1>1. place \in 1..N
    <2>1. N \in Nat \ {0} /\ WotsLogW \in {2, 4, 8} /\ i \in 1..(8 \div WotsLogW) * N
      BY WidthFacts, WotsAssumption
    <2>2. CASE WotsLogW = 2
      BY <2>1, <2>2
    <2>3. CASE WotsLogW = 4
      BY <2>1, <2>3
    <2>4. CASE WotsLogW = 8
      BY <2>1, <2>4
    <2> QED BY <2>1, <2>2, <2>3, <2>4
  <1>2. digest \in [1..N -> 0..255]
    BY WotsAssumption
  <1>3. digest[place] \in Nat
    <2> HIDE DEF place
    <2>1. digest[place] \in 0..255
      BY <1>1, <1>2, Zenon
    <2> QED BY <2>1
  <1>4. WotsLen1 \in Nat
    BY WidthFacts
  <1> QED BY <1>3, <1>4, DigitType

(* The four digits of a byte to base 4 make up the byte. *)
LEMMA ByteInBase4 ==
    ASSUME NEW x \in 0..255
    PROVE  x = 64 * ((x \div 64) % 4) + 16 * ((x \div 16) % 4)
                  + 4 * ((x \div 4) % 4) + ((x \div 1) % 4)
  <1>1. x \div 4 = 4 * (x \div 16) + ((x \div 4) % 4) /\ x \div 16 \in Nat
    OBVIOUS
  <1>2. x \div 16 = 4 * (x \div 64) + ((x \div 16) % 4) /\ x \div 64 = (x \div 64) % 4
    OBVIOUS
  <1>3. x = 4 * (x \div 4) + ((x \div 1) % 4)
    OBVIOUS
  <1> QED BY <1>1, <1>2, <1>3

(* base_w loses nothing of a digest: two digests differ in a digit. *)
LEMMA DigitsTellApart ==
    ASSUME NEW a \in Digests, NEW b \in Digests, a # b
    PROVE  \E i \in 1..WotsLen1 : BaseW(a, WotsLen1)[i] # BaseW(b, WotsLen1)[i]
  <1> SUFFICES ASSUME \A i \in 1..WotsLen1 : BaseW(a, WotsLen1)[i] = BaseW(b, WotsLen1)[i]
               PROVE  FALSE
    OBVIOUS
  <1>1. a \in [1..N -> 0..255] /\ b \in [1..N -> 0..255]
    BY WotsAssumption
  <1>2. PICK k \in 1..N : a[k] # b[k]
    <2>1. a = [k \in 1..N |-> a[k]] /\ b = [k \in 1..N |-> b[k]]
      BY <1>1
    <2> QED BY <2>1, Zenon
  <1>3. a[k] \in 0..255 /\ b[k] \in 0..255 /\ N \in Nat
    BY <1>1, WotsAssumption
  <1> DEFINE per == 8 \div WotsLogW
  <1>4. ASSUME NEW m \in 1..per
        PROVE  (a[k] \div Pow2[8 - WotsLogW * m]) % WotsW
                  = (b[k] \div Pow2[8 - WotsLogW * m]) % WotsW
    <2> DEFINE i == per * (k - 1) + m
    <2>1. /\ i \in 1..WotsLen1
          /\ (i - 1) \div per + 1 = k
          /\ ((i - 1) % per) + 1 = m
      <3>1. WotsLogW \in {2, 4, 8} /\ WotsLen1 = per * N
        BY WidthFacts, WotsAssumption
      <3>2. CASE WotsLogW = 2
        BY <1>3, <3>1, <3>2
      <3>3. CASE WotsLogW = 4
        BY <1>3, <3>1, <3>3
      <3>4. CASE WotsLogW = 8
        BY <1>3, <3>1, <3>4
      <3> QED BY <3>1, <3>2, <3>3, <3>4
    <2>2. BaseW(a, WotsLen1)[i] = BaseW(b, WotsLen1)[i]
      BY <2>1
    <2> HIDE DEF i, per
    <2>3. BaseW(a, WotsLen1)[i] = (a[k] \div Pow2[8 - WotsLogW * m]) % WotsW
      BY <2>1 DEF BaseW, per
    <2>4. BaseW(b, WotsLen1)[i] = (b[k] \div Pow2[8 - WotsLogW * m]) % WotsW
      BY <2>1 DEF BaseW, per
    <2> QED BY <2>2, <2>3, <2>4
  <1>5. CASE WotsLogW = 2
    <2>1. \A m \in 1..4 : (a[k] \div Pow2[8 - 2 * m]) % 4 = (b[k] \div Pow2[8 - 2 * m]) % 4
      BY <1>4, <1>5, WidthFacts
    <2>2. /\ (a[k] \div Pow2[8 - 2 * 1]) % 4 = (b[k] \div Pow2[8 - 2 * 1]) % 4
          /\ (a[k] \div Pow2[8 - 2 * 2]) % 4 = (b[k] \div Pow2[8 - 2 * 2]) % 4
          /\ (a[k] \div Pow2[8 - 2 * 3]) % 4 = (b[k] \div Pow2[8 - 2 * 3]) % 4
          /\ (a[k] \div Pow2[8 - 2 * 4]) % 4 = (b[k] \div Pow2[8 - 2 * 4]) % 4
      BY <2>1
    <2>3. 8 - 2 * 1 = 6 /\ 8 - 2 * 2 = 4 /\ 8 - 2 * 3 = 2 /\ 8 - 2 * 4 = 0
      OBVIOUS
    <2>4. /\ (a[k] \div 64) % 4 = (b[k] \div 64) % 4
          /\ (a[k] \div 16) % 4 = (b[k] \div 16) % 4
          /\ (a[k] \div 4) % 4 = (b[k] \div 4) % 4
          /\ (a[k] \div 1) % 4 = (b[k] \div 1) % 4
      <3>1. Pow2[6] = 64 /\ Pow2[4] = 16 /\ Pow2[2] = 4 /\ Pow2[0] = 1
        BY PowerFacts
      <3>2. /\ Pow2[8 - 2 * 1] = 64 /\ Pow2[8 - 2 * 2] = 16
            /\ Pow2[8 - 2 * 3] = 4 /\ Pow2[8 - 2 * 4] = 1
        BY <2>3, <3>1, Zenon
      <3> QED BY <2>2, <3>2, Zenon
    <2>5. /\ a[k] = 64 * ((a[k] \div 64) % 4) + 16 * ((a[k] \div 16) % 4)
                      + 4 * ((a[k] \div 4) % 4) + ((a[k] \div 1) % 4)
          /\ b[k] = 64 * ((b[k] \div 64) % 4) + 16 * ((b[k] \div 16) % 4)
                      + 4 * ((b[k] \div 4) % 4) + ((b[k] \div 1) % 4)
      BY <1>3, ByteInBase4, Zenon
    <2> QED BY <1>2, <2>4, <2>5, Zenon
  <1>6. CASE WotsLogW = 4
    <2>1. \A m \in 1..2 : (a[k] \div Pow2[8 - 4 * m]) % 16 = (b[k] \div Pow2[8 - 4 * m]) % 16
      BY <1>4, <1>6, WidthFacts
    <2>2. /\ (a[k] \div Pow2[8 - 4 * 1]) % 16 = (b[k] \div Pow2[8 - 4 * 1]) % 16
          /\ (a[k] \div Pow2[8 - 4 * 2]) % 16 = (b[k] \div Pow2[8 - 4 * 2]) % 16
      BY <2>1
    <2>3. 8 - 4 * 1 = 4 /\ 8 - 4 * 2 = 0
      OBVIOUS
    <2>4. (a[k] \div 16) % 16 = (b[k] \div 16) % 16 /\ (a[k] \div 1) % 16 = (b[k] \div 1) % 16
      BY <2>2, <2>3, PowerFacts
    <2> QED BY <1>2, <1>3, <2>4
  <1>7. CASE WotsLogW = 8
    <2>1. (a[k] \div Pow2[8 - 8 * 1]) % 256 = (b[k] \div Pow2[8 - 8 * 1]) % 256
      BY <1>4, <1>7, WidthFacts
    <2>2. 8 - 8 * 1 = 0
      OBVIOUS
    <2>3. (a[k] \div 1) % 256 = (b[k] \div 1) % 256
      BY <2>1, <2>2, PowerFacts
    <2>4. (a[k] \div 1) % 256 = a[k] /\ (b[k] \div 1) % 256 = b[k]
      BY <1>3
    <2> QED BY <1>2, <2>3, <2>4
  <1> QED BY <1>5, <1>6, <1>7, WidthFacts

(* The j-th digit of the checksum is the j-th of the sum, in base w, from  *)
(* the top: moving the sum up makes up for where base_w begins.            *)
LEMMA ChecksumDigit ==
    ASSUME ChecksumFits, NEW x \in Nat, NEW j \in 1..WotsLen2
    PROVE  BaseW(UllToBytes(x * Pow2[CsumShift], CsumBytes), WotsLen2)[j]
              = (x \div Pow2[WotsLogW * (WotsLen2 - j)]) % WotsW
  <1> DEFINE per   == 8 \div WotsLogW
             place == (j - 1) \div per + 1
             below == 8 * (CsumBytes - place)
             bits  == 8 - WotsLogW * (((j - 1) % per) + 1)
             e     == WotsLogW * (WotsLen2 - j)
             y     == x * Pow2[CsumShift]
             bytes == UllToBytes(y, CsumBytes)
  <1>1. CsumShift \in 0..MaxShift
    BY WotsAssumption DEF CsumShift, MaxShift
  <1>2. /\ place \in 1..CsumBytes
        /\ bits \in 0..8 /\ bits + WotsLogW <= 8
        /\ below + bits = CsumShift + e
        /\ below \in 0..MaxShift /\ bits \in 0..MaxShift /\ e \in 0..MaxShift
        /\ below + bits <= MaxShift
    <2>1. CASE WotsLogW = 2
      BY <2>1, WidthFacts DEF CsumBytes, CsumShift, CeilDiv, MaxShift, ChecksumFits
    <2>2. CASE WotsLogW = 4
      BY <2>2, WidthFacts DEF CsumBytes, CsumShift, CeilDiv, MaxShift, ChecksumFits
    <2>3. CASE WotsLogW = 8
      BY <2>3, WidthFacts DEF ChecksumFits
    <2> QED BY <2>1, <2>2, <2>3, WidthFacts
  <1>3. y \in Nat
    BY <1>1, PowerFacts
  <1>4. bytes[place] = (y \div Pow2[below]) % 256
    <2> HIDE DEF place, y
    <2> QED BY <1>2 DEF UllToBytes
  <1>5. BaseW(bytes, WotsLen2)[j] = (bytes[place] \div Pow2[bits]) % WotsW
    <2> HIDE DEF bytes
    <2> QED BY DEF BaseW
  <1> HIDE DEF bytes, place, below, bits, e, y
  <1>6. BaseW(bytes, WotsLen2)[j] = ((y \div Pow2[below]) \div Pow2[bits]) % WotsW
    <2>1. Pow2[below] \in Nat \ {0}
      BY <1>2, PowerFacts
    <2>2. y \div Pow2[below] \in Nat
      BY <1>3, <2>1, DivMod, Zenon
    <2> QED BY <1>2, <1>4, <1>5, <2>2, DigitOfByte
  <1>7. (y \div Pow2[below]) \div Pow2[bits] = y \div Pow2[below + bits]
    BY <1>2, <1>3, ShiftTwice
  <1>8. y \div Pow2[CsumShift + e] = (y \div Pow2[CsumShift]) \div Pow2[e]
    BY <1>1, <1>2, <1>3, ShiftTwice
  <1>9. y \div Pow2[CsumShift] = x
    BY <1>1, ShiftBack DEF y
  <1>10. BaseW(bytes, WotsLen2)[j] = (x \div Pow2[e]) % WotsW
    BY <1>2, <1>6, <1>7, <1>8, <1>9
  <1> QED BY <1>10 DEF bytes, y, e

---------------------------------------------------------------------------
(* The checksum *)

(* A number without its last digits, as far as the j-th, has one digit     *)
(* more than as far as the one before.                                     *)
LEMMA OneMoreDigit ==
    ASSUME NEW x \in Nat, NEW j \in 1..WotsLen2
    PROVE  LET top(k) == x \div Pow2[WotsLogW * (WotsLen2 - k)]
           IN /\ top(j - 1) \in Nat /\ top(j) \in Nat /\ top(j) % WotsW \in 0..WotsW-1
              /\ top(j) = top(j - 1) * WotsW + (top(j) % WotsW)
  <1> DEFINE e == WotsLogW * (WotsLen2 - j)
             t == x \div Pow2[e]
  <1>1. /\ e \in 0..MaxShift /\ WotsLogW \in 0..MaxShift /\ e + WotsLogW <= MaxShift
        /\ WotsLogW * (WotsLen2 - (j - 1)) = e + WotsLogW /\ e + WotsLogW \in 0..MaxShift
    BY WidthFacts DEF MaxShift
  <1>2. x \div Pow2[WotsLogW * (WotsLen2 - (j - 1))] = t \div WotsW
    <2> HIDE DEF e
    <2> QED BY <1>1, ShiftTwice DEF WotsW
  <1>3. t \in Nat /\ WotsW \in Nat \ {0}
    <2>1. Pow2[e] \in Nat \ {0}
      <3> HIDE DEF e
      <3> QED BY <1>1, PowerFacts
    <2>2. t \in Nat
      <3> HIDE DEF e
      <3> QED BY <2>1, DivMod
    <2>3. WotsW \in Nat \ {0}
      BY WidthFacts
    <2> QED BY <2>2, <2>3
  <1> HIDE DEF t
  <1>4. /\ t \div WotsW \in Nat /\ t % WotsW \in 0..WotsW-1
        /\ t = WotsW * (t \div WotsW) + (t % WotsW)
    BY <1>3, DivMod
  <1>5. WotsW * (t \div WotsW) = (t \div WotsW) * WotsW
    BY <1>3, <1>4
  <1> QED BY <1>2, <1>3, <1>4, <1>5 DEF t

(* All digits of a number that has no more of them are none and all of it. *)
LEMMA FirstAndLastDigits ==
    ASSUME NEW x \in Nat, x < Pow2[WotsLogW * WotsLen2]
    PROVE  /\ x \div Pow2[WotsLogW * (WotsLen2 - 0)] = 0
           /\ x \div Pow2[WotsLogW * (WotsLen2 - WotsLen2)] = x
  <1> DEFINE p == Pow2[WotsLogW * WotsLen2]
  <1>1. p \in Nat \ {0} /\ WotsLen2 - 0 = WotsLen2 /\ WotsLogW * (WotsLen2 - WotsLen2) = 0
    BY WidthFacts, PowerFacts
  <1>2. p * 0 + x = x /\ x \in 0..p-1
    BY <1>1
  <1>3. x \div p = 0
    BY <1>1, <1>2, DivUnique
  <1> QED BY <1>1, <1>3, PowerFacts

(* With no digit greater, a number is no greater. *)
LEMMA DigitsOrder ==
    ASSUME NEW x \in Nat, x < Pow2[WotsLogW * WotsLen2],
           NEW y \in Nat, y < Pow2[WotsLogW * WotsLen2],
           \A j \in 1..WotsLen2 :
              (x \div Pow2[WotsLogW * (WotsLen2 - j)]) % WotsW
                 <= (y \div Pow2[WotsLogW * (WotsLen2 - j)]) % WotsW
    PROVE  x <= y
  <1> DEFINE X(j) == x \div Pow2[WotsLogW * (WotsLen2 - j)]
             Y(j) == y \div Pow2[WotsLogW * (WotsLen2 - j)]
             T == {j \in 0..WotsLen2 : ~ X(j) <= Y(j)}
  <1>1. X(0) = 0 /\ Y(0) = 0 /\ X(WotsLen2) = x /\ Y(WotsLen2) = y
    BY FirstAndLastDigits
  <1>2. ASSUME T # {} PROVE FALSE
    <2>1. T \subseteq Nat
      OBVIOUS
    <2> HIDE DEF T
    <2>2. PICK k \in T : \A j \in T : k <= j
      BY <1>2, <2>1, LeastElement
    <2>3. k \in 0..WotsLen2 /\ ~ X(k) <= Y(k)
      BY <2>2 DEF T
    <2>4. k \in 1..WotsLen2 /\ k - 1 \in 0..WotsLen2 /\ ~(k <= k - 1)
      <3>1. k # 0
        <4>1. 0 <= 0
          OBVIOUS
        <4> HIDE DEF X, Y
        <4> QED BY <1>1, <2>3, <4>1, Zenon
      <3>2. k \in 0..WotsLen2
        BY <2>3
      <3> HIDE DEF X, Y
      <3> QED BY <3>1, <3>2, WidthFacts
    <2>5. X(k - 1) <= Y(k - 1)
      BY <2>2, <2>4 DEF T
    <2>6. X(k) % WotsW <= Y(k) % WotsW
      BY <2>4
    <2>7. /\ X(k - 1) \in Nat /\ X(k) \in Nat /\ X(k) % WotsW \in 0..WotsW-1
          /\ X(k) = X(k - 1) * WotsW + (X(k) % WotsW)
      BY <2>4, OneMoreDigit
    <2>8. /\ Y(k - 1) \in Nat /\ Y(k) \in Nat /\ Y(k) % WotsW \in 0..WotsW-1
          /\ Y(k) = Y(k - 1) * WotsW + (Y(k) % WotsW)
      BY <2>4, OneMoreDigit
    <2> HIDE DEF X, Y
    <2>9. X(k - 1) * WotsW <= Y(k - 1) * WotsW
      BY <2>5, <2>7, <2>8, WidthFacts
    <2>10. X(k - 1) * WotsW \in Nat /\ Y(k - 1) * WotsW \in Nat
      BY <2>7, <2>8, WidthFacts
    <2> QED BY <2>3, <2>6, <2>7, <2>8, <2>9, <2>10, WidthFacts
  <1>3. WotsLen2 \in 0..WotsLen2
    BY WidthFacts
  <1>4. X(WotsLen2) <= Y(WotsLen2)
    <2> HIDE DEF X, Y
    <2> QED BY <1>2, <1>3
  <1> QED BY <1>1, <1>4

(* The digits the checksum is given room for are enough. *)
LEMMA StepsLeftFits ==
    ASSUME ChecksumFits, NEW digits, \A i \in 1..WotsLen1 : digits[i] \in 0..WotsW-1
    PROVE  StepsLeft(digits) \in Nat /\ StepsLeft(digits) < Pow2[WotsLogW * WotsLen2]
  <1> DEFINE f == [i \in 1..WotsLen1 |-> WotsW - 1 - digits[i]]
  <1>1. WotsLen1 \in Nat /\ WotsW - 1 \in Nat
    BY WidthFacts
  <1>2. \A i \in 1..WotsLen1 : f[i] \in 0..WotsW-1
    BY <1>1
  <1>3. \A i \in 1..WotsLen1 : f[i] \in Nat
    BY <1>1, <1>2
  <1> HIDE DEF f
  <1>4. SumTo(f, WotsLen1) \in Nat
    BY <1>1, <1>3, SumType, Zenon
  <1>5. SumTo(f, WotsLen1) <= WotsLen1 * (WotsW - 1)
    BY <1>1, <1>2, SumBound, Zenon
  <1>6. WotsLen1 * (WotsW - 1) \in Nat /\ Pow2[WotsLogW * WotsLen2] \in Nat
    BY <1>1, WidthFacts, PowerFacts
  <1> QED BY <1>4, <1>5, <1>6 DEF StepsLeft, f, ChecksumFits

LEMMA ChainLengthsAre ==
    ASSUME ChecksumFits, NEW digest \in Digests
    PROVE  LET lengths == ChainLengths(digest)
               digits  == BaseW(digest, WotsLen1)
           IN /\ \A i \in 1..WotsLen1 : /\ lengths[i] = digits[i]
                                        /\ lengths[i] \in 0..WotsW-1
              /\ \A j \in 1..WotsLen2 :
                    /\ lengths[WotsLen1 + j] =
                          (StepsLeft(digits) \div Pow2[WotsLogW * (WotsLen2 - j)]) % WotsW
                    /\ lengths[WotsLen1 + j] \in 0..WotsW-1
              /\ StepsLeft(digits) \in Nat
              /\ StepsLeft(digits) < Pow2[WotsLogW * WotsLen2]
  <1> DEFINE digits == BaseW(digest, WotsLen1)
             checksum == Checksum(digits)
             left == StepsLeft(digits)
  <1>1. WotsLen1 \in Nat /\ WotsLen2 \in Nat
    BY WidthFacts
  <1>2. \A i \in 1..WotsLen1 : digits[i] \in 0..WotsW-1
    BY MessageDigits
  <1>3. left \in Nat /\ left < Pow2[WotsLogW * WotsLen2]
    <2> HIDE DEF digits
    <2> QED BY <1>2, StepsLeftFits
  <1>4. ASSUME NEW j \in 1..WotsLen2
        PROVE  /\ checksum[j] = (left \div Pow2[WotsLogW * (WotsLen2 - j)]) % WotsW
               /\ checksum[j] \in 0..WotsW-1
    <2> HIDE DEF digits, left
    <2>1. checksum[j] = (left \div Pow2[WotsLogW * (WotsLen2 - j)]) % WotsW
      BY <1>3, ChecksumDigit DEF Checksum, left
    <2>2. (left \div Pow2[WotsLogW * (WotsLen2 - j)]) % WotsW \in 0..WotsW-1
      BY <1>3, OneMoreDigit
    <2> QED BY <2>1, <2>2
  <1>5. digits \in Seq(Int) /\ Len(digits) = WotsLen1
    <2>1. digits = [i \in 1..WotsLen1 |-> digits[i]]
      BY DEF BaseW
    <2> HIDE DEF digits
    <2> QED BY <1>1, <1>2, <2>1
  <1>6. checksum \in Seq(Int) /\ Len(checksum) = WotsLen2
    <2>1. checksum = [j \in 1..WotsLen2 |-> checksum[j]]
      <3> HIDE DEF digits
      <3> QED BY DEF Checksum, BaseW
    <2> HIDE DEF checksum
    <2> QED BY <1>1, <1>4, <2>1
  <1>7. ChainLengths(digest) = digits \o checksum
    BY DEF ChainLengths
  <1> HIDE DEF digits, checksum
  <1>8. \A i \in 1..WotsLen1 : (digits \o checksum)[i] = digits[i]
    BY <1>1, <1>5, <1>6
  <1>9. \A j \in 1..WotsLen2 : (digits \o checksum)[WotsLen1 + j] = checksum[j]
    BY <1>1, <1>5, <1>6
  <1> HIDE DEF left
  <1> QED BY <1>2, <1>3, <1>4, <1>7, <1>8, <1>9 DEF digits, left

(* Some chain of every other digest is shorter. *)
LEMMA SomeChainShorter ==
    ASSUME ChecksumFits, NEW a \in Digests, NEW b \in Digests, a # b
    PROVE  \E i \in Chains : ChainLengths(b)[i] < ChainLengths(a)[i]
  <1> DEFINE A == BaseW(a, WotsLen1)
             B == BaseW(b, WotsLen1)
             f == [i \in 1..WotsLen1 |-> WotsW - 1 - A[i]]
             g == [i \in 1..WotsLen1 |-> WotsW - 1 - B[i]]
  <1> SUFFICES ASSUME \A i \in Chains : ~ ChainLengths(b)[i] < ChainLengths(a)[i]
               PROVE  FALSE
    OBVIOUS
  <1>1. WotsLen1 \in Nat /\ WotsLen2 \in Nat /\ WotsW \in Nat
    BY WidthFacts
  <1>2. /\ \A i \in 1..WotsLen1 : i \in Chains
        /\ \A j \in 1..WotsLen2 : WotsLen1 + j \in Chains
    BY WidthFacts DEF Chains
  <1>3. \A i \in 1..WotsLen1 : A[i] \in 0..WotsW-1 /\ B[i] \in 0..WotsW-1
    BY MessageDigits
  <1>4. \A i \in 1..WotsLen1 : A[i] <= B[i]
    <2> TAKE i \in 1..WotsLen1
    <2>1. ChainLengths(a)[i] = A[i] /\ ChainLengths(b)[i] = B[i]
      BY ChainLengthsAre
    <2>2. ~ ChainLengths(b)[i] < ChainLengths(a)[i]
      BY <1>2
    <2> HIDE DEF A, B
    <2> QED BY <1>1, <1>3, <2>1, <2>2
  <1>5. PICK k \in 1..WotsLen1 : A[k] # B[k]
    BY DigitsTellApart
  <1> HIDE DEF A, B
  <1>6. StepsLeft(B) < StepsLeft(A)
    <2>1. \A i \in 1..WotsLen1 : g[i] \in Nat /\ f[i] \in Nat /\ g[i] <= f[i]
      BY <1>1, <1>3, <1>4
    <2>2. g[k] < f[k]
      BY <1>1, <1>3, <1>4, <1>5
    <2> HIDE DEF f, g
    <2>3. SumTo(g, WotsLen1) < SumTo(f, WotsLen1)
      BY <1>1, <2>1, <2>2, SumStrictlyMonotonic, Zenon
    <2> QED BY <2>3 DEF StepsLeft, f, g
  <1>7. /\ StepsLeft(A) \in Nat /\ StepsLeft(A) < Pow2[WotsLogW * WotsLen2]
        /\ StepsLeft(B) \in Nat /\ StepsLeft(B) < Pow2[WotsLogW * WotsLen2]
    BY <1>3, StepsLeftFits
  <1>8. \A j \in 1..WotsLen2 :
           (StepsLeft(A) \div Pow2[WotsLogW * (WotsLen2 - j)]) % WotsW
              <= (StepsLeft(B) \div Pow2[WotsLogW * (WotsLen2 - j)]) % WotsW
    <2> TAKE j \in 1..WotsLen2
    <2> DEFINE p == ChainLengths(a)[WotsLen1 + j]
               q == ChainLengths(b)[WotsLen1 + j]
    <2>1. /\ p = (StepsLeft(A) \div Pow2[WotsLogW * (WotsLen2 - j)]) % WotsW
          /\ p \in 0..WotsW-1
      BY ChainLengthsAre DEF A
    <2>2. /\ q = (StepsLeft(B) \div Pow2[WotsLogW * (WotsLen2 - j)]) % WotsW
          /\ q \in 0..WotsW-1
      BY ChainLengthsAre DEF B
    <2>3. ~ q < p
      BY <1>2
    <2> HIDE DEF p, q
    <2> QED BY <1>1, <2>1, <2>2, <2>3
  <1>9. StepsLeft(A) <= StepsLeft(B)
    BY <1>7, <1>8, DigitsOrder
  <1> QED BY <1>6, <1>7, <1>9

(* Reading the digits of the checksum gives back the number written. *)
LEMMA DigitsRead ==
    ASSUME NEW x \in Nat, x < Pow2[WotsLogW * WotsLen2], NEW digits,
           \A j \in 1..WotsLen2 :
              digits[WotsLen1 + j] = (x \div Pow2[WotsLogW * (WotsLen2 - j)]) % WotsW
    PROVE  LET value[j \in 0..WotsLen2] ==
                   IF j = 0 THEN 0 ELSE value[j-1] * WotsW + digits[WotsLen1 + j]
           IN value[WotsLen2] = x
  <1> DEFINE X(j) == x \div Pow2[WotsLogW * (WotsLen2 - j)]
             Reads(g) == g = [j \in 0..WotsLen2 |->
                                IF j = 0 THEN 0 ELSE g[j-1] * WotsW + digits[WotsLen1 + j]]
             tops == [j \in 0..WotsLen2 |-> X(j)]
             value == CHOOSE g : Reads(g)
             T == {j \in 0..WotsLen2 : value[j] # X(j)}
  <1>1. X(0) = 0 /\ X(WotsLen2) = x
    BY FirstAndLastDigits
  <1>2. ASSUME NEW j \in 1..WotsLen2
        PROVE  X(j) = X(j - 1) * WotsW + digits[WotsLen1 + j]
    <2>1. X(j) = X(j - 1) * WotsW + (X(j) % WotsW)
      BY OneMoreDigit
    <2>2. digits[WotsLen1 + j] = X(j) % WotsW
      OBVIOUS
    <2> QED BY <2>1, <2>2
  <1> HIDE DEF X
  <1>3. Reads(tops)
    <2>1. ASSUME NEW j \in 0..WotsLen2
          PROVE  tops[j] = IF j = 0 THEN 0 ELSE tops[j-1] * WotsW + digits[WotsLen1 + j]
      <3>1. CASE j = 0
        BY <1>1, <3>1
      <3>2. CASE j # 0
        <4>1. j \in 1..WotsLen2 /\ j - 1 \in 0..WotsLen2
          BY <3>2, WidthFacts
        <4> QED BY <1>2, <3>2, <4>1
      <3> QED BY <3>1, <3>2
    <2> QED BY <2>1
  <1>4. Reads(value)
    <2> HIDE DEF Reads, tops
    <2> QED BY <1>3
  <1> HIDE DEF value
  <1>5. value[0] = 0 /\ \A j \in 1..WotsLen2 : value[j] = value[j-1] * WotsW + digits[WotsLen1 + j]
    <2>1. \A j \in 0..WotsLen2 :
             value[j] = IF j = 0 THEN 0 ELSE value[j-1] * WotsW + digits[WotsLen1 + j]
      BY <1>4
    <2> QED BY <2>1, WidthFacts
  <1>6. ASSUME T # {} PROVE FALSE
    <2>1. T \subseteq Nat
      OBVIOUS
    <2> HIDE DEF T
    <2>2. PICK k \in T : \A j \in T : k <= j
      BY <1>6, <2>1, LeastElement
    <2>3. k \in 0..WotsLen2 /\ value[k] # X(k)
      BY <2>2 DEF T
    <2>4. k \in 1..WotsLen2 /\ k - 1 \in 0..WotsLen2 /\ ~(k <= k - 1)
      BY <1>1, <1>5, <2>3, WidthFacts
    <2>5. value[k - 1] = X(k - 1)
      BY <2>2, <2>4 DEF T
    <2> QED BY <1>2, <1>5, <2>3, <2>4, <2>5
  <1>7. WotsLen2 \in 0..WotsLen2
    BY WidthFacts
  <1>8. value[WotsLen2] = X(WotsLen2)
    BY <1>6, <1>7
  <1> QED BY <1>1, <1>8 DEF value

---------------------------------------------------------------------------
(* The call of the signer, and of the verifier *)

(* What the two calls have computed. *)
OneTimeInv ==
    /\ signed \in Digests /\ claimed \in Digests
    /\ call \in {"sign", "recover", "done", "failed"}
    /\ call \in {"recover", "done"} =>
          sig = [i \in Chains |-> At(i, ChainLengths(signed)[i])]
    /\ call = "done" =>
          LET lengths == ChainLengths(claimed)
          IN pk = [i \in Chains |->
                     GenChain(i, sig[i], lengths[i], WotsW - 1 - lengths[i])]

LEMMA LengthsAreSteps ==
    ASSUME ChecksumFits, NEW digest \in Digests, NEW i \in Chains
    PROVE  ChainLengths(digest)[i] \in 0..WotsW-1
  <1>1. CASE i <= WotsLen1
    <2>1. i \in 1..WotsLen1
      BY <1>1, WidthFacts DEF Chains
    <2> QED BY <2>1, ChainLengthsAre
  <1>2. CASE ~ i <= WotsLen1
    <2> DEFINE j == i - WotsLen1
    <2>1. j \in 1..WotsLen2 /\ WotsLen1 + j = i
      BY <1>2, WidthFacts DEF Chains
    <2> HIDE DEF j
    <2>2. ChainLengths(digest)[WotsLen1 + j] \in 0..WotsW-1
      BY <2>1, ChainLengthsAre
    <2> QED BY <2>1, <2>2
  <1> QED BY <1>1, <1>2

(* A signer reaches the value its digit says. *)
LEMMA Signs ==
    ASSUME NEW i, NEW k \in 0..WotsW-1
    PROVE  GenChain(i, At(i, 0), 0, k) = At(i, k)
  <1>1. k \in Nat /\ 0 + k = k /\ k < WotsW
    BY WidthFacts
  <1>2. CASE k = 0
    BY <1>1, <1>2 DEF GenChain
  <1>3. CASE k # 0
    BY <1>1, <1>3 DEF GenChain
  <1> QED BY <1>2, <1>3

(* A verifier reaches the end of a chain if its digit is where the value   *)
(* it got is, and from no other value but the last.                        *)
LEMMA Verifies ==
    ASSUME NEW i \in Chains, NEW a \in 0..WotsW-1, NEW b \in 0..WotsW-1
    PROVE  /\ a = b => GenChain(i, At(i, a), b, WotsW - 1 - b) = At(i, WotsW - 1)
           /\ b < a => GenChain(i, At(i, a), b, WotsW - 1 - b) # At(i, WotsW - 1)
  <1>1. /\ a \in Nat /\ b \in Nat /\ WotsW - 1 \in Nat /\ b <= WotsW - 1 /\ a <= WotsW - 1
        /\ b + (WotsW - 1 - b) = WotsW - 1 /\ WotsW - 1 < WotsW
        /\ WotsW - 1 <= b <=> b = WotsW - 1
    BY WidthFacts
  <1>2. i # 0
    BY WidthFacts DEF Chains
  <1>3. CASE b = WotsW - 1
    BY <1>1, <1>3 DEF GenChain
  <1>4. CASE b # WotsW - 1 /\ a = b
    BY <1>1, <1>4 DEF GenChain
  <1>5. CASE b # WotsW - 1 /\ a # b
    <2>1. At(i, a) # At(i, b)
      BY <1>5 DEF At
    <2>2. GenChain(i, At(i, a), b, WotsW - 1 - b) = NoValue
      BY <1>1, <1>5, <2>1 DEF GenChain
    <2>3. NoValue # At(i, WotsW - 1)
      BY <1>2 DEF NoValue, At
    <2> QED BY <1>5, <2>2, <2>3
  <1> QED BY <1>3, <1>4, <1>5

LEMMA OneTimeInvInductive ==
    ASSUME ChecksumFits
    PROVE  Spec => []OneTimeInv
  <1>1. Init => OneTimeInv
    BY DEF Init, OneTimeInv
  <1>2. OneTimeInv /\ [Next]_vars => OneTimeInv'
    <2> SUFFICES ASSUME OneTimeInv, [Next]_vars PROVE OneTimeInv'
      OBVIOUS
    <2>1. CASE Sign
      <3>1. /\ signed' = signed /\ claimed' = claimed /\ call' = "recover"
            /\ sig' = [i \in Chains |-> GenChain(i, At(i, 0), 0, ChainLengths(signed)[i])]
        BY <2>1 DEF Sign
      <3>2. \A i \in Chains :
               GenChain(i, At(i, 0), 0, ChainLengths(signed)[i]) = At(i, ChainLengths(signed)[i])
        BY LengthsAreSteps, Signs DEF OneTimeInv
      <3>3. sig' = [i \in Chains |-> At(i, ChainLengths(signed)[i])]
        BY <3>1, <3>2
      <3> QED BY <3>1, <3>3 DEF OneTimeInv
    <2>2. CASE Recover
      BY <2>2 DEF Recover, OneTimeInv
    <2>3. CASE HashFails
      BY <2>3 DEF HashFails, OneTimeInv
    <2>4. CASE UNCHANGED vars
      BY <2>4 DEF vars, OneTimeInv
    <2> QED BY <2>1, <2>2, <2>3, <2>4 DEF Next
  <1> QED BY <1>1, <1>2, PTL DEF Spec

(* wots_checksum does what it is there for: some chain of every other      *)
(* digest is shorter, so that nobody goes on from a signature to another.  *)
THEOREM ChecksumProtects == ChecksumFits => (Spec => []NoDigestAhead)
  <1> SUFFICES ASSUME ChecksumFits PROVE Spec => []NoDigestAhead
    OBVIOUS
  <1>1. OneTimeInv => NoDigestAhead
    BY SomeChainShorter DEF OneTimeInv, NoDigestAhead
  <1> QED BY <1>1, OneTimeInvInductive, PTL

(* wots_pk_from_sig computes the public key from what wots_sign gave, for  *)
(* exactly the digest signed.                                              *)
THEOREM WotsRecovers == ChecksumFits => (Spec => []RecoversOnlySigned)
  <1> SUFFICES ASSUME ChecksumFits PROVE Spec => []RecoversOnlySigned
    OBVIOUS
  <1>1. OneTimeInv => RecoversOnlySigned
    <2> SUFFICES ASSUME OneTimeInv, call = "done"
                 PROVE  pk = PublicKey <=> signed = claimed
      BY DEF RecoversOnlySigned
    <2> DEFINE a == ChainLengths(signed)
               b == ChainLengths(claimed)
    <2>1. \A i \in Chains : a[i] \in 0..WotsW-1 /\ b[i] \in 0..WotsW-1
      BY LengthsAreSteps DEF OneTimeInv
    <2>2. pk = [i \in Chains |-> GenChain(i, At(i, a[i]), b[i], WotsW - 1 - b[i])]
      BY DEF OneTimeInv
    <2>3. PublicKey = [i \in Chains |-> At(i, WotsW - 1)]
      <3>1. WotsW - 1 \in 0..WotsW-1
        BY WidthFacts
      <3>2. \A i \in Chains : GenChain(i, At(i, 0), 0, WotsW - 1) = At(i, WotsW - 1)
        BY <3>1, Signs
      <3> QED BY <3>2 DEF PublicKey
    <2>4. CASE signed = claimed
      <3>1. \A i \in Chains :
               GenChain(i, At(i, a[i]), b[i], WotsW - 1 - b[i]) = At(i, WotsW - 1)
        BY <2>1, <2>4, Verifies
      <3> QED BY <2>2, <2>3, <2>4, <3>1
    <2>5. CASE signed # claimed
      <3>1. PICK i \in Chains : b[i] < a[i]
        BY <2>5, SomeChainShorter DEF OneTimeInv
      <3>2. pk[i] # PublicKey[i]
        <4>1. pk[i] = GenChain(i, At(i, a[i]), b[i], WotsW - 1 - b[i])
          BY <2>2
        <4>2. PublicKey[i] = At(i, WotsW - 1)
          BY <2>3
        <4> HIDE DEF a, b
        <4> QED BY <2>1, <3>1, <4>1, <4>2, Verifies
      <3> QED BY <2>5, <3>2
    <2> QED BY <2>4, <2>5
  <1> QED BY <1>1, OneTimeInvInductive, PTL

(* wots_sign gives a value of each chain, where its digit says and never   *)
(* past its end, and the digits of the checksum, read again, are the steps *)
(* left in the chains of the message.                                      *)
THEOREM WotsSigns == ChecksumFits => (Spec => []SignatureOnChains)
  <1> SUFFICES ASSUME ChecksumFits PROVE Spec => []SignatureOnChains
    OBVIOUS
  <1>1. OneTimeInv => SignatureOnChains
    <2> SUFFICES ASSUME OneTimeInv, call \in {"recover", "done"} PROVE SignatureOnChains
      BY DEF SignatureOnChains
    <2> DEFINE lengths == ChainLengths(signed)
               message == BaseW(signed, WotsLen1)
               digits == [i \in Chains |-> sig[i].at]
               left == StepsLeft(message)
    <2>1. sig = [i \in Chains |-> At(i, lengths[i])] /\ signed \in Digests
      BY DEF OneTimeInv
    <2>2. \A i \in Chains : sig[i].chain = i /\ sig[i].at = lengths[i] /\ digits[i] = lengths[i]
      BY <2>1 DEF At
    <2>3. \A i \in Chains : sig[i].chain = i /\ sig[i].at < WotsW
      BY <2>1, <2>2, LengthsAreSteps, WidthFacts
    <2>4. /\ \A i \in 1..WotsLen1 : i \in Chains
          /\ \A j \in 1..WotsLen2 : WotsLen1 + j \in Chains
      BY WidthFacts DEF Chains
    <2>5. /\ \A i \in 1..WotsLen1 : lengths[i] = message[i]
          /\ \A j \in 1..WotsLen2 :
                lengths[WotsLen1 + j] = (left \div Pow2[WotsLogW * (WotsLen2 - j)]) % WotsW
          /\ left \in Nat /\ left < Pow2[WotsLogW * WotsLen2]
      BY <2>1, ChainLengthsAre
    <2> HIDE DEF lengths, message, digits
    <2>6. StepsLeft(digits) = left
      <3>1. \A i \in 1..WotsLen1 : digits[i] = message[i]
        BY <2>2, <2>4, <2>5
      <3>2. [i \in 1..WotsLen1 |-> WotsW - 1 - digits[i]]
               = [i \in 1..WotsLen1 |-> WotsW - 1 - message[i]]
        BY <3>1
      <3> QED BY <3>2 DEF StepsLeft
    <2>7. \A j \in 1..WotsLen2 :
             digits[WotsLen1 + j] = (left \div Pow2[WotsLogW * (WotsLen2 - j)]) % WotsW
      BY <2>2, <2>4, <2>5
    <2> HIDE DEF left
    <2>8. LET value[j \in 0..WotsLen2] ==
                  IF j = 0 THEN 0 ELSE value[j-1] * WotsW + digits[WotsLen1 + j]
          IN value[WotsLen2] = left
      BY <2>5, <2>7, DigitsRead, Zenon
    <2> QED BY <2>3, <2>6, <2>8 DEF SignatureOnChains, digits
  <1> QED BY <1>1, OneTimeInvInductive, PTL
=============================================================================
