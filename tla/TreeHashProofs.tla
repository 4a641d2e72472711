--------------------------- MODULE TreeHashProofs --------------------------
(***************************************************************************)
(* Proofs about TreeHash, for a tree of any height.                        *)
(*                                                                         *)
(* The stack is described by the leaves its nodes span: each node begins   *)
(* where the one below it ends, and the heights strictly decrease up to    *)
(* the two topmost nodes.  That two nodes of equal height are siblings,    *)
(* that the stack fits in its buffer and that one node is left at the end  *)
(* all follow from this and from the subtree being aligned.                *)
(***************************************************************************)
EXTENDS TreeHash, HypertreeTheorems, SequenceTheorems

P(h) == Pow2[h]

LEMMA PType == \A h \in 0..TreeHeight : P(h) \in Nat \ {0}
  BY PowerFacts, DimensionFacts DEF P

LEMMA Cancel ==
    ASSUME NEW a \in Nat, NEW b \in Nat, NEW p \in Nat \ {0}, a * p = b * p
    PROVE  a = b
  <1>1. (p * a + 0) \div p = a /\ (p * b + 0) \div p = b
    BY DivUnique
  <1> QED BY <1>1

LEMMA Doubling ==
    ASSUME NEW h \in 0..TreeHeight-1
    PROVE  P(h + 1) = 2 * P(h)
  <1>1. h \in 0..FullHeight /\ 1 \in 0..FullHeight /\ h + 1 <= FullHeight
    BY DimensionFacts, DimensionAssumption
  <1>2. Pow2[h + 1] = Pow2[h] * Pow2[1]
    BY <1>1, Pow2Assumption
  <1>3. Pow2[h] \in Nat
    BY <1>1, PowerFacts
  <1> QED BY <1>2, <1>3, Pow2Assumption DEF P

(* A taller subtree is an even number of lower ones. *)
LEMMA Multiple ==
    ASSUME NEW h \in 0..TreeHeight, NEW g \in 0..TreeHeight, h < g
    PROVE  \E m \in Nat \ {0} : P(g) = 2 * m * P(h)
  <1> DEFINE e == g - h - 1
  <1>1. e \in 0..FullHeight /\ e + 1 \in 0..FullHeight /\ h \in 0..FullHeight
        /\ 1 \in 0..FullHeight /\ e + 1 <= FullHeight
        /\ h + (e + 1) = g /\ h + (e + 1) <= FullHeight
    BY DimensionFacts, DimensionAssumption
  <1>2. Pow2[h + (e + 1)] = Pow2[h] * Pow2[e + 1] /\ Pow2[e + 1] = Pow2[e] * Pow2[1]
    BY <1>1, Pow2Assumption
  <1>3. Pow2[e] \in Nat \ {0} /\ Pow2[h] \in Nat \ {0}
    BY <1>1, PowerFacts
  <1> HIDE DEF e
  <1>4. Pow2[g] = Pow2[h] * (Pow2[e] * 2)
    BY <1>1, <1>2, Pow2Assumption
  <1>5. P(g) = 2 * Pow2[e] * P(h)
    BY <1>3, <1>4 DEF P
  <1> QED BY <1>3, <1>5

(* A node that ends where a taller one ends is a right child, and one that *)
(* begins where a taller one ends or begins is a left child.               *)
LEMMA EvenSpan ==
    ASSUME NEW h \in 0..TreeHeight, NEW g \in 0..TreeHeight, h < g,
           NEW i \in Nat, NEW j \in Nat, i * P(h) = j * P(g)
    PROVE  i % 2 = 0
  <1>1. PICK m \in Nat \ {0} : P(g) = 2 * m * P(h)
    BY Multiple
  <1>2. i * P(h) = (2 * (j * m)) * P(h)
    BY <1>1, PType
  <1>3. i = 2 * (j * m)
    BY <1>2, Cancel, PType
  <1>4. j * m \in Nat
    OBVIOUS
  <1> QED BY <1>3, <1>4

LEMMA Taller ==
    ASSUME NEW h \in 0..TreeHeight, NEW g \in 0..TreeHeight, h < g
    PROVE  P(h) < P(g)
  <1>1. PICK m \in Nat \ {0} : P(g) = 2 * m * P(h)
    BY Multiple
  <1>2. P(h) \in Nat \ {0}
    BY PType
  <1>3. m * P(h) >= P(h)
    BY <1>2
  <1> QED BY <1>1, <1>2, <1>3

---------------------------------------------------------------------------
(* The stack *)

Entry == {[height |-> h, node |-> TreeNode(h, i)] : h \in 0..TreeHeight, i \in Nat}

Begins(e) == e.node.index * P(e.height)
Ends(e)   == (e.node.index + 1) * P(e.height)

Mergeable(st) == Len(st) >= 2 /\ st[Len(st)].height = st[Len(st) - 1].height

(* st holds the maximal nodes over the leaves from "from" to n, on the way *)
(* to one of height top                                                    *)
Piled(st, from, n, top) ==
    /\ st \in Seq(Entry)
    /\ IF st = <<>> THEN n = from
       ELSE Begins(st[1]) = from /\ Ends(st[Len(st)]) = n
    /\ \A j \in 1..Len(st) : st[j].height <= top
    /\ \A j \in 1..Len(st)-1 :
          /\ Ends(st[j]) = Begins(st[j + 1])
          /\ st[j].height + j <= top
          /\ st[j].height >= st[j + 1].height
          /\ j < Len(st) - 1 => st[j].height > st[j + 1].height

LEMMA EntryFacts ==
    ASSUME NEW e \in Entry
    PROVE  /\ e.height \in 0..TreeHeight
           /\ e.node.index \in Nat
           /\ e.node = TreeNode(e.height, e.node.index)
           /\ Begins(e) \in Nat
           /\ Ends(e) \in Nat
           /\ Ends(e) = Begins(e) + P(e.height)
  <1>1. PICK h \in 0..TreeHeight, i \in Nat :
            e = [height |-> h, node |-> TreeNode(h, i)]
    BY DEF Entry
  <1>2. e.height = h /\ e.node.index = i
    BY <1>1 DEF TreeNode, Node
  <1>3. P(h) \in Nat
    BY PType
  <1>4. i * P(h) \in Nat /\ (i + 1) * P(h) = i * P(h) + P(h)
    BY <1>3
  <1> QED BY <1>1, <1>2, <1>3, <1>4 DEF Begins, Ends

LEMMA EntryMade ==
    ASSUME NEW h \in 0..TreeHeight, NEW i \in Nat
    PROVE  /\ [height |-> h, node |-> TreeNode(h, i)] \in Entry
           /\ Begins([height |-> h, node |-> TreeNode(h, i)]) = i * P(h)
           /\ Ends([height |-> h, node |-> TreeNode(h, i)]) = (i + 1) * P(h)
  BY DEF Entry, Begins, Ends, TreeNode, Node

LEMMA LeafSpan == P(0) = 1
  BY PowerFacts DEF P

LEMMA PiledPush ==
    ASSUME NEW st, NEW from \in Nat, NEW n \in Nat, NEW top \in 0..TreeHeight,
           Piled(st, from, n, top), ~Mergeable(st), n < from + P(top)
    PROVE  Piled(Append(st, [height |-> 0, node |-> TreeNode(0, n)]), from, n + 1, top)
  <1> DEFINE e == [height |-> 0, node |-> TreeNode(0, n)]
             new == Append(st, e)
             L == Len(st)
  <1>1. e \in Entry /\ e.height = 0 /\ Begins(e) = n /\ Ends(e) = n + 1
    BY EntryMade, LeafSpan, DimensionAssumption
  <1>2. st \in Seq(Entry) /\ L \in Nat
    BY DEF Piled
  <1> HIDE DEF e
  <1>3. new \in Seq(Entry) /\ Len(new) = L + 1 /\ new[L + 1] = e
        /\ \A j \in 1..L : new[j] = st[j]
    BY <1>1, <1>2
  <1> HIDE DEF new
  <1>4. \A j \in 1..L : st[j] \in Entry
    BY <1>2
  <1>5. new # <<>> /\ Begins(new[1]) = from /\ Ends(new[Len(new)]) = n + 1
    <2>1. CASE L = 0
      BY <1>1, <1>2, <1>3, <2>1 DEF Piled
    <2>2. CASE L > 0
      BY <1>1, <1>2, <1>3, <2>2 DEF Piled
    <2> QED BY <1>2, <2>1, <2>2
  <1>6. \A j \in 1..Len(new) : new[j].height <= top
    BY <1>1, <1>2, <1>3 DEF Piled
  <1>7. ASSUME NEW j \in 1..Len(new)-1
        PROVE  /\ Ends(new[j]) = Begins(new[j + 1])
               /\ new[j].height + j <= top
               /\ new[j].height >= new[j + 1].height
               /\ j < Len(new) - 1 => new[j].height > new[j + 1].height
    <2>1. CASE j < L
      <3>1. j \in 1..L-1 /\ j + 1 \in 1..L
        BY <1>2, <1>3, <1>7, <2>1
      <3>2. new[j] = st[j] /\ new[j + 1] = st[j + 1]
        BY <1>2, <1>3, <3>1
      <3>3. /\ Ends(st[j]) = Begins(st[j + 1])
            /\ st[j].height + j <= top
            /\ st[j].height >= st[j + 1].height
            /\ j < L - 1 => st[j].height > st[j + 1].height
        BY <3>1 DEF Piled
      <3>4. st[j].height \in Nat /\ st[j + 1].height \in Nat
        BY <1>2, <1>4, <3>1, EntryFacts, SMTT(30)
      <3>5. j = L - 1 => st[j].height # st[j + 1].height
        BY <1>2, <3>1 DEF Mergeable
      <3> QED BY <1>2, <3>1, <3>2, <3>3, <3>4, <3>5
    <2>2. CASE j = L
      <3>1. L >= 1 /\ new[j] = st[L] /\ new[j + 1] = e
        BY <1>2, <1>3, <1>7, <2>2
      <3>2. st[L] \in Entry /\ Ends(st[L]) = n /\ st[L].height \in 0..TreeHeight
            /\ st[L].height <= top
        BY <1>2, <1>4, <3>1, EntryFacts DEF Piled
      <3>3. st[L].height + L <= top
        <4>1. CASE L = 1
          <5>1. Begins(st[L]) = from /\ Ends(st[L]) = from + P(st[L].height)
            <6>1. st # <<>>
              BY <4>1
            <6>2. Begins(st[1]) = from
              BY <6>1 DEF Piled
            <6>3. Ends(st[L]) = Begins(st[L]) + P(st[L].height)
              BY <3>2, EntryFacts
            <6> QED BY <4>1, <6>2, <6>3
          <5>2. P(st[L].height) \in Nat /\ P(top) \in Nat
            BY <3>2, PType
          <5>3. st[L].height # top
            BY <3>2, <5>1, <5>2
          <5> QED BY <3>2, <4>1, <5>3
        <4>2. CASE L > 1
          <5>1. L - 1 \in 1..L-1 /\ (L - 1) + 1 = L
            BY <1>2, <4>2
          <5>2. st[L-1].height + (L - 1) <= top /\ st[L-1].height >= st[L].height
            BY <5>1 DEF Piled
          <5>3. st[L-1].height # st[L].height /\ st[L-1].height \in Nat
            BY <1>2, <1>4, <4>2, <5>1, EntryFacts, SMTT(30) DEF Mergeable
          <5> QED BY <1>2, <3>2, <5>2, <5>3
        <4>3. L = 1 \/ L > 1
          <5>1. \A x \in Nat : x >= 1 => x = 1 \/ x > 1
            OBVIOUS
          <5> QED BY <1>2, <3>1, <5>1, Zenon
        <4> QED BY <4>1, <4>2, <4>3
      <3>4. Ends(new[j]) = Begins(new[j + 1])
        BY <1>1, <3>1, <3>2
      <3>5. new[j].height >= new[j + 1].height
        BY <1>1, <3>1, <3>2
      <3>6. ~(j < Len(new) - 1)
        BY <1>2, <1>3, <2>2
      <3>7. new[j].height + j <= top
        BY <2>2, <3>1, <3>3
      <3> QED BY <3>4, <3>5, <3>6, <3>7
    <2> QED BY <1>2, <1>3, <1>7, <2>1, <2>2
  <1>8. Piled(new, from, n + 1, top)
    BY <1>3, <1>5, <1>6, <1>7 DEF Piled
  <1> QED BY <1>8 DEF new, e

(* Two topmost nodes of equal height are siblings, and hashing them gives  *)
(* their parent: the ancestor of the leaf generated last.                  *)
LEMMA PiledSiblings ==
    ASSUME NEW st, NEW s \in Nat, NEW n \in Nat, NEW top \in 0..TreeHeight,
           Piled(st, s * P(top), n, top), Mergeable(st), n <= s * P(top) + P(top)
    PROVE  LET h == st[Len(st)].height
           IN  /\ h + 1 \in 1..top
               /\ \E k \in Nat :
                     /\ st[Len(st) - 1].node = TreeNode(h, 2 * k)
                     /\ st[Len(st)].node = TreeNode(h, 2 * k + 1)
                     /\ Begins(st[Len(st) - 1]) = k * P(h + 1)
                     /\ n = (k + 1) * P(h + 1)
                     /\ (n - 1) \div P(h + 1) = k
  <1> DEFINE L == Len(st)
             h == st[L].height
             i == st[L - 1].node.index
             j == st[L].node.index
  <1>1. st \in Seq(Entry) /\ L \in Nat /\ L >= 2 /\ h = st[L - 1].height
    BY DEF Piled, Mergeable
  <1>0. /\ st # <<>>
        /\ Begins(st[1]) = s * P(top)
        /\ Ends(st[L]) = n
        /\ \A k \in 1..L : st[k] \in Entry
        /\ \A k \in 1..L-1 : /\ Ends(st[k]) = Begins(st[k + 1])
                             /\ st[k].height + k <= top
                             /\ k < L - 1 => st[k].height > st[k + 1].height
    <2>1. st # <<>>
      BY <1>1
    <2> QED BY <1>1, <2>1 DEF Piled
  <1> HIDE DEF L
  <1>2. L - 1 \in 1..L-1 /\ L - 1 \in 1..L /\ L \in 1..L /\ (L - 1) + 1 = L
    BY <1>1
  <1>3. st[L] \in Entry /\ st[L - 1] \in Entry
    BY <1>0, <1>2
  <1>4. h \in 0..TreeHeight /\ i \in Nat /\ j \in Nat
        /\ st[L - 1].node = TreeNode(h, i) /\ st[L].node = TreeNode(h, j)
    BY <1>1, <1>3, EntryFacts
  <1>5. Ends(st[L - 1]) = Begins(st[L]) /\ h + (L - 1) <= top
    BY <1>0, <1>1, <1>2
  <1>8. /\ i * P(h) = Begins(st[L - 1]) /\ (i + 1) * P(h) = Ends(st[L - 1])
        /\ j * P(h) = Begins(st[L]) /\ (j + 1) * P(h) = Ends(st[L])
    BY <1>1 DEF Begins, Ends
  <1>15. st[L - 1].height = h
    BY <1>1
  <1> HIDE DEF h, i, j
  <1>6. h + 1 \in 1..top /\ h + 1 \in 0..TreeHeight /\ h \in 0..TreeHeight-1
    <2>1. \A x, y, t, u \in Int : /\ x \in 0..u /\ t \in 0..u
                                  /\ y >= 2 /\ x + (y - 1) <= t
                                  => x + 1 \in 1..t /\ x + 1 \in 0..u /\ x \in 0..u-1
      OBVIOUS
    <2>2. L \in Int /\ L >= 2 /\ h \in Int /\ h \in 0..TreeHeight /\ TreeHeight \in Int
      BY <1>1, <1>4, DimensionAssumption
    <2>3. top \in Int /\ top \in 0..TreeHeight /\ h + (L - 1) <= top
      BY <1>5, DimensionAssumption
    <2> QED BY <2>1, <2>2, <2>3
  <1>7. P(h) \in Nat \ {0} /\ P(h + 1) = 2 * P(h)
    BY <1>4, <1>6, PType, Doubling
  <1>9. (i + 1) * P(h) = j * P(h) /\ (j + 1) * P(h) = n /\ Begins(st[L - 1]) = i * P(h)
    BY <1>0, <1>5, <1>8
  <1>10. j = i + 1
    <2>1. i + 1 \in Nat
      BY <1>4
    <2> QED BY <1>4, <1>7, <1>9, <2>1, Cancel
  <1>11. i % 2 = 0
    <2>1. CASE L = 2
      <3>1. L - 1 = 1
        BY <2>1
      <3>3. i * P(h) = s * P(top)
        BY <1>0, <1>9, <3>1
      <3>4. h < top
        BY <1>4, <1>6
      <3> QED BY <1>4, <3>3, <3>4, EvenSpan
    <2>2. CASE L > 2
      <3> DEFINE g == st[L - 2].height
                 q == st[L - 2].node.index
      <3>1. L - 2 \in 1..L-1 /\ L - 2 \in 1..L /\ (L - 2) + 1 = L - 1 /\ L - 2 < L - 1
        BY <1>1, <2>2
      <3>2. st[L - 2] \in Entry
        BY <1>0, <3>1
      <3>3. g \in 0..TreeHeight /\ q \in Nat
        BY <3>2, EntryFacts
      <3>5. Ends(st[L - 2]) = Begins(st[L - 1]) /\ g > st[L - 1].height
        BY <1>0, <3>1
      <3>6. (q + 1) * P(g) = i * P(h) /\ h < g
        BY <1>9, <1>15, <3>5 DEF Ends
      <3> HIDE DEF g, q
      <3>7. q + 1 \in Nat
        BY <3>3
      <3> QED BY <1>4, <3>3, <3>6, <3>7, EvenSpan
    <2> QED BY <1>1, <2>1, <2>2
  <1> DEFINE k == i \div 2
  <1>12. k \in Nat /\ i = 2 * k /\ j = 2 * k + 1
    BY <1>4, <1>10, <1>11
  <1> HIDE DEF k
  <1>13. i * P(h) = k * P(h + 1) /\ n = (k + 1) * P(h + 1)
    <2>1. (2 * k) * P(h) = k * (2 * P(h)) /\ (2 * k + 2) * P(h) = (k + 1) * (2 * P(h))
      BY <1>7, <1>12
    <2>2. j + 1 = 2 * k + 2
      BY <1>12
    <2> QED BY <1>7, <1>9, <1>12, <2>1, <2>2
  <1>14. (n - 1) \div P(h + 1) = k
    <2> DEFINE b == P(h + 1)
    <2>1. b \in Nat \ {0}
      BY <1>7
    <2> HIDE DEF b
    <2>2. b - 1 \in 0..b-1 /\ n - 1 = b * k + (b - 1)
      <3>1. n = b * k + b
        BY <1>12, <1>13, <2>1 DEF b
      <3>2. b * k \in Nat
        BY <1>12, <2>1
      <3> QED BY <2>1, <3>1, <3>2
    <2>3. (b * k + (b - 1)) \div b = k
      BY <1>12, <2>1, <2>2, DivUnique
    <2> QED BY <2>2, <2>3 DEF b
  <1>16. /\ st[L - 1].node = TreeNode(h, 2 * k)
         /\ st[L].node = TreeNode(h, 2 * k + 1)
         /\ Begins(st[L - 1]) = k * P(h + 1)
    BY <1>4, <1>9, <1>12, <1>13
  <1> QED BY <1>6, <1>12, <1>13, <1>14, <1>16 DEF h, L

LEMMA PiledMerge ==
    ASSUME NEW st, NEW from \in Nat, NEW n \in Nat, NEW top \in 0..TreeHeight,
           Piled(st, from, n, top), Mergeable(st),
           NEW k \in Nat, st[Len(st)].height + 1 \in 1..top,
           Begins(st[Len(st) - 1]) = k * P(st[Len(st)].height + 1),
           n = (k + 1) * P(st[Len(st)].height + 1)
    PROVE  Piled(Append(SubSeq(st, 1, Len(st) - 2),
                        [height |-> st[Len(st)].height + 1,
                         node   |-> TreeNode(st[Len(st)].height + 1, k)]),
                 from, n, top)
  <1> DEFINE L == Len(st)
             g == st[L].height
             h == g + 1
             e == [height |-> h, node |-> TreeNode(h, k)]
             sub == SubSeq(st, 1, L - 2)
             new == Append(sub, e)
  <1>1. st \in Seq(Entry) /\ L \in Nat /\ L >= 2 /\ st[L - 1].height = g
    BY DEF Piled, Mergeable
  <1>2. Begins(st[L - 1]) = k * P(h) /\ n = (k + 1) * P(h) /\ h \in 1..top
    OBVIOUS
  <1>3. /\ st # <<>>
        /\ Begins(st[1]) = from
        /\ \A j \in 1..L : st[j] \in Entry /\ st[j].height <= top
        /\ \A j \in 1..L-1 : /\ Ends(st[j]) = Begins(st[j + 1])
                             /\ st[j].height + j <= top
                             /\ st[j].height >= st[j + 1].height
                             /\ j < L - 1 => st[j].height > st[j + 1].height
    <2>1. st # <<>>
      BY <1>1
    <2> QED BY <1>1, <2>1 DEF Piled
  <1> HIDE DEF L
  <1>4. g \in Nat /\ h \in 0..TreeHeight
    <2>1. L \in 1..L
      BY <1>1
    <2>2. g \in 0..TreeHeight
      BY <1>3, <2>1, EntryFacts
    <2>3. h \in 1..top /\ TreeHeight \in Nat
      BY <1>2, DimensionAssumption
    <2> QED BY <2>2, <2>3, SMTT(30)
  <1> HIDE DEF g, h
  <1>5. e \in Entry /\ e.height = h /\ Begins(e) = k * P(h) /\ Ends(e) = (k + 1) * P(h)
    BY <1>4, EntryMade
  <1>6. sub \in Seq(Entry) /\ Len(sub) = L - 2 /\ \A j \in 1..L-2 : sub[j] = st[j]
    <2>1. L - 2 \in Int /\ \A j \in 1..L-2 : st[j] \in Entry
      BY <1>1, <1>3, SMTT(30)
    <2>2. /\ sub \in Seq(Entry)
          /\ Len(sub) = IF 1 <= L - 2 THEN (L - 2) - 1 + 1 ELSE 0
          /\ \A j \in 1..(L - 2) - 1 + 1 : sub[j] = st[1 + j - 1]
      BY <2>1, SubSeqProperties
    <2> HIDE DEF sub
    <2>3. \A j \in 1..L-2 : 1 + j - 1 = j /\ j \in 1..(L - 2) - 1 + 1
      BY <1>1
    <2> QED BY <1>1, <2>2, <2>3
  <1> HIDE DEF e, sub
  <1>7. /\ new \in Seq(Entry) /\ Len(new) = L - 1 /\ new[L - 1] = e
        /\ \A j \in 1..L-2 : new[j] = st[j]
    <2>1. new \in Seq(Entry) /\ Len(new) = Len(sub) + 1
          /\ new[Len(sub) + 1] = e /\ \A j \in 1..Len(sub) : new[j] = sub[j]
      BY <1>5, <1>6
    <2>2. Len(sub) + 1 = L - 1
      BY <1>1, <1>6
    <2> HIDE DEF new
    <2> QED BY <1>6, <2>1, <2>2
  <1> HIDE DEF new
  <1>8. new # <<>> /\ Begins(new[1]) = from /\ Ends(new[Len(new)]) = n
    <2>1. Begins(e) = Begins(st[L - 1]) /\ Ends(e) = n
      BY <1>2, <1>5
    <2>2. new # <<>>
      BY <1>1, <1>7
    <2>3. Begins(new[1]) = from
      <3>1. CASE L = 2
        <4>1. L - 1 = 1
          BY <3>1
        <4> QED BY <1>3, <1>7, <2>1, <4>1
      <3>2. CASE L > 2
        <4>1. 1 \in 1..L-2
          BY <1>1, <3>2
        <4> QED BY <1>3, <1>7, <4>1
      <3> QED BY <1>1, <3>1, <3>2
    <2> QED BY <1>7, <2>1, <2>2, <2>3
  <1>9. ASSUME NEW j \in 1..Len(new)
        PROVE  new[j].height <= top
    <2>1. CASE j = L - 1
      BY <1>2, <1>5, <1>7, <2>1
    <2>2. CASE j # L - 1
      <3>1. j \in 1..L-2 /\ j \in 1..L
        BY <1>1, <1>7, <1>9, <2>2, SMTT(30)
      <3> QED BY <1>3, <1>7, <3>1
    <2> QED BY <2>1, <2>2
  <1>10. ASSUME NEW j \in 1..Len(new)-1
        PROVE  /\ Ends(new[j]) = Begins(new[j + 1])
               /\ new[j].height + j <= top
               /\ new[j].height >= new[j + 1].height
               /\ j < Len(new) - 1 => new[j].height > new[j + 1].height
    <2>1. j \in 1..L-2 /\ j \in 1..L-1 /\ j \in 1..L /\ j < L - 1 /\ Len(new) - 1 = L - 2
      <3>1. Len(new) = L - 1 /\ j \in 1..Len(new)-1 /\ L \in Nat
        BY <1>1, <1>7, <1>10
      <3> QED BY <3>1
    <2>2. /\ new[j] = st[j]
          /\ Ends(st[j]) = Begins(st[j + 1])
          /\ st[j].height + j <= top
          /\ st[j].height >= st[j + 1].height
          /\ st[j].height > st[j + 1].height
      BY <1>3, <1>7, <2>1
    <2>3. CASE j < L - 2
      <3>1. j + 1 \in 1..L-2
        <4>1. L \in Nat /\ j \in 1..L-2
          BY <1>1, <2>1
        <4> HIDE DEF new
        <4> QED BY <4>1, <2>3
      <3>2. new[j + 1] = st[j + 1]
        BY <1>7, <3>1
      <3> QED BY <2>2, <3>2
    <2>4. CASE j = L - 2
      <3>1. j + 1 = L - 1
        BY <1>1, <2>4
      <3>2. new[j + 1] = e /\ st[j + 1].height = g /\ Begins(e) = Begins(st[j + 1])
        BY <1>1, <1>2, <1>5, <1>7, <3>1
      <3>3. st[j].height \in 0..TreeHeight
        BY <1>3, <2>1, EntryFacts
      <3>4. st[j].height >= h
        BY <1>4, <2>2, <3>2, <3>3, SMTT(30) DEF h
      <3>5. ~(j < Len(new) - 1)
        BY <1>1, <2>1, <2>4
      <3> QED BY <1>5, <2>2, <3>2, <3>4, <3>5
    <2> QED BY <1>1, <2>1, <2>3, <2>4
  <1>11. Piled(new, from, n, top)
    BY <1>7, <1>8, <1>9, <1>10 DEF Piled
  <1> QED BY <1>11 DEF new, sub, e, h, g, L

(* A node left without a sibling to the right of it is a left child. *)
LEMMA Unpaired ==
    ASSUME NEW st, NEW s \in Nat, NEW n \in Nat, NEW top \in 0..TreeHeight,
           Piled(st, s * P(top), n, top), ~Mergeable(st), st # <<>>,
           st[Len(st)].height < top
    PROVE  st[Len(st)].node.index % 2 = 0
  <1> DEFINE L == Len(st)
             h == st[L].height
             j == st[L].node.index
  <1>1. st \in Seq(Entry) /\ L \in Nat /\ L >= 1
    BY DEF Piled
  <1>2. /\ Begins(st[1]) = s * P(top)
        /\ \A i \in 1..L : st[i] \in Entry
        /\ \A i \in 1..L-1 : /\ Ends(st[i]) = Begins(st[i + 1])
                             /\ st[i].height >= st[i + 1].height
    BY <1>1 DEF Piled
  <1>3. L >= 2 => h # st[L - 1].height
    BY DEF Mergeable
  <1> HIDE DEF L
  <1>4. L \in 1..L
    BY <1>1
  <1>5. h \in 0..TreeHeight /\ j \in Nat /\ h < top /\ Begins(st[L]) = j * P(h)
    BY <1>2, <1>4, EntryFacts DEF Begins, L
  <1>6. CASE L = 1
    <2>1. j * P(h) = s * P(top)
      BY <1>2, <1>5, <1>6
    <2> HIDE DEF h, j
    <2> QED BY <1>5, <2>1, EvenSpan DEF j, L
  <1>7. CASE L > 1
    <2> DEFINE g == st[L - 1].height
               q == st[L - 1].node.index
    <2>1. L - 1 \in 1..L-1 /\ L - 1 \in 1..L /\ (L - 1) + 1 = L
      BY <1>1, <1>7
    <2>2. g \in 0..TreeHeight /\ q \in Nat
      BY <1>2, <2>1, EntryFacts
    <2>3. Ends(st[L - 1]) = Begins(st[L]) /\ g >= h /\ g # h
      BY <1>1, <1>2, <1>3, <1>7, <2>1
    <2>4. (q + 1) * P(g) = j * P(h)
      BY <1>5, <2>3 DEF Ends
    <2> HIDE DEF g, q, h, j
    <2>5. q + 1 \in Nat /\ h < g
      BY <1>5, <2>2, <2>3
    <2> QED BY <1>5, <2>2, <2>4, <2>5, EvenSpan DEF j, L
  <1> QED BY <1>1, <1>6, <1>7

(* When every leaf has been generated and every pair hashed, one node is   *)
(* left: the root of the subtree.                                          *)
LEMMA PiledDone ==
    ASSUME NEW st, NEW s \in Nat, NEW n \in Nat, NEW top \in 0..TreeHeight,
           Piled(st, s * P(top), n, top), ~Mergeable(st), n = s * P(top) + P(top)
    PROVE  /\ st # <<>> /\ Len(st) = 1
           /\ st[1].height = top /\ st[1].node = TreeNode(top, s)
  <1> DEFINE L == Len(st)
             h == st[L].height
             j == st[L].node.index
  <1>1. P(top) \in Nat \ {0} /\ s * P(top) \in Nat /\ (s + 1) * P(top) = n
    <2>1. P(top) \in Nat \ {0}
      BY PType
    <2> HIDE DEF P
    <2> QED BY <2>1
  <1>2. st \in Seq(Entry) /\ st # <<>>
    <2>1. n # s * P(top)
      BY <1>1
    <2> QED BY <2>1 DEF Piled
  <1>3. L \in Nat /\ L >= 1 /\ L \in 1..L
    BY <1>2
  <1>4. /\ Begins(st[1]) = s * P(top) /\ Ends(st[L]) = n
        /\ \A i \in 1..L : st[i] \in Entry /\ st[i].height <= top
        /\ \A i \in 1..L-1 : st[i].height + i <= top /\ st[i].height >= st[i + 1].height
    BY <1>2 DEF Piled
  <1>5. h \in 0..TreeHeight /\ h <= top /\ j \in Nat /\ st[L].node = TreeNode(h, j)
        /\ (j + 1) * P(h) = n /\ Begins(st[L]) = j * P(h)
    BY <1>3, <1>4, EntryFacts DEF Begins, Ends
  <1>6. h < top => j % 2 = 0
    BY <1>2, Unpaired
  <1> HIDE DEF L, h, j
  <1>7. h = top
    <2> SUFFICES ASSUME h # top PROVE FALSE
      OBVIOUS
    <2>1. h < top /\ j + 1 \in Nat /\ s + 1 \in Nat
      BY <1>5
    <2>2. (j + 1) % 2 = 0
      BY <1>1, <1>5, <2>1, EvenSpan
    <2> QED BY <1>5, <1>6, <2>1, <2>2
  <1>8. L = 1
    <2> SUFFICES ASSUME L # 1 PROVE FALSE
      OBVIOUS
    <2>1. L - 1 \in 1..L-1 /\ L - 1 \in 1..L /\ (L - 1) + 1 = L /\ L - 1 >= 1
      BY <1>3
    <2>2. st[L - 1].height + (L - 1) <= top /\ st[L - 1].height >= h
      BY <1>4, <2>1 DEF h
    <2>3. st[L - 1].height \in Nat
      BY <1>4, <2>1, EntryFacts
    <2> QED BY <1>5, <1>7, <2>1, <2>2, <2>3
  <1>9. j = s
    <2>1. j * P(top) = s * P(top)
      BY <1>4, <1>5, <1>7, <1>8
    <2> QED BY <1>1, <1>5, <2>1, Cancel
  <1>10. Len(st) = 1 /\ st[1].height = h /\ st[1].node = TreeNode(h, j)
    BY <1>5, <1>8 DEF L, h
  <1> QED BY <1>2, <1>7, <1>9, <1>10

(* The stack is never higher than the subtree plus one. *)
LEMMA PiledFits ==
    ASSUME NEW st, NEW from \in Nat, NEW n \in Nat, NEW top \in 0..TreeHeight,
           Piled(st, from, n, top)
    PROVE  Len(st) <= top + 1
  <1> DEFINE L == Len(st)
  <1>1. /\ L \in Nat
        /\ \A i \in 1..L : st[i] \in Entry
        /\ \A i \in 1..L-1 : st[i].height + i <= top
    BY DEF Piled
  <1> HIDE DEF L
  <1>2. CASE L >= 2
    <2>1. L - 1 \in 1..L-1 /\ L - 1 \in 1..L
      BY <1>1, <1>2
    <2>2. st[L - 1].height \in 0..TreeHeight /\ st[L - 1].height + (L - 1) <= top
      BY <1>1, <2>1, EntryFacts
    <2>3. \A x, y, t \in Int : x >= 0 /\ x + (y - 1) <= t => y <= t + 1
      OBVIOUS
    <2>4. L <= top + 1
      BY <1>1, <2>2, <2>3, DimensionAssumption
    <2> QED BY <2>4 DEF L
  <1>3. CASE L < 2
    BY <1>1, <1>3 DEF L
  <1> QED BY <1>1, <1>2, <1>3

---------------------------------------------------------------------------
(* The leaves a path changes at *)

(* The next leaf begins a subtree of every height up to the lowest zero    *)
(* bit of this one.                                                        *)
LEMMA LowBitsCarry ==
    ASSUME NEW l \in 0..Leaves-1, NEW h \in 0..TreeHeight, h <= TrailingOnes(l)
    PROVE  (l + 1) % P(h) = 0
  <1> SUFFICES ASSUME (l + 1) % P(h) # 0 PROVE FALSE
    OBVIOUS
  <1> DEFINE t == TrailingOnes(l)
             T == {k \in 0..h : (l + 1) % P(k) # 0}
  <1>0. t \in 0..TreeHeight /\ h <= t /\ \A j \in 0..t-1 : Bit(l, j) = 1
    BY TrailingOnesFacts
  <1> HIDE DEF t
  <1>1. h \in T
    BY DimensionAssumption
  <1>2. T # {} /\ T \subseteq Nat
    BY <1>1, DimensionAssumption
  <1> HIDE DEF T
  <1>3. PICK x \in T : \A y \in T : x <= y
    BY <1>2, LeastElement
  <1>4. x \in 0..TreeHeight /\ x <= h /\ (l + 1) % P(x) # 0
    BY DimensionAssumption DEF T
  <1>5. x # 0
    <2>1. (l + 1) % 1 = 0
      BY PowerFacts
    <2> QED BY <1>4, <2>1, LeafSpan
  <1>6. x - 1 \in 0..TreeHeight-1 /\ x - 1 \in 0..TreeHeight /\ (x - 1) + 1 = x
    BY <1>4, <1>5, DimensionAssumption
  <1>7. (l + 1) % P(x - 1) = 0
    <2>1. x - 1 \notin T
      BY <1>3, <1>4, <1>6
    <2> QED BY <1>6, <2>1 DEF T
  <1>8. Bit(l, x - 1) = 1
    <2>1. x - 1 \in 0..t-1
      BY <1>0, <1>4, <1>6, DimensionAssumption
    <2> QED BY <1>0, <2>1
  <1> DEFINE p == P(x - 1)
             q == (l + 1) \div p
             r == q - 1
  <1>9. p \in Nat \ {0} /\ P(x) = 2 * p
    BY <1>6, PType, Doubling
  <1>10. l \div p = l \div Pow2[x - 1] /\ (l + 1) % p = 0
    BY <1>7 DEF P
  <1> HIDE DEF p
  <1>11. l + 1 \in Nat /\ l \in Nat
    BY PowerFacts
  <1>12. q \in Nat /\ l + 1 = p * q
    <2>1. q \in Nat /\ l + 1 = p * q + ((l + 1) % p)
      BY <1>9, <1>11, DivMod
    <2> HIDE DEF q
    <2>2. p * q \in Nat
      BY <1>9, <2>1
    <2> QED BY <1>10, <2>1, <2>2
  <1> HIDE DEF q
  <1>13. q # 0
    BY <1>9, <1>11, <1>12
  <1>14. r \in Nat /\ l = p * r + (p - 1) /\ p - 1 \in 0..p-1
    <2>1. q = r + 1 /\ r \in Nat
      BY <1>12, <1>13
    <2> HIDE DEF r
    <2>2. p * (r + 1) = p * r + p /\ p * r \in Nat
      BY <1>9, <2>1
    <2> QED BY <1>9, <1>11, <1>12, <2>1, <2>2
  <1> HIDE DEF r
  <1>15. l \div p = r
    BY <1>9, <1>14, DivUnique
  <1>16. r % 2 = 1
    BY <1>8, <1>10, <1>15 DEF Bit
  <1> DEFINE m == q \div 2
  <1>17. m \in Nat /\ q = 2 * m
    BY <1>12, <1>14, <1>16 DEF r
  <1> HIDE DEF m
  <1>18. l + 1 = (2 * p) * m + 0 /\ 2 * p \in Nat \ {0} /\ 0 \in 0..(2 * p)-1
    <2>1. p * (2 * m) = (2 * p) * m + 0
      BY <1>9, <1>17
    <2> QED BY <1>9, <1>12, <1>17, <2>1
  <1>19. (l + 1) % (2 * p) = 0
    BY <1>17, <1>18, DivUnique
  <1> QED BY <1>4, <1>9, <1>19

(* A leaf that is not the last one of its tree has a zero bit. *)
LEMMA ChangedLevelsBound ==
    ASSUME NEW l \in 0..Leaves-1, l + 1 < Leaves
    PROVE  ChangedLevels(l) \in 1..TreeHeight
  <1>1. TrailingOnes(l) \in 0..TreeHeight
    BY TrailingOnesFacts
  <1>2. TrailingOnes(l) # TreeHeight
    <2> SUFFICES ASSUME TrailingOnes(l) = TreeHeight PROVE FALSE
      OBVIOUS
    <2>1. TreeHeight \in 0..TreeHeight /\ TreeHeight <= TrailingOnes(l)
      BY DimensionAssumption
    <2>2. (l + 1) % Leaves = 0
      BY <2>1, LowBitsCarry DEF P, Leaves
    <2>3. Leaves \in Nat \ {0} /\ Leaves * 0 + (l + 1) = l + 1 /\ l + 1 \in 0..Leaves-1
      BY PowerFacts
    <2>4. (Leaves * 0 + (l + 1)) % Leaves = l + 1
      BY <2>3, DivUnique
    <2> QED BY <2>2, <2>3, <2>4
  <1> QED BY <1>1, <1>2, DimensionAssumption DEF ChangedLevels

(* The sibling of an ancestor of a leaf spans leaves of the same tree. *)
LEMMA SiblingSpan ==
    ASSUME NEW l \in 0..Leaves-1, NEW h \in Heights
    PROVE  LET s == Sibling(l \div P(h))
           IN  s \in Nat /\ s * P(h) \in Nat /\ s * P(h) + P(h) <= Leaves
  <1> DEFINE p == P(h)
             q == l \div p
             s == Sibling(q)
  <1>1. h \in 0..TreeHeight /\ TreeHeight \in 0..TreeHeight /\ h < TreeHeight
    BY DimensionAssumption DEF Heights
  <1>2. PICK m \in Nat \ {0} : P(TreeHeight) = 2 * m * p
    BY <1>1, Multiple
  <1>3. p \in Nat \ {0} /\ Leaves = 2 * m * p /\ l \in Nat
    BY <1>1, <1>2, PType, PowerFacts DEF P, Leaves
  <1> HIDE DEF p
  <1>4. q \in Nat /\ p * q <= l
    <2>1. q \in Nat /\ l % p \in 0..p-1 /\ l = p * q + (l % p)
      BY <1>3, DivMod
    <2> HIDE DEF q
    <2>2. p * q \in Nat
      BY <1>3, <2>1
    <2> QED BY <1>3, <2>1, <2>2
  <1> HIDE DEF q
  <1>5. q < 2 * m
    <2> SUFFICES ASSUME q >= 2 * m PROVE FALSE
      BY <1>4
    <2>1. PICK d \in Nat : q = 2 * m + d
      <3>1. q - 2 * m \in Nat /\ q = 2 * m + (q - 2 * m)
        BY <1>4
      <3> QED BY <3>1
    <2>2. p * q = 2 * m * p + p * d /\ p * d \in Nat
      BY <1>3, <2>1
    <2>3. 2 * m * p \in Nat /\ l < 2 * m * p
      BY <1>3
    <2> QED BY <1>3, <1>4, <2>2, <2>3
  <1>6. s \in Nat /\ s + 1 <= 2 * m
    BY <1>4, <1>5 DEF Sibling
  <1> HIDE DEF s
  <1>7. PICK d \in Nat : 2 * m = s + 1 + d
    <2>1. 2 * m - s - 1 \in Nat /\ 2 * m = s + 1 + (2 * m - s - 1)
      BY <1>6
    <2> QED BY <2>1
  <1>8. 2 * m * p = s * p + p + d * p /\ d * p \in Nat /\ s * p \in Nat
    <2>1. (s + 1 + d) * p = s * p + p + d * p
      BY <1>3, <1>6, <1>7
    <2>2. d * p \in Nat /\ s * p \in Nat
      BY <1>3, <1>6, <1>7
    <2> QED BY <1>7, <2>1, <2>2
  <1> QED BY <1>3, <1>6, <1>8 DEF s, q, p

(* At each of these heights the next leaf has another node in its path. *)
LEMMA ChangedNodes ==
    ASSUME NEW l \in 0..Leaves-1, l + 1 < Leaves,
           NEW h \in Heights, h <= TrailingOnes(l)
    PROVE  Sibling(l \div P(h)) # Sibling((l + 1) \div P(h))
  <1> DEFINE p == P(h)
             q == (l + 1) \div p
             r == l \div p
  <1>1. p \in Nat \ {0} /\ l \in Nat /\ l + 1 \in Nat
    BY PType, PowerFacts, DimensionAssumption DEF Heights
  <1>2. (l + 1) % p = 0
    BY LowBitsCarry, DimensionAssumption DEF Heights
  <1> HIDE DEF p
  <1>3. q \in Nat /\ l + 1 = p * q
    <2>1. q \in Nat /\ l + 1 = p * q + ((l + 1) % p)
      BY <1>1, DivMod
    <2> HIDE DEF q
    <2>2. p * q \in Nat
      BY <1>1, <2>1
    <2> QED BY <1>2, <2>1, <2>2
  <1> HIDE DEF q
  <1>4. q # 0
    BY <1>1, <1>3
  <1>5. q - 1 \in Nat /\ l = p * (q - 1) + (p - 1) /\ p - 1 \in 0..p-1
    <2> DEFINE u == q - 1
    <2>1. u \in Nat /\ q = u + 1
      BY <1>3, <1>4
    <2> HIDE DEF u
    <2>2. p * (u + 1) = p * u + p /\ p * u \in Nat
      BY <1>1, <2>1
    <2>3. l = p * u + (p - 1) /\ p - 1 \in 0..p-1
      BY <1>1, <1>3, <2>1, <2>2
    <2> QED BY <2>1, <2>3 DEF u
  <1>6. r = q - 1
    BY <1>1, <1>5, DivUnique
  <1> HIDE DEF r
  <1>7. Sibling(r) # Sibling(q)
    BY <1>3, <1>4, <1>6 DEF Sibling
  <1> QED BY <1>7 DEF p, q, r

---------------------------------------------------------------------------
(* The inductive invariant *)

SubtreeIndex ==
    IF op = "build" THEN 0 ELSE Sibling((leaf + 1) \div P(height))

(* Node s of height h has been hashed. *)
Made(h, s) ==
    \/ next > (s + 1) * P(h)
    \/ /\ next = (s + 1) * P(h)
       /\ stack # <<>>
       /\ stack[Len(stack)].height >= h

(* Every node of the path is kept as soon as it exists. *)
Gathered ==
    \A h \in Heights :
        Made(h, Sibling(leaf \div P(h))) =>
            auth[h] = TreeNode(h, Sibling(leaf \div P(h)))

Hashing ==
    /\ Piled(stack, SubtreeIndex * P(height), next, height)
    /\ next <= SubtreeIndex * P(height) + P(height)

Building  == height = TreeHeight /\ root = NoNode /\ Gathered
Advancing == /\ leaf + 1 < Leaves
             /\ height < ChangedLevels(leaf)
             /\ root = Root("key", Layer, Tree)

TInv ==
    /\ TreeTypeOK
    /\ auth = [h \in Heights |-> auth[h]]
    /\ Running => Hashing
    /\ op = "build" => Building
    /\ op = "advance" => Advancing
    /\ ~Running => stack = <<>>
    /\ LayerRight
    /\ PathInStep

(* Where the subtree being hashed lies *)
LEMMA SubtreeFacts ==
    ASSUME TreeTypeOK, Running, op = "build" => Building, op = "advance" => Advancing
    PROVE  /\ height \in 0..TreeHeight
           /\ op = "advance" => height \in Heights /\ leaf + 1 \in 0..Leaves-1
           /\ SubtreeIndex \in Nat
           /\ P(height) \in Nat \ {0}
           /\ SubtreeIndex * P(height) \in Nat
           /\ Start = SubtreeIndex * P(height)
           /\ End = SubtreeIndex * P(height) + P(height)
           /\ End \in 0..Leaves
  <1>1. height \in 0..TreeHeight /\ leaf \in 0..Leaves-1
    BY DEF TreeTypeOK
  <1>2. P(height) \in Nat \ {0} /\ Leaves \in Nat
    BY <1>1, PType, PowerFacts
  <1>3. CASE op = "build"
    <2>1. SubtreeIndex = 0 /\ Start = 0 /\ End = P(height) /\ P(height) = Leaves
      BY <1>2, <1>3 DEF SubtreeIndex, Start, End, P, Building, Leaves
    <2>2. 0 * P(height) = 0
      BY <1>2
    <2> QED BY <1>1, <1>2, <1>3, <2>1, <2>2
  <1>4. CASE op = "advance"
    <2>1. height \in Heights /\ leaf + 1 \in 0..Leaves-1
      BY <1>1, <1>2, <1>4, ChangedLevelsBound, DimensionAssumption DEF Advancing, Heights
    <2>2. SubtreeIndex = Sibling((leaf + 1) \div P(height))
      BY <1>4 DEF SubtreeIndex
    <2>3. Start = SubtreeIndex * P(height) /\ End = SubtreeIndex * P(height) + P(height)
      BY <1>4, <2>2 DEF Start, End, FirstLeaf, P
    <2>4. SubtreeIndex \in Nat /\ SubtreeIndex * P(height) \in Nat
          /\ SubtreeIndex * P(height) + P(height) <= Leaves
      BY <2>1, <2>2, SiblingSpan
    <2> QED BY <1>1, <1>2, <2>1, <2>3, <2>4
  <1> QED BY <1>3, <1>4 DEF Running

(* Begins where an empty stack does, at an aligned leaf *)
LEMMA EmptyPile ==
    ASSUME NEW from \in Nat, NEW top \in 0..TreeHeight
    PROVE  Piled(<<>>, from, from, top)
  BY DEF Piled

LEMMA TreeHashInit == Init => TInv
  <1> SUFFICES ASSUME Init PROVE TInv
    OBVIOUS
  <1>1. TreeTypeOK
    BY PowerFacts, DimensionAssumption DEF Init, TreeTypeOK, Heights
  <1>2. auth = [h \in Heights |-> auth[h]]
    BY DEF Init
  <1>3. Gathered
    <2> SUFFICES ASSUME NEW h \in Heights PROVE ~Made(h, Sibling(leaf \div P(h)))
      BY DEF Gathered
    <2>1. leaf \in 0..Leaves-1 /\ next = 0 /\ h \in 0..TreeHeight
      BY DimensionAssumption DEF Init, Heights
    <2> DEFINE s == Sibling(leaf \div P(h))
    <2>2. s \in Nat /\ P(h) \in Nat \ {0}
      BY <2>1, SiblingSpan, PType
    <2> HIDE DEF s
    <2>3. (s + 1) * P(h) \in Nat \ {0}
      BY <2>2
    <2>4. stack = <<>>
      BY DEF Init
    <2>5. ~Made(h, s)
      BY <2>1, <2>3, <2>4 DEF Made
    <2> QED BY <2>5 DEF s
  <1>4. op = "build" /\ Building
    BY <1>3 DEF Init, Building
  <1>5. Hashing
    <2>1. P(height) \in Nat \ {0} /\ height \in 0..TreeHeight /\ stack = <<>> /\ next = 0
      BY <1>1, PType DEF Init, TreeTypeOK
    <2>2. SubtreeIndex * P(height) = 0
      BY <1>4, <2>1 DEF SubtreeIndex
    <2>3. Piled(<<>>, 0, 0, height)
      BY <2>1, EmptyPile
    <2> QED BY <2>1, <2>2, <2>3 DEF Hashing
  <1> QED BY <1>1, <1>2, <1>4, <1>5 DEF TInv, Running, LayerRight, PathInStep

LEMMA KeepFacts ==
    ASSUME DOMAIN auth = Heights, auth = [h \in Heights |-> auth[h]],
           NEW h \in 0..TreeHeight, NEW index \in Nat, NEW node,
           leaf \in 0..Leaves-1,
           op = "build" /\ h = TreeHeight => index = 0
    PROVE  LET kept == Collected(h, index, node)
           IN  /\ DOMAIN kept = Heights
               /\ kept = [g \in Heights |-> kept[g]]
               /\ op # "build" => kept = auth
               /\ \A g \in Heights :
                     kept[g] = IF op = "build" /\ g = h /\ Sibling(leaf \div P(h)) = index
                               THEN node ELSE auth[g]
  <1>1. CASE op = "build" /\ Sibling(leaf \div P(h)) = index
    <2>1. h \in Heights
      <3> SUFFICES ASSUME h = TreeHeight PROVE FALSE
        BY DimensionAssumption DEF Heights
      <3>1. Leaves * 0 + leaf = leaf
        BY PowerFacts
      <3>2. leaf \div Leaves = 0
        BY <3>1, PowerFacts, DivUnique
      <3>3. Sibling(leaf \div P(h)) = 1
        BY <3>2 DEF P, Leaves, Sibling
      <3> QED BY <1>1, <3>3
    <2>2. DOMAIN auth \cup {h} = Heights
      BY <2>1
    <2>3. Collected(h, index, node) = [k \in Heights |-> IF k = h THEN node ELSE auth[k]]
      BY <1>1, <2>2 DEF Collected, P
    <2> QED BY <1>1, <2>3
  <1>2. CASE ~(op = "build" /\ Sibling(leaf \div P(h)) = index)
    <2>1. Collected(h, index, node) = auth
      BY <1>2 DEF Collected, P
    <2> QED BY <1>2, <2>1
  <1> QED BY <1>1, <1>2

(* Once every pair has been hashed, a node whose leaves have all been      *)
(* generated has been made.                                                *)
LEMMA MadeWhenUnmergeable ==
    ASSUME NEW st, NEW s \in Nat, NEW n \in Nat, NEW top \in 0..TreeHeight,
           Piled(st, s * P(top), n, top), ~Mergeable(st), n # s * P(top),
           NEW h \in 0..top, NEW i \in Nat, n = (i + 1) * P(h)
    PROVE  st # <<>> /\ st[Len(st)].height >= h
  <1> DEFINE e == st[Len(st)]
             g == e.height
             j == e.node.index
  <1>1. st \in Seq(Entry) /\ st # <<>> /\ Ends(e) = n
    BY DEF Piled
  <1>2. e \in Entry
    BY <1>1
  <1>3. g \in 0..TreeHeight /\ j \in Nat /\ (j + 1) * P(g) = n
    BY <1>1, <1>2, EntryFacts DEF Ends
  <1>4. h \in 0..TreeHeight /\ h <= top /\ top \in Nat
    BY DimensionAssumption
  <1>5. g < top => j % 2 = 0
    BY <1>1, Unpaired
  <1> HIDE DEF e, g, j
  <1>6. g >= h
    <2> SUFFICES ASSUME g < h PROVE FALSE
      BY <1>3, <1>4
    <2>1. j + 1 \in Nat /\ i + 1 \in Nat /\ g < top
      BY <1>3, <1>4
    <2>2. (j + 1) % 2 = 0
      BY <1>3, <1>4, <2>1, EvenSpan
    <2> QED BY <1>3, <1>5, <2>1, <2>2
  <1> QED BY <1>1, <1>6 DEF g, e

LEMMA PiledHeights ==
    ASSUME NEW st, NEW from \in Nat, NEW n \in Nat, NEW top \in 0..TreeHeight,
           Piled(st, from, n, top)
    PROVE  \A i \in DOMAIN st : st[i].height \in 0..TreeHeight
  <1> TAKE i \in DOMAIN st
  <1>1. st \in Seq(Entry)
    BY DEF Piled
  <1>2. st[i] \in Entry
    BY <1>1
  <1> QED BY <1>2, EntryFacts

LEMMA PushLeafInv ==
    ASSUME TInv, PushLeaf
    PROVE  TInv'
  <1> DEFINE from == SubtreeIndex * P(height)
  <1>1. /\ TreeTypeOK /\ Running /\ Hashing
        /\ auth = [h \in Heights |-> auth[h]]
        /\ op = "build" => Building
        /\ op = "advance" => Advancing
        /\ PathInStep
    BY DEF TInv, PushLeaf
  <1>2. /\ op' = op /\ leaf' = leaf /\ height' = height /\ root' = root
        /\ next < End /\ next' = next + 1 /\ ~Mergeable(stack)
        /\ stack' = Append(stack, [height |-> 0, node |-> TreeNode(0, next)])
        /\ auth' = Collected(0, next, TreeNode(0, next))
    BY DEF PushLeaf, CanMerge, Mergeable
  <1>3. /\ height \in 0..TreeHeight /\ next \in Nat /\ leaf \in 0..Leaves-1
        /\ SubtreeIndex \in Nat /\ P(height) \in Nat \ {0}
        /\ from \in Nat
        /\ End = from + P(height) /\ End \in 0..Leaves
    BY <1>1, SubtreeFacts, PowerFacts DEF TreeTypeOK
  <1>4. Piled(stack', from, next', height)
    BY <1>1, <1>2, <1>3, PiledPush DEF Hashing
  <1>5. /\ DOMAIN auth' = Heights
        /\ auth' = [h \in Heights |-> auth'[h]]
        /\ op # "build" => auth' = auth
        /\ \A h \in Heights :
              auth'[h] = IF op = "build" /\ h = 0 /\ Sibling(leaf \div P(0)) = next
                         THEN TreeNode(0, next) ELSE auth[h]
    <2>1. 0 \in 0..TreeHeight /\ 0 # TreeHeight /\ DOMAIN auth = Heights
      BY <1>1, DimensionAssumption DEF TreeTypeOK
    <2> QED BY <1>1, <1>2, <1>3, <2>1, KeepFacts
  <1>6. TreeTypeOK'
    <2>1. next' \in 0..Leaves
      <3> HIDE DEF from
      <3> QED BY <1>2, <1>3, PowerFacts
    <2>2. \A i \in DOMAIN stack' : stack'[i].height \in 0..TreeHeight
      <3>1. next' \in Nat
        BY <1>2, <1>3
      <3> QED BY <1>3, <1>4, <3>1, PiledHeights
    <2> QED BY <1>1, <1>2, <1>5, <2>1, <2>2 DEF TreeTypeOK
  <1>7. Hashing'
    <2>1. SubtreeIndex' = SubtreeIndex
      BY <1>2 DEF SubtreeIndex
    <2>2. next' <= from + P(height)
      <3> HIDE DEF from
      <3> QED BY <1>2, <1>3
    <2> QED BY <1>2, <1>4, <2>1, <2>2 DEF Hashing
  <1>8. ASSUME op = "build" PROVE Gathered'
    <2> SUFFICES ASSUME NEW h \in Heights, Made(h, Sibling(leaf \div P(h)))'
                 PROVE  auth'[h] = TreeNode(h, Sibling(leaf \div P(h)))
      BY <1>2 DEF Gathered
    <2> DEFINE s == Sibling(leaf \div P(h))
    <2>1. h \in 0..TreeHeight /\ s \in Nat /\ P(h) \in Nat \ {0}
      BY <1>3, SiblingSpan, PType, DimensionAssumption DEF Heights
    <2>2. Made(h, s) => auth[h] = TreeNode(h, s)
      BY <1>1, <1>8 DEF Building, Gathered
    <2>3. auth'[h] = TreeNode(h, s) \/ auth'[h] = auth[h]
      BY <1>5
    <2>4. h = 0 /\ s = next => auth'[h] = TreeNode(h, s)
      BY <1>5, <1>8
    <2>5. from = 0 /\ height = TreeHeight
      BY <1>1, <1>3, <1>8 DEF Building, SubtreeIndex
    <2>6. Len(stack') \in Nat /\ stack'[Len(stack')].height = 0
      <3>1. stack \in Seq(Entry)
        BY <1>1 DEF Hashing, Piled
      <3>2. [height |-> 0, node |-> TreeNode(0, next)].height = 0
        OBVIOUS
      <3> QED BY <1>2, <3>1, <3>2
    <2>7. \/ next' > (s + 1) * P(h)
          \/ next' = (s + 1) * P(h) /\ 0 >= h
      BY <1>2, <2>6 DEF Made
    <2> HIDE DEF s
    <2>8. (s + 1) * P(h) \in Nat \ {0}
      BY <2>1
    <2>9. CASE next > (s + 1) * P(h)
      BY <2>2, <2>3, <2>9 DEF Made, s
    <2>10. CASE next = (s + 1) * P(h)
      <3>1. next # SubtreeIndex * P(height) /\ h \in 0..height
        BY <2>1, <2>5, <2>8, <2>10
      <3>2. stack # <<>> /\ stack[Len(stack)].height >= h
        BY <1>1, <1>2, <1>3, <2>1, <2>10, <3>1, MadeWhenUnmergeable DEF Hashing
      <3> QED BY <2>2, <2>3, <2>10, <3>2 DEF Made, s
    <2>11. CASE next + 1 = (s + 1) * P(h) /\ h = 0
      <3>1. s = next
        BY <1>3, <2>1, <2>11, LeafSpan
      <3> QED BY <2>4, <2>11, <3>1 DEF s
    <2>12. next \in Nat /\ next' = next + 1 /\ h \in Nat
      BY <1>2, <1>3, <2>1
    <2> QED BY <2>7, <2>8, <2>9, <2>10, <2>11, <2>12 DEF s
  <1>9. op = "build" => Building'
    BY <1>1, <1>2, <1>8 DEF Building
  <1>10. op = "advance" => Advancing'
    BY <1>1, <1>2 DEF Advancing
  <1>11. LayerRight' /\ PathInStep'
    BY <1>1, <1>2, <1>5 DEF LayerRight, PathInStep, Running
  <1> QED BY <1>1, <1>2, <1>5, <1>6, <1>7, <1>9, <1>10, <1>11 DEF TInv, Running

LEMMA MergeInv ==
    ASSUME TInv, Merge
    PROVE  TInv'
  <1> DEFINE from == SubtreeIndex * P(height)
             g == stack[Len(stack)].height
             h == g + 1
             index == (next - 1) \div Pow2[h]
             left == stack[Len(stack) - 1].node
             right == stack[Len(stack)].node
             node == Parent(Layer, Tree, h, index, left, right)
  <1>1. /\ TreeTypeOK /\ Running /\ Hashing
        /\ auth = [x \in Heights |-> auth[x]]
        /\ op = "build" => Building
        /\ op = "advance" => Advancing
        /\ PathInStep
    BY DEF TInv, Merge
  <1>2. /\ op' = op /\ leaf' = leaf /\ height' = height /\ root' = root /\ next' = next
        /\ Mergeable(stack)
        /\ stack' = Append(SubSeq(stack, 1, Len(stack) - 2), [height |-> h, node |-> node])
        /\ auth' = Collected(h, index, node)
    BY DEF Merge, CanMerge, Mergeable
  <1>3. /\ height \in 0..TreeHeight /\ next \in Nat /\ leaf \in 0..Leaves-1
        /\ SubtreeIndex \in Nat /\ P(height) \in Nat \ {0}
        /\ from \in Nat
        /\ End = from + P(height) /\ End \in 0..Leaves
    BY <1>1, SubtreeFacts, PowerFacts DEF TreeTypeOK
  <1>4. PICK k \in Nat :
            /\ h \in 1..height
            /\ left = TreeNode(g, 2 * k) /\ right = TreeNode(g, 2 * k + 1)
            /\ Begins(stack[Len(stack) - 1]) = k * P(h)
            /\ next = (k + 1) * P(h)
            /\ (next - 1) \div P(h) = k
    BY <1>1, <1>2, <1>3, PiledSiblings DEF Hashing
  <1>5. index = k /\ node = TreeNode(h, k)
    <2>1. index = k
      BY <1>4 DEF P
    <2>2. g = h - 1
      <3>1. stack \in Seq(Entry) /\ Len(stack) \in Nat /\ Len(stack) >= 2
        BY <1>1, <1>2 DEF Hashing, Piled, Mergeable
      <3>2. stack[Len(stack)] \in Entry
        BY <3>1
      <3>3. g \in Nat
        BY <3>2, EntryFacts
      <3> QED BY <3>3
    <2> HIDE DEF h, index, left, right
    <2> QED BY <1>4, <2>1, <2>2 DEF TreeNode, Parent
  <1>6. Piled(stack', from, next, height)
    BY <1>1, <1>2, <1>3, <1>4, <1>5, PiledMerge DEF Hashing
  <1>7. stack' # <<>> /\ stack'[Len(stack')].height = h
    <2>1. stack \in Seq(Entry) /\ Len(stack) \in Nat /\ Len(stack) >= 2
      BY <1>1, <1>2 DEF Hashing, Piled, Mergeable
    <2>2. SubSeq(stack, 1, Len(stack) - 2) \in Seq(Entry)
      <3>1. \A i \in 1..Len(stack)-2 : stack[i] \in Entry
        BY <2>1
      <3> QED BY <2>1, <3>1, SubSeqProperties
    <2> DEFINE e == [height |-> h, node |-> node]
    <2>3. e.height = h
      OBVIOUS
    <2>4. stack' = Append(SubSeq(stack, 1, Len(stack) - 2), e)
      BY <1>2
    <2> HIDE DEF h, node, e
    <2> DEFINE sub == SubSeq(stack, 1, Len(stack) - 2)
    <2>5. sub \in Seq(Entry) /\ stack' = Append(sub, e)
      BY <2>2, <2>4
    <2> HIDE DEF sub
    <2>6. Len(stack') = Len(sub) + 1 /\ stack'[Len(sub) + 1] = e /\ Len(sub) \in Nat
      BY <2>5
    <2>7. stack' # <<>>
      BY <2>5, <2>6
    <2> QED BY <2>3, <2>6, <2>7
  <1>8. h \in 1..TreeHeight /\ h \in 0..TreeHeight /\ P(h) \in Nat \ {0}
    <2>1. h \in 1..height /\ height \in 0..TreeHeight
      BY <1>3, <1>4
    <2> HIDE DEF h
    <2>2. h \in 1..TreeHeight /\ h \in 0..TreeHeight
      BY <2>1, DimensionAssumption
    <2> QED BY <2>2, PType
  <1> HIDE DEF g, h, index, left, right, node
  <1>9. op = "build" /\ h = TreeHeight => index = 0
    <2> SUFFICES ASSUME op = "build", h = TreeHeight PROVE index = 0
      OBVIOUS
    <2>1. P(h) = Leaves /\ next <= Leaves
      BY <1>3, PowerFacts, <1>1 DEF Hashing, P, Leaves, TreeTypeOK
    <2>2. (k + 1) * P(h) <= P(h)
      BY <1>4, <2>1
    <2>3. (k + 1) * P(h) = k * P(h) + P(h)
      BY <1>4, <1>8
    <2>4. k * P(h) \in Nat
      BY <1>4, <1>8
    <2>5. k * P(h) = 0 * P(h)
      BY <1>8, <2>2, <2>3, <2>4
    <2>6. k = 0
      BY <1>4, <1>8, <2>5, Cancel
    <2> QED BY <1>5, <2>6
  <1>10. /\ DOMAIN auth' = Heights
         /\ auth' = [x \in Heights |-> auth'[x]]
         /\ op # "build" => auth' = auth
         /\ \A x \in Heights :
               auth'[x] = IF op = "build" /\ x = h /\ Sibling(leaf \div P(h)) = k
                          THEN TreeNode(h, k) ELSE auth[x]
    <2>1. DOMAIN auth = Heights
      BY <1>1 DEF TreeTypeOK
    <2>2. index \in Nat
      BY <1>4, <1>5
    <2> QED BY <1>1, <1>2, <1>3, <1>5, <1>8, <1>9, <2>1, <2>2, KeepFacts, SMTT(30)
  <1>11. TreeTypeOK'
    <2>1. \A i \in DOMAIN stack' : stack'[i].height \in 0..TreeHeight
      BY <1>3, <1>6, PiledHeights
    <2> QED BY <1>1, <1>2, <1>10, <2>1 DEF TreeTypeOK
  <1>12. Hashing'
    <2>1. SubtreeIndex' = SubtreeIndex
      BY <1>2 DEF SubtreeIndex
    <2> QED BY <1>1, <1>2, <1>6, <2>1 DEF Hashing
  <1>13. ASSUME op = "build" PROVE Gathered'
    <2> SUFFICES ASSUME NEW x \in Heights, Made(x, Sibling(leaf \div P(x)))'
                 PROVE  auth'[x] = TreeNode(x, Sibling(leaf \div P(x)))
      BY <1>2 DEF Gathered
    <2> DEFINE s == Sibling(leaf \div P(x))
    <2>1. x \in 0..TreeHeight /\ s \in Nat /\ P(x) \in Nat \ {0}
      BY <1>3, SiblingSpan, PType, DimensionAssumption DEF Heights
    <2>2. Made(x, s) => auth[x] = TreeNode(x, s)
      BY <1>1, <1>13 DEF Building, Gathered
    <2>3. auth'[x] = TreeNode(x, s) \/ auth'[x] = auth[x]
      BY <1>10
    <2>4. x = h /\ s = k => auth'[x] = TreeNode(x, s)
      BY <1>10, <1>13
    <2>5. \/ next > (s + 1) * P(x)
          \/ next = (s + 1) * P(x) /\ h >= x
      BY <1>2, <1>7 DEF Made
    <2> HIDE DEF s
    <2>6. CASE next > (s + 1) * P(x)
      BY <2>2, <2>3, <2>6 DEF Made, s
    <2>7. CASE next = (s + 1) * P(x) /\ h > x
      <3>1. stack # <<>> /\ g \in Nat /\ g >= x
        <4>1. stack \in Seq(Entry) /\ Len(stack) \in Nat /\ Len(stack) >= 2
          BY <1>1, <1>2 DEF Hashing, Piled, Mergeable
        <4>2. stack # <<>> /\ stack[Len(stack)] \in Entry
          BY <4>1
        <4>3. g \in Nat
          BY <4>2, EntryFacts DEF g
        <4>4. h = g + 1 /\ x \in Nat
          BY <2>1 DEF h
        <4> QED BY <2>7, <4>2, <4>3, <4>4
      <3> QED BY <2>2, <2>3, <2>7, <3>1 DEF Made, s, g
    <2>8. CASE next = (s + 1) * P(x) /\ h = x
      <3>1. (s + 1) * P(h) = (k + 1) * P(h) /\ s + 1 \in Nat /\ k + 1 \in Nat
        BY <1>4, <2>1, <2>8
      <3>2. s + 1 = k + 1
        BY <1>8, <3>1, Cancel
      <3>3. s = k
        BY <1>4, <2>1, <3>2
      <3> QED BY <2>4, <2>8, <3>3 DEF s
    <2>9. h \in Nat /\ x \in Nat
      BY <1>8, <2>1
    <2> QED BY <2>5, <2>6, <2>7, <2>8, <2>9
  <1>14. op = "build" => Building'
    BY <1>1, <1>2, <1>13 DEF Building
  <1>15. op = "advance" => Advancing'
    BY <1>1, <1>2 DEF Advancing
  <1>16. LayerRight' /\ PathInStep'
    BY <1>1, <1>2, <1>10 DEF LayerRight, PathInStep, Running
  <1> QED BY <1>1, <1>2, <1>10, <1>11, <1>12, <1>14, <1>15, <1>16 DEF TInv, Running

(* A finished subtree leaves its root on the stack. *)
LEMMA HashedRoot ==
    ASSUME TInv, Running, Hashed
    PROVE  /\ next = SubtreeIndex * P(height) + P(height)
           /\ stack # <<>> /\ Len(stack) = 1
           /\ stack[1].height = height
           /\ stack[1].node = TreeNode(height, SubtreeIndex)
  <1>1. TreeTypeOK /\ Hashing /\ (op = "build" => Building) /\ (op = "advance" => Advancing)
    BY DEF TInv
  <1>2. /\ height \in 0..TreeHeight /\ SubtreeIndex \in Nat
        /\ SubtreeIndex * P(height) \in Nat
        /\ End = SubtreeIndex * P(height) + P(height) /\ End \in 0..Leaves
    BY <1>1, SubtreeFacts
  <1>3. next = End /\ ~Mergeable(stack)
    BY DEF Hashed, CanMerge, Mergeable
  <1>4. next \in Nat
    BY <1>2, <1>3, PowerFacts
  <1>5. /\ stack # <<>> /\ Len(stack) = 1
        /\ stack[1].height = height /\ stack[1].node = TreeNode(height, SubtreeIndex)
    BY <1>1, <1>2, <1>3, <1>4, PiledDone DEF Hashing
  <1> QED BY <1>2, <1>3, <1>5

LEMMA PathNode ==
    ASSUME NEW l, NEW h \in Heights
    PROVE  AuthPath("key", Layer, Tree, l)[h] = TreeNode(h, Sibling(l \div P(h)))
  BY DEF AuthPath, TreeNode, P

LEMMA FinishBuildInv ==
    ASSUME TInv, FinishBuild
    PROVE  TInv'
  <1>1. /\ TreeTypeOK /\ Running /\ Building /\ op = "build" /\ Hashed
        /\ auth = [h \in Heights |-> auth[h]]
    BY DEF TInv, FinishBuild, Running
  <1>2. /\ op' = "idle" /\ stack' = <<>> /\ root' = stack[1].node
        /\ leaf' = leaf /\ height' = height /\ next' = next /\ auth' = auth
    BY DEF FinishBuild
  <1>3. height = TreeHeight /\ SubtreeIndex = 0 /\ P(height) = Leaves
    BY <1>1 DEF Building, SubtreeIndex, P, Leaves
  <1>4. next = Leaves /\ stack # <<>> /\ Len(stack) = 1
        /\ stack[1].height = height /\ stack[1].node = TreeNode(height, 0)
    <2>1. 0 * Leaves + Leaves = Leaves
      BY PowerFacts
    <2> QED BY <1>1, <1>3, <2>1, HashedRoot
  <1>5. root' = Root("key", Layer, Tree)
    BY <1>2, <1>3, <1>4 DEF TreeNode, Root
  <1>6. ASSUME NEW h \in Heights
        PROVE  auth[h] = AuthPath("key", Layer, Tree, leaf)[h]
    <2> DEFINE s == Sibling(leaf \div P(h))
    <2>1. s \in Nat /\ s * P(h) \in Nat /\ s * P(h) + P(h) <= Leaves
          /\ P(h) \in Nat \ {0} /\ h < TreeHeight
      BY <1>1, SiblingSpan, PType, DimensionAssumption DEF TreeTypeOK, Heights
    <2> HIDE DEF s
    <2>2. (s + 1) * P(h) = s * P(h) + P(h)
      BY <2>1
    <2>3. next = (s + 1) * P(h) \/ next > (s + 1) * P(h)
      BY <1>4, <2>1, <2>2, PowerFacts
    <2>4. stack[Len(stack)].height >= h
      BY <1>3, <1>4, <2>1, DimensionAssumption DEF Heights
    <2>5. Made(h, s)
      BY <1>4, <2>3, <2>4 DEF Made
    <2> QED BY <1>1, <2>5, PathNode DEF Building, Gathered, s
  <1>7. auth = AuthPath("key", Layer, Tree, leaf)
    BY <1>1, <1>6 DEF AuthPath
  <1>8. LayerRight' /\ PathInStep'
    BY <1>2, <1>5, <1>7 DEF LayerRight, PathInStep
  <1>9. TreeTypeOK'
    BY <1>1, <1>2 DEF TreeTypeOK
  <1> QED BY <1>1, <1>2, <1>8, <1>9 DEF TInv, Running

LEMMA StartAdvanceInv ==
    ASSUME TInv, StartAdvance
    PROVE  TInv'
  <1>1. /\ TreeTypeOK /\ op = "idle" /\ stack = <<>> /\ leaf + 1 < Leaves
        /\ root = Root("key", Layer, Tree)
        /\ auth = AuthPath("key", Layer, Tree, leaf)
        /\ auth = [h \in Heights |-> auth[h]]
    BY DEF TInv, StartAdvance, LayerRight, Running
  <1>2. /\ op' = "advance" /\ height' = 0 /\ next' = FirstLeaf(leaf, 0)
        /\ leaf' = leaf /\ stack' = <<>> /\ auth' = auth /\ root' = root
    BY <1>1 DEF StartAdvance
  <1>3. ChangedLevels(leaf) \in 1..TreeHeight
    BY <1>1, ChangedLevelsBound DEF TreeTypeOK
  <1>4. Advancing'
    BY <1>1, <1>2, <1>3, DimensionAssumption DEF Advancing
  <1> DEFINE s == Sibling((leaf + 1) \div P(0))
  <1>5. s \in Nat /\ P(0) \in Nat \ {0} /\ s * P(0) \in Nat /\ s * P(0) + P(0) <= Leaves
        /\ next' = s * P(0) /\ SubtreeIndex' = s
    <2>1. 0 \in Heights /\ 0 \in 0..TreeHeight /\ leaf + 1 \in 0..Leaves-1
      BY <1>1, PowerFacts, DimensionAssumption DEF Heights, TreeTypeOK
    <2>2. next' = s * P(0) /\ SubtreeIndex' = s
      BY <1>2 DEF FirstLeaf, P, SubtreeIndex
    <2> HIDE DEF s
    <2>3. s \in Nat /\ s * P(0) \in Nat /\ s * P(0) + P(0) <= Leaves
      BY <2>1, SiblingSpan DEF s
    <2> QED BY <2>1, <2>2, <2>3, PType
  <1> HIDE DEF s
  <1>6. Hashing'
    <2>1. Piled(<<>>, s * P(0), s * P(0), 0)
      BY <1>5, EmptyPile, DimensionAssumption
    <2> QED BY <1>2, <1>5, <2>1 DEF Hashing
  <1>7. TreeTypeOK'
    <2>1. next' \in 0..Leaves
      BY <1>5, PowerFacts
    <2> QED BY <1>1, <1>2, <2>1, DimensionAssumption DEF TreeTypeOK
  <1>8. LayerRight' /\ PathInStep'
    BY <1>1, <1>2, DimensionAssumption DEF LayerRight, PathInStep, Heights
  <1> QED BY <1>1, <1>2, <1>4, <1>6, <1>7, <1>8 DEF TInv, Running

LEMMA FinishSubtreeInv ==
    ASSUME TInv, FinishSubtree
    PROVE  TInv'
  <1>1. /\ TreeTypeOK /\ Running /\ Advancing /\ op = "advance" /\ Hashed /\ PathInStep
        /\ auth = [h \in Heights |-> auth[h]]
    BY DEF TInv, FinishSubtree, Running
  <1>2. /\ auth' = [auth EXCEPT ![height] = stack[1].node]
        /\ stack' = <<>> /\ root' = root
    BY DEF FinishSubtree
  <1>3. height \in Heights /\ leaf + 1 \in 0..Leaves-1 /\ leaf \in 0..Leaves-1
    BY <1>1, SubtreeFacts DEF TreeTypeOK
  <1>4. stack[1].node = AuthPath("key", Layer, Tree, leaf + 1)[height]
    <2>1. SubtreeIndex = Sibling((leaf + 1) \div P(height))
      BY <1>1 DEF SubtreeIndex
    <2> QED BY <1>1, <1>3, <2>1, HashedRoot, PathNode
  <1>5. ASSUME NEW h \in Heights
        PROVE  auth'[h] = AuthPath("key", Layer, Tree,
                                   IF h < height + 1 THEN leaf + 1 ELSE leaf)[h]
    <2>1. auth[h] = AuthPath("key", Layer, Tree, IF h < height THEN leaf + 1 ELSE leaf)[h]
      BY <1>1 DEF PathInStep
    <2>2. h \in Nat /\ height \in Nat
      BY <1>3 DEF Heights
    <2>3. CASE h = height
      BY <1>1, <1>2, <1>3, <1>4, <2>2, <2>3
    <2>4. CASE h # height
      <3>1. auth'[h] = auth[h] /\ (h < height + 1 <=> h < height)
        BY <1>1, <1>2, <2>2, <2>4
      <3> QED BY <2>1, <3>1
    <2> QED BY <2>3, <2>4
  <1>6. DOMAIN auth' = Heights /\ auth' = [h \in Heights |-> auth'[h]]
    BY <1>1, <1>2
  <1>7. ChangedLevels(leaf) \in 1..TreeHeight
    BY <1>1, <1>3, ChangedLevelsBound DEF Advancing
  <1>8. CASE height + 1 < ChangedLevels(leaf)
    <2>1. height' = height + 1 /\ next' = FirstLeaf(leaf, height + 1) /\ op' = op /\ leaf' = leaf
      BY <1>8 DEF FinishSubtree
    <2> DEFINE s == Sibling((leaf + 1) \div P(height + 1))
               b == P(height + 1)
    <2>2. height + 1 \in Heights /\ height + 1 \in 0..TreeHeight
      BY <1>3, <1>7, <1>8, DimensionAssumption DEF Heights
    <2>3. s \in Nat /\ b \in Nat \ {0} /\ s * b \in Nat /\ s * b + b <= Leaves
          /\ next' = s * b /\ SubtreeIndex' = s
      <3>1. next' = s * b /\ SubtreeIndex' = s
        BY <1>1, <2>1 DEF FirstLeaf, P, SubtreeIndex
      <3>2. s \in Nat /\ s * b \in Nat /\ s * b + b <= Leaves
        BY <1>3, <2>2, SiblingSpan
      <3>3. b \in Nat \ {0}
        BY <2>2, PType
      <3> QED BY <3>1, <3>2, <3>3
    <2>4. P(height)' = b
      BY <2>1 DEF P
    <2> HIDE DEF s, b
    <2>5. Hashing'
      <3>1. Piled(<<>>, s * b, s * b, height + 1)
        BY <2>2, <2>3, EmptyPile
      <3>2. s * b <= s * b + b
        BY <2>3
      <3> QED BY <1>2, <2>1, <2>3, <2>4, <3>1, <3>2 DEF Hashing
    <2>6. Advancing'
      BY <1>1, <1>2, <1>8, <2>1 DEF Advancing
    <2>7. TreeTypeOK'
      <3>1. next' \in 0..Leaves
        BY <2>3, PowerFacts
      <3> QED BY <1>1, <1>2, <1>6, <2>1, <2>2, <3>1 DEF TreeTypeOK
    <2>8. LayerRight' /\ PathInStep'
      BY <1>1, <1>5, <2>1 DEF LayerRight, PathInStep
    <2> QED BY <1>1, <1>2, <1>6, <2>1, <2>5, <2>6, <2>7, <2>8 DEF TInv, Running
  <1>9. CASE ~(height + 1 < ChangedLevels(leaf))
    <2>1. op' = "idle" /\ leaf' = leaf + 1 /\ height' = height /\ next' = next
      BY <1>9 DEF FinishSubtree
    <2>2. ASSUME NEW h \in Heights
          PROVE  auth'[h] = AuthPath("key", Layer, Tree, leaf + 1)[h]
      <3>1. CASE h < height + 1
        BY <1>5, <3>1
      <3>2. CASE ~(h < height + 1)
        <4>1. h > TrailingOnes(leaf)
          <5>1. TrailingOnes(leaf) \in 0..TreeHeight
            BY <1>3, TrailingOnesFacts
          <5> QED BY <1>3, <1>9, <3>2, <5>1, DimensionAssumption DEF ChangedLevels, Heights
        <4>2. (leaf + 1) \div P(h) = leaf \div P(h)
          BY <1>3, <4>1, HigherBitsKept DEF P
        <4> QED BY <1>5, <3>2, <4>2, PathNode
      <3> QED BY <3>1, <3>2
    <2>3. auth' = AuthPath("key", Layer, Tree, leaf + 1)
      BY <1>6, <2>2 DEF AuthPath
    <2>4. LayerRight' /\ PathInStep'
      BY <1>1, <1>2, <2>1, <2>3 DEF LayerRight, PathInStep, Advancing
    <2>5. TreeTypeOK'
      BY <1>1, <1>2, <1>3, <1>6, <2>1 DEF TreeTypeOK
    <2> QED BY <1>2, <1>6, <2>1, <2>4, <2>5 DEF TInv, Running
  <1> QED BY <1>8, <1>9

LEMMA HashFailsInv ==
    ASSUME TInv, HashFails
    PROVE  TInv'
  <1>1. /\ TreeTypeOK /\ Running /\ PathInStep
        /\ auth = [h \in Heights |-> auth[h]]
        /\ op = "build" => Building
    BY DEF TInv, HashFails
  <1>2. /\ op' = "failed" /\ stack' = <<>>
        /\ leaf' = leaf /\ height' = height /\ next' = next /\ auth' = auth /\ root' = root
    BY DEF HashFails
  <1>3. TreeTypeOK'
    BY <1>1, <1>2 DEF TreeTypeOK
  <1>4. LayerRight' /\ PathInStep'
    BY <1>1, <1>2 DEF LayerRight, PathInStep, Running, Building
  <1> QED BY <1>1, <1>2, <1>3, <1>4 DEF TInv, Running

---------------------------------------------------------------------------
LEMMA TreeHashInv == Spec => []TInv
  <1>1. TInv /\ [Next]_vars => TInv'
    <2> SUFFICES ASSUME TInv, [Next]_vars PROVE TInv'
      OBVIOUS
    <2>1. CASE UNCHANGED vars
      BY <2>1 DEF vars, TInv, TreeTypeOK, Running, Hashing, SubtreeIndex, Building, Gathered,
                  Made, Advancing, LayerRight, PathInStep
    <2>2. CASE Next
      BY <2>2, PushLeafInv, MergeInv, FinishBuildInv, StartAdvanceInv,
         FinishSubtreeInv, HashFailsInv DEF Next
    <2> QED BY <2>1, <2>2
  <1> QED BY <1>1, TreeHashInit, PTL DEF Spec

(* The indices computed stay within the tree they were made for: every     *)
(* subtree treehash_root is given lies in it, aligned.                     *)
THEOREM TreeHashType == Spec => []TreeTypeOK
  <1>1. TInv => TreeTypeOK
    BY DEF TInv
  <1> QED BY <1>1, TreeHashInv, PTL

(* The stack fits in the height + 1 nodes treehash and treehash_root       *)
(* allocate for it, at every height.                                       *)
THEOREM TreeHashStackFits == Spec => []StackFits
  <1>1. TInv => StackFits
    <2> SUFFICES ASSUME TInv PROVE StackFits
      OBVIOUS
    <2>1. CASE Running
      <3>1. /\ TreeTypeOK /\ Hashing
            /\ op = "build" => Building
            /\ op = "advance" => Advancing
        BY <2>1 DEF TInv
      <3>2. height \in 0..TreeHeight /\ next \in Nat /\ SubtreeIndex * P(height) \in Nat
        BY <2>1, <3>1, SubtreeFacts, PowerFacts DEF TreeTypeOK
      <3> QED BY <3>1, <3>2, PiledFits DEF Hashing, StackFits
    <2>2. CASE ~Running
      <3>1. stack = <<>> /\ height \in Nat
        BY <2>2, DimensionAssumption DEF TInv, TreeTypeOK
      <3> QED BY <3>1 DEF StackFits
    <2> QED BY <2>1, <2>2
  <1> QED BY <1>1, TreeHashInv, PTL

(* treehash and advance_auth_path agree: a path moved on leaf by leaf is   *)
(* the one that hashing the whole tree again would give.                   *)
THEOREM TreeHashLayerRight == Spec => []LayerRight
  <1>1. TInv => LayerRight
    BY DEF TInv
  <1> QED BY <1>1, TreeHashInv, PTL

(* A path in the middle of moving is the new one up to the height reached  *)
(* and the old one above it, also when a hash fails.                       *)
THEOREM TreeHashPathInStep == Spec => []PathInStep
  <1>1. TInv => PathInStep
    BY DEF TInv
  <1> QED BY <1>1, TreeHashInv, PTL

---------------------------------------------------------------------------
(* TreeHash implements LayerTraversal: a layer being built shows nothing   *)
(* until it is whole, and one that moves shows a node of its path at a     *)
(* time.                                                                   *)

Mode == CASE op = "build" -> "building" [] op = "idle" -> "ready"
          [] op = "advance" -> "moving" [] op = "failed" -> "failed"

Shown == IF root = NoNode THEN [h \in Heights |-> NoNode] ELSE auth

PathOf == [l \in 0..Leaves-1 |-> AuthPath("key", Layer, Tree, l)]

LEMMA RootMade == Root("key", Layer, Tree) # NoNode
  BY DEF Root, NoNode, Node

LEMMA PathsAre ==
    ASSUME NEW l \in 0..Leaves-1
    PROVE  /\ PathOf[l] = AuthPath("key", Layer, Tree, l)
           /\ \A h \in Heights : PathOf[l][h] = TreeNode(h, Sibling(l \div P(h)))
  BY PathNode DEF PathOf

(* What hides inside a call, and a call that fails *)
LEMMA InsideStep ==
    ASSUME TInv, PushLeaf \/ Merge \/ HashFails
    PROVE  [Layered!Next]_(Layered!vars)
  <1>1. /\ TreeTypeOK /\ Running
        /\ op = "build" => Building
        /\ auth = [h \in Heights |-> auth[h]]
    BY DEF TInv, PushLeaf, Merge, HashFails
  <1>2. leaf' = leaf /\ root' = root
    BY DEF PushLeaf, Merge, HashFails
  <1>3. Shown' = Shown
    <2>1. CASE op = "build"
      BY <1>1, <1>2, <2>1 DEF Building, Shown
    <2>2. CASE op # "build"
      BY <1>2, <2>2 DEF PushLeaf, Merge, HashFails, Collected, Shown
    <2> QED BY <2>1, <2>2
  <1>4. CASE PushLeaf \/ Merge
    <2>1. op' = op
      BY <1>4 DEF PushLeaf, Merge
    <2>2. Mode' = Mode
      BY <2>1 DEF Mode
    <2> QED BY <1>2, <1>3, <2>2 DEF Layered!vars, Mode, Shown
  <1>5. CASE HashFails
    <2>1. Mode \in {"building", "moving"} /\ Mode' = "failed"
      BY <1>1, <1>5 DEF HashFails, Running, Mode
    <2>2. Layered!Fail
      BY <1>2, <1>3, <2>1 DEF Layered!Fail, Mode, Shown
    <2> QED BY <2>2 DEF Layered!Next
  <1> QED BY <1>4, <1>5

LEMMA FinishBuildStep ==
    ASSUME TInv, TInv', FinishBuild
    PROVE  Layered!Build
  <1>1. op = "build" /\ op' = "idle" /\ leaf' = leaf
    BY DEF FinishBuild
  <1>2. root' = Root("key", Layer, Tree) /\ auth' = AuthPath("key", Layer, Tree, leaf)
        /\ leaf \in 0..Leaves-1
    BY <1>1 DEF TInv, LayerRight, TreeTypeOK
  <1>3. Shown' = PathOf[leaf]
    BY <1>2, RootMade, PathsAre DEF Shown
  <1>4. Mode = "building" /\ Mode' = "ready"
    BY <1>1 DEF Mode
  <1> QED BY <1>1, <1>2, <1>3, <1>4 DEF Layered!Build, Mode, Shown, PathOf

LEMMA StartAdvanceStep ==
    ASSUME TInv, StartAdvance
    PROVE  Layered!Move
  <1>1. op = "idle" /\ op' = "advance" /\ leaf + 1 < Leaves
        /\ leaf' = leaf /\ auth' = auth /\ root' = root /\ leaf \in 0..Leaves-1
    BY DEF TInv, TreeTypeOK, StartAdvance
  <1>2. Mode = "ready" /\ Mode' = "moving" /\ Shown' = Shown
    BY <1>1 DEF Mode, Shown
  <1>3. leaf + 1 \in 0..Leaves-1
    BY <1>1, PowerFacts
  <1> QED BY <1>1, <1>2, <1>3 DEF Layered!Move, Mode, Shown

(* Each subtree of the loop gives a node that does change, and the loop    *)
(* ends with the last of them.                                             *)
LEMMA FinishSubtreeStep ==
    ASSUME TInv, TInv', FinishSubtree
    PROVE  height \in Heights /\ Layered!Replace(height)
  <1>1. /\ TreeTypeOK /\ Running /\ Advancing /\ op = "advance" /\ Hashed /\ PathInStep
        /\ auth = [h \in Heights |-> auth[h]]
    BY DEF TInv, FinishSubtree, Running
  <1>2. /\ auth' = [auth EXCEPT ![height] = stack[1].node]
        /\ stack' = <<>> /\ root' = root
    BY DEF FinishSubtree
  <1>3. /\ height \in Heights /\ leaf + 1 \in 0..Leaves-1 /\ leaf \in 0..Leaves-1
        /\ leaf + 1 < Leaves /\ root = Root("key", Layer, Tree)
    BY <1>1, SubtreeFacts DEF TreeTypeOK, Advancing
  <1>4. stack[1].node = PathOf[leaf + 1][height]
    <2>1. SubtreeIndex = Sibling((leaf + 1) \div P(height))
      BY <1>1 DEF SubtreeIndex
    <2> QED BY <1>1, <1>3, <2>1, HashedRoot, PathsAre
  <1>5. Shown = auth /\ Shown' = auth'
    BY <1>2, <1>3, RootMade DEF Shown
  <1>6. height \in Nat /\ TrailingOnes(leaf) \in Int /\ height <= TrailingOnes(leaf)
    BY <1>1, <1>3, TrailingOnesFacts DEF Advancing, ChangedLevels, Heights
  <1>7. \A h \in Heights :
           h <= TrailingOnes(leaf) => PathOf[leaf][h] # PathOf[leaf + 1][h]
    <2> SUFFICES ASSUME NEW h \in Heights, h <= TrailingOnes(leaf)
                 PROVE  PathOf[leaf][h] # PathOf[leaf + 1][h]
      OBVIOUS
    <2>1. Sibling(leaf \div P(h)) # Sibling((leaf + 1) \div P(h))
      BY <1>3, ChangedNodes
    <2>2. PathOf[leaf][h] = TreeNode(h, Sibling(leaf \div P(h)))
          /\ PathOf[leaf + 1][h] = TreeNode(h, Sibling((leaf + 1) \div P(h)))
      BY <1>3, PathsAre
    <2>3. \A i, j : TreeNode(h, i) = TreeNode(h, j) => i = j
      BY DEF TreeNode, Node
    <2> QED BY <2>1, <2>2, <2>3
  <1>8. \A h \in Heights : auth[h] = PathOf[IF h < height THEN leaf + 1 ELSE leaf][h]
    <2> SUFFICES ASSUME NEW h \in Heights
                 PROVE  auth[h] = PathOf[IF h < height THEN leaf + 1 ELSE leaf][h]
      OBVIOUS
    <2>1. auth[h] = AuthPath("key", Layer, Tree, IF h < height THEN leaf + 1 ELSE leaf)[h]
      BY <1>1 DEF PathInStep
    <2> QED BY <1>3, <2>1, PathsAre
  <1>9. auth[height] # PathOf[leaf + 1][height]
    BY <1>3, <1>6, <1>7, <1>8
  <1>10. \A g \in Heights : g < height => auth[g] = PathOf[leaf + 1][g]
    BY <1>8
  <1>11. auth' = [auth EXCEPT ![height] = PathOf[leaf + 1][height]]
    BY <1>2, <1>4
  <1>12. IF auth' = PathOf[leaf + 1]
         THEN Mode' = "ready" /\ leaf' = leaf + 1
         ELSE Mode' = Mode /\ leaf' = leaf
    <2>1. CASE height + 1 < ChangedLevels(leaf)
      <3>1. op' = op /\ leaf' = leaf
        BY <2>1 DEF FinishSubtree
      <3>2. height + 1 \in Heights /\ height + 1 <= TrailingOnes(leaf)
        BY <1>3, <1>6, <2>1, ChangedLevelsBound, DimensionAssumption DEF ChangedLevels, Heights
      <3>3. auth'[height + 1] = auth[height + 1]
        BY <1>1, <1>2, <1>6, <3>2
      <3>4. auth[height + 1] = PathOf[leaf][height + 1]
        BY <1>6, <1>8, <3>2
      <3>5. auth' # PathOf[leaf + 1]
        BY <1>7, <3>2, <3>3, <3>4
      <3> QED BY <3>1, <3>5 DEF Mode
    <2>2. CASE ~(height + 1 < ChangedLevels(leaf))
      <3>1. op' = "idle" /\ leaf' = leaf + 1
        BY <2>2 DEF FinishSubtree
      <3>2. auth' = AuthPath("key", Layer, Tree, leaf + 1)
        BY <3>1 DEF TInv, LayerRight
      <3>3. auth' = PathOf[leaf + 1]
        BY <1>3, <3>2, PathsAre
      <3> QED BY <3>1, <3>3 DEF Mode
    <2> QED BY <2>1, <2>2
  <1>13. Mode = "moving"
    BY <1>1 DEF Mode
  <1> QED BY <1>2, <1>3, <1>5, <1>9, <1>10, <1>11, <1>12, <1>13
          DEF Layered!Replace, Mode, Shown, PathOf

LEMMA LayerStep ==
    ASSUME TInv, TInv', [Next]_vars
    PROVE  [Layered!Next]_(Layered!vars)
  <1>1. CASE UNCHANGED vars
    BY <1>1 DEF vars, Layered!vars
  <1>2. CASE Next
    BY <1>2, InsideStep, FinishBuildStep, StartAdvanceStep, FinishSubtreeStep
       DEF Next, Layered!Next
  <1> QED BY <1>1, <1>2

(* Building and moving a layer, leaf by leaf and pair by pair, is what     *)
(* LayerTraversal says of it: whole at once when built, and moved to the   *)
(* next leaf by replacing just the nodes that differ, from the lowest up.  *)
THEOREM TreeHashImplementsLayer == Spec => LayerRefines
  <1>1. Init => Layered!Init
    BY DEF Init, Layered!Init
  <1>2. TInv /\ TInv' /\ [Next]_vars => [Layered!Next]_(Layered!vars)
    BY LayerStep
  <1> QED BY TreeHashInv, <1>1, <1>2, PTL DEF Spec, LayerRefines, Layered!Spec
==========================================================================
