------------------------ MODULE HypertreeTheorems -------------------------
(***************************************************************************)
(* Arithmetic of positions in the hash tree: how the trees and leaves of   *)
(* one layer follow from those of the layer below, which nodes of an       *)
(* authentication path one leaf shares with the next.  And verification:   *)
(* why an honest signature is accepted, and what an accepted one is made   *)
(* of.                                                                     *)
(***************************************************************************)
EXTENDS Hypertree, Arithmetic

---------------------------------------------------------------------------
(* Powers *)
LEMMA DimensionFacts ==
    /\ FullHeight \in Nat \ {0}
    /\ \A l \in Layers : /\ TreeHeight * l \in 0..FullHeight
                          /\ TreeHeight * (l + 1) \in 0..FullHeight
                          /\ TreeHeight * (l + 1) = TreeHeight * l + TreeHeight
    /\ TreeHeight \in 0..FullHeight
  <1>1. FullHeight \in Nat \ {0}
    BY DimensionAssumption DEF FullHeight
  <1>2. ASSUME NEW l \in Layers
        PROVE  /\ TreeHeight * l \in 0..FullHeight
               /\ TreeHeight * (l + 1) \in 0..FullHeight
               /\ TreeHeight * (l + 1) = TreeHeight * l + TreeHeight
    <2>1. PICK k \in Nat : D = (l + 1) + k
      <3>1. D - l - 1 \in Nat /\ D = (l + 1) + (D - l - 1)
        BY DimensionAssumption DEF Layers
      <3> QED BY <3>1
    <2>2. l \in Nat
      BY DimensionAssumption DEF Layers
    <2>3. FullHeight = TreeHeight * (l + 1) + TreeHeight * k
      BY <2>1, <2>2, DimensionAssumption DEF FullHeight
    <2>4. TreeHeight * (l + 1) = TreeHeight * l + TreeHeight
      BY <2>2, DimensionAssumption
    <2>5. TreeHeight * k \in Nat /\ TreeHeight * l \in Nat
      BY <2>1, <2>2, DimensionAssumption
    <2> QED BY <1>1, <2>3, <2>4, <2>5, DimensionAssumption
  <1>3. 0 \in Layers
    BY DimensionAssumption DEF Layers
  <1>4. TreeHeight * (0 + 1) = TreeHeight
    BY DimensionAssumption
  <1> QED BY <1>1, <1>2, <1>3, <1>4

LEMMA PowerFacts ==
    /\ Pow2[0] = 1
    /\ \A k \in 0..FullHeight : Pow2[k] \in Nat \ {0}
    /\ Leaves \in Nat \ {0}
    /\ Leaves >= 2
    /\ MaxIdx \in Nat
    /\ \A l \in Layers : Pow2[TreeHeight * (l + 1)] = Pow2[TreeHeight * l] * Leaves
  <1>1. \A k \in 0..FullHeight : Pow2[k] \in Nat \ {0}
    BY DimensionFacts, Pow2Assumption
  <1>2. Pow2[0] = 1
    <2>1. Pow2[0 + 1] = Pow2[0] * Pow2[1]
      BY DimensionFacts, Pow2Assumption
    <2> QED BY <1>1, <2>1, DimensionFacts, Pow2Assumption
  <1>3. \A l \in Layers : Pow2[TreeHeight * (l + 1)] = Pow2[TreeHeight * l] * Leaves
    BY DimensionFacts, Pow2Assumption, SMTT(30) DEF Leaves
  <1>4. Leaves >= 2
    <2>1. TreeHeight - 1 \in 0..FullHeight /\ 1 + (TreeHeight - 1) = TreeHeight
      BY DimensionFacts, DimensionAssumption
    <2>2. Leaves = 2 * Pow2[TreeHeight - 1]
      BY <2>1, DimensionFacts, Pow2Assumption DEF Leaves
    <2>3. Pow2[TreeHeight - 1] \in Nat \ {0}
      BY <1>1, <2>1
    <2> QED BY <2>2, <2>3
  <1> QED BY <1>1, <1>2, <1>3, <1>4, DimensionFacts DEF MaxIdx, Leaves

---------------------------------------------------------------------------
(* Positions *)
LEMMA PositionType ==
    ASSUME NEW idx \in Nat, NEW l \in Layers
    PROVE  TreeIdx(idx, l) \in Nat /\ LeafIdx(idx, l) \in 0..Leaves-1
  <1>1. Pow2[TreeHeight * l] \in Nat \ {0} /\ Pow2[TreeHeight * (l + 1)] \in Nat \ {0}
    BY DimensionFacts, PowerFacts
  <1>2. idx \div Pow2[TreeHeight * l] \in Nat
    BY <1>1, DivMod
  <1> QED BY <1>1, <1>2, PowerFacts, DivMod DEF TreeIdx, LeafIdx

(* The lowest layer enumerates the indices. *)
LEMMA LowestPosition ==
    ASSUME NEW idx \in Nat
    PROVE  idx = Leaves * TreeIdx(idx, 0) + LeafIdx(idx, 0)
  <1>1. TreeHeight * 0 = 0 /\ TreeHeight * (0 + 1) = TreeHeight
    BY DimensionAssumption
  <1>2. idx \div Pow2[0] = idx
    BY PowerFacts
  <1>3. idx = Leaves * (idx \div Leaves) + (idx % Leaves)
    BY PowerFacts, DivMod
  <1> QED BY <1>1, <1>2, <1>3 DEF TreeIdx, LeafIdx, Leaves

(* Each leaf of an upper layer signs for one tree of the layer below. *)
LEMMA UpperPosition ==
    ASSUME NEW idx \in Nat, NEW l \in Layers, l > 0
    PROVE  TreeIdx(idx, l - 1) = Leaves * TreeIdx(idx, l) + LeafIdx(idx, l)
  <1> DEFINE below == idx \div Pow2[TreeHeight * l]
  <1>1. Pow2[TreeHeight * l] \in Nat \ {0}
    BY DimensionFacts, PowerFacts
  <1>2. TreeIdx(idx, l - 1) = below
    <2>1. (l - 1) + 1 = l
      BY DimensionAssumption DEF Layers
    <2> QED BY <2>1 DEF TreeIdx
  <1>3. TreeIdx(idx, l) = below \div Leaves
    BY <1>1, PowerFacts, NestedDiv DEF TreeIdx
  <1>4. below \in Nat
    BY <1>1, DivMod
  <1>5. below = Leaves * (below \div Leaves) + (below % Leaves)
    BY <1>4, PowerFacts, DivMod
  <1> QED BY <1>2, <1>3, <1>5 DEF LeafIdx

---------------------------------------------------------------------------
(* Authentication paths *)

(* The trailing ones of a leaf end at a zero bit within the tree's height. *)
LEMMA TrailingOnesFacts ==
    ASSUME NEW leaf \in 0..Leaves-1
    PROVE  /\ TrailingOnes(leaf) \in 0..TreeHeight
           /\ Bit(leaf, TrailingOnes(leaf)) = 0
           /\ \A j \in 0..TrailingOnes(leaf)-1 : Bit(leaf, j) = 1
  <1> DEFINE T == {k \in 0..TreeHeight : Bit(leaf, k) = 0}
  <1>1. \A k \in 0..TreeHeight : Bit(leaf, k) \in {0, 1}
    <2> TAKE k \in 0..TreeHeight
    <2>1. Pow2[k] \in Nat \ {0}
      BY DimensionFacts, PowerFacts
    <2>2. leaf \div Pow2[k] \in Nat
      BY <2>1, PowerFacts, DivMod
    <2> QED BY <2>2 DEF Bit
  <1>2. TreeHeight \in T
    <2>1. Leaves * 0 + leaf = leaf
      BY PowerFacts
    <2>2. leaf \div Leaves = 0
      BY <2>1, PowerFacts, DivUnique
    <2> QED BY <2>2, DimensionAssumption DEF Bit, Leaves
  <1>3. PICK x \in T : \A y \in T : x <= y
    <2>1. T \subseteq Nat /\ T # {}
      BY <1>2, DimensionAssumption
    <2> HIDE DEF T
    <2> QED BY <2>1, LeastElement
  <1>4. \A j \in 0..x-1 : Bit(leaf, j) = 1
    BY <1>1, <1>3, DimensionAssumption
  <1>5. \E k \in 0..TreeHeight : /\ Bit(leaf, k) = 0
                                 /\ \A j \in 0..k-1 : Bit(leaf, j) = 1
    BY <1>3, <1>4
  <1> QED BY <1>5 DEF TrailingOnes

(* Going from a leaf to the next changes no bit above its trailing ones    *)
(* and the zero that ends them.                                            *)
LEMMA HigherBitsKept ==
    ASSUME NEW leaf \in 0..Leaves-1, NEW h \in Heights, h > TrailingOnes(leaf)
    PROVE  (leaf + 1) \div Pow2[h] = leaf \div Pow2[h]
  <1> DEFINE t == TrailingOnes(leaf)
             p == Pow2[t]
             q == leaf \div p
             r == leaf % p
             e == q \div 2
             n == (leaf + 1) \div p
  <1>1. t \in 0..TreeHeight /\ q % 2 = 0
    BY TrailingOnesFacts DEF Bit
  <1>2. t \in 0..FullHeight /\ t + 1 \in 0..FullHeight /\ h \in 0..FullHeight
    BY <1>1, DimensionFacts, DimensionAssumption DEF Heights
  <1>3. p \in Nat \ {0} /\ leaf \in Nat
    BY <1>2, PowerFacts
  <1>4. q \in Nat /\ r \in 0..p-1 /\ leaf = p * q + r
    BY <1>3, DivMod
  <1>5. e \in Nat /\ q = 2 * e
    BY <1>1, <1>4
  <1> HIDE DEF p, q, r, e
  <1>6. n = q \/ n = q + 1
    <2>1. CASE r + 1 < p
      <3>1. leaf + 1 = p * q + (r + 1) /\ r + 1 \in 0..p-1
        <4>1. p * q \in Nat
          BY <1>3, <1>4
        <4> QED BY <1>3, <1>4, <2>1, <4>1
      <3>2. (p * q + (r + 1)) \div p = q
        BY <1>3, <1>4, <3>1, DivUnique
      <3> QED BY <3>1, <3>2
    <2>2. CASE r + 1 = p
      <3>1. p * (q + 1) = p * q + p
        BY <1>3, <1>4
      <3>2. leaf + 1 = p * (q + 1) + 0
        <4>1. p * q \in Nat
          BY <1>3, <1>4
        <4> QED BY <1>3, <1>4, <2>2, <3>1, <4>1
      <3>3. 0 \in 0..p-1 /\ q + 1 \in Nat
        BY <1>3, <1>4
      <3>4. (p * (q + 1) + 0) \div p = q + 1
        BY <1>3, <3>3, DivUnique
      <3> QED BY <3>2, <3>4
    <2> QED BY <1>3, <1>4, <2>1, <2>2
  <1> HIDE DEF n
  <1>7. n \div 2 = e /\ q \div 2 = e
    BY <1>5, <1>6
  <1>8. Pow2[t + 1] = p * 2
    BY <1>1, <1>2, DimensionFacts, Pow2Assumption, SMTT(30) DEF p
  <1>9. (leaf + 1) \div (p * 2) = e /\ leaf \div (p * 2) = e
    <2>1. leaf + 1 \in Nat /\ 2 \in Nat \ {0}
      BY <1>3
    <2>2. (leaf + 1) \div (p * 2) = n \div 2
      BY <1>3, <2>1, NestedDiv DEF n
    <2>3. leaf \div (p * 2) = q \div 2
      BY <1>3, <2>1, NestedDiv DEF q
    <2> QED BY <1>7, <2>2, <2>3
  <1> DEFINE k == h - (t + 1)
  <1>10. k \in 0..FullHeight /\ (t + 1) + k = h
    BY <1>1, <1>2, DimensionFacts
  <1>11. Pow2[h] = (p * 2) * Pow2[k]
    <2>1. (t + 1) + k <= FullHeight
      BY <1>2, <1>10, DimensionFacts
    <2> HIDE DEF t, k
    <2>2. Pow2[(t + 1) + k] = Pow2[t + 1] * Pow2[k]
      BY <1>2, <1>10, <2>1, Pow2Assumption
    <2> QED BY <1>8, <1>10, <2>2
  <1>12. Pow2[k] \in Nat \ {0} /\ p * 2 \in Nat \ {0}
    BY <1>3, <1>10, PowerFacts
  <1> HIDE DEF k, t
  <1>13. (leaf + 1) \div ((p * 2) * Pow2[k]) = e \div Pow2[k]
    <2>1. leaf + 1 \in Nat
      BY <1>3
    <2> QED BY <1>9, <1>12, <2>1, NestedDiv
  <1>14. leaf \div ((p * 2) * Pow2[k]) = e \div Pow2[k]
    BY <1>3, <1>9, <1>12, NestedDiv
  <1> QED BY <1>11, <1>13, <1>14

---------------------------------------------------------------------------
(* What verification accepts.  compute_root and verify_detached are        *)
(* recursive functions, each value made of the one below it.  One step of  *)
(* either leads to the right value exactly from the right value below and  *)
(* the right part of the signature, and to a value that is no node of any  *)
(* tree otherwise; the least step at which that could go wrong settles     *)
(* what all of them lead to.                                               *)

(* the node above a leaf, at a height *)
Above(layer, tree, leaf, h) == Node("key", layer, tree, h, leaf \div Pow2[h])

(* one turn of compute_root's loop *)
ClimbStep(layer, tree, leaf, auth, h, below) ==
    IF Bit(leaf, h - 1) = 1
    THEN Parent(layer, tree, h, leaf \div Pow2[h], auth[h-1], below)
    ELSE Parent(layer, tree, h, leaf \div Pow2[h], below, auth[h-1])

Climbs(f, layer, tree, leaf, leafNode, auth) ==
    f = [h \in 0..TreeHeight |->
           IF h = 0 THEN leafNode ELSE ClimbStep(layer, tree, leaf, auth, h, f[h-1])]

(* The path has, next to each node above the leaf, its sibling. *)
IsPath(layer, tree, leaf, auth) ==
    \A h \in Heights : auth[h] = Node("key", layer, tree, h, Sibling(leaf \div Pow2[h]))

(* A node is hashed of its two children, and of nothing else. *)
LEMMA ClimbStepExact ==
    ASSUME NEW layer \in Layers, NEW tree \in Nat, NEW leaf \in 0..Leaves-1,
           NEW auth, NEW h \in 1..TreeHeight, NEW below
    PROVE  LET up == ClimbStep(layer, tree, leaf, auth, h, below)
           IN /\ up \in {NoNode, Above(layer, tree, leaf, h)}
              /\ up = Above(layer, tree, leaf, h)
                   <=> /\ below = Above(layer, tree, leaf, h - 1)
                       /\ auth[h-1] = Node("key", layer, tree, h - 1,
                                           Sibling(leaf \div Pow2[h - 1]))
  <1> DEFINE child == leaf \div Pow2[h - 1]
             index == leaf \div Pow2[h]
             up == ClimbStep(layer, tree, leaf, auth, h, below)
  <1>1. leaf \in Nat /\ TreeHeight \in Nat \ {0}
    BY PowerFacts, DimensionAssumption
  <1>2. h - 1 \in 0..FullHeight /\ h \in 0..FullHeight /\ 1 \in 0..FullHeight
    BY <1>1, DimensionFacts
  <1>3. Pow2[h] = Pow2[h - 1] * 2
    <2>1. (h - 1) + 1 = h /\ (h - 1) + 1 <= FullHeight
      BY <1>2, DimensionFacts
    <2>2. Pow2[(h - 1) + 1] = Pow2[h - 1] * Pow2[1]
      BY <1>2, <2>1, Pow2Assumption
    <2> QED BY <2>1, <2>2, Pow2Assumption
  <1>4. child \in Nat /\ index = child \div 2
    <2>1. Pow2[h - 1] \in Nat \ {0} /\ 2 \in Nat \ {0}
      BY <1>2, PowerFacts
    <2>2. child \in Nat
      BY <1>1, <2>1, DivMod
    <2>3. leaf \div (Pow2[h - 1] * 2) = (leaf \div Pow2[h - 1]) \div 2
      BY <1>1, <2>1, NestedDiv
    <2> QED BY <1>3, <2>2, <2>3
  <1>5. Bit(leaf, h - 1) = child % 2
    BY DEF Bit
  <1>6. up = IF Bit(leaf, h - 1) = 1
             THEN Parent(layer, tree, h, index, auth[h-1], below)
             ELSE Parent(layer, tree, h, index, below, auth[h-1])
    BY DEF ClimbStep
  <1>7. Above(layer, tree, leaf, h) = Node("key", layer, tree, h, index)
        /\ Above(layer, tree, leaf, h - 1) = Node("key", layer, tree, h - 1, child)
    BY DEF Above
  <1>8. NoNode # Node("key", layer, tree, h, index)
    BY DEF NoNode, Node
  <1> HIDE DEF child, index, up
  <1> SUFFICES /\ up \in {NoNode, Node("key", layer, tree, h, index)}
               /\ up = Node("key", layer, tree, h, index)
                    <=> /\ below = Node("key", layer, tree, h - 1, child)
                        /\ auth[h-1] = Node("key", layer, tree, h - 1, Sibling(child))
    BY <1>7 DEF up, child, index
  <1>9. CASE child % 2 = 1
    <2>1. Sibling(child) = 2 * index /\ child = 2 * index + 1
      BY <1>4, <1>9 DEF Sibling
    <2>2. up = IF /\ auth[h-1] = Node("key", layer, tree, h - 1, Sibling(child))
                  /\ below = Node("key", layer, tree, h - 1, child)
               THEN Node("key", layer, tree, h, index) ELSE NoNode
      BY <1>5, <1>6, <1>9, <2>1 DEF Parent
    <2> QED BY <1>8, <2>2
  <1>10. CASE child % 2 = 0
    <2>1. child = 2 * index /\ Sibling(child) = 2 * index + 1
      BY <1>4, <1>10 DEF Sibling
    <2>2. up = IF /\ below = Node("key", layer, tree, h - 1, child)
                  /\ auth[h-1] = Node("key", layer, tree, h - 1, Sibling(child))
               THEN Node("key", layer, tree, h, index) ELSE NoNode
      BY <1>5, <1>6, <1>10, <2>1 DEF Parent
    <2> QED BY <1>8, <2>2
  <1> QED BY <1>4, <1>9, <1>10

(* compute_root's loop has a result. *)
LEMMA ComputeRootClimbs ==
    ASSUME NEW layer \in Layers, NEW tree \in Nat, NEW leaf \in 0..Leaves-1,
           NEW leafNode, NEW auth
    PROVE  \E f : /\ Climbs(f, layer, tree, leaf, leafNode, auth)
                  /\ ComputeRoot(layer, tree, leaf, leafNode, auth) = f[TreeHeight]
  <1> DEFINE S == {leafNode, NoNode} \cup {Above(layer, tree, leaf, h) : h \in 0..TreeHeight}
             G == [h \in 1..TreeHeight |->
                     [x \in S |-> ClimbStep(layer, tree, leaf, auth, h, x)]]
             C(f) == Climbs(f, layer, tree, leaf, leafNode, auth)
  <1>1. TreeHeight \in Nat /\ leafNode \in S
    BY DimensionAssumption
  <1>2. G \in [1..TreeHeight -> [S -> S]]
    <2>1. ASSUME NEW h \in 1..TreeHeight, NEW x \in S
          PROVE  ClimbStep(layer, tree, leaf, auth, h, x) \in S
      <3>1. h \in 0..TreeHeight
        BY <1>1
      <3>2. ClimbStep(layer, tree, leaf, auth, h, x) \in {NoNode, Above(layer, tree, leaf, h)}
        <4> HIDE DEF S
        <4> QED BY ClimbStepExact
      <3> QED BY <3>1, <3>2
    <2> HIDE DEF S
    <2> QED BY <2>1
  <1> HIDE DEF S
  <1>3. PICK f : IteratesOver(f, TreeHeight, S, leafNode, G)
    <2> HIDE DEF G
    <2> QED BY <1>1, <1>2, Iterates, Zenon
  <1>4. C(f)
    <2>1. /\ f \in [0..TreeHeight -> S] /\ f[0] = leafNode
          /\ \A h \in 1..TreeHeight : f[h] = G[h][f[h-1]]
      BY <1>3 DEF IteratesOver
    <2>2. ASSUME NEW h \in 0..TreeHeight, h # 0
          PROVE  f[h] = ClimbStep(layer, tree, leaf, auth, h, f[h-1])
      <3>1. h \in 1..TreeHeight /\ h - 1 \in 0..TreeHeight
        BY <1>1, <2>2
      <3>2. f[h-1] \in S
        BY <2>1, <3>1
      <3> QED BY <2>1, <3>1, <3>2
    <2> QED BY <2>1, <2>2 DEF Climbs
  <1>5. ComputeRoot(layer, tree, leaf, leafNode, auth) = (CHOOSE g : C(g))[TreeHeight]
    BY DEF ComputeRoot, Climbs, ClimbStep
  <1>6. C(CHOOSE g : C(g))
    <2> HIDE DEF C
    <2> QED BY <1>4
  <1> QED BY <1>5, <1>6

(* Climbing leads to the root from the leaf along its path, and from       *)
(* nothing else.                                                           *)
LEMMA ComputeRootExact ==
    ASSUME NEW layer \in Layers, NEW tree \in Nat, NEW leaf \in 0..Leaves-1,
           NEW leafNode, NEW auth
    PROVE  LET root == ComputeRoot(layer, tree, leaf, leafNode, auth)
           IN /\ root \in {NoNode, Root("key", layer, tree)}
              /\ root = Root("key", layer, tree)
                   <=> /\ leafNode = Node("key", layer, tree, 0, leaf)
                       /\ IsPath(layer, tree, leaf, auth)
  <1> DEFINE above(h) == Above(layer, tree, leaf, h)
             H == TreeHeight
  <1>1. PICK f : /\ Climbs(f, layer, tree, leaf, leafNode, auth)
                 /\ ComputeRoot(layer, tree, leaf, leafNode, auth) = f[H]
    BY ComputeRootClimbs
  <1>2. H \in Nat \ {0} /\ leaf \in Nat
    BY DimensionAssumption, PowerFacts
  <1>3. /\ f[0] = leafNode
        /\ \A h \in 1..H : f[h] = ClimbStep(layer, tree, leaf, auth, h, f[h-1])
    BY <1>1, <1>2 DEF Climbs
  <1>4. ASSUME NEW h \in 1..H
        PROVE  /\ f[h] \in {NoNode, above(h)}
               /\ f[h] = above(h)
                    <=> /\ f[h-1] = above(h-1)
                        /\ auth[h-1] = Node("key", layer, tree, h - 1,
                                            Sibling(leaf \div Pow2[h - 1]))
    <2> DEFINE up == ClimbStep(layer, tree, leaf, auth, h, f[h-1])
    <2>1. /\ up \in {NoNode, above(h)}
          /\ up = above(h)
               <=> /\ f[h-1] = above(h-1)
                   /\ auth[h-1] = Node("key", layer, tree, h - 1,
                                       Sibling(leaf \div Pow2[h - 1]))
      BY ClimbStepExact
    <2>2. f[h] = up
      BY <1>3
    <2> HIDE DEF up, above
    <2> QED BY <2>1, <2>2
  <1>5. above(H) = Root("key", layer, tree)
    <2>1. Leaves * 0 + leaf = leaf
      BY <1>2, PowerFacts
    <2>2. leaf \div Pow2[H] = 0
      BY <2>1, PowerFacts, DivUnique DEF Leaves
    <2> QED BY <2>2 DEF Above, Root
  <1>6. above(0) = Node("key", layer, tree, 0, leaf)
    BY <1>2, PowerFacts DEF Above
  <1> HIDE DEF above
  <1>7. ASSUME leafNode = above(0), IsPath(layer, tree, leaf, auth) PROVE f[H] = above(H)
    <2> DEFINE T == {h \in 0..H : f[h] # above(h)}
    <2>1. ASSUME T # {} PROVE FALSE
      <3>1. T \subseteq Nat
        OBVIOUS
      <3> HIDE DEF T
      <3>2. PICK x \in T : \A y \in T : x <= y
        BY <2>1, <3>1, LeastElement
      <3>3. x \in 0..H /\ f[x] # above(x)
        BY <3>2 DEF T
      <3>4. x \in 1..H /\ x - 1 \in 0..H /\ x - 1 \in Heights /\ ~(x <= x - 1)
        BY <1>2, <1>3, <1>7, <3>3 DEF Heights
      <3>5. f[x - 1] = above(x - 1)
        BY <3>2, <3>4 DEF T
      <3> QED BY <1>4, <1>7, <3>3, <3>4, <3>5 DEF IsPath
    <2>2. H \in 0..H
      BY <1>2
    <2> QED BY <2>1, <2>2
  <1>8. ASSUME f[H] = above(H) PROVE leafNode = above(0) /\ IsPath(layer, tree, leaf, auth)
    <2> DEFINE T == {k \in 0..H : f[H - k] # above(H - k)}
    <2>1. ASSUME T # {} PROVE FALSE
      <3>1. T \subseteq Nat
        OBVIOUS
      <3> HIDE DEF T
      <3>2. PICK x \in T : \A y \in T : x <= y
        BY <2>1, <3>1, LeastElement
      <3>3. x \in 0..H /\ f[H - x] # above(H - x)
        BY <3>2 DEF T
      <3>4. x # 0
        <4>1. H - 0 = H
          BY <1>2
        <4> QED BY <1>8, <3>3, <4>1
      <3>5. x - 1 \in 0..H /\ ~(x <= x - 1)
        BY <1>2, <3>3, <3>4
      <3>6. H - (x - 1) \in 1..H /\ (H - (x - 1)) - 1 = H - x
        BY <1>2, <3>3, <3>4
      <3>7. f[H - (x - 1)] = above(H - (x - 1))
        BY <3>2, <3>5 DEF T
      <3>8. f[(H - (x - 1)) - 1] = above((H - (x - 1)) - 1)
        BY <1>4, <3>6, <3>7
      <3> QED BY <3>3, <3>6, <3>8
    <2>2. ASSUME NEW h \in 0..H PROVE f[h] = above(h)
      <3>1. H - h \in 0..H /\ H - (H - h) = h
        BY <1>2
      <3> QED BY <2>1, <3>1
    <2>3. ASSUME NEW h \in Heights
          PROVE  auth[h] = Node("key", layer, tree, h, Sibling(leaf \div Pow2[h]))
      <3>1. h + 1 \in 1..H /\ h + 1 \in 0..H /\ (h + 1) - 1 = h
        BY <1>2 DEF Heights
      <3>2. f[h + 1] = above(h + 1)
        BY <2>2, <3>1
      <3> QED BY <1>4, <3>1, <3>2
    <2> QED BY <1>2, <1>3, <2>2, <2>3 DEF IsPath
  <1>9. f[H] \in {NoNode, above(H)}
    BY <1>2, <1>4
  <1> QED BY <1>1, <1>5, <1>6, <1>7, <1>8, <1>9

---------------------------------------------------------------------------
(* All layers *)

(* one turn of verify_detached's loop *)
LayerRoot(sig, l, below) ==
    ComputeRoot(l, TreeIdx(sig.idx, l), LeafIdx(sig.idx, l),
       LeafFromWots(l, TreeIdx(sig.idx, l), LeafIdx(sig.idx, l), sig.wots[l], below),
       sig.auth[l])

(* A layer leads to the root of its tree with the one-time signature of    *)
(* the value below it and the path of its leaf, and with nothing else.     *)
LEMMA LayerRootExact ==
    ASSUME NEW sig, sig.idx \in Nat, NEW l \in Layers, NEW below
    PROVE  /\ LayerRoot(sig, l, below) \in {NoNode, Root("key", l, TreeIdx(sig.idx, l))}
           /\ LayerRoot(sig, l, below) = Root("key", l, TreeIdx(sig.idx, l))
                <=> /\ sig.wots[l] = WotsSign("key", l, TreeIdx(sig.idx, l),
                                              LeafIdx(sig.idx, l), below)
                    /\ IsPath(l, TreeIdx(sig.idx, l), LeafIdx(sig.idx, l), sig.auth[l])
  <1> DEFINE tree == TreeIdx(sig.idx, l)
             leaf == LeafIdx(sig.idx, l)
             leafNode == LeafFromWots(l, tree, leaf, sig.wots[l], below)
  <1>1. tree \in Nat /\ leaf \in 0..Leaves-1
    BY PositionType
  <1>2. leafNode = Node("key", l, tree, 0, leaf)
          <=> sig.wots[l] = WotsSign("key", l, tree, leaf, below)
    BY DEF LeafFromWots, NoNode, Node
  <1>3. LayerRoot(sig, l, below) = ComputeRoot(l, tree, leaf, leafNode, sig.auth[l])
    BY DEF LayerRoot
  <1> HIDE DEF tree, leaf, leafNode
  <1>4. /\ LayerRoot(sig, l, below) \in {NoNode, Root("key", l, tree)}
        /\ LayerRoot(sig, l, below) = Root("key", l, tree)
             <=> /\ leafNode = Node("key", l, tree, 0, leaf)
                 /\ IsPath(l, tree, leaf, sig.auth[l])
    BY <1>1, <1>3, ComputeRootExact
  <1>5. /\ LayerRoot(sig, l, below) \in {NoNode, Root("key", l, tree)}
        /\ LayerRoot(sig, l, below) = Root("key", l, tree)
             <=> /\ sig.wots[l] = WotsSign("key", l, tree, leaf, below)
                 /\ IsPath(l, tree, leaf, sig.auth[l])
    BY <1>2, <1>4
  <1> QED BY <1>5 DEF tree, leaf

(* the root the public key holds, and what the lowest layer signs *)
PubKeyRoot   == Root("key", D - 1, 0)
MsgDigest(m, sig) == Digest(sig.r, PubKeyRoot, sig.idx, m)

Chained(f, m, sig) ==
    /\ f[-1] = MsgDigest(m, sig)
    /\ \A l \in Layers : f[l] = LayerRoot(sig, l, f[l-1])

(* verify_detached's loop has a result. *)
LEMMA VerifyChains ==
    ASSUME NEW m, NEW sig, sig.idx \in Nat
    PROVE  \E f : Chained(f, m, sig) /\ (Verify(m, sig) <=> f[D - 1] = PubKeyRoot)
  <1> DEFINE digest == MsgDigest(m, sig)
             S == {digest, NoNode} \cup {Root("key", l, TreeIdx(sig.idx, l)) : l \in Layers}
             G == [i \in 1..D |-> [x \in S |-> LayerRoot(sig, i - 1, x)]]
             C(f) == f = [l \in -1..D-1 |->
                            IF l = -1 THEN digest ELSE LayerRoot(sig, l, f[l-1])]
  <1>1. D \in Nat \ {0} /\ digest \in S
    BY DimensionAssumption
  <1>2. G \in [1..D -> [S -> S]]
    <2>1. ASSUME NEW i \in 1..D, NEW x \in S PROVE LayerRoot(sig, i - 1, x) \in S
      <3>1. i - 1 \in Layers
        BY <1>1 DEF Layers
      <3>2. LayerRoot(sig, i - 1, x) \in {NoNode, Root("key", i - 1, TreeIdx(sig.idx, i - 1))}
        <4> HIDE DEF S
        <4> QED BY <3>1, LayerRootExact
      <3> QED BY <3>1, <3>2
    <2> HIDE DEF S
    <2> QED BY <2>1
  <1> HIDE DEF S, digest
  <1>3. PICK g : IteratesOver(g, D, S, digest, G)
    <2>1. D \in Nat
      BY <1>1
    <2> HIDE DEF G
    <2> QED BY <1>1, <1>2, <2>1, Iterates, Zenon
  <1>4. C([l \in -1..D-1 |-> g[l+1]])
    <2> DEFINE f == [l \in -1..D-1 |-> g[l+1]]
    <2>1. /\ g \in [0..D -> S] /\ g[0] = digest
          /\ \A i \in 1..D : g[i] = G[i][g[i-1]]
      BY <1>3 DEF IteratesOver
    <2>2. f[-1] = digest
      BY <1>1, <2>1
    <2>3. ASSUME NEW l \in -1..D-1, l # -1 PROVE f[l] = LayerRoot(sig, l, f[l-1])
      <3>1. /\ l + 1 \in 1..D /\ (l + 1) - 1 = l
            /\ l - 1 \in -1..D-1 /\ (l - 1) + 1 = l /\ l \in 0..D
        BY <1>1, <2>3
      <3>2. f[l] = g[l+1] /\ f[l-1] = g[l] /\ g[l] \in S
        BY <2>1, <3>1
      <3>3. g[l+1] = G[l+1][g[l]]
        BY <2>1, <3>1
      <3>4. G[l+1][g[l]] = LayerRoot(sig, l, g[l])
        BY <3>1, <3>2
      <3> HIDE DEF f, G
      <3> QED BY <3>2, <3>3, <3>4
    <2> QED BY <2>2, <2>3
  <1>5. Verify(m, sig) <=> (CHOOSE f : C(f))[D - 1] = PubKeyRoot
    BY DEF Verify, LayerRoot, digest, MsgDigest, PubKeyRoot
  <1>6. PICK f : C(f) /\ f = (CHOOSE h : C(h))
    <2> HIDE DEF C
    <2> QED BY <1>4
  <1>7. Chained(f, m, sig)
    <2>1. f[-1] = digest
      BY <1>1, <1>6
    <2>2. ASSUME NEW l \in Layers PROVE f[l] = LayerRoot(sig, l, f[l-1])
      <3>1. l \in -1..D-1 /\ l # -1
        BY <1>1 DEF Layers
      <3> QED BY <1>6, <3>1
    <2> QED BY <2>1, <2>2 DEF Chained, digest
  <1> QED BY <1>5, <1>6, <1>7

(* The top tree is tree 0 for the indices of the key, and for no other.    *)
LEMMA TopTree ==
    ASSUME NEW idx \in Nat
    PROVE  TreeIdx(idx, D - 1) = 0 <=> idx \in Indices
  <1> DEFINE P == Pow2[FullHeight]
  <1>1. D - 1 \in Layers /\ TreeHeight * ((D - 1) + 1) = FullHeight
    BY DimensionAssumption DEF Layers, FullHeight
  <1>2. P \in Nat \ {0}
    BY DimensionFacts, PowerFacts
  <1>3. TreeIdx(idx, D - 1) = idx \div P
    BY <1>1 DEF TreeIdx
  <1>4. Indices = 0..P-1
    BY DEF Indices, MaxIdx
  <1> HIDE DEF P
  <1>5. ASSUME idx \in 0..P-1 PROVE idx \div P = 0
    <2>1. P * 0 + idx = idx
      BY <1>2
    <2> QED BY <1>2, <1>5, <2>1, DivUnique
  <1>6. ASSUME idx \div P = 0 PROVE idx \in 0..P-1
    <2>1. idx % P \in 0..P-1 /\ idx = P * 0 + (idx % P)
      BY <1>2, <1>6, DivMod
    <2> QED BY <1>2, <2>1
  <1> QED BY <1>3, <1>4, <1>5, <1>6

(* A signature whose lowest layer signs the digest of m, whose every other *)
(* layer signs the root of the tree below, and whose paths are those of    *)
(* the leaves of its index, is accepted as a signature of m.               *)
LEMMA VerifyHonest ==
    ASSUME NEW m, NEW sig, sig.idx \in Indices,
           \A l \in Layers :
             /\ sig.wots[l] =
                  WotsSign("key", l, TreeIdx(sig.idx, l), LeafIdx(sig.idx, l),
                     IF l = 0 THEN Digest(sig.r, Root("key", D - 1, 0), sig.idx, m)
                     ELSE Root("key", l - 1, TreeIdx(sig.idx, l - 1)))
             /\ sig.auth[l] = AuthPath("key", l, TreeIdx(sig.idx, l), LeafIdx(sig.idx, l))
    PROVE  Verify(m, sig)
  <1> DEFINE root(l) == Root("key", l, TreeIdx(sig.idx, l))
  <1>1. sig.idx \in Nat /\ D \in Nat \ {0}
    BY PowerFacts, DimensionAssumption DEF Indices
  <1>2. PICK f : Chained(f, m, sig) /\ (Verify(m, sig) <=> f[D - 1] = PubKeyRoot)
    BY <1>1, VerifyChains
  <1>3. ASSUME NEW l \in Layers, l # 0 => f[l - 1] = root(l - 1)
        PROVE  f[l] = root(l)
    <2>1. l = 0 \/ l - 1 \in Layers
      BY <1>1 DEF Layers
    <2>2. sig.wots[l] = WotsSign("key", l, TreeIdx(sig.idx, l), LeafIdx(sig.idx, l), f[l - 1])
      BY <1>2, <1>3, <2>1 DEF Chained, MsgDigest, PubKeyRoot
    <2>3. IsPath(l, TreeIdx(sig.idx, l), LeafIdx(sig.idx, l), sig.auth[l])
      BY DEF IsPath, AuthPath
    <2>4. f[l] = LayerRoot(sig, l, f[l - 1])
      BY <1>2 DEF Chained
    <2> QED BY <1>1, <2>2, <2>3, <2>4, LayerRootExact
  <1> HIDE DEF root
  <1>4. ASSUME NEW l \in Layers, f[l] # root(l) PROVE FALSE
    <2> DEFINE T == {k \in Layers : f[k] # root(k)}
    <2>1. T \subseteq Nat /\ T # {}
      BY <1>1, <1>4 DEF Layers
    <2> HIDE DEF T
    <2>2. PICK x \in T : \A y \in T : x <= y
      BY <2>1, LeastElement
    <2>3. x \in Layers /\ f[x] # root(x)
      BY <2>2 DEF T
    <2>4. x # 0 => x - 1 \in Layers /\ ~(x <= x - 1)
      BY <1>1, <2>3 DEF Layers
    <2>5. x # 0 => f[x - 1] = root(x - 1)
      BY <2>2, <2>4 DEF T
    <2> QED BY <1>3, <2>3, <2>5
  <1>5. D - 1 \in Layers
    BY <1>1 DEF Layers
  <1>6. f[D - 1] = PubKeyRoot
    BY <1>1, <1>4, <1>5, TopTree DEF root, PubKeyRoot
  <1> QED BY <1>2, <1>6

(* What a signature that is accepted consists of, from the top: the index  *)
(* is one of the key's, the top layer leads to the public key's root, and  *)
(* every layer that leads to the root of its tree does so with the         *)
(* one-time signature, by the leaf of the index, of what the layer below   *)
(* leads to, down to the digest of the message.                            *)
LEMMA VerifyLinks ==
    ASSUME NEW m, NEW sig, sig.idx \in Nat, Verify(m, sig)
    PROVE  /\ sig.idx \in Indices
           /\ \E f :
                /\ f[-1] = MsgDigest(m, sig)
                /\ f[D - 1] = Root("key", D - 1, TreeIdx(sig.idx, D - 1))
                /\ \A l \in Layers :
                     f[l] = Root("key", l, TreeIdx(sig.idx, l)) =>
                       /\ sig.wots[l] = WotsSign("key", l, TreeIdx(sig.idx, l),
                                                 LeafIdx(sig.idx, l), f[l - 1])
                       /\ IsPath(l, TreeIdx(sig.idx, l), LeafIdx(sig.idx, l), sig.auth[l])
  <1>1. PICK f : Chained(f, m, sig) /\ f[D - 1] = PubKeyRoot
    BY VerifyChains
  <1>2. D - 1 \in Layers
    BY DimensionAssumption DEF Layers
  <1>3. ASSUME NEW l \in Layers
        PROVE  /\ f[l] \in {NoNode, Root("key", l, TreeIdx(sig.idx, l))}
               /\ f[l] = Root("key", l, TreeIdx(sig.idx, l)) =>
                    /\ sig.wots[l] = WotsSign("key", l, TreeIdx(sig.idx, l),
                                              LeafIdx(sig.idx, l), f[l - 1])
                    /\ IsPath(l, TreeIdx(sig.idx, l), LeafIdx(sig.idx, l), sig.auth[l])
    <2>1. f[l] = LayerRoot(sig, l, f[l - 1])
      BY <1>1 DEF Chained
    <2> QED BY <2>1, LayerRootExact
  <1>4. f[D - 1] = Root("key", D - 1, TreeIdx(sig.idx, D - 1))
    <2>1. PubKeyRoot # NoNode
      BY DEF PubKeyRoot, Root, Node, NoNode
    <2> QED BY <1>1, <1>2, <1>3, <2>1
  <1>5. TreeIdx(sig.idx, D - 1) = 0
    BY <1>1, <1>4 DEF PubKeyRoot, Root, Node
  <1>6. sig.idx \in Indices
    BY <1>5, TopTree
  <1> QED BY <1>1, <1>3, <1>4, <1>6 DEF Chained
===========================================================================
