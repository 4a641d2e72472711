--------------------------- MODULE LeafHashProofs ---------------------------
(***************************************************************************)
(* Proofs about LeafHash, for every hypertree, every w, every number of    *)
(* chains and every order of calls.                                        *)
(*                                                                         *)
(* What a hash relies on is spread over the calls that wrote to its        *)
(* address: AddressInv says, phase by phase, which words are still right.  *)
(***************************************************************************)
EXTENDS LeafHash, HypertreeTheorems

---------------------------------------------------------------------------
(* The inductive invariant *)

IsAddr(addr) == addr = [word \in 0..7 |-> addr[word]]

(* The address is in the tree that is hashed. *)
InTree(addr) ==
    /\ addr[0] = layer
    /\ addr[1] * WordModulus + addr[2] = tree

Phases == {"none", "leaf", "seeds", "chains", "open", "ltree", "nodes", "end"}

CallInv ==
    /\ call \in {"idle", "treehash", "sign", "verify"}
    /\ phase \in Phases
    /\ layer \in Layers
    /\ idx \in 0..IndexModulus-1
    /\ call = "idle" => phase = "none" /\ layer = 0 /\ hashed = {}
    /\ phase = "seeds" => call # "verify"
    /\ phase \in {"open", "ltree", "nodes"} => call # "sign"

AddressInv ==
    /\ IsAddr(ots) /\ IsAddr(ltree) /\ IsAddr(node)
    /\ node[4] = 0
    /\ call # "idle" => ots[3] = OtsType
    /\ call \in {"treehash", "verify"} => ltree[3] = LtreeType /\ node[3] = HashTreeType
    /\ call = "treehash" => InTree(ots) /\ InTree(ltree) /\ InTree(node)
    /\ phase \in {"seeds", "chains"} => InTree(ots) /\ ots[4] = leaf
    /\ phase \in {"chains", "open", "ltree", "nodes"} /\ call = "verify" =>
          InTree(ltree) /\ InTree(node)
    /\ phase \in {"seeds", "chains", "open", "ltree"} /\ call # "sign" => ltree[4] = leaf
    /\ phase = "ltree" => ltree[5] = level

(* l_tree has folded the pairs before the next one, and not the nodes from *)
(* it on: the runs of the ones, then of the others, follow each other from *)
(* the first chain end to the last.                                        *)
FoldInv ==
    /\ phase = "ltree" =>
          /\ nodes \in [0..WotsLen-1 -> Int \X Int]
          /\ width \in 1..WotsLen
          /\ chain \in 0..(width \div 2)
          /\ nodes[0][1] = 0
          /\ \A i \in 0..chain-2 : nodes[i][2] + 1 = nodes[i + 1][1]
          /\ \A i \in 2*chain..width-2 : nodes[i][2] + 1 = nodes[i + 1][1]
          /\ chain > 0 /\ 2 * chain < width => nodes[chain - 1][2] + 1 = nodes[2 * chain][1]
          /\ nodes[IF 2 * chain < width THEN width - 1 ELSE chain - 1][2] = WotsLen - 1
    /\ LeafCovers

---------------------------------------------------------------------------
(* Addresses *)

(* One word of an address is written, the others are kept. *)
Wrote(new, addr, w, v) ==
    /\ IsAddr(new)
    /\ new[w] = v
    /\ \A u \in 0..7 : u # w => new[u] = addr[u]

LEMMA SetWord ==
    ASSUME NEW addr, IsAddr(addr), NEW v
    PROVE  /\ Wrote(SetType(addr, v), addr, 3, v)
           /\ Wrote(SetOtsAddr(addr, v), addr, 4, v)
           /\ Wrote(SetLtreeAddr(addr, v), addr, 4, v)
           /\ Wrote(SetChainAddr(addr, v), addr, 5, v)
           /\ Wrote(SetTreeHeight(addr, v), addr, 5, v)
           /\ Wrote(SetHashAddr(addr, v), addr, 6, v)
           /\ Wrote(SetTreeIndex(addr, v), addr, 6, v)
           /\ Wrote(SetKeyAndMask(addr, v), addr, 7, v)
  <1>1. ASSUME NEW w \in 0..7 PROVE Wrote([addr EXCEPT ![w] = v], addr, w, v)
    BY DEF Wrote, IsAddr
  <1> QED BY <1>1 DEF SetType, SetOtsAddr, SetLtreeAddr, SetChainAddr, SetTreeHeight,
                      SetHashAddr, SetTreeIndex, SetKeyAndMask

LEMMA ZeroIsAddr == IsAddr(ZeroAddr) /\ \A w \in 0..7 : ZeroAddr[w] = 0
  BY DEF IsAddr, ZeroAddr

(* A tree index of two words is in the two words set to it. *)
LEMMA TwoWords ==
    ASSUME NEW addr, IsAddr(addr), NEW l, NEW t \in 0..WordModulus*WordModulus-1
    PROVE  LET at == SetTreeAddr(SetLayerAddr(addr, l), t)
           IN /\ IsAddr(at)
              /\ at[0] = l
              /\ at[1] * WordModulus + at[2] = t
              /\ \A w \in 3..7 : at[w] = addr[w]
  <1> DEFINE m == WordModulus
             q == t \div m
             r == t % m
             at == SetTreeAddr(SetLayerAddr(addr, l), t)
  <1>1. m \in Nat \ {0} /\ m * m \in Nat /\ t \in Nat /\ t < m * m
    BY WordAssumption
  <1>2. q \in Nat /\ r \in 0..m-1 /\ t = m * q + r
    <2> HIDE DEF m
    <2> QED BY <1>1, DivMod
  <1>3. at[0] = l /\ at[1] = q % m /\ at[2] = r /\ (\A w \in 3..7 : at[w] = addr[w]) /\ IsAddr(at)
    BY DEF SetTreeAddr, SetLayerAddr, IsAddr
  <1> HIDE DEF m, q, r, at
  <1>4. q < m
    <2> SUFFICES ASSUME q >= m PROVE FALSE
      BY <1>1, <1>2
    <2>1. PICK k \in Nat : q = m + k
      <3>1. q - m \in Nat /\ q = m + (q - m)
        BY <1>1, <1>2
      <3> QED BY <3>1
    <2>2. m * q = m * m + m * k
      BY <1>1, <2>1
    <2>3. m * k \in Nat
      BY <1>1, <2>1
    <2> QED BY <1>1, <1>2, <2>2, <2>3
  <1>5. q % m = q
    <2>1. q \in 0..m-1 /\ m * 0 + q = q
      BY <1>1, <1>2, <1>4
    <2> QED BY <1>1, <2>1, DivUnique
  <1>6. m * q = q * m
    BY <1>1, <1>2
  <1> QED BY <1>2, <1>3, <1>5, <1>6 DEF at, m

(* Every tree a call can come to has an index of two words. *)
LEMMA TreeFits ==
    ASSUME NEW l \in Layers, NEW i \in 0..IndexModulus-1
    PROVE  \A t \in 0..TreeIdx(i, l) : t \in 0..WordModulus*WordModulus-1
  <1> DEFINE p == Pow2[TreeHeight * (l + 1)]
             q == i \div p
  <1>1. p \in Nat \ {0} /\ i \in Nat
    BY DimensionFacts, PowerFacts
  <1> HIDE DEF p
  <1>2. q \in Nat /\ i % p \in 0..p-1 /\ i = p * q + (i % p)
    BY <1>1, DivMod
  <1>3. q <= i
    <2> HIDE DEF q
    <2>1. PICK k \in Nat : p = k + 1
      <3>1. p - 1 \in Nat /\ p = (p - 1) + 1
        BY <1>1
      <3> QED BY <3>1
    <2>2. p * q = k * q + q /\ k * q \in Nat
      BY <1>2, <2>1
    <2> QED BY <1>1, <1>2, <2>2
  <1>4. TreeIdx(i, l) = q
    BY DEF TreeIdx, p
  <1>5. /\ WordModulus * WordModulus \in Nat
        /\ i < WordModulus * WordModulus
    BY LeafHashAssumption, WordAssumption
  <1> HIDE DEF q
  <1> QED BY <1>1, <1>2, <1>3, <1>4, <1>5

---------------------------------------------------------------------------
(* Hashes *)

HashRight(h) ==
    /\ h.addr[0] = h.layer
    /\ h.addr[1] * WordModulus + h.addr[2] = h.tree
    /\ h.addr[3] = TypeNumber(h.use)
    /\ h.addr[4] = h.leaf
    /\ h.addr[5] = h.a /\ h.addr[6] = h.b
    /\ h.addr[7] = h.mask

(* An address that is right but for its mask is right for every mask. *)
LEMMA HashesRight ==
    ASSUME NEW use, NEW of, NEW a, NEW b, NEW masks, NEW addr,
           IsAddr(addr), InTree(addr),
           addr[3] = TypeNumber(use), addr[4] = of, addr[5] = a, addr[6] = b
    PROVE  \A h \in Thash(use, of, a, b, masks, addr) : HashRight(h)
  BY DEF Thash, Hash, HashRight, InTree, IsAddr, SetKeyAndMask

LEMMA NoHashes ==
    ASSUME hashed' = {}
    PROVE  AddressRight'
  BY DEF AddressRight

LEMMA AllHashes ==
    ASSUME \A h \in hashed' : HashRight(h)
    PROVE  AddressRight'
  BY DEF AddressRight, HashRight

---------------------------------------------------------------------------
(* Steps of a call *)

KeyInv == CallInv /\ AddressInv /\ AddressRight

LEMMA StartTreehashStep ==
    ASSUME KeyInv, StartTreehash
    PROVE  KeyInv'
  <1>1. PICK l \in Layers, height \in 0..TreeHeight, first \in 0..Leaves-1 :
        \E t \in 0..TreeIdx(MaxIdx, l) :
        LET subtree == SetTreeAddr(SetLayerAddr(ZeroAddr, l), t)
        IN /\ call = "idle"
           /\ call' = "treehash" /\ phase' = "leaf"
           /\ layer' = l /\ tree' = t /\ leaf' = first /\ target' = height
           /\ ots' = SetType(CopySubtreeAddr(ZeroAddr, subtree), OtsType)
           /\ ltree' = SetType(CopySubtreeAddr(ZeroAddr, subtree), LtreeType)
           /\ node' = SetType(CopySubtreeAddr(ZeroAddr, subtree), HashTreeType)
           /\ UNCHANGED <<idx, chain, level, nodes, width, hashed>>
    BY DEF StartTreehash
  <1>2. PICK t \in 0..TreeIdx(MaxIdx, l) :
        LET subtree == SetTreeAddr(SetLayerAddr(ZeroAddr, l), t)
        IN /\ call = "idle"
           /\ call' = "treehash" /\ phase' = "leaf"
           /\ layer' = l /\ tree' = t /\ leaf' = first /\ target' = height
           /\ ots' = SetType(CopySubtreeAddr(ZeroAddr, subtree), OtsType)
           /\ ltree' = SetType(CopySubtreeAddr(ZeroAddr, subtree), LtreeType)
           /\ node' = SetType(CopySubtreeAddr(ZeroAddr, subtree), HashTreeType)
           /\ UNCHANGED <<idx, chain, level, nodes, width, hashed>>
    BY <1>1
  <1> DEFINE subtree == SetTreeAddr(SetLayerAddr(ZeroAddr, l), t)
  <1>3. MaxIdx \in 0..IndexModulus-1
    BY PowerFacts, LeafHashAssumption
  <1>4. subtree[0] = l /\ subtree[1] * WordModulus + subtree[2] = t
    BY <1>3, TreeFits, TwoWords, ZeroIsAddr
  <1>5. /\ ots' = SetType(CopySubtreeAddr(ZeroAddr, subtree), OtsType)
        /\ ltree' = SetType(CopySubtreeAddr(ZeroAddr, subtree), LtreeType)
        /\ node' = SetType(CopySubtreeAddr(ZeroAddr, subtree), HashTreeType)
    BY <1>2
  <1>6. hashed' = {} /\ idx' = idx /\ layer' = l /\ tree' = t /\ call' = "treehash" /\ phase' = "leaf"
    BY <1>2 DEF KeyInv, CallInv
  <1> HIDE DEF subtree
  <1>7. /\ IsAddr(ots') /\ IsAddr(ltree') /\ IsAddr(node') /\ node'[4] = 0
        /\ ots'[3] = OtsType /\ ltree'[3] = LtreeType /\ node'[3] = HashTreeType
    <2> DEFINE copy == CopySubtreeAddr(ZeroAddr, subtree)
    <2>1. IsAddr(copy) /\ copy[4] = 0
      BY ZeroIsAddr DEF CopySubtreeAddr, IsAddr
    <2> HIDE DEF copy
    <2> QED BY <1>5, <2>1, SetWord DEF Wrote, copy
  <1>8. InTree(ots)' /\ InTree(ltree)' /\ InTree(node)'
    <2> DEFINE copy == CopySubtreeAddr(ZeroAddr, subtree)
    <2>1. IsAddr(copy) /\ \A w \in 0..2 : copy[w] = subtree[w]
      BY DEF CopySubtreeAddr, IsAddr
    <2> HIDE DEF copy
    <2> QED BY <1>4, <1>5, <1>6, <2>1, SetWord DEF InTree, Wrote, copy
  <1>9. CallInv'
    BY <1>6 DEF KeyInv, CallInv, Phases
  <1>10. AddressInv'
    BY <1>6, <1>7, <1>8 DEF AddressInv
  <1> QED BY <1>6, <1>9, <1>10, NoHashes DEF KeyInv

LEMMA StartSignStep ==
    ASSUME KeyInv, StartSign
    PROVE  KeyInv'
  <1>1. /\ call' = "sign" /\ phase' = "leaf" /\ idx' \in Indices /\ layer' = layer
        /\ hashed' = {} /\ ltree' = ltree /\ node' = node /\ ots' = SetType(ZeroAddr, OtsType)
    BY DEF KeyInv, CallInv, StartSign
  <1>2. idx' \in 0..IndexModulus-1
    BY <1>1, PowerFacts, LeafHashAssumption DEF Indices
  <1>3. IsAddr(ots') /\ ots'[3] = OtsType
    BY <1>1, ZeroIsAddr, SetWord DEF Wrote
  <1>4. CallInv'
    BY <1>1, <1>2 DEF KeyInv, CallInv, Phases
  <1>5. AddressInv'
    BY <1>1, <1>3 DEF KeyInv, AddressInv, IsAddr
  <1> QED BY <1>1, <1>4, <1>5, NoHashes DEF KeyInv

LEMMA StartVerifyStep ==
    ASSUME KeyInv, StartVerify
    PROVE  KeyInv'
  <1>1. /\ call' = "verify" /\ phase' = "leaf" /\ idx' \in 0..IndexModulus-1
        /\ layer' = layer /\ hashed' = {}
        /\ ots' = SetType(ZeroAddr, OtsType) /\ ltree' = SetType(ZeroAddr, LtreeType)
        /\ node' = SetType(ZeroAddr, HashTreeType)
    BY DEF KeyInv, CallInv, StartVerify
  <1>2. /\ IsAddr(ots') /\ IsAddr(ltree') /\ IsAddr(node') /\ node'[4] = 0
        /\ ots'[3] = OtsType /\ ltree'[3] = LtreeType /\ node'[3] = HashTreeType
    BY <1>1, ZeroIsAddr, SetWord DEF Wrote
  <1>3. CallInv'
    BY <1>1 DEF KeyInv, CallInv, Phases
  <1>4. AddressInv'
    BY <1>1, <1>2 DEF AddressInv
  <1> QED BY <1>1, <1>3, <1>4, NoHashes DEF KeyInv

LEMMA NextLeafStep ==
    ASSUME KeyInv, NextLeaf
    PROVE  KeyInv'
  <1>1. /\ call = "treehash" /\ call' = "treehash" /\ phase' = "seeds" /\ hashed' = {}
        /\ layer' = layer /\ tree' = tree /\ leaf' = leaf /\ idx' = idx
        /\ ltree' = SetLtreeAddr(ltree, leaf) /\ ots' = SetOtsAddr(ots, leaf)
        /\ node' = node
    BY DEF NextLeaf, position
  <1>2. /\ IsAddr(ots') /\ ots'[4] = leaf /\ \A w \in {0, 1, 2, 3} : ots'[w] = ots[w]
        /\ IsAddr(ltree') /\ ltree'[4] = leaf /\ \A w \in {0, 1, 2, 3} : ltree'[w] = ltree[w]
    BY <1>1, SetWord DEF KeyInv, AddressInv, Wrote
  <1>3. CallInv'
    BY <1>1 DEF KeyInv, CallInv, Phases
  <1>4. AddressInv'
    BY <1>1, <1>2 DEF KeyInv, AddressInv, InTree, IsAddr
  <1> QED BY <1>1, <1>3, <1>4, NoHashes DEF KeyInv

LEMMA NextLayerStep ==
    ASSUME KeyInv, NextLayer
    PROVE  KeyInv'
  <1> DEFINE t == TreeIdx(idx, layer)
             l == LeafIdx(idx, layer)
  <1>1. /\ call \in {"sign", "verify"} /\ call' = call /\ idx' = idx /\ layer' = layer
        /\ tree' = t /\ leaf' = l /\ hashed' = {}
        /\ ots' = SetOtsAddr(At(ots, layer, t), l)
        /\ IF call = "verify"
           THEN /\ ltree' = SetLtreeAddr(At(ltree, layer, t), l)
                /\ node' = At(node, layer, t)
                /\ phase' = "chains"
           ELSE /\ ltree' = ltree /\ node' = node
                /\ phase' \in {"seeds", "end"}
    BY DEF NextLayer
  <1>2. t \in 0..WordModulus*WordModulus-1
    <2>1. layer \in Layers /\ idx \in 0..IndexModulus-1 /\ idx \in Nat
      BY LeafHashAssumption DEF KeyInv, CallInv
    <2>2. t \in Nat
      BY <2>1, PositionType
    <2>3. t \in 0..t
      BY <2>2
    <2> QED BY <2>1, <2>3, TreeFits
  <1> HIDE DEF t, l
  <1>3. ASSUME NEW addr, IsAddr(addr)
        PROVE  LET at == At(addr, layer, t)
               IN /\ IsAddr(at) /\ at[0] = layer /\ at[1] * WordModulus + at[2] = t
                  /\ \A w \in 3..7 : at[w] = addr[w]
    BY <1>2, <1>3, TwoWords DEF At
  <1>4. IsAddr(ots) /\ IsAddr(ltree) /\ IsAddr(node) /\ ots[3] = OtsType /\ node[4] = 0
        /\ (call = "verify" => ltree[3] = LtreeType /\ node[3] = HashTreeType)
    BY <1>1 DEF KeyInv, AddressInv
  <1>5. IsAddr(ots') /\ InTree(ots)' /\ ots'[4] = l /\ ots'[3] = OtsType
    <2> DEFINE at == At(ots, layer, t)
    <2>1. /\ IsAddr(at) /\ at[0] = layer /\ at[1] * WordModulus + at[2] = t
          /\ at[3] = ots[3]
      BY <1>3, <1>4
    <2>2. ots' = SetOtsAddr(at, l)
      BY <1>1
    <2> HIDE DEF at
    <2>3. IsAddr(ots') /\ ots'[4] = l /\ \A w \in {0, 1, 2, 3} : ots'[w] = at[w]
      BY <2>1, <2>2, SetWord DEF Wrote
    <2> QED BY <1>1, <1>4, <2>1, <2>3 DEF InTree
  <1>6. CASE call = "verify"
    <2>1. IsAddr(ltree') /\ InTree(ltree)' /\ ltree'[4] = l /\ ltree'[3] = LtreeType
      <3> DEFINE at == At(ltree, layer, t)
      <3>1. /\ IsAddr(at) /\ at[0] = layer /\ at[1] * WordModulus + at[2] = t
            /\ at[3] = ltree[3]
        BY <1>3, <1>4
      <3>2. ltree' = SetLtreeAddr(at, l)
        BY <1>1, <1>6
      <3> HIDE DEF at
      <3>3. IsAddr(ltree') /\ ltree'[4] = l /\ \A w \in {0, 1, 2, 3} : ltree'[w] = at[w]
        BY <3>1, <3>2, SetWord DEF Wrote
      <3> QED BY <1>1, <1>4, <1>6, <3>1, <3>3 DEF InTree
    <2>2. IsAddr(node') /\ InTree(node)' /\ node'[4] = 0 /\ node'[3] = HashTreeType
      BY <1>1, <1>3, <1>4, <1>6 DEF InTree
    <2>3. CallInv'
      BY <1>1, <1>6 DEF KeyInv, CallInv, Phases
    <2>4. AddressInv'
      BY <1>1, <1>5, <1>6, <2>1, <2>2 DEF AddressInv
    <2> QED BY <1>1, <2>3, <2>4, NoHashes DEF KeyInv
  <1>7. CASE call = "sign"
    <2>1. ltree' = ltree /\ node' = node /\ phase' \in {"seeds", "end"}
      BY <1>1, <1>7
    <2>2. CallInv'
      BY <1>1, <1>7, <2>1 DEF KeyInv, CallInv, Phases
    <2>3. AddressInv'
      BY <1>1, <1>4, <1>5, <1>7, <2>1 DEF AddressInv, IsAddr
    <2> QED BY <1>1, <2>2, <2>3, NoHashes DEF KeyInv
  <1> QED BY <1>1, <1>6, <1>7

LEMMA ExpandSeedStep ==
    ASSUME KeyInv, ExpandSeed
    PROVE  KeyInv'
  <1> DEFINE addr(i) == SetChainAddr(SetKeyAndMask(SetHashAddr(ots, 0), 0), i)
  <1>1. /\ phase = "seeds" /\ phase' = "chains" /\ call' = call /\ idx' = idx
        /\ layer' = layer /\ tree' = tree /\ leaf' = leaf /\ ltree' = ltree /\ node' = node
        /\ hashed' = {Hash("prf_keygen", "seed", leaf, i, 0, 0, addr(i)) : i \in 0..WotsLen-1}
        /\ ots' = addr(WotsLen - 1)
    BY DEF ExpandSeed, position
  <1>2. call \in {"treehash", "sign"} /\ IsAddr(ots) /\ InTree(ots) /\ ots[4] = leaf /\ ots[3] = OtsType
    BY <1>1 DEF KeyInv, CallInv, AddressInv
  <1>3. \A i : /\ IsAddr(addr(i)) /\ \A w \in {0, 1, 2, 3, 4} : addr(i)[w] = ots[w]
               /\ addr(i)[5] = i /\ addr(i)[6] = 0 /\ addr(i)[7] = 0
    BY <1>2, SetWord DEF Wrote
  <1> HIDE DEF addr
  <1>4. \A h \in hashed' : HashRight(h)
    BY <1>1, <1>2, <1>3 DEF Hash, HashRight, InTree, TypeNumber, OtsType
  <1>5. CallInv'
    BY <1>1, <1>2 DEF KeyInv, CallInv, Phases
  <1>6. IsAddr(ots') /\ InTree(ots)' /\ ots'[4] = leaf /\ ots'[3] = OtsType
    BY <1>1, <1>2, <1>3 DEF InTree
  <1>7. AddressInv'
    BY <1>1, <1>2, <1>6 DEF KeyInv, AddressInv, InTree, IsAddr
  <1> QED BY <1>4, <1>5, <1>7, AllHashes DEF KeyInv

LEMMA GenChainStep ==
    ASSUME KeyInv, GenChain
    PROVE  KeyInv'
  <1> DEFINE base == SetChainAddr(ots, chain)
             addr(step) == SetHashAddr(base, step)
  <1>1. PICK from \in 0..WotsW-1, to \in 0..WotsW-1 :
        /\ phase = "chains"
        /\ hashed' = UNION {Thash("chain", leaf, chain, step, 1, addr(step)) : step \in from..to-1}
        /\ ots' = IF from < to THEN SetKeyAndMask(addr(to - 1), 1) ELSE base
        /\ IF chain + 1 < WotsLen
           THEN chain' = chain + 1 /\ UNCHANGED phase
           ELSE chain' = 0 /\ phase' = IF call = "sign" THEN "end" ELSE "open"
        /\ UNCHANGED <<position, level, ltree, node, nodes, width>>
    BY DEF GenChain
  <1>2. /\ call' = call /\ idx' = idx /\ layer' = layer /\ tree' = tree /\ leaf' = leaf
        /\ ltree' = ltree /\ node' = node
        /\ phase' \in {"chains", IF call = "sign" THEN "end" ELSE "open"}
    BY <1>1 DEF position
  <1>3. /\ call \in {"treehash", "sign", "verify"}
        /\ IsAddr(ots) /\ InTree(ots) /\ ots[4] = leaf /\ ots[3] = OtsType
    BY <1>1 DEF KeyInv, CallInv, AddressInv
  <1>4. /\ IsAddr(base) /\ \A w \in {0, 1, 2, 3, 4} : base[w] = ots[w]
        /\ base[5] = chain
    BY <1>3, SetWord DEF Wrote
  <1>5. \A k : /\ IsAddr(addr(k)) /\ \A w \in {0, 1, 2, 3, 4} : addr(k)[w] = ots[w]
               /\ addr(k)[5] = chain /\ addr(k)[6] = k
    <2> HIDE DEF base
    <2> QED BY <1>4, SetWord DEF Wrote
  <1> HIDE DEF base, addr
  <1>6. ASSUME NEW k PROVE \A h \in Thash("chain", leaf, chain, k, 1, addr(k)) : HashRight(h)
    <2>1. IsAddr(addr(k)) /\ InTree(addr(k)) /\ addr(k)[3] = TypeNumber("chain")
          /\ addr(k)[4] = leaf /\ addr(k)[5] = chain /\ addr(k)[6] = k
      BY <1>3, <1>5 DEF InTree, TypeNumber, OtsType
    <2> HIDE DEF HashRight
    <2> QED BY <2>1, HashesRight
  <1>7. \A h \in hashed' : HashRight(h)
    <2> SUFFICES ASSUME NEW h \in hashed' PROVE HashRight(h)
      OBVIOUS
    <2>1. PICK k \in from..to-1 : h \in Thash("chain", leaf, chain, k, 1, addr(k))
      BY <1>1
    <2> QED BY <1>6, <2>1
  <1>8. IsAddr(ots') /\ \A w \in {0, 1, 2, 3, 4} : ots'[w] = ots[w]
    <2>1. /\ IsAddr(SetKeyAndMask(addr(to - 1), 1))
          /\ \A w \in {0, 1, 2, 3, 4} : SetKeyAndMask(addr(to - 1), 1)[w] = ots[w]
      BY <1>5, SetWord DEF Wrote
    <2> QED BY <1>1, <1>4, <2>1
  <1>9. CallInv'
    BY <1>2, <1>3 DEF KeyInv, CallInv, Phases
  <1>10. InTree(ots)' /\ ots'[4] = leaf' /\ ots'[3] = OtsType
    BY <1>2, <1>3, <1>8 DEF InTree
  <1>11. AddressInv'
    BY <1>1, <1>2, <1>3, <1>8, <1>10 DEF KeyInv, AddressInv, InTree, IsAddr
  <1> QED BY <1>7, <1>9, <1>11, AllHashes DEF KeyInv

(* l_tree *)
LEMMA OpenLTreeStep ==
    ASSUME KeyInv, OpenLTree
    PROVE  KeyInv'
  <1>1. /\ phase = "open" /\ phase' = "ltree" /\ level' = 0 /\ hashed' = {}
        /\ call' = call /\ idx' = idx /\ layer' = layer /\ tree' = tree /\ leaf' = leaf
        /\ ots' = ots /\ node' = node /\ ltree' = SetTreeHeight(ltree, 0)
    BY DEF OpenLTree, position
  <1>2. Wrote(ltree', ltree, 5, 0)
    BY <1>1, SetWord DEF KeyInv, AddressInv
  <1>3. CallInv'
    BY <1>1 DEF KeyInv, CallInv, Phases
  <1>4. AddressInv'
    BY <1>1, <1>2 DEF KeyInv, CallInv, AddressInv, InTree, Wrote, IsAddr
  <1> QED BY <1>1, <1>3, <1>4, NoHashes DEF KeyInv

LEMMA HashPairStep ==
    ASSUME KeyInv, HashPair
    PROVE  KeyInv'
  <1> DEFINE addr == SetTreeIndex(ltree, chain)
  <1>1. /\ phase = "ltree" /\ phase' = phase /\ level' = level
        /\ call' = call /\ idx' = idx /\ layer' = layer /\ tree' = tree /\ leaf' = leaf
        /\ ots' = ots /\ node' = node /\ ltree' = SetKeyAndMask(addr, 2)
        /\ hashed' = Thash("ltree", leaf, level, chain, 2, addr)
    BY DEF HashPair, position
  <1>2. /\ call \in {"treehash", "verify"} /\ IsAddr(ltree) /\ InTree(ltree)
        /\ ltree[3] = LtreeType /\ ltree[4] = leaf /\ ltree[5] = level
    BY <1>1 DEF KeyInv, CallInv, AddressInv
  <1>3. Wrote(addr, ltree, 6, chain)
    BY <1>2, SetWord
  <1> HIDE DEF addr
  <1>4. IsAddr(addr) /\ InTree(addr) /\ addr[3] = TypeNumber("ltree")
        /\ addr[4] = leaf /\ addr[5] = level /\ addr[6] = chain
    BY <1>2, <1>3 DEF Wrote, InTree, TypeNumber, LtreeType
  <1>5. \A h \in hashed' : HashRight(h)
    <2> HIDE DEF HashRight
    <2> QED BY <1>1, <1>4, HashesRight
  <1>6. Wrote(ltree', addr, 7, 2)
    BY <1>1, <1>4, SetWord
  <1>7. CallInv'
    BY <1>1 DEF KeyInv, CallInv
  <1>8. AddressInv'
    BY <1>1, <1>2, <1>3, <1>6 DEF KeyInv, AddressInv, InTree, Wrote, IsAddr
  <1> QED BY <1>5, <1>7, <1>8, AllHashes DEF KeyInv

LEMMA NextLevelStep ==
    ASSUME KeyInv, NextLevel
    PROVE  KeyInv'
  <1>1. /\ phase = "ltree" /\ phase' = phase /\ level' = level + 1 /\ hashed' = {}
        /\ call' = call /\ idx' = idx /\ layer' = layer /\ tree' = tree /\ leaf' = leaf
        /\ ots' = ots /\ node' = node /\ ltree' = SetTreeHeight(ltree, level + 1)
    BY DEF NextLevel, position
  <1>2. Wrote(ltree', ltree, 5, level + 1)
    BY <1>1, SetWord DEF KeyInv, AddressInv
  <1>3. CallInv'
    BY <1>1 DEF KeyInv, CallInv
  <1>4. AddressInv'
    BY <1>1, <1>2 DEF KeyInv, AddressInv, InTree, Wrote, IsAddr
  <1> QED BY <1>1, <1>3, <1>4, NoHashes DEF KeyInv

LEMMA CloseLTreeStep ==
    ASSUME KeyInv, CloseLTree
    PROVE  KeyInv'
  <1>1. /\ phase = "ltree" /\ phase' = "nodes" /\ hashed' = {}
        /\ call' = call /\ idx' = idx /\ layer' = layer /\ tree' = tree /\ leaf' = leaf
        /\ ots' = ots /\ node' = node /\ ltree' = ltree
    BY DEF CloseLTree, position, addresses
  <1>2. CallInv'
    BY <1>1 DEF KeyInv, CallInv, Phases
  <1>3. AddressInv'
    BY <1>1 DEF KeyInv, AddressInv, InTree, IsAddr
  <1> QED BY <1>1, <1>2, <1>3, NoHashes DEF KeyInv

(* treehash, treehash_root and compute_root *)
LEMMA HashNodeStep ==
    ASSUME KeyInv, HashNode
    PROVE  KeyInv'
  <1> DEFINE index == leaf \div Pow2[level + 1]
             high == SetTreeHeight(node, level)
             addr == SetTreeIndex(high, index)
  <1>1. /\ phase = "nodes" /\ phase' = phase /\ call' = call /\ idx' = idx
        /\ layer' = layer /\ tree' = tree /\ leaf' = leaf
        /\ ots' = ots /\ ltree' = ltree /\ node' = SetKeyAndMask(addr, 2)
        /\ hashed' = Thash("node", 0, level, index, 2, addr)
    BY DEF HashNode, position
  <1> HIDE DEF index
  <1>2. /\ call \in {"treehash", "verify"} /\ IsAddr(node) /\ InTree(node)
        /\ node[3] = HashTreeType /\ node[4] = 0
    BY <1>1 DEF KeyInv, CallInv, AddressInv
  <1>3. Wrote(high, node, 5, level)
    BY <1>2, SetWord
  <1>4. Wrote(addr, high, 6, index)
    <2> HIDE DEF high
    <2> QED BY <1>3, SetWord DEF Wrote
  <1> HIDE DEF high, addr
  <1>5. IsAddr(addr) /\ InTree(addr) /\ addr[3] = TypeNumber("node")
        /\ addr[4] = 0 /\ addr[5] = level /\ addr[6] = index
    BY <1>2, <1>3, <1>4 DEF Wrote, InTree, TypeNumber, HashTreeType
  <1>6. \A h \in hashed' : HashRight(h)
    <2> HIDE DEF HashRight
    <2> QED BY <1>1, <1>5, HashesRight
  <1>7. Wrote(node', addr, 7, 2)
    BY <1>1, <1>5, SetWord
  <1>8. CallInv'
    BY <1>1, <1>2 DEF KeyInv, CallInv
  <1>9. AddressInv'
    BY <1>1, <1>2, <1>3, <1>4, <1>7 DEF KeyInv, AddressInv, InTree, Wrote, IsAddr
  <1> QED BY <1>6, <1>8, <1>9, AllHashes DEF KeyInv

LEMMA CloseNodesStep ==
    ASSUME KeyInv, CloseNodes
    PROVE  KeyInv'
  <1>1. /\ phase = "nodes" /\ phase' = "end" /\ hashed' = {}
        /\ call' = call /\ idx' = idx /\ layer' = layer /\ tree' = tree /\ leaf' = leaf
        /\ ots' = ots /\ node' = node /\ ltree' = ltree
    BY DEF CloseNodes, position, addresses
  <1>2. CallInv'
    BY <1>1 DEF KeyInv, CallInv, Phases
  <1>3. AddressInv'
    BY <1>1 DEF KeyInv, AddressInv, InTree, IsAddr
  <1> QED BY <1>1, <1>2, <1>3, NoHashes DEF KeyInv

LEMMA ReturnStep ==
    ASSUME KeyInv, Return
    PROVE  KeyInv'
  <1>1. /\ call' = "idle" /\ phase' = "none" /\ idx' = 0 /\ layer' = 0 /\ hashed' = {}
        /\ ots' = ZeroAddr /\ ltree' = ZeroAddr /\ node' = ZeroAddr
    BY DEF Return
  <1>2. 0 \in Layers /\ 0 \in 0..IndexModulus-1
    BY DimensionAssumption, LeafHashAssumption, PowerFacts DEF Layers
  <1>3. CallInv'
    BY <1>1, <1>2 DEF CallInv, Phases
  <1>4. AddressInv'
    BY <1>1, ZeroIsAddr DEF AddressInv
  <1> QED BY <1>1, <1>3, <1>4, NoHashes DEF KeyInv

LEMMA EndLeafStep ==
    ASSUME KeyInv, EndLeaf
    PROVE  KeyInv'
  <1>1. CASE /\ call = "treehash" /\ leaf' = leaf + 1 /\ phase' = "leaf" /\ hashed' = {}
             /\ UNCHANGED <<call, idx, layer, tree, target, chain, level, addresses, nodes, width>>
    <2>1. /\ call' = call /\ idx' = idx /\ layer' = layer /\ tree' = tree
          /\ ots' = ots /\ node' = node /\ ltree' = ltree
      BY <1>1 DEF addresses
    <2>2. CallInv'
      BY <1>1, <2>1 DEF KeyInv, CallInv, Phases
    <2>3. AddressInv'
      BY <1>1, <2>1 DEF KeyInv, AddressInv, InTree, IsAddr
    <2> QED BY <1>1, <2>2, <2>3, NoHashes DEF KeyInv
  <1>2. CASE /\ call # "treehash" /\ layer + 1 < D /\ layer' = layer + 1
             /\ phase = "end" /\ phase' = "leaf" /\ hashed' = {}
             /\ UNCHANGED <<call, idx, tree, leaf, target, chain, level, addresses, nodes, width>>
    <2>1. /\ call' = call /\ idx' = idx /\ tree' = tree
          /\ ots' = ots /\ node' = node /\ ltree' = ltree
      BY <1>2 DEF addresses
    <2>2. layer' \in Layers
      BY <1>2, DimensionAssumption DEF KeyInv, CallInv, Layers
    <2>3. call # "idle"
      BY <1>2 DEF KeyInv, CallInv
    <2>4. CallInv'
      BY <1>2, <2>1, <2>2, <2>3 DEF KeyInv, CallInv, Phases
    <2>5. AddressInv'
      BY <1>2, <2>1 DEF KeyInv, AddressInv, IsAddr
    <2> QED BY <1>2, <2>4, <2>5, NoHashes DEF KeyInv
  <1>3. CASE Return
    BY <1>3, ReturnStep
  <1> QED BY <1>1, <1>2, <1>3 DEF EndLeaf

LEMMA KeyInvInductive == Spec => []KeyInv
  <1>1. Init => KeyInv
    <2> SUFFICES ASSUME Init PROVE KeyInv
      OBVIOUS
    <2>1. /\ call = "idle" /\ phase = "none" /\ idx = 0 /\ layer = 0 /\ hashed = {}
          /\ ots = ZeroAddr /\ ltree = ZeroAddr /\ node = ZeroAddr
      BY DEF Init, Idle
    <2>2. 0 \in Layers /\ 0 \in 0..IndexModulus-1
      BY DimensionAssumption, LeafHashAssumption, PowerFacts DEF Layers
    <2>3. CallInv
      BY <2>1, <2>2 DEF CallInv, Phases
    <2>4. AddressInv
      BY <2>1, ZeroIsAddr DEF AddressInv
    <2> QED BY <2>1, <2>3, <2>4 DEF KeyInv, AddressRight
  <1>2. KeyInv /\ [Next]_vars => KeyInv'
    <2> SUFFICES ASSUME KeyInv, [Next]_vars PROVE KeyInv'
      OBVIOUS
    <2>1. CASE UNCHANGED vars
      <3>1. /\ call' = call /\ idx' = idx /\ layer' = layer /\ tree' = tree /\ leaf' = leaf
            /\ ots' = ots /\ ltree' = ltree /\ node' = node
            /\ phase' = phase /\ level' = level /\ hashed' = hashed
        BY <2>1 DEF vars, position, addresses
      <3>2. CallInv' /\ AddressRight'
        BY <3>1 DEF KeyInv, CallInv, AddressRight
      <3>3. AddressInv'
        BY <3>1 DEF KeyInv, AddressInv, InTree, IsAddr
      <3> QED BY <3>2, <3>3 DEF KeyInv
    <2>2. CASE HashFails
      BY <2>2, ReturnStep DEF HashFails
    <2> QED
      BY <2>1, <2>2, StartTreehashStep, StartSignStep, StartVerifyStep, NextLeafStep,
         NextLayerStep, ExpandSeedStep, GenChainStep, OpenLTreeStep, HashPairStep,
         NextLevelStep, CloseLTreeStep, HashNodeStep, CloseNodesStep, EndLeafStep
      DEF Next
  <1> QED BY <1>1, <1>2, PTL DEF Spec

(* Every hash is keyed with the address of its own place and use, in every *)
(* call and whatever was hashed before: treehash, the signer and the       *)
(* verifier agree on every leaf and node.                                  *)
THEOREM AddressesRight == Spec => []AddressRight
  <1>1. KeyInv => AddressRight
    BY DEF KeyInv
  <1> QED BY <1>1, KeyInvInductive, PTL

---------------------------------------------------------------------------
(* One address, one hash *)

(* A hash is made with prf_keygen for the seed of a chain, with prf for    *)
(* everything else.                                                        *)
IsHash(h) ==
    /\ h = [fn |-> h.fn, use |-> h.use, layer |-> h.layer, tree |-> h.tree,
            leaf |-> h.leaf, a |-> h.a, b |-> h.b, mask |-> h.mask, addr |-> h.addr]
    /\ \/ h.fn = "prf_keygen" /\ h.use = "seed"
       \/ h.fn = "prf" /\ h.use \in {"chain", "ltree", "node"}

HashesAre == \A h \in hashed : IsHash(h)

LEMMA HashIsHash ==
    ASSUME NEW fn, NEW use, NEW of, NEW a, NEW b, NEW mask, NEW addr,
           \/ fn = "prf_keygen" /\ use = "seed"
           \/ fn = "prf" /\ use \in {"chain", "ltree", "node"}
    PROVE  IsHash(Hash(fn, use, of, a, b, mask, addr))
  BY DEF IsHash, Hash

LEMMA ThashIsHash ==
    ASSUME NEW use \in {"chain", "ltree", "node"}, NEW of, NEW a, NEW b, NEW masks, NEW addr
    PROVE  \A h \in Thash(use, of, a, b, masks, addr) : IsHash(h)
  BY HashIsHash DEF Thash

LEMMA HashesInvariant == Spec => []HashesAre
  <1>1. Init => HashesAre
    BY DEF Init, Idle, HashesAre
  <1>2. HashesAre /\ [Next]_vars => HashesAre'
    <2> SUFFICES ASSUME HashesAre, [Next]_vars PROVE HashesAre'
      OBVIOUS
    <2>1. CASE hashed' \in {hashed, {}}
      BY <2>1 DEF HashesAre
    <2>2. CASE ExpandSeed
      <3>1. ASSUME NEW h \in hashed' PROVE IsHash(h)
        BY <2>2, HashIsHash DEF ExpandSeed
      <3> QED BY <3>1 DEF HashesAre
    <2>3. CASE GenChain
      <3>1. PICK from \in 0..WotsW-1, to \in 0..WotsW-1 :
               hashed' = UNION {Thash("chain", leaf, chain, step, 1,
                                      SetHashAddr(SetChainAddr(ots, chain), step)) :
                                step \in from..to-1}
        BY <2>3 DEF GenChain
      <3> QED BY <3>1, ThashIsHash DEF HashesAre
    <2>4. CASE HashPair
      BY <2>4, ThashIsHash DEF HashPair, HashesAre
    <2>5. CASE HashNode
      BY <2>5, ThashIsHash DEF HashNode, HashesAre
    <2>6. CASE UNCHANGED vars
      BY <2>1, <2>6 DEF vars
    <2>7. CASE StartTreehash \/ StartSign \/ StartVerify \/ NextLeaf \/ NextLayer
      BY <2>1, <2>7 DEF StartTreehash, StartSign, StartVerify, NextLeaf, NextLayer
    <2>8. CASE OpenLTree \/ NextLevel \/ CloseLTree \/ CloseNodes \/ EndLeaf \/ HashFails
      BY <2>1, <2>8 DEF OpenLTree, NextLevel, CloseLTree, CloseNodes, EndLeaf, HashFails, Return
    <2> QED BY <2>2, <2>3, <2>4, <2>5, <2>6, <2>7, <2>8 DEF Next
  <1> QED BY <1>1, <1>2, PTL DEF Spec

(* What a hash is, and the address it is made under. *)
Placed(h) ==
    /\ IsHash(h)
    /\ h.addr[0] = h.layer
    /\ h.addr[1] * WordModulus + h.addr[2] = h.tree
    /\ h.addr[3] = TypeNumber(h.use)
    /\ h.addr[4] = h.leaf
    /\ h.addr[5] = h.a /\ h.addr[6] = h.b
    /\ h.addr[7] = h.mask

LEMMA AddressTells ==
    ASSUME NEW g, NEW h, Placed(g), Placed(h), g.fn = h.fn, g.addr = h.addr
    PROVE  g = h
  <1>1. g.layer = h.layer /\ g.tree = h.tree /\ g.leaf = h.leaf
    BY DEF Placed
  <1>2. g.a = h.a /\ g.b = h.b /\ g.mask = h.mask /\ TypeNumber(g.use) = TypeNumber(h.use)
    BY DEF Placed
  <1>3. g.use = h.use
    BY <1>2 DEF Placed, IsHash, TypeNumber
  <1> QED BY <1>1, <1>2, <1>3 DEF Placed, IsHash

(* Two different hashes of a key, in whatever calls they are made, are     *)
(* made with different functions or under different addresses: a hash that *)
(* shares both with one made before or after is the same hash, of the same *)
(* place in the same tree, made again.                                     *)
THEOREM NoAddressShared ==
    ASSUME NEW g, NEW h, g.fn = h.fn, g.addr = h.addr, g # h
    PROVE  Spec => ~(<>(g \in hashed) /\ <>(h \in hashed))
  <1>1. ~Placed(g) \/ ~Placed(h)
    BY AddressTells
  <1>2. AddressRight /\ HashesAre => \A f \in hashed : Placed(f)
    BY DEF AddressRight, HashesAre, Placed
  <1>3. CASE ~Placed(g)
    <2>1. AddressRight /\ HashesAre => ~(g \in hashed)
      BY <1>2, <1>3
    <2> QED BY <2>1, AddressesRight, HashesInvariant, PTL
  <1>4. CASE ~Placed(h)
    <2>1. AddressRight /\ HashesAre => ~(h \in hashed)
      BY <1>2, <1>4
    <2> QED BY <2>1, AddressesRight, HashesInvariant, PTL
  <1> QED BY <1>1, <1>3, <1>4

---------------------------------------------------------------------------
(* The fold of l_tree *)

LEMMA OpenLTreeFold ==
    ASSUME OpenLTree
    PROVE  FoldInv'
  <1>1. /\ phase' = "ltree" /\ chain' = 0 /\ width' = WotsLen
        /\ nodes' = [i \in 0..WotsLen-1 |-> <<i, i>>]
    BY DEF OpenLTree
  <1>2. WotsLen \in Nat /\ WotsLen >= 2
    BY LeafHashAssumption
  <1>3. \A i \in 0..WotsLen-1 : nodes'[i][1] = i /\ nodes'[i][2] = i
    BY <1>1
  <1>4. nodes' \in [0..WotsLen-1 -> Int \X Int]
    BY <1>1
  <1>5. 0 \in 0..(WotsLen \div 2) /\ WotsLen \in 1..WotsLen
    BY <1>2
  <1>6. nodes'[0][1] = 0
    BY <1>2, <1>3
  <1>7. \A i \in 0..WotsLen-2 : nodes'[i][2] + 1 = nodes'[i + 1][1]
    BY <1>2, <1>3
  <1>8. nodes'[WotsLen - 1][2] = WotsLen - 1
    BY <1>2, <1>3
  <1> QED BY <1>1, <1>2, <1>4, <1>5, <1>6, <1>7, <1>8 DEF FoldInv, LeafCovers

LEMMA HashPairFold ==
    ASSUME FoldInv, HashPair
    PROVE  FoldInv'
  <1> DEFINE c == chain
             old == nodes
             new == [nodes EXCEPT ![chain] = Join(nodes[2 * chain], nodes[2 * chain + 1])]
  <1>1. /\ phase = "ltree" /\ phase' = phase /\ chain' = c + 1 /\ width' = width
        /\ nodes' = new /\ c < width \div 2
    BY DEF HashPair
  <1>2. /\ old \in [0..WotsLen-1 -> Int \X Int]
        /\ width \in 1..WotsLen
        /\ c \in 0..(width \div 2)
        /\ old[0][1] = 0
        /\ \A i \in 0..c-2 : old[i][2] + 1 = old[i + 1][1]
        /\ \A i \in 2*c..width-2 : old[i][2] + 1 = old[i + 1][1]
        /\ c > 0 /\ 2 * c < width => old[c - 1][2] + 1 = old[2 * c][1]
        /\ old[IF 2 * c < width THEN width - 1 ELSE c - 1][2] = WotsLen - 1
    BY <1>1 DEF FoldInv
  <1>3. /\ WotsLen \in Nat /\ width \in Nat /\ c \in Nat /\ 2 * c + 2 <= width /\ width <= WotsLen
        /\ c \in 0..WotsLen-1 /\ 2 * c \in 0..WotsLen-1 /\ 2 * c + 1 \in 0..WotsLen-1
        /\ c + 1 \in 0..(width \div 2)
    BY <1>1, <1>2, LeafHashAssumption
  <1>4. old[2 * c][2] + 1 = old[2 * c + 1][1]
    BY <1>2, <1>3
  <1>5. new[c] = <<old[2 * c][1], old[2 * c + 1][2]>>
    BY <1>2, <1>3, <1>4 DEF Join
  <1>6. new \in [0..WotsLen-1 -> Int \X Int]
    <2>1. old[2 * c] \in Int \X Int /\ old[2 * c + 1] \in Int \X Int
      BY <1>2, <1>3
    <2>2. <<old[2 * c][1], old[2 * c + 1][2]>> \in Int \X Int
      BY <2>1
    <2>3. Join(old[2 * c], old[2 * c + 1]) = <<old[2 * c][1], old[2 * c + 1][2]>>
      BY <1>4 DEF Join
    <2> QED BY <1>2, <2>2, <2>3
  <1>7. \A i \in 0..WotsLen-1 : i # c => new[i] = old[i]
    BY <1>2
  <1>8. new[c][1] = old[2 * c][1] /\ new[c][2] = old[2 * c + 1][2]
    BY <1>5
  <1> HIDE DEF new, old, c
  <1>9. new[0][1] = 0
    <2>1. CASE c = 0
      BY <1>2, <1>8, <2>1
    <2>2. CASE c # 0
      <3>1. 0 \in 0..WotsLen-1
        BY <1>3
      <3>2. new[0] = old[0]
        BY <1>7, <2>2, <3>1
      <3> QED BY <1>2, <3>2
    <2> QED BY <2>1, <2>2
  <1>10. ASSUME NEW i \in 0..(c + 1)-2 PROVE new[i][2] + 1 = new[i + 1][1]
    <2>1. CASE i = c - 1
      <3>1. c > 0 /\ 2 * c < width /\ i + 1 = c /\ i \in 0..WotsLen-1 /\ i # c
        BY <1>3, <2>1
      <3>2. new[i] = old[i]
        BY <1>7, <3>1
      <3>3. old[i][2] + 1 = old[2 * c][1]
        BY <1>2, <2>1, <3>1
      <3> QED BY <1>8, <3>1, <3>2, <3>3
    <2>2. CASE i # c - 1
      <3>1. /\ i \in 0..c-2 /\ i \in 0..WotsLen-1 /\ i + 1 \in 0..WotsLen-1
            /\ i # c /\ i + 1 # c
        BY <1>3, <2>2
      <3>2. new[i] = old[i] /\ new[i + 1] = old[i + 1]
        BY <1>7, <3>1
      <3>3. old[i][2] + 1 = old[i + 1][1]
        BY <1>2, <3>1
      <3> QED BY <3>2, <3>3
    <2> QED BY <2>1, <2>2
  <1>11. ASSUME NEW i \in 2*(c + 1)..width-2 PROVE new[i][2] + 1 = new[i + 1][1]
    <2>1. /\ i \in 2*c..width-2 /\ i \in 0..WotsLen-1 /\ i + 1 \in 0..WotsLen-1
          /\ i # c /\ i + 1 # c
      BY <1>3
    <2>2. new[i] = old[i] /\ new[i + 1] = old[i + 1]
      BY <1>7, <2>1
    <2>3. old[i][2] + 1 = old[i + 1][1]
      BY <1>2, <2>1
    <2> QED BY <2>2, <2>3
  <1>12. 2 * (c + 1) < width => new[(c + 1) - 1][2] + 1 = new[2 * (c + 1)][1]
    <2> SUFFICES ASSUME 2 * (c + 1) < width
                 PROVE  new[(c + 1) - 1][2] + 1 = new[2 * (c + 1)][1]
      OBVIOUS
    <2>1. /\ 2 * c + 1 \in 2*c..width-2 /\ (c + 1) - 1 = c /\ 2 * (c + 1) = (2 * c + 1) + 1
          /\ 2 * (c + 1) \in 0..WotsLen-1 /\ 2 * (c + 1) # c
      BY <1>3
    <2>2. old[2 * c + 1][2] + 1 = old[(2 * c + 1) + 1][1]
      BY <1>2, <2>1
    <2>3. new[2 * (c + 1)] = old[2 * (c + 1)]
      BY <1>7, <2>1
    <2> QED BY <1>8, <2>1, <2>2, <2>3
  <1>13. new[IF 2 * (c + 1) < width THEN width - 1 ELSE (c + 1) - 1][2] = WotsLen - 1
    <2>1. old[width - 1][2] = WotsLen - 1
      BY <1>2, <1>3
    <2>2. CASE 2 * (c + 1) < width
      <3>1. width - 1 \in 0..WotsLen-1 /\ width - 1 # c
        BY <1>3, <2>2
      <3> QED BY <1>7, <2>1, <2>2, <3>1
    <2>3. CASE ~ 2 * (c + 1) < width
      <3>1. 2 * c + 1 = width - 1 /\ (c + 1) - 1 = c
        BY <1>3, <2>3
      <3> QED BY <1>8, <2>1, <2>3, <3>1
    <2> QED BY <2>2, <2>3
  <1> QED BY <1>1, <1>2, <1>3, <1>6, <1>9, <1>10, <1>11, <1>12, <1>13 DEF FoldInv, LeafCovers

(* A level starts with no pair folded. *)
LEMMA NewLevelFold ==
    ASSUME NEW w \in 1..WotsLen, width' = w, chain' = 0, phase' = "ltree",
           nodes' \in [0..WotsLen-1 -> Int \X Int], nodes'[0][1] = 0,
           \A i \in 0..w-2 : nodes'[i][2] + 1 = nodes'[i + 1][1],
           nodes'[w - 1][2] = WotsLen - 1
    PROVE  FoldInv'
  <1>1. w \in Nat /\ w >= 1 /\ 2 * 0 = 0 /\ 0 \in 0..(w \div 2) /\ 0..(0-2) = {} /\ ~(0 > 0)
    BY LeafHashAssumption
  <1> QED BY <1>1 DEF FoldInv, LeafCovers

LEMMA NextLevelFold ==
    ASSUME FoldInv, NextLevel
    PROVE  FoldInv'
  <1> DEFINE c == chain
             old == nodes
             new == nodes'
  <1>1. /\ phase = "ltree" /\ phase' = phase /\ chain' = 0 /\ width > 1 /\ c = width \div 2
        /\ IF width % 2 = 1
           THEN new = [old EXCEPT ![width \div 2] = old[width - 1]] /\ width' = width \div 2 + 1
           ELSE new = old /\ width' = width \div 2
    BY DEF NextLevel
  <1>2. /\ old \in [0..WotsLen-1 -> Int \X Int]
        /\ width \in 1..WotsLen
        /\ old[0][1] = 0
        /\ \A i \in 0..c-2 : old[i][2] + 1 = old[i + 1][1]
        /\ c > 0 /\ 2 * c < width => old[c - 1][2] + 1 = old[2 * c][1]
        /\ old[IF 2 * c < width THEN width - 1 ELSE c - 1][2] = WotsLen - 1
    BY <1>1 DEF FoldInv
  <1>3. WotsLen \in Nat /\ width \in Nat /\ c \in Nat /\ c > 0 /\ c < width /\ width <= WotsLen
    BY <1>1, <1>2, LeafHashAssumption
  <1> HIDE DEF c, old
  <1>4. CASE width % 2 = 1
    <2>1. width = 2 * c + 1 /\ width - 1 = 2 * c
      <3>1. width \in Nat /\ c = width \div 2
        BY <1>1, <1>3
      <3>2. width = 2 * (width \div 2) + (width % 2)
        BY <3>1, DivMod
      <3> QED BY <1>3, <1>4, <3>1, <3>2
    <2>2. new = [old EXCEPT ![c] = old[2 * c]] /\ width' = c + 1
      <3> HIDE DEF new
      <3> QED BY <1>1, <1>4, <2>1
    <2>3. c \in 0..WotsLen-1 /\ 2 * c \in 0..WotsLen-1 /\ c + 1 \in 1..WotsLen
          /\ 0 \in 0..((c + 1) \div 2)
      BY <1>3, <2>1
    <2>4. new \in [0..WotsLen-1 -> Int \X Int]
      BY <1>2, <2>2, <2>3
    <2>5. new[c] = old[2 * c] /\ \A i \in 0..WotsLen-1 : i # c => new[i] = old[i]
      BY <1>2, <2>2, <2>3
    <2> HIDE DEF new
    <2>6. new[0][1] = 0
      BY <1>2, <1>3, <2>5
    <2>7. ASSUME NEW i \in 0..c-1 PROVE new[i][2] + 1 = new[i + 1][1]
      <3>1. CASE i = c - 1
        <4>1. old[c - 1][2] + 1 = old[2 * c][1]
          BY <1>2, <1>3, <2>1
        <4>2. new[c - 1] = old[c - 1] /\ i + 1 = c
          BY <1>3, <2>5, <3>1
        <4> QED BY <2>5, <3>1, <4>1, <4>2
      <3>2. CASE i # c - 1
        <4>1. /\ i \in 0..c-2 /\ i \in 0..WotsLen-1 /\ i + 1 \in 0..WotsLen-1
              /\ i # c /\ i + 1 # c
          BY <1>3, <3>2
        <4>2. new[i] = old[i] /\ new[i + 1] = old[i + 1]
          BY <2>5, <4>1
        <4>3. old[i][2] + 1 = old[i + 1][1]
          BY <1>2, <4>1
        <4> QED BY <4>2, <4>3
      <3> QED BY <3>1, <3>2
    <2>8. new[c][2] = WotsLen - 1
      <3>1. old[2 * c][2] = WotsLen - 1
        BY <1>2, <1>3, <2>1
      <3> QED BY <1>3, <2>5, <3>1
    <2> QED BY <1>1, <1>3, <2>2, <2>3, <2>4, <2>6, <2>7, <2>8, NewLevelFold DEF new
  <1>5. CASE width % 2 # 1
    <2>1. width = 2 * c
      BY <1>1, <1>3, <1>5
    <2>2. new = old /\ width' = c
      <3> HIDE DEF new
      <3> QED BY <1>1, <1>5
    <2>3. c \in 1..WotsLen /\ 0 \in 0..(c \div 2)
      BY <1>3
    <2>4. old[c - 1][2] = WotsLen - 1
      BY <1>2, <1>3, <2>1
    <2>5. \A i \in 0..c-2 : new[i][2] + 1 = new[i + 1][1]
      BY <1>2, <2>2
    <2>6. new \in [0..WotsLen-1 -> Int \X Int] /\ new[0][1] = 0 /\ new[c - 1][2] = WotsLen - 1
      BY <1>2, <2>2, <2>4
    <2> HIDE DEF new
    <2> QED BY <1>1, <1>3, <2>2, <2>3, <2>5, <2>6, NewLevelFold DEF new
  <1> QED BY <1>4, <1>5

LEMMA CloseLTreeFold ==
    ASSUME FoldInv, CloseLTree
    PROVE  FoldInv'
  <1>1. phase = "ltree" /\ phase' = "nodes" /\ width = 1 /\ nodes' = nodes
    BY DEF CloseLTree
  <1>2. /\ nodes \in [0..WotsLen-1 -> Int \X Int] /\ chain \in 0..(width \div 2)
        /\ nodes[0][1] = 0
        /\ nodes[IF 2 * chain < width THEN width - 1 ELSE chain - 1][2] = WotsLen - 1
    BY <1>1 DEF FoldInv
  <1>3. chain = 0 /\ 0 \in 0..WotsLen-1
    BY <1>1, <1>2, LeafHashAssumption
  <1>4. nodes[0] \in Int \X Int /\ nodes[0][2] = WotsLen - 1
    BY <1>1, <1>2, <1>3
  <1>5. nodes[0] = <<0, WotsLen - 1>>
    BY <1>2, <1>4
  <1> QED BY <1>1, <1>5 DEF FoldInv, LeafCovers

(* Outside of l_tree nothing is folded, and between it and the end of the  *)
(* leaf the first node stays.                                              *)
LEMMA OtherFold ==
    ASSUME FoldInv,
           \/ phase' \notin {"ltree", "nodes"}
           \/ phase' = phase /\ nodes' = nodes /\ width' = width /\ chain' = chain
    PROVE  FoldInv'
  BY DEF FoldInv, LeafCovers

LEMMA FoldInvInductive == Spec => []FoldInv
  <1>1. Init => FoldInv
    BY DEF Init, Idle, FoldInv, LeafCovers
  <1>2. FoldInv /\ [Next]_vars => FoldInv'
    <2> SUFFICES ASSUME FoldInv, [Next]_vars PROVE FoldInv'
      OBVIOUS
    <2>1. CASE UNCHANGED vars
      BY <2>1, OtherFold DEF vars
    <2>2. CASE StartTreehash \/ StartSign \/ StartVerify
      BY <2>2, OtherFold DEF StartTreehash, StartSign, StartVerify
    <2>3. CASE NextLeaf \/ NextLayer
      BY <2>3, OtherFold DEF NextLeaf, NextLayer
    <2>4. CASE ExpandSeed
      BY <2>4, OtherFold DEF ExpandSeed
    <2>5. CASE GenChain
      <3>1. phase' \in {phase, "end", "open"} /\ phase = "chains"
        BY <2>5 DEF GenChain
      <3> QED BY <3>1, OtherFold
    <2>6. CASE HashNode
      BY <2>6, OtherFold DEF HashNode
    <2>7. CASE CloseNodes
      BY <2>7, OtherFold DEF CloseNodes
    <2>8. CASE EndLeaf \/ HashFails
      BY <2>8, OtherFold DEF EndLeaf, HashFails, Return
    <2> QED
      BY <2>1, <2>2, <2>3, <2>4, <2>5, <2>6, <2>7, <2>8, OpenLTreeFold, HashPairFold,
         NextLevelFold, CloseLTreeFold
      DEF Next
  <1> QED BY <1>1, <1>2, PTL DEF Spec

(* l_tree folds every chain end into the leaf, once and in order, for      *)
(* every number of chains.                                                 *)
THEOREM LTreeCovers == Spec => []LeafCovers
  <1>1. FoldInv => LeafCovers
    BY DEF FoldInv
  <1> QED BY <1>1, FoldInvInductive, PTL
=============================================================================
