------------------------------ MODULE LeafHash ------------------------------
(***************************************************************************)
(* The addresses the hashes of a tree are keyed with.                      *)
(*                                                                         *)
(* Up to three addresses live through a call and go from leaf to leaf or   *)
(* from layer to layer; each hash relies on words that somebody set and    *)
(* nobody has overwritten since.  treehash and treehash_root hash trees,   *)
(* the signer one WOTS+ key of each layer, the verifier a leaf and a path. *)
(* Where they meet they must hash under the same address.                  *)
(*                                                                         *)
(* The module also follows l_tree, which folds the public key of a leaf in *)
(* place: a node of it is the run of chain ends it was made from.          *)
(***************************************************************************)
EXTENDS Hypertree, HashAddress

CONSTANTS
    WotsW,   \* params.wots_w
    WotsLen, \* params.wots_len
    IndexModulus \* 256^params.index_bytes: a verifier may be given any index

ASSUME LeafHashAssumption ==
    /\ WotsW \in Nat \ {0, 1}
    /\ WotsLen \in Nat \ {0, 1}
    /\ IndexModulus \in Nat
    /\ MaxIdx < IndexModulus /\ IndexModulus <= WordModulus * WordModulus

VARIABLES
    call,   \* what runs: "treehash", "sign", "verify", or nothing ("idle")
    phase,  \* what it does next
    idx,    \* the index signed or verified for
    layer, tree, leaf, \* where it is
    target, \* the height of the tree to hash
    chain,  \* the next chain, or the next pair of the L-tree
    level,  \* the height reached in the L-tree, then in the tree
    ots, ltree, node,  \* ots_addr, ltree_addr, node_addr
    nodes, width,      \* wots_pk within l_tree, and l
    hashed  \* the hashes the last step made

position  == <<call, idx, layer, tree, leaf, target>>
addresses == <<ots, ltree, node>>
vars == <<position, phase, chain, level, addresses, nodes, width, hashed>>

---------------------------------------------------------------------------
(* A hash, by what it is for and its address: a chain or a height, and a   *)
(* step or an index.  thash_f and thash_h make one for each mask.          *)
Hash(fn, use, of, a, b, mask, addr) ==
    [fn |-> fn, use |-> use, layer |-> layer, tree |-> tree, leaf |-> of,
     a |-> a, b |-> b, mask |-> mask, addr |-> addr]

Thash(use, of, a, b, masks, addr) ==
    {Hash("prf", use, of, a, b, mask, SetKeyAndMask(addr, mask)) : mask \in 0..masks}

(* the run of chain ends two nodes make together *)
NoRun == <<0, -1>>
Join(left, right) ==
    IF left[2] + 1 = right[1] THEN <<left[1], right[2]>> ELSE NoRun

---------------------------------------------------------------------------
(* Calls *)

Idle ==
    /\ call = "idle" /\ phase = "none"
    /\ idx = 0 /\ layer = 0 /\ tree = 0 /\ leaf = 0 /\ target = 0
    /\ chain = 0 /\ level = 0
    /\ ots = ZeroAddr /\ ltree = ZeroAddr /\ node = ZeroAddr
    /\ nodes = <<>> /\ width = 0
    /\ hashed = {}

Init == Idle

(* A call returns, and its addresses are gone. *)
Return ==
    /\ call' = "idle" /\ phase' = "none"
    /\ idx' = 0 /\ layer' = 0 /\ tree' = 0 /\ leaf' = 0 /\ target' = 0
    /\ chain' = 0 /\ level' = 0
    /\ ots' = ZeroAddr /\ ltree' = ZeroAddr /\ node' = ZeroAddr
    /\ nodes' = <<>> /\ width' = 0
    /\ hashed' = {}

(* treehash and treehash_root, for an aligned subtree of any tree *)
StartTreehash ==
    \E l \in Layers, height \in 0..TreeHeight, first \in 0..Leaves-1 :
    \E t \in 0..TreeIdx(MaxIdx, l) :
        LET subtree == SetTreeAddr(SetLayerAddr(ZeroAddr, l), t)
        IN /\ call = "idle"
           /\ first % Pow2[height] = 0
           /\ call' = "treehash" /\ phase' = "leaf"
           /\ layer' = l /\ tree' = t /\ leaf' = first /\ target' = height
           /\ ots' = SetType(CopySubtreeAddr(ZeroAddr, subtree), OtsType)
           /\ ltree' = SetType(CopySubtreeAddr(ZeroAddr, subtree), LtreeType)
           /\ node' = SetType(CopySubtreeAddr(ZeroAddr, subtree), HashTreeType)
           /\ UNCHANGED <<idx, chain, level, nodes, width, hashed>>

(* xmssmt_core_sign_inner *)
StartSign ==
    /\ call = "idle"
    /\ call' = "sign" /\ phase' = "leaf"
    /\ idx' \in Indices
    /\ ots' = SetType(ZeroAddr, OtsType)
    /\ UNCHANGED <<layer, tree, leaf, target, chain, level, ltree, node, nodes, width, hashed>>

(* xmssmt_core_verify_detached *)
StartVerify ==
    /\ call = "idle"
    /\ call' = "verify" /\ phase' = "leaf"
    /\ idx' \in 0..IndexModulus-1
    /\ ots' = SetType(ZeroAddr, OtsType)
    /\ ltree' = SetType(ZeroAddr, LtreeType)
    /\ node' = SetType(ZeroAddr, HashTreeType)
    /\ UNCHANGED <<layer, tree, leaf, target, chain, level, nodes, width, hashed>>

---------------------------------------------------------------------------
(* One leaf, or the one-time key of one layer *)

(* The loop over leaves: the next of the same tree. *)
NextLeaf ==
    /\ call = "treehash" /\ phase = "leaf"
    /\ ltree' = SetLtreeAddr(ltree, leaf)
    /\ ots' = SetOtsAddr(ots, leaf)
    /\ phase' = "seeds"
    /\ hashed' = {}
    /\ UNCHANGED <<position, chain, level, node, nodes, width>>

At(addr, l, t) == SetTreeAddr(SetLayerAddr(addr, l), t)

(* The loop over layers, of the signer and of the verifier.  The signer    *)
(* may find the signature of a layer above 0 in its cache.                 *)
NextLayer ==
    LET t == TreeIdx(idx, layer)
        l == LeafIdx(idx, layer)
    IN /\ call \in {"sign", "verify"} /\ phase = "leaf"
       /\ tree' = t
       /\ leaf' = l
       /\ ots' = SetOtsAddr(At(ots, layer, t), l)
       /\ IF call = "verify"
          THEN /\ ltree' = SetLtreeAddr(At(ltree, layer, t), l)
               /\ node' = At(node, layer, t)
               /\ phase' = "chains"
          ELSE /\ UNCHANGED <<ltree, node>>
               /\ phase' = "seeds" \/ (layer > 0 /\ phase' = "end")
       /\ chain' = 0
       /\ hashed' = {}
       /\ UNCHANGED <<call, idx, layer, target, level, nodes, width>>

(* (slip: the hash address keeps the step the key before ended at) *)
ExpandSeedStale ==
    LET addr(i) == SetChainAddr(SetKeyAndMask(ots, 0), i)
    IN /\ phase = "seeds"
       /\ hashed' = {Hash("prf_keygen", "seed", leaf, i, 0, 0, addr(i)) : i \in 0..WotsLen-1}
       /\ ots' = addr(WotsLen - 1)
       /\ phase' = "chains" /\ chain' = 0
       /\ UNCHANGED <<position, level, ltree, node, nodes, width>>

(* expand_seed *)
ExpandSeed ==
    LET addr(i) == SetChainAddr(SetKeyAndMask(SetHashAddr(ots, 0), 0), i)
    IN /\ phase = "seeds"
       /\ hashed' = {Hash("prf_keygen", "seed", leaf, i, 0, 0, addr(i)) : i \in 0..WotsLen-1}
       /\ ots' = addr(WotsLen - 1)
       /\ phase' = "chains" /\ chain' = 0
       /\ UNCHANGED <<position, level, ltree, node, nodes, width>>

(* gen_chain: all of the chain for a public key, up to a digit of the      *)
(* message for a signature, and from there on for a verifier               *)
GenChain ==
    \E from, to \in 0..WotsW-1 :
        LET base == SetChainAddr(ots, chain)
            addr(step) == SetHashAddr(base, step)
        IN /\ phase = "chains"
           /\ from <= to
           /\ call # "verify" => from = 0
           /\ call # "sign" => to = WotsW - 1
           /\ hashed' = UNION {Thash("chain", leaf, chain, step, 1, addr(step)) :
                               step \in from..to-1}
           /\ ots' = IF from < to THEN SetKeyAndMask(addr(to - 1), 1) ELSE base
           /\ IF chain + 1 < WotsLen
              THEN chain' = chain + 1 /\ UNCHANGED phase
              ELSE chain' = 0 /\ phase' = IF call = "sign" THEN "end" ELSE "open"
           /\ UNCHANGED <<position, level, ltree, node, nodes, width>>

---------------------------------------------------------------------------
(* l_tree: fold the public key, pair by pair, level by level *)

OpenLTree ==
    /\ phase = "open"
    /\ ltree' = SetTreeHeight(ltree, 0)
    /\ nodes' = [i \in 0..WotsLen-1 |-> <<i, i>>]
    /\ width' = WotsLen
    /\ phase' = "ltree" /\ level' = 0 /\ chain' = 0
    /\ hashed' = {}
    /\ UNCHANGED <<position, ots, node>>

HashPair ==
    LET addr == SetTreeIndex(ltree, chain)
    IN /\ phase = "ltree"
       /\ chain < width \div 2
       /\ hashed' = Thash("ltree", leaf, level, chain, 2, addr)
       /\ ltree' = SetKeyAndMask(addr, 2)
       /\ nodes' = [nodes EXCEPT ![chain] = Join(nodes[2 * chain], nodes[2 * chain + 1])]
       /\ chain' = chain + 1
       /\ UNCHANGED <<position, phase, level, ots, node, width>>

(* (slip: a node without a sibling is dropped) *)
NextLevelDropsOdd ==
    /\ phase = "ltree"
    /\ width > 1
    /\ chain = width \div 2
    /\ nodes' = nodes
    /\ width' = width \div 2
    /\ level' = level + 1
    /\ ltree' = SetTreeHeight(ltree, level + 1)
    /\ chain' = 0
    /\ hashed' = {}
    /\ UNCHANGED <<position, phase, ots, node>>

(* a node without a sibling is lifted *)
NextLevel ==
    /\ phase = "ltree"
    /\ width > 1
    /\ chain = width \div 2
    /\ IF width % 2 = 1
       THEN /\ nodes' = [nodes EXCEPT ![width \div 2] = nodes[width - 1]]
            /\ width' = width \div 2 + 1
       ELSE /\ nodes' = nodes
            /\ width' = width \div 2
    /\ level' = level + 1
    /\ ltree' = SetTreeHeight(ltree, level + 1)
    /\ chain' = 0
    /\ hashed' = {}
    /\ UNCHANGED <<position, phase, ots, node>>

(* the leaf is the first node of wots_pk *)
CloseLTree ==
    /\ phase = "ltree"
    /\ width = 1
    /\ phase' = "nodes" /\ level' = 0
    /\ hashed' = {}
    /\ UNCHANGED <<position, chain, addresses, nodes, width>>

---------------------------------------------------------------------------
(* The nodes above the leaf *)

(* treehash hashes the nodes whose last leaf this is (see TreeHash), the   *)
(* verifier all that lead to the root.                                     *)
MoreNodes ==
    IF call = "treehash" THEN level < target /\ Bit(leaf, level) = 1
    ELSE level < TreeHeight

(* thash_h in treehash, treehash_root and compute_root *)
HashNode ==
    LET index == leaf \div Pow2[level + 1]
        addr  == SetTreeIndex(SetTreeHeight(node, level), index)
    IN /\ phase = "nodes"
       /\ MoreNodes
       /\ hashed' = Thash("node", 0, level, index, 2, addr)
       /\ node' = SetKeyAndMask(addr, 2)
       /\ level' = level + 1
       /\ UNCHANGED <<position, phase, chain, ots, ltree, nodes, width>>

CloseNodes ==
    /\ phase = "nodes"
    /\ ~MoreNodes
    /\ phase' = "end" /\ level' = 0 /\ nodes' = <<>> /\ width' = 0
    /\ hashed' = {}
    /\ UNCHANGED <<position, chain, addresses>>

(* Go on to the next leaf or layer, if there is one. *)
EndLeaf ==
    /\ phase = "end"
    /\ \/ /\ call = "treehash"
          /\ (leaf + 1) % Pow2[target] # 0
          /\ leaf' = leaf + 1
          /\ phase' = "leaf"
          /\ hashed' = {}
          /\ UNCHANGED <<call, idx, layer, tree, target, chain, level, addresses, nodes, width>>
       \/ /\ call # "treehash"
          /\ layer + 1 < D
          /\ layer' = layer + 1
          /\ phase' = "leaf"
          /\ hashed' = {}
          /\ UNCHANGED <<call, idx, tree, leaf, target, chain, level, addresses, nodes, width>>
       \/ /\ IF call = "treehash" THEN (leaf + 1) % Pow2[target] = 0 ELSE layer + 1 = D
          /\ Return

(* A hash fails, and the call with it. *)
HashFails ==
    /\ \/ phase \in {"seeds", "chains"}
       \/ phase = "ltree" /\ chain < width \div 2
       \/ phase = "nodes" /\ MoreNodes
    /\ Return

Next ==
    \/ StartTreehash \/ StartSign \/ StartVerify
    \/ NextLeaf \/ NextLayer \/ ExpandSeed \/ GenChain
    \/ OpenLTree \/ HashPair \/ NextLevel \/ CloseLTree
    \/ HashNode \/ CloseNodes \/ EndLeaf \/ HashFails

Spec == Init /\ [][Next]_vars

---------------------------------------------------------------------------
(* Properties *)

TypeNumber(use) ==
    IF use \in {"seed", "chain"} THEN 0 ELSE IF use = "ltree" THEN 1 ELSE 2

(* Every hash, in every call and whatever was hashed before, is keyed with *)
(* the address of its own place and use.  So key generation, the traversal *)
(* and the verifier agree on every node, and no two hashes of a key with   *)
(* the same function share an address.                                     *)
AddressRight ==
    \A h \in hashed :
        /\ h.addr[0] = h.layer
        /\ h.addr[1] * WordModulus + h.addr[2] = h.tree
        /\ h.addr[3] = TypeNumber(h.use)
        /\ h.addr[4] = h.leaf
        /\ h.addr[5] = h.a /\ h.addr[6] = h.b
        /\ h.addr[7] = h.mask

(* l_tree folds in place, but loses no chain end, takes none twice and     *)
(* keeps their order, also when the width is odd.                          *)
LeafCovers == phase = "nodes" => nodes[0] = <<0, WotsLen - 1>>
=============================================================================
