---------------------------- MODULE Hypertree ----------------------------
(***************************************************************************)
(* The hash tree an XMSS^MT key is made of (XMSS is the case D = 1): where *)
(* an index falls in it, the nodes it has, and what a signature over it    *)
(* must contain to be accepted.                                            *)
(*                                                                         *)
(* Hashes are symbolic.  A node is named by the seed it was derived from   *)
(* and by its position, so two nodes are equal exactly when collision-free *)
(* hashing would make them equal; NoNode is every value that is no node of *)
(* any tree (a hash of parts that do not belong together, or zeroed        *)
(* bytes).                                                                 *)
(***************************************************************************)
EXTENDS Integers

CONSTANTS
    D,          \* params.d: number of layers of trees
    TreeHeight, \* params.tree_height: height of each tree
    Pow2        \* Pow2[k] is 1 << k, for every shift the code makes

FullHeight == D * TreeHeight

ASSUME DimensionAssumption ==
    /\ D \in Nat \ {0}
    /\ TreeHeight \in Nat \ {0}

(* The table is a constant because the prover knows nothing of x^y.        *)
ASSUME Pow2Assumption ==
    /\ Pow2 \in [0..FullHeight -> Nat \ {0}]
    /\ Pow2[1] = 2
    /\ \A a, b \in 0..FullHeight :
          a + b <= FullHeight => Pow2[a + b] = Pow2[a] * Pow2[b]

Layers  == 0..D-1
Heights == 0..TreeHeight-1
Leaves  == Pow2[TreeHeight]
MaxIdx  == Pow2[FullHeight] - 1
Indices == 0..MaxIdx

---------------------------------------------------------------------------
(* layer_position: the tree and the leaf that sign for an index at a layer *)
TreeIdx(idx, layer) == idx \div Pow2[TreeHeight * (layer + 1)]
LeafIdx(idx, layer) == (idx \div Pow2[TreeHeight * layer]) % Leaves

Bit(x, k) == (x \div Pow2[k]) % 2

(* (slip: parity taken the wrong way round) *)
SiblingSwapped(x) == IF x % 2 = 1 THEN x + 1 ELSE x - 1

(* x ^ 1 *)
Sibling(x) == IF x % 2 = 0 THEN x + 1 ELSE x - 1

(* u32::trailing_ones of a leaf index *)
TrailingOnes(leaf) ==
    CHOOSE k \in 0..TreeHeight :
        /\ Bit(leaf, k) = 0
        /\ \A j \in 0..k-1 : Bit(leaf, j) = 1

---------------------------------------------------------------------------
(* The key material of a secret key is either what key generation wrote or *)
(* all zero bytes.                                                         *)
Seeds == {"key", "zero"}

Node(seed, layer, tree, height, index) ==
    [seed |-> seed, layer |-> layer, tree |-> tree,
     height |-> height, index |-> index]

NoNode == Node("none", 0, 0, 0, 0)

Root(seed, layer, tree) == Node(seed, layer, tree, TreeHeight, 0)

AuthPath(seed, layer, tree, leaf) ==
    [h \in Heights |-> Node(seed, layer, tree, h, Sibling(leaf \div Pow2[h]))]

(* A WOTS+ signature names the one-time key that made it and what it       *)
(* signs.                                                                  *)
WotsSign(seed, layer, tree, leaf, msg) ==
    [key |-> [seed |-> seed, layer |-> layer, tree |-> tree, leaf |-> leaf],
     msg |-> msg]

(* prf(idx, SK_PRF), and hash_message(R, root, idx, m)                     *)
Randomizer(seed, idx) == [seed |-> seed, idx |-> idx]
Digest(r, root, idx, m) == [r |-> r, root |-> root, idx |-> idx, msg |-> m]

---------------------------------------------------------------------------
(* Verification under the public key of "key".                             *)

(* thash_h of two children at the address of their parent *)
Parent(layer, tree, height, index, left, right) ==
    IF /\ left  = Node("key", layer, tree, height - 1, 2 * index)
       /\ right = Node("key", layer, tree, height - 1, 2 * index + 1)
    THEN Node("key", layer, tree, height, index)
    ELSE NoNode

(* compute_root: climb from a leaf, taking the other child from the path   *)
ComputeRoot(layer, tree, leaf, leafNode, auth) ==
    LET climb[h \in 0..TreeHeight] ==
          IF h = 0 THEN leafNode
          ELSE LET index == leaf \div Pow2[h]
               IN IF Bit(leaf, h - 1) = 1
                  THEN Parent(layer, tree, h, index, auth[h-1], climb[h-1])
                  ELSE Parent(layer, tree, h, index, climb[h-1], auth[h-1])
    IN climb[TreeHeight]

(* (slip: the chains go on from the signature to their ends, wherever the  *)
(* message's digits say they are)                                          *)
LeafFromWotsUnsigned(layer, tree, leaf, wots, msg) ==
    IF wots.key = WotsSign("key", layer, tree, leaf, msg).key
    THEN Node("key", layer, tree, 0, leaf)
    ELSE NoNode

(* wots_pk_from_sig and l_tree: the leaf a WOTS+ signature leads to, which *)
(* is a leaf of the tree only for the message signed, at the position the  *)
(* verifier is at.                                                         *)
LeafFromWots(layer, tree, leaf, wots, msg) ==
    IF wots = WotsSign("key", layer, tree, leaf, msg)
    THEN Node("key", layer, tree, 0, leaf)
    ELSE NoNode

(* xmssmt_core_verify_detached: each layer signs the root of the one below *)
Verify(m, sig) ==
    LET pubRoot == Root("key", D - 1, 0)
        root[layer \in -1..D-1] ==
          IF layer = -1 THEN Digest(sig.r, pubRoot, sig.idx, m)
          ELSE LET tree == TreeIdx(sig.idx, layer)
                   leaf == LeafIdx(sig.idx, layer)
               IN ComputeRoot(layer, tree, leaf,
                     LeafFromWots(layer, tree, leaf, sig.wots[layer], root[layer - 1]),
                     sig.auth[layer])
    IN root[D - 1] = pubRoot
==========================================================================
