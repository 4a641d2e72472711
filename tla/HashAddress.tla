---------------------------- MODULE HashAddress -----------------------------
(***************************************************************************)
(* The address every hash is keyed with: eight words, written in place by  *)
(* one caller after another.  A word has a different meaning in each type  *)
(* of address, and keeps its last value until somebody sets it again.      *)
(***************************************************************************)
EXTENDS Integers

CONSTANT WordModulus  \* 2^32, the range of a word

ASSUME WordAssumption == WordModulus \in Nat \ {0, 1, 2}

OtsType      == 0  \* XMSS_ADDR_TYPE_OTS
LtreeType    == 1  \* XMSS_ADDR_TYPE_LTREE
HashTreeType == 2  \* XMSS_ADDR_TYPE_HASHTREE

ZeroAddr == [word \in 0..7 |-> 0]

SetLayerAddr(addr, layer) == [addr EXCEPT ![0] = layer]

(* the tree index is a u64, over two words *)
SetTreeAddr(addr, tree) ==
    [addr EXCEPT ![1] = (tree \div WordModulus) % WordModulus,
                 ![2] = tree % WordModulus]

SetType(addr, type)         == [addr EXCEPT ![3] = type]
SetOtsAddr(addr, ots)       == [addr EXCEPT ![4] = ots]
SetLtreeAddr(addr, ltree)   == [addr EXCEPT ![4] = ltree]
SetChainAddr(addr, chain)   == [addr EXCEPT ![5] = chain]
SetTreeHeight(addr, height) == [addr EXCEPT ![5] = height]
SetHashAddr(addr, hash)     == [addr EXCEPT ![6] = hash]
SetTreeIndex(addr, index)   == [addr EXCEPT ![6] = index]
SetKeyAndMask(addr, mask)   == [addr EXCEPT ![7] = mask]

CopySubtreeAddr(out, in) ==
    [word \in 0..7 |-> IF word \in 0..2 THEN in[word] ELSE out[word]]
=============================================================================
