----------------------------- MODULE MCTreeHash ----------------------------
(* Instances of TreeHash for TLC. *)
EXTENDS TreeHash, TLC

(* The shifts of a tree of height 4, in one layer. *)
Pow2To4 == [k \in 0..4 |-> 2^k]
============================================================================
