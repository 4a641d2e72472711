----------------------------- MODULE MCLeafHash ----------------------------
(* Instances of LeafHash for TLC. *)
EXTENDS LeafHash, TLC

(* The shifts of a hypertree of full height 6. *)
Pow2To6 == [k \in 0..6 |-> 2^k]
============================================================================
