---------------------------- MODULE MCKeyStore ----------------------------
(* Instances of KeyStore for TLC. *)
EXTENDS KeyStore, TLC

(* The shifts of an instance of full height 2. *)
Pow2To2 == [k \in 0..2 |-> 2^k]

(* The messages are interchangeable, and no property is a liveness one. *)
MessageSymmetry == Permutations(Message)
==========================================================================
