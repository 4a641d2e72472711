-------------------------- MODULE MCSigningKey ---------------------------
(* Instances of SigningKey for TLC. *)
EXTENDS SigningKey, TLC

(* The shifts of instances of full height 2, 3, 4 and 6. *)
Pow2To2 == [k \in 0..2 |-> 2^k]
Pow2To3 == [k \in 0..3 |-> 2^k]
Pow2To4 == [k \in 0..4 |-> 2^k]
Pow2To6 == [k \in 0..6 |-> 2^k]

(* The messages are interchangeable, and no property is a liveness one. *)
MessageSymmetry == Permutations(Message)
==========================================================================
