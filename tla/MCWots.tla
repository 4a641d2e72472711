------------------------------- MODULE MCWots -------------------------------
(* Instances of Wots for TLC. *)
EXTENDS Wots, TLC

(* The shifts of three digits. *)
Pow2To24 == [k \in 0..24 |-> 2^k]

(* Digests of full width: two runs of equal bytes, so that the checksum    *)
(* takes values over its whole range, 0 and the largest among them.        *)
RunLengths == {1, 8, 9, 23}
RunBytes   == {0, 1, 16, 255}
TwoRuns    == {[i \in 1..24 |-> IF i <= k THEN a ELSE b] :
                  k \in RunLengths, a \in RunBytes, b \in RunBytes}
=============================================================================
