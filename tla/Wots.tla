-------------------------------- MODULE Wots --------------------------------
(***************************************************************************)
(* The WOTS+ one-time signature: a digest is written as digits in base w,  *)
(* with the digits of a checksum after them, and each digit says how far   *)
(* along its hash chain the signer goes.  A verifier goes the rest of the  *)
(* way to the public key.                                                  *)
(*                                                                         *)
(* The rest of the project takes a WOTS+ signature as a record of its key  *)
(* and message.  This module is why that is right: no digest leads to      *)
(* another's signature, and none is reached by only going further along    *)
(* the chains of another.                                                  *)
(***************************************************************************)
EXTENDS Integers, Sequences

CONSTANTS
    N,        \* params.n: bytes in a digest and in a hash
    WotsLogW, \* params.wots_log_w
    WotsLen2, \* params.wots_len2: digits of the checksum
    Digests,  \* the digests considered: sequences of N bytes
    Pow2      \* Pow2[k] is 1 << k, for every shift the code makes

ASSUME WotsAssumption ==
    /\ N \in Nat \ {0}
    /\ WotsLogW \in {2, 4, 8}
    /\ WotsLen2 \in Nat \ {0}
    /\ Digests \subseteq [1..N -> 0..255]

MaxShift == 8 * WotsLen2

(* The table is a constant because the prover knows nothing of x^y.        *)
ASSUME Pow2Assumption ==
    /\ Pow2 \in [0..MaxShift -> Nat \ {0}]
    /\ Pow2[1] = 2
    /\ \A a, b \in 0..MaxShift :
          a + b <= MaxShift => Pow2[a + b] = Pow2[a] * Pow2[b]

WotsW    == Pow2[WotsLogW]
WotsLen1 == (8 * N) \div WotsLogW
WotsLen  == WotsLen1 + WotsLen2
Chains   == 1..WotsLen

CeilDiv(a, b) == (a + b - 1) \div b

---------------------------------------------------------------------------
(* base_w: the digits of each byte from its top, byte after byte *)
BaseW(bytes, len) ==
    LET perByte == 8 \div WotsLogW
    IN [i \in 1..len |->
          LET bits == 8 - WotsLogW * (((i - 1) % perByte) + 1)
          IN (bytes[(i - 1) \div perByte + 1] \div Pow2[bits]) % WotsW]

(* ull_to_bytes: the low len bytes of a number, big-endian *)
UllToBytes(x, len) == [i \in 1..len |-> (x \div Pow2[8 * (len - i)]) % 256]

(* the sum of f[1] to f[n], as a loop adds it up *)
SumTo(f, n) ==
    LET sum[i \in 0..n] == IF i = 0 THEN 0 ELSE sum[i-1] + f[i]
    IN sum[n]

(* csum: the steps the signer leaves to go, on the chains of the message *)
StepsLeft(digits) == SumTo([i \in 1..WotsLen1 |-> WotsW - 1 - digits[i]], WotsLen1)

(* csum_bytes_len, and the room above the sum in that many bytes *)
CsumBytes == CeilDiv(WotsLen2 * WotsLogW, 8)
CsumShift == 8 - ((WotsLen2 * WotsLogW) % 8)

(* (slip: counts the steps the signer goes, not those left to go) *)
ChecksumOfSteps(digits) ==
    BaseW(UllToBytes(SumTo(digits, WotsLen1) * Pow2[CsumShift], CsumBytes), WotsLen2)

(* (slip: the sum is left at the bottom of its bytes) *)
ChecksumUnshifted(digits) ==
    BaseW(UllToBytes(StepsLeft(digits), CsumBytes), WotsLen2)

(* wots_checksum.  The sum is moved up to the top of its bytes, because    *)
(* base_w starts there.  (u32 is wide enough for the sum and the shift at  *)
(* every n the parameter sets have.)                                       *)
Checksum(digits) ==
    BaseW(UllToBytes(StepsLeft(digits) * Pow2[CsumShift], CsumBytes), WotsLen2)

ChainLengths(digest) ==
    LET digits == BaseW(digest, WotsLen1) IN digits \o Checksum(digits)

---------------------------------------------------------------------------
(* The k-th value of a chain of the one-time key; expand_seed gives the    *)
(* values at 0.  NoValue is every other hash.                              *)
At(chain, k) == [chain |-> chain, at |-> k]
NoValue      == At(0, 0)

(* (slip: goes one step less) *)
GenChainShort(chain, input, start, steps) ==
    LET stop == IF start + steps < WotsW THEN start + steps - 1 ELSE WotsW - 1
    IN IF stop <= start THEN input
       ELSE IF input = At(chain, start) THEN At(chain, stop) ELSE NoValue

(* gen_chain: step i hashes at hash address i, so it leads along the chain *)
(* only from the i-th value.                                               *)
GenChain(chain, input, start, steps) ==
    LET stop == IF start + steps < WotsW THEN start + steps ELSE WotsW
    IN IF stop <= start THEN input
       ELSE IF input = At(chain, start) THEN At(chain, stop) ELSE NoValue

PublicKey == [i \in Chains |-> GenChain(i, At(i, 0), 0, WotsW - 1)]

VARIABLES
    signed,  \* the digest signed
    claimed, \* the digest a verifier is given with the signature
    call,    \* the next call: "sign", "recover", or none ("done"; "failed")
    sig,     \* the signature
    pk       \* the public key wots_pk_from_sig computes

vars == <<signed, claimed, call, sig, pk>>

Init ==
    /\ signed \in Digests
    /\ claimed \in Digests
    /\ call = "sign"
    /\ sig = [i \in Chains |-> NoValue]
    /\ pk = [i \in Chains |-> NoValue]

(* wots_sign *)
Sign ==
    LET lengths == ChainLengths(signed)
    IN /\ call = "sign"
       /\ sig' = [i \in Chains |-> GenChain(i, At(i, 0), 0, lengths[i])]
       /\ call' = "recover"
       /\ UNCHANGED <<signed, claimed, pk>>

(* wots_pk_from_sig *)
Recover ==
    LET lengths == ChainLengths(claimed)
    IN /\ call = "recover"
       /\ pk' = [i \in Chains |->
                   GenChain(i, sig[i], lengths[i], WotsW - 1 - lengths[i])]
       /\ call' = "done"
       /\ UNCHANGED <<signed, claimed, sig>>

(* A hash fails; what was computed so far is not returned. *)
HashFails ==
    /\ call \in {"sign", "recover"}
    /\ call' = "failed"
    /\ UNCHANGED <<signed, claimed, sig, pk>>

Next == Sign \/ Recover \/ HashFails

Spec == Init /\ [][Next]_vars

---------------------------------------------------------------------------
(* Properties *)

(* A verifier gets the public key from a signature for exactly the digest  *)
(* that was signed.                                                        *)
RecoversOnlySigned == call = "done" => (pk = PublicKey <=> signed = claimed)

(* What the checksum is for: some chain of every other digest is shorter,  *)
(* so its signature takes a value before one the signature gives away.     *)
NoDigestAhead ==
    signed # claimed =>
        LET ours   == ChainLengths(signed)
            theirs == ChainLengths(claimed)
        IN \E i \in Chains : theirs[i] < ours[i]

(* Every value of a signature is on its own chain, where its digit says,   *)
(* so base_w never yields a digit past the end of a chain, and the digits  *)
(* of the checksum are those of the steps left in the message's chains.    *)
SignatureOnChains ==
    LET digits == [i \in Chains |-> sig[i].at]
        value[j \in 0..WotsLen2] ==
            IF j = 0 THEN 0 ELSE value[j-1] * WotsW + digits[WotsLen1 + j]
    IN call \in {"recover", "done"} =>
         /\ \A i \in Chains : sig[i].chain = i /\ sig[i].at < WotsW
         /\ value[WotsLen2] = StepsLeft(digits)
=============================================================================
