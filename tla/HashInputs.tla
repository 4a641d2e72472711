----------------------------- MODULE HashInputs -----------------------------
(***************************************************************************)
(* What goes into the hash.  Five functions share one hash function and    *)
(* are told apart by a number in front of their inputs; each writes its    *)
(* input into a buffer on the stack, made for n of at most 64 bytes, at    *)
(* offsets of its own.  The hash function is reached in two ways: through  *)
(* the pointer params.hash, and for messages by params.func and params.n.  *)
(***************************************************************************)
EXTENDS Layouts

MAX_N == 64

(* XMSS_HASH_PADDING_F to _PRF_KEYGEN *)
Padding == [thash_f |-> 0, thash_h |-> 1, hash_message |-> 2, prf |-> 3, prf_keygen |-> 4]

HashFunctions == DOMAIN Padding

(* (slip: room for the address is forgotten) *)
StorageShort ==
    [thash_f |-> 3 * MAX_N, thash_h |-> 4 * MAX_N, hash_message |-> 4 * MAX_N,
     prf |-> 2 * MAX_N, prf_keygen |-> 4 * MAX_N]

(* MAX_PRF_INPUT and the others: bytes of the buffers *)
Storage ==
    [thash_f |-> 3 * MAX_N, thash_h |-> 4 * MAX_N, hash_message |-> 4 * MAX_N,
     prf |-> 2 * MAX_N + 32, prf_keygen |-> 4 * MAX_N]

(* buf_len and prefix_len *)
BufLen(p) ==
    [thash_f      |-> p.padding_len + 2 * p.n,
     thash_h      |-> p.padding_len + 3 * p.n,
     hash_message |-> p.padding_len + 3 * p.n,
     prf          |-> p.padding_len + p.n + 32,
     prf_keygen   |-> p.padding_len + 2 * p.n + 32]

(* what each function writes behind the padding; a message follows the     *)
(* prefix of hash_message, in no buffer                                    *)
Written(p) ==
    LET at == p.padding_len
        n  == p.n
        In(name, from, length) == Field(name, 0, from, length)
    IN [thash_f      |-> {In("key", at, n), In("masked", at + n, n)},
        thash_h      |-> {In("key", at, n), In("masked", at + n, 2 * n)},
        hash_message |-> {In("R", at, n), In("root", at + n, n), In("index", at + 2 * n, n)},
        prf          |-> {In("key", at, n), In("address", at + n, 32)},
        prf_keygen   |-> {In("key", at, n), In("seed and address", at + n, n + 32)}]

HashInput(p, f) == Written(p)[f] \cup {Field("padding", 0, 0, p.padding_len)}

(* bytes of the other buffers on the stack, and of what is put into them:  *)
(* the masks of thash_h and thash_f, the input of prf_keygen, the lengths  *)
(* of the chains, the pair that treehash hashes, the nodes of the verifier *)
StackBuffers(p) ==
    { <<2 * MAX_N, 2 * p.n>>, <<MAX_N, p.n>>, <<MAX_N + 32, p.n + 32>>,
      <<131, p.wots_len>>, <<128, 2 * p.n>>, <<64, p.n>> }

---------------------------------------------------------------------------
(* Which hash function is reached *)

(* core_hash_parts_by_id and runtime_digest *)
Supported ==
    { <<"SHA2", 24>>, <<"SHAKE256", 24>>, <<"SHA2", 32>>, <<"SHAKE128", 32>>,
      <<"SHAKE256", 32>>, <<"SHA2", 64>>, <<"SHAKE256", 64>> }

(* (slip: only SHAKE256 is expected among the sets of SP 800-208) *)
HashFunctionLater(set) ==
    LET xmss == {<<"SHA2", 1..6>>, <<"SHAKE128", 7..9>>, <<"SHAKE256", 10..21>>}
        mt   == {<<"SHA2", 1..16>>, <<"SHAKE128", 17..24>>, <<"SHAKE256", 25..56>>}
    IN Pick(IF IsXmss(set) THEN xmss ELSE mt, RawOid(set))

(* XmssOid::hash_function, which repeats the ranges of initialize *)
HashFunction(set) ==
    LET xmss == { <<"SHA2",     1..6 \cup 13..15>>,
                  <<"SHAKE128", 7..9>>,
                  <<"SHAKE256", 10..12 \cup 16..21>> }
        mt   == { <<"SHA2",     1..16 \cup 33..40>>,
                  <<"SHAKE128", 17..24>>,
                  <<"SHAKE256", 25..32 \cup 41..56>> }
    IN Pick(IF IsXmss(set) THEN xmss ELSE mt, RawOid(set))

(* N of the types, and the digest type each has of its own *)
TypeWidth(set) == Families[set.family][2]

(* params.hash: a type puts its own digest there, a boxed key has the one  *)
(* runtime_digest gives                                                    *)
HashPointer(api, set, p) ==
    CASE api = "typed"  -> <<HashFunction(set), TypeWidth(set)>>
      [] api = "family" -> <<FamilyFunc[set.family], TypeWidth(set)>>
      [] api = "boxed"  -> <<p.func, p.n>>

(* what hash_message and the digests by identifier go by *)
MessageHash(p) == <<p.func, p.n>>
=============================================================================
