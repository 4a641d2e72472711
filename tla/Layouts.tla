------------------------------- MODULE Layouts ------------------------------
(***************************************************************************)
(* Which bytes of a key or a signature hold what.  Nothing in the code     *)
(* says it in one place: the signer, the verifier, key generation, the     *)
(* decoders and the derivation of a public key each work offsets out of    *)
(* the parameters for themselves.                                          *)
(***************************************************************************)
EXTENDS ParameterSets

(* length bytes from "from", for a field of a layer (0 if of none) *)
Field(name, layer, from, length) ==
    [name |-> name, layer |-> layer, from |-> from, to |-> from + length]

(* The fields fill length bytes, without a gap or an overlap. *)
Fill(fields, length) ==
    /\ \A f, g \in fields : f.from = g.from => f = g
    /\ \A f \in fields :
          /\ f.from < f.to
          /\ f.from = 0    \/ \E g \in fields : g.to = f.from
          /\ f.to = length \/ \E g \in fields : g.from = f.to

---------------------------------------------------------------------------
(* Signatures *)

(* xmssmt_core_sign_inner: sm_offset before each layer *)
SmOffset(p, layer) ==
    p.index_bytes + p.n + layer * (p.wots_sig_bytes + p.tree_height * p.n)

SignatureWritten(p) ==
    {Field("index", 0, 0, p.index_bytes), Field("R", 0, p.index_bytes, p.n)}
        \cup UNION {{Field("wots", i, SmOffset(p, i), p.wots_sig_bytes),
                     Field("auth", i, SmOffset(p, i) + p.wots_sig_bytes, p.tree_height * p.n)} :
                    i \in 0..p.d-1}

(* (slip: every index in four bytes, as those of XMSS) *)
SignatureReadFour(p) ==
    LET offset(i) == 4 + p.n + i * (p.wots_sig_bytes + p.tree_height * p.n)
    IN {Field("index", 0, 0, 4), Field("R", 0, 4, p.n)}
         \cup {Field("wots", i, offset(i), p.wots_sig_bytes) : i \in 0..p.d-1}
         \cup {Field("auth", i, offset(i) + p.wots_sig_bytes, p.tree_height * p.n) :
                 i \in 0..p.d-1}

(* xmssmt_core_verify_detached, with what wots_pk_from_sig and             *)
(* compute_root take from the slices they are given                        *)
SignatureRead(p) ==
    LET offset(i) == p.index_bytes + p.n + i * (p.wots_sig_bytes + p.tree_height * p.n)
    IN {Field("index", 0, 0, p.index_bytes), Field("R", 0, p.index_bytes, p.n)}
         \cup {Field("wots", i, offset(i), p.wots_sig_bytes) : i \in 0..p.d-1}
         \cup {Field("auth", i, offset(i) + p.wots_sig_bytes, p.tree_height * p.n) :
                 i \in 0..p.d-1}

---------------------------------------------------------------------------
(* Keys, without their identifiers *)

KeyField(name, from, length) == Field(name, 0, from, length)

(* xmssmt_core_seed_keypair *)
SecretKeyWritten(p) ==
    LET i == p.index_bytes
    IN {KeyField("index", 0, i), KeyField("SK_SEED", i, p.n), KeyField("SK_PRF", i + p.n, p.n),
        KeyField("root", i + 2 * p.n, p.n), KeyField("PUB_SEED", i + 3 * p.n, p.n)}

(* the seed it is given                                                    *)
SeedRead(p) ==
    {KeyField("SK_SEED", 0, p.n), KeyField("SK_PRF", p.n, p.n),
     KeyField("PUB_SEED", 2 * p.n, p.n)}

PublicKeyWritten(p) == {KeyField("root", 0, p.n), KeyField("PUB_SEED", p.n, p.n)}

(* xmssmt_core_sign_inner *)
SecretKeySigns(p) ==
    LET sk_prf_start   == p.index_bytes + p.n
        pub_root_start == p.index_bytes + 2 * p.n
        pub_seed_start == p.index_bytes + 3 * p.n
    IN {KeyField("index", 0, p.index_bytes), KeyField("SK_SEED", p.index_bytes, p.n),
        KeyField("SK_PRF", sk_prf_start, p.n), KeyField("root", pub_root_start, p.n),
        KeyField("PUB_SEED", pub_seed_start, p.n)}

(* from_compact_key *)
SecretKeyDecoded(p) ==
    LET idx_bytes == p.index_bytes
    IN {KeyField("index", 0, idx_bytes), KeyField("SK_SEED", idx_bytes, p.n),
        KeyField("PUB_SEED", idx_bytes + 3 * p.n, p.n)}

(* (slip: the secret seed for PRF instead of the public one) *)
RootStartEarly(p) == p.index_bytes + p.n

(* root_start in verifying_key, of both interfaces: 2n bytes are copied    *)
(* from there                                                              *)
RootStart(p) == p.index_bytes + 2 * p.n

PublicKeyDerived(p) ==
    {Field(f.name, f.layer, f.from - RootStart(p), f.to - f.from) :
        f \in {g \in SecretKeyWritten(p) :
                 g.from >= RootStart(p) /\ g.to <= RootStart(p) + 2 * p.n}}
=============================================================================
