---------------------------- MODULE KeyEncoding -----------------------------
(***************************************************************************)
(* Keys and signatures on their way from one program to another.  A key is *)
(* made for one parameter set through one of three interfaces, encoded,    *)
(* and decoded for a set and interface its receiver chooses: what the      *)
(* bytes say of their set is a raw identifier, which XMSS and XMSS^MT      *)
(* share, and their length.  A signature says nothing of its set, nor if a *)
(* message follows it.                                                     *)
(***************************************************************************)
EXTENDS HashInputs

CONSTANT MessageLengths  \* bytes of the messages signed

ASSUME MessageAssumption == MessageLengths \subseteq Nat

VARIABLES
    made, \* the set and interface a key pair was made with
    key,  \* what its public key was decoded for
    sent, \* what it signed: the form of the signature, the message's length
    sig,  \* what the signature's bytes were decoded for, and as which form
    last  \* the last call: what was decoded, what for, and if it succeeded

vars == <<made, key, sent, sig, last>>

(* A type of its own ("typed") or a runtime value ("boxed") for each       *)
(* registered set; a family's type for XMSS of any depth.                  *)
Targets ==
    [api : {"typed", "boxed"}, set : Registered]
        \cup [api : {"family"}, set : Standard \cup Extra]

(* with the message behind the signature, or without *)
Forms == {"attached", "detached"}

Nothing  == [api |-> "none", set |-> Set(0, <<0, 0>>)]
NoCall   == [call |-> "none", for |-> Nothing, ok |-> TRUE]
NotSent  == [form |-> "none", length |-> 0]
Unsigned == [form |-> "none", for |-> Nothing]

ParamsOf(t) ==
    IF t.api = "family" THEN GenericXmssParams(t.set)
    ELSE Initialize(IF t.api = "boxed" THEN FromName(NameOf(t.set)) ELSE t.set)

Params == [t \in Targets |-> ParamsOf(t)]

(* Identifiers in encoded keys, as two halves of a u32. *)
OidOf(t) ==
    IF t.api = "family" THEN TreeDepthOid(t.set.family, t.set.h)
    ELSE <<0, RawOid(t.set)>>

(* SK_LEN and the others, from the arguments of the macros; the boxed      *)
(* interface takes them from the parameters.  array is what SkLen holds,   *)
(* width the digests of the cache: N, or that of the variant chosen by n.  *)
LayoutOf(t) ==
    LET p == Params[t]
        n == TypeWidth(t.set)
    IN IF t.api = "boxed"
       THEN [sk |-> 4 + p.sk_bytes, array |-> 4 + p.sk_bytes,
             vk |-> 4 + p.pk_bytes, sig |-> p.sig_bytes, seed |-> 3 * p.n,
             width |-> IF p.n \in {24, 32, 64} THEN p.n ELSE 0]
       ELSE [sk |-> XmssSkLen(n, t.set.h, t.set.d),
             array |-> 4 + IdxType(t.set) + 4 * n,
             vk |-> XmssVkLen(n), sig |-> XmssSigLen(n, t.set.h, t.set.d),
             seed |-> XmssSeedLen(n),
             width |-> n]

Oid    == [t \in Targets |-> OidOf(t)]
Layout == [t \in Targets |-> LayoutOf(t)]

(* where the owner of the key puts what, and where a verifier takes it     *)
FieldsWritten == [t \in Targets |-> SignatureWritten(Params[t])]
FieldsRead    == [t \in Targets |-> SignatureRead(Params[t])]

(* (slip: XMSS^MT keys are not marked as such) *)
AlgorithmOidSame(t) == "id-alg-xmss-hashsig"

(* the algorithm PKCS#8 and SPKI documents name *)
AlgorithmOid(t) ==
    IF IsXmss(t.set) THEN "id-alg-xmss-hashsig" ELSE "id-alg-xmssmt-hashsig"

---------------------------------------------------------------------------
Init ==
    /\ made = Nothing /\ key = Nothing
    /\ sent = NotSent /\ sig = Unsigned
    /\ last = NoCall

Call(call, t, ok) == last' = [call |-> call, for |-> t, ok |-> ok]

(* KeyPair::generate and from_seed, and those of BoxedKeyPair: a seed is   *)
(* of the length the parameters say (get_seed_length), and the core writes *)
(* into buffers of the interface's lengths, which are then taken for       *)
(* arrays.                                                                 *)
Generate ==
    /\ last = NoCall
    /\ \E t \in Targets :
        LET ok == /\ Layout[t].seed = 3 * Params[t].n
                  /\ Layout[t].sk = Layout[t].array
                  /\ Layout[t].width > 0
        IN /\ Call("generate", t, ok)
           /\ made' = IF ok THEN t ELSE made
           /\ UNCHANGED <<key, sent, sig>>

(* PKCS#8 and SPKI are for types only. *)
Wrapped(t) == "boxed" \notin {made.api, t.api}

Generated == last.call = "generate" /\ last.ok

(* (slip: the identifier is not part of the length) *)
DecodeSigningKeyShort ==
    /\ Generated
    /\ \E t \in Targets, via \in {"signing_key", "pkcs8"} :
        /\ via = "pkcs8" => Wrapped(t)
        /\ Call(via, t, /\ via = "pkcs8" => AlgorithmOid(made) = AlgorithmOid(t)
                        /\ Oid[made] = Oid[t]
                        /\ Layout[made].sk = IF t.api = "boxed" THEN Params[t].sk_bytes
                                             ELSE Layout[t].sk)
        /\ UNCHANGED <<made, key, sent, sig>>

(* SigningKey::try_from, KeyPair::from_pkcs8_der and                       *)
(* BoxedSigningKey::try_from_bytes.  The public key beside the private one *)
(* is there and its own: KeyStore has those that are not.                  *)
DecodeSigningKey ==
    /\ Generated
    /\ \E t \in Targets, via \in {"signing_key", "pkcs8"} :
        /\ via = "pkcs8" => Wrapped(t)
        /\ Call(via, t, /\ via = "pkcs8" => /\ AlgorithmOid(made) = AlgorithmOid(t)
                                           /\ Layout[made].vk = Layout[t].vk
                        /\ Oid[made] = Oid[t]
                        /\ Layout[made].sk = Layout[t].sk
                        /\ Layout[made].sk = Layout[t].array
                        /\ Layout[t].width > 0)
        /\ UNCHANGED <<made, key, sent, sig>>

(* VerifyingKey::try_from, raw or from a SubjectPublicKeyInfo, and         *)
(* BoxedVerifyingKey::try_from_bytes                                       *)
DecodeVerifyingKey ==
    /\ Generated
    /\ \E t \in Targets, via \in {"verifying_key", "spki"} :
        LET ok == /\ via = "spki" => AlgorithmOid(made) = AlgorithmOid(t)
                  /\ Oid[made] = Oid[t]
                  /\ Layout[made].vk = Layout[t].vk
        IN /\ via = "spki" => Wrapped(t)
           /\ Call(via, t, ok)
           /\ key' = IF ok THEN t ELSE key
           /\ UNCHANGED <<made, sent, sig>>

(* sign and sign_detached: the core first compares the width of the cache  *)
(* with n, and returns sig_bytes, with the message behind them or without  *)
Sign ==
    /\ last.call \in {"verifying_key", "spki"} /\ last.ok
    /\ \E form \in Forms, length \in MessageLengths :
        LET ok == Layout[made].width = Params[made].n
        IN /\ Call("sign", made, ok)
           /\ sent' = IF ok THEN [form |-> form, length |-> length] ELSE sent
           /\ UNCHANGED <<made, key, sig>>

SentLength ==
    Params[made].sig_bytes + (IF sent.form = "attached" THEN sent.length ELSE 0)

(* Signature and DetachedSignature::try_from, and try_from_bytes of the    *)
(* boxed ones, for every set a key decoded like this one can be used with: *)
(* there is at most a length to check.                                     *)
DecodeSignature ==
    /\ last.call = "sign" /\ last.ok
    /\ \E t \in Targets, form \in Forms :
        LET ok == CASE form = "detached" -> SentLength = Layout[t].sig
                    [] form = "attached" /\ t.api = "boxed" -> SentLength >= Layout[t].sig
                    [] OTHER -> TRUE
        IN /\ IF key.api = "boxed" THEN t.api = "boxed" ELSE t = key
           /\ Call(form, t, ok)
           /\ sig' = IF ok THEN [form |-> form, for |-> t] ELSE sig
           /\ UNCHANGED <<made, key, sent>>

(* The bytes the core takes for a signature, and those it takes for the    *)
(* message, are the ones that were signed: the hashes come to the public   *)
(* root for those only.  The caller of verify_detached has the message,    *)
(* that of verify gets what is behind sig_bytes.                           *)
HashesAgree ==
    /\ HashPointer(key.api, key.set, Params[key])
         = HashPointer(made.api, made.set, Params[made])
    /\ FieldsRead[key] = FieldsWritten[made]
    /\ sig.form = "attached" =>
          /\ Params[key].sig_bytes = Params[made].sig_bytes
          /\ sent.form = "attached" \/ sent.length = 0

(* the core's own check of the length *)
LengthFits ==
    IF sig.form = "detached" THEN SentLength = Params[key].sig_bytes
    ELSE SentLength >= Params[key].sig_bytes

(* (slip: the sets are not compared) *)
VerifyAnySet ==
    /\ last.call \in Forms /\ last.ok
    /\ Call("verify", key, LengthFits /\ HashesAgree)
    /\ UNCHANGED <<made, key, sent, sig>>

(* verify and verify_detached: for types the sets agree, the boxed         *)
(* interface compares them (ParameterSetMismatch)                          *)
Verify ==
    /\ last.call \in Forms /\ last.ok
    /\ Call("verify", key, key.set = sig.for.set /\ LengthFits /\ HashesAgree)
    /\ UNCHANGED <<made, key, sent, sig>>

Next ==
    \/ Generate \/ DecodeSigningKey \/ DecodeVerifyingKey
    \/ Sign \/ DecodeSignature \/ Verify

Spec == Init /\ [][Next]_vars

---------------------------------------------------------------------------
(* Properties *)

(* Whichever of the tables a set is built from, its parameters are what    *)
(* its name says, the lengths known to the compiler are those the core     *)
(* fills, every index fits its bytes and every leaf a u32.                 *)
ParamsRight ==
    last.call = "generate" =>
        LET set  == last.for.set
            p    == Params[last.for]
            l    == Layout[last.for]
            name == Families[set.family]
        IN /\ last.ok
           /\ p.n = name[2] /\ p.full_height = set.h /\ p.d = set.d
           /\ DigestOutputSize(p) = p.n
           /\ p.func = IF name = <<"SHAKE", 32>> THEN "SHAKE128"
                       ELSE IF name[1] = "SHA2" THEN "SHA2" ELSE "SHAKE256"
           /\ l.sk = 4 + p.sk_bytes /\ l.vk = 4 + p.pk_bytes /\ l.sig = p.sig_bytes
           /\ p.full_height <= 8 * p.index_bytes
           /\ p.tree_height * p.d = p.full_height /\ p.tree_height < 32

(* The parts of the code that keep offsets of their own agree: signatures  *)
(* and keys are filled to the last byte, every reader finds each field     *)
(* where it was written, and the public key derived from a private one is  *)
(* the one that was made with it.                                          *)
LayoutsAgree ==
    last.call = "generate" =>
        LET p == Params[last.for]
        IN /\ Fill(SignatureWritten(p), p.sig_bytes)
           /\ SignatureRead(p) = SignatureWritten(p)
           /\ Fill(SeedRead(p), Layout[last.for].seed)
           /\ Fill(SecretKeyWritten(p), p.sk_bytes)
           /\ SecretKeySigns(p) = SecretKeyWritten(p)
           /\ SecretKeyDecoded(p) \subseteq SecretKeyWritten(p)
           /\ Fill(PublicKeyWritten(p), p.pk_bytes)
           /\ PublicKeyDerived(p) = PublicKeyWritten(p)

(* Every hash input is filled to the last byte and fits its buffer, with n *)
(* of 64 bytes just so; and no input of one function is one of another,    *)
(* although some are as long.                                              *)
HashInputsApart ==
    last.call = "generate" =>
        LET p == Params[last.for]
        IN /\ \A f \in HashFunctions : /\ Fill(HashInput(p, f), BufLen(p)[f])
                                       /\ BufLen(p)[f] <= Storage[f]
           /\ \A f, g \in HashFunctions : Padding[f] = Padding[g] => f = g
           /\ \A b \in StackBuffers(p) : b[2] <= b[1]

(* Messages are hashed with the function the trees are, whichever way it   *)
(* is reached, and it is one the code has.                                 *)
OneHashFunction ==
    last.call = "generate" =>
        LET p == Params[last.for]
        IN /\ HashPointer(last.for.api, last.for.set, p) = MessageHash(p)
           /\ MessageHash(p) \in Supported

(* What any interface encodes, every interface that has the set decodes    *)
(* ("Generic and boxed keys use the same compact key and signature         *)
(* formats"), and a signature so decoded, in its own form, is verified.    *)
OwnSetDecodes ==
    LET Own(form) == form = sent.form \/ sent.length = 0
    IN /\ last # NoCall /\ last.for.set = made.set
       /\ last.call \in Forms => Own(last.call)
       /\ last.call = "verify" => sig.for.set = made.set /\ Own(sig.form)
       => last.ok

(* A decoded key is one of the set it was decoded for.  The one exception  *)
(* is a public key without the algorithm around it, which may be taken for *)
(* the other kind's set with the same identifier.                          *)
DecodesApart ==
    last.call \in {"signing_key", "pkcs8", "verifying_key", "spki"} /\ last.ok =>
        \/ last.for.set = made.set
        \/ /\ last.call = "verifying_key"
           /\ IsXmss(last.for.set) # IsXmss(made.set)
           /\ Oid[last.for] = Oid[made]

(* Even so, what is verified was signed, by a key of that set: not for a   *)
(* key or signature decoded for another set, although the bytes of a       *)
(* signature and its message may be as long as another set's signature,    *)
(* nor for one taken for the other form, except with an empty message.     *)
OnlyOwnSetVerifies ==
    last.call = "verify" /\ last.ok =>
        /\ key.set = made.set /\ sig.for.set = made.set
        /\ sig.form = sent.form \/ sent.length = 0
=============================================================================
