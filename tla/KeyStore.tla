----------------------------- MODULE KeyStore -----------------------------
(***************************************************************************)
(* A key pair in a process that may crash, and the copy of it in storage.  *)
(* The crate leaves persistence to its caller: the caller here writes the  *)
(* key out in full and hands a signature on only once it has written the   *)
(* key after making it (README, "State Management").  What the crate       *)
(* supplies is that the bytes written then are already past the index      *)
(* used, and that decoding them gives back a key that goes on from there.  *)
(***************************************************************************)
EXTENDS SigningKey

CONSTANTS
    MaxCrashes, \* bound: how often the process may crash
    Removed     \* what storage holds once the key was taken out of it

ASSUME CrashAssumption == MaxCrashes \in Nat

(* what storage may hold: key bytes, with or without the public key        *)
Document ==
    [bytes : [oid : BOOLEAN, idx : 0..IndexModulus-1, seed : Seeds],
     pk    : {PubRoot("key"), None}]

ASSUME DocumentAssumption == None \notin Document /\ Removed \notin Document \cup {None}

VARIABLES
    live,      \* the process holds the key pair
    stored,    \* the document in storage, None before the first, or Removed
    held,      \* signatures made since the key was last written
    released,  \* signatures handed on
    crashes    \* how often the process has crashed

allVars == <<sk, cache, ret, uses, faults, live, stored, held, released, crashes>>

(* VerifyingKey::from(&SigningKey): root and PUB_SEED out of the key bytes *)
DerivedKey(bytes) == PubRoot(bytes.seed)

(* The key pair's own verifying key never changes. *)
PublicKey == PubRoot("key")

(* from_pkcs8_der, and try_from for a document without a public key: the   *)
(* identifier must be the parameter set's, and an embedded public key the  *)
(* one derived from the key bytes.                                         *)
Decodes(document) ==
    /\ document.bytes.oid
    /\ document.pk # None => document.pk = DerivedKey(document.bytes)

StoreInit ==
    /\ Init
    /\ live = TRUE
    /\ stored = None
    /\ held = {}
    /\ released = {}
    /\ crashes = 0

(* Any call on the signing key. *)
Call ==
    /\ live
    /\ Next
    /\ held' = IF ret'.status = "Ok" /\ ret'.sig.r.seed = "key" /\ ret' # ret
               THEN held \cup {ret'} ELSE held
    /\ UNCHANGED <<live, stored, released, crashes>>

(* The caller replaces the stored state, as PKCS#8 with the public key or  *)
(* as the compact bytes alone, and relies on the signatures made so far.   *)
Persist(pk) ==
    /\ live
    /\ stored' = [bytes |-> sk, pk |-> pk]
    /\ released' = released \cup held
    /\ held' = {}
    /\ UNCHANGED <<vars, live, crashes>>

(* The caller takes an exhausted key out of storage instead ("the          *)
(* exhausted key can instead be removed"), once a call has said so.        *)
Discard ==
    /\ live
    /\ ret.status = "KeyExhausted"
    /\ stored' = Removed
    /\ released' = released \cup held
    /\ held' = {}
    /\ UNCHANGED <<vars, live, crashes>>

(* What is in memory is lost, the signatures not yet handed on included.   *)
Crash ==
    /\ live
    /\ crashes < MaxCrashes
    /\ crashes' = crashes + 1
    /\ live' = FALSE
    /\ held' = {}
    /\ sk' = [oid |-> FALSE, idx |-> 0, seed |-> "zero"]
    /\ cache' = Cleared
    /\ ret' = Refusal("New")
    /\ UNCHANGED <<uses, faults, stored, released>>

(* (slip: the key is derived from its seeds again instead of decoded) *)
RestartFromSeed ==
    /\ ~live
    /\ stored \notin {None, Removed}
    /\ Decodes(stored)
    /\ live' = TRUE
    /\ sk' = [stored.bytes EXCEPT !.idx = 0]
    /\ cache' = DecodedCache(sk')
    /\ ret' = Refusal("Decoded")
    /\ UNCHANGED <<uses, faults, stored, held, released, crashes>>

(* A new process decodes the stored key; a document that does not decode   *)
(* leaves it with none.                                                    *)
Restart ==
    /\ ~live
    /\ stored \notin {None, Removed}
    /\ Decodes(stored)
    /\ live' = TRUE
    /\ sk' = stored.bytes
    /\ cache' = DecodedCache(stored.bytes)
    /\ ret' = Refusal("Decoded")
    /\ UNCHANGED <<uses, faults, stored, held, released, crashes>>

StoreNext ==
    Call \/ (\E pk \in {PublicKey, None} : Persist(pk)) \/ Discard \/ Crash \/ Restart

StoreSpec == StoreInit /\ [][StoreNext]_allVars

---------------------------------------------------------------------------
(* Properties *)

StoreTypeOK ==
    /\ TypeOK
    /\ live \in BOOLEAN
    /\ stored \in Document \cup {None, Removed}
    /\ held \subseteq [status : {"Ok"}, msg : Message, sig : AnySignature]
    /\ released \subseteq [status : {"Ok"}, msg : Message, sig : AnySignature]
    /\ crashes \in 0..MaxCrashes

(* No two messages are ever signed, outside the process, under one index,  *)
(* although a crash makes the key compute one-time signatures again.       *)
ReleasedOnce ==
    \A a, b \in released : a.sig.idx = b.sig.idx => a.msg = b.msg

(* No one-time key of any layer has signed two values in the signatures    *)
(* handed on: a process that decoded the stored key signs the root of an   *)
(* upper tree again, and it is the root the process before it signed.      *)
ReleasedOneTimeUse ==
    \A a, b \in released, l \in Layers :
       a.sig.wots[l].key = b.sig.wots[l].key => a.sig.wots[l] = b.sig.wots[l]

(* Storage is never behind what was handed on: a key restarted from it is  *)
(* past every index in use.                                                *)
StorageAhead ==
    \A s \in released :
       /\ stored # None
       /\ stored # Removed /\ stored.bytes.seed = "key" => s.sig.idx < stored.bytes.idx
       /\ live /\ sk.seed = "key" => s.sig.idx < sk.idx

(* Whatever the live key returns verifies, and its cache is right, after   *)
(* any number of restarts.                                                 *)
RestartedKeySound == live => SignaturesVerify /\ CacheCoherent

(* To the world the key pair and its storage are a durable signer, through *)
(* failed calls, crashes and restarts.                                     *)
SlotOf(bytes) ==
    IF bytes.seed = "key" /\ bytes.idx <= MaxIdx THEN bytes.idx ELSE MaxIdx + 1

Mark == IF stored = None THEN 0
        ELSE IF stored = Removed THEN MaxIdx + 1 ELSE SlotOf(stored.bytes)

Out == {[slot |-> s.sig.idx, msg |-> s.msg] : s \in released}

Durable == INSTANCE DurableSigner WITH
    Capacity <- MaxIdx + 1, mark <- Mark, out <- Out

StoreRefines == Durable!Spec

(* What to_pkcs8_der writes for a key pair, from_pkcs8_der reads, giving   *)
(* back a key pair with the same verifying key (the PKCS#8 round-trip test *)
(* asserts it of a fresh key pair).                                        *)
ExportDecodes == live /\ sk.oid => Decodes([bytes |-> sk, pk |-> PublicKey])
==========================================================================
