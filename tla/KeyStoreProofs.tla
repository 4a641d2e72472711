--------------------------- MODULE KeyStoreProofs --------------------------
(***************************************************************************)
(* Proofs about KeyStore, for every tree, every set of messages, and every *)
(* number of failed calls, crashes and restarts.                           *)
(***************************************************************************)
EXTENDS KeyStore, SigningKeyProofs

---------------------------------------------------------------------------
(* What one call on the key does to the slot it would use next *)

LEMMA SlotFacts ==
    ASSUME NEW bytes \in [oid : BOOLEAN, idx : 0..IndexModulus-1, seed : Seeds]
    PROVE  /\ bytes.idx \in Nat /\ MaxIdx \in Nat
           /\ SlotOf(bytes) \in 0..MaxIdx+1
  BY IndexAssumption, PowerFacts DEF SlotOf

LEMMA ZeroFits == 0 \in 0..IndexModulus-1
  <1>1. Pow2[FullHeight] \in Nat \ {0}
    BY DimensionFacts, PowerFacts
  <1> QED BY <1>1, IndexAssumption

LEMMA NextIdxFacts ==
    ASSUME SkType, sk.idx <= MaxIdx
    PROVE  /\ NextIdx(sk.idx) \in 0..IndexModulus-1
           /\ NextIdx(sk.idx) >= sk.idx
           /\ sk.idx < MaxIdx => NextIdx(sk.idx) = sk.idx + 1
  <1>1. IndexModulus \in Nat /\ MaxIdx \in Nat /\ IndexModulus >= MaxIdx + 1
    <2>1. Pow2[FullHeight] \in Nat \ {0}
      BY DimensionFacts, PowerFacts
    <2> QED BY <2>1, IndexAssumption, PowerFacts DEF MaxIdx
  <1> QED BY <1>1 DEF SkType, NextIdx, Sentinel

(* The slot only moves on, and a call that returns a signature has moved   *)
(* it past the index it signed with.                                       *)
LEMMA CallFacts ==
    ASSUME SkType, Next
    PROVE  /\ SkType'
           /\ SlotOf(sk) <= SlotOf(sk')
           /\ ret'.status = "KeyExhausted" => SlotOf(sk') = MaxIdx + 1
           /\ ret'.status = "Ok" /\ ret' # ret =>
                /\ ret'.msg \in Message
                /\ ret'.sig.idx = sk.idx /\ sk.idx <= MaxIdx
                /\ ret'.sig.r.seed = sk.seed
                /\ sk.seed = "key" => sk.idx = SlotOf(sk) /\ SlotOf(sk) < SlotOf(sk')
  <1>0. sk.idx \in Nat /\ MaxIdx \in Nat /\ SlotOf(sk) \in 0..MaxIdx+1
    BY SlotFacts DEF SkType
  <1>1. ASSUME NEW m \in Message, SignNotLast(m)
        PROVE  /\ SkType'
               /\ SlotOf(sk) <= SlotOf(sk')
               /\ ret'.status = "Ok" /\ ret'.msg \in Message
               /\ ret'.sig.idx = sk.idx /\ sk.idx <= MaxIdx
               /\ ret'.sig.r.seed = sk.seed
               /\ sk.seed = "key" => sk.idx = SlotOf(sk) /\ SlotOf(sk) < SlotOf(sk')
    <2>1. /\ sk.idx < MaxIdx
          /\ sk' = [sk EXCEPT !.idx = sk.idx + 1]
          /\ NextIdx(sk.idx) \in 0..IndexModulus-1 /\ NextIdx(sk.idx) = sk.idx + 1
          /\ ret' = Signature(Ensured(sk.idx), m)
      BY <1>0, <1>1, NextIdxFacts DEF SignNotLast
    <2>2. SkType' /\ sk'.idx = sk.idx + 1 /\ sk'.seed = sk.seed
      BY <2>1 DEF SkType
    <2>3. ret'.status = "Ok" /\ ret'.msg = m /\ ret'.sig.idx = sk.idx /\ ret'.sig.r.seed = sk.seed
      BY <2>1 DEF Signature, Randomizer
    <2> QED BY <1>0, <2>1, <2>2, <2>3 DEF SlotOf
  <1>2. ASSUME NEW m \in Message, SignLast(m)
        PROVE  /\ SkType'
               /\ SlotOf(sk) <= SlotOf(sk')
               /\ ret'.status = "Ok" /\ ret'.msg \in Message
               /\ ret'.sig.idx = sk.idx /\ sk.idx <= MaxIdx
               /\ ret'.sig.r.seed = sk.seed
               /\ sk.seed = "key" => sk.idx = SlotOf(sk) /\ SlotOf(sk) < SlotOf(sk')
    <2>1. /\ sk.idx = MaxIdx
          /\ sk' = [sk EXCEPT !.idx = NextIdx(sk.idx), !.seed = "zero"]
          /\ NextIdx(sk.idx) \in 0..IndexModulus-1
          /\ ret' = Signature(Ensured(sk.idx), m)
      BY <1>0, <1>2, NextIdxFacts DEF SignLast
    <2>2. SkType' /\ sk'.seed = "zero"
      BY <2>1 DEF SkType, Seeds
    <2>3. ret'.status = "Ok" /\ ret'.msg = m /\ ret'.sig.idx = sk.idx /\ ret'.sig.r.seed = sk.seed
      BY <2>1 DEF Signature, Randomizer
    <2> QED BY <1>0, <2>1, <2>2, <2>3 DEF SlotOf
  <1>3. ASSUME NEW m \in Message, NEW n \in Layers, SignLayerFails(m, n)
        PROVE  SkType' /\ SlotOf(sk) <= SlotOf(sk') /\ ret'.status \notin {"Ok", "KeyExhausted"}
    <2>1. /\ sk.idx <= MaxIdx
          /\ sk' = [sk EXCEPT !.idx = NextIdx(sk.idx)]
          /\ NextIdx(sk.idx) \in 0..IndexModulus-1 /\ NextIdx(sk.idx) >= sk.idx
          /\ ret' = Refusal("Hash")
      BY <1>0, <1>3, NextIdxFacts DEF SignLayerFails, HashFails
    <2>2. SkType' /\ sk'.idx = NextIdx(sk.idx) /\ sk'.seed = sk.seed /\ sk'.idx \in Nat
      BY <2>1, IndexAssumption DEF SkType
    <2> QED BY <1>0, <2>1, <2>2 DEF SlotOf, Refusal
  <1>4. ASSUME NEW m \in Message, NEW l \in Layers, NEW n \in Heights, AdvanceFails(m, l, n)
        PROVE  SkType' /\ SlotOf(sk) <= SlotOf(sk') /\ ret'.status \notin {"Ok", "KeyExhausted"}
    <2>1. /\ sk.idx < MaxIdx
          /\ sk' = [sk EXCEPT !.idx = sk.idx + 1]
          /\ NextIdx(sk.idx) \in 0..IndexModulus-1 /\ NextIdx(sk.idx) = sk.idx + 1
          /\ ret' = Refusal("Hash")
      <3>1. sk.idx < MaxIdx
        BY <1>4 DEF AdvanceFails
      <3> QED BY <1>0, <1>4, <3>1, NextIdxFacts DEF AdvanceFails, HashFails
    <2>2. SkType' /\ sk'.idx = sk.idx + 1 /\ sk'.seed = sk.seed
      BY <2>1 DEF SkType
    <2> QED BY <1>0, <2>1, <2>2 DEF SlotOf, Refusal
  <1>5. ASSUME Reload \/ \E l \in Layers : EnsureFails(l)
        PROVE  SkType' /\ SlotOf(sk) <= SlotOf(sk') /\ ret'.status \notin {"Ok", "KeyExhausted"}
    <2>1. sk' = sk /\ ret'.status \notin {"Ok", "KeyExhausted"}
      BY <1>5 DEF Reload, EnsureFails, HashFails, Refusal
    <2> QED BY <1>0, <2>1 DEF SkType
  <1>6. ASSUME Zeroize
        PROVE  SkType' /\ SlotOf(sk) <= SlotOf(sk') /\ ret'.status \notin {"Ok", "KeyExhausted"}
    <2>1. sk' = [oid |-> FALSE, idx |-> 0, seed |-> "zero"] /\ ret' = Refusal("Zeroized")
      BY <1>6 DEF Zeroize
    <2>2. SkType'
      BY <2>1, ZeroFits DEF SkType, Seeds
    <2> QED BY <1>0, <2>1, <2>2 DEF SlotOf, Refusal
  <1>7. ASSUME SignExhausted
        PROVE  /\ SkType' /\ SlotOf(sk) <= SlotOf(sk') /\ ret'.status # "Ok"
               /\ SlotOf(sk') = MaxIdx + 1
    <2>1. sk.idx > MaxIdx /\ sk' = sk /\ ret'.status # "Ok"
      BY <1>7 DEF SignExhausted, Refusal
    <2> QED BY <1>0, <2>1 DEF SkType, SlotOf
  <1> QED BY <1>1, <1>2, <1>3, <1>4, <1>5, <1>6, <1>7 DEF Next, Sign

---------------------------------------------------------------------------
(* The inductive invariant.  What is handed on lies behind the mark in     *)
(* storage, what is held between the mark and the live key, and within     *)
(* each range an index belongs to one message; a key is called exhausted   *)
(* only when it is past every index.                                       *)

Signed(s) == s.sig.idx \in Nat /\ s.msg \in Message

OneMessage(signatures) ==
    \A a, b \in signatures : a.sig.idx = b.sig.idx => a.msg = b.msg

KInv ==
    /\ SkType
    /\ stored \in Document \cup {None, Removed}
    /\ \A s \in held : Signed(s) /\ Mark <= s.sig.idx /\ s.sig.idx < SlotOf(sk)
    /\ \A s \in released : Signed(s) /\ s.sig.idx < Mark
    /\ OneMessage(held) /\ OneMessage(released)
    /\ live => Mark <= SlotOf(sk)
    /\ ~live => held = {}
    /\ ret.status = "KeyExhausted" => SlotOf(sk) = MaxIdx + 1

LEMMA MarkType == ASSUME stored \in Document \cup {None, Removed} PROVE Mark \in 0..MaxIdx+1
  <1>1. MaxIdx \in Nat
    BY PowerFacts
  <1> QED BY <1>1, SlotFacts DEF Mark, Document

LEMMA KInitInv == StoreInit => KInv
  <1> SUFFICES ASSUME StoreInit PROVE KInv
    OBVIOUS
  <1>1. SkType
    BY ZeroFits DEF StoreInit, Init, SkType, Seeds
  <1>2. SlotOf(sk) \in Nat
    BY <1>1, SlotFacts, PowerFacts DEF SkType
  <1>3. ret.status # "KeyExhausted"
    BY DEF StoreInit, Init, Refusal
  <1> QED BY <1>1, <1>2, <1>3 DEF StoreInit, KInv, Mark, OneMessage

LEMMA KCall == ASSUME KInv, Call PROVE KInv'
  <1>1. /\ live /\ SkType /\ SkType'
        /\ stored' = stored /\ released' = released /\ live' = live
        /\ SlotOf(sk) \in Nat /\ SlotOf(sk)' \in Nat /\ Mark \in Nat
        /\ SlotOf(sk) <= SlotOf(sk')
        /\ ret'.status = "KeyExhausted" => SlotOf(sk') = MaxIdx + 1
    <2>1. /\ live /\ SkType /\ SkType' /\ SlotOf(sk) <= SlotOf(sk')
          /\ ret'.status = "KeyExhausted" => SlotOf(sk') = MaxIdx + 1
      BY CallFacts DEF Call, KInv
    <2>2. SlotOf(sk) \in Nat /\ SlotOf(sk)' \in Nat
      BY <2>1, SlotFacts, PowerFacts DEF SkType
    <2>3. Mark \in Nat
      BY MarkType, PowerFacts DEF KInv
    <2> QED BY <2>1, <2>2, <2>3 DEF Call
  <1>2. Mark' = Mark
    BY <1>1 DEF Mark
  <1>3. CASE held' = held
    BY <1>1, <1>2, <1>3 DEF KInv, Signed
  <1>4. CASE held' # held
    <2>1. /\ held' = held \cup {ret'}
          /\ ret'.status = "Ok" /\ ret'.sig.r.seed = "key" /\ ret' # ret
      BY <1>4 DEF Call
    <2>2. /\ Signed(ret') /\ ret'.sig.idx = SlotOf(sk) /\ SlotOf(sk) < SlotOf(sk')
      BY <1>1, <2>1, CallFacts DEF Call, Signed
    <2>3. \A s \in held' : Signed(s) /\ Mark <= s.sig.idx /\ s.sig.idx < SlotOf(sk')
      BY <1>1, <2>1, <2>2 DEF KInv, Signed
    <2>4. OneMessage(held')
      BY <1>1, <2>1, <2>2 DEF KInv, Signed, OneMessage
    <2> QED BY <1>1, <1>2, <2>3, <2>4 DEF KInv
  <1> QED BY <1>3, <1>4

LEMMA KPersist == ASSUME KInv, NEW pk \in {PublicKey, None}, Persist(pk) PROVE KInv'
  <1>1. /\ live' = live /\ live /\ sk' = sk
        /\ held' = {} /\ released' = released \cup held /\ ret' = ret
        /\ stored' = [bytes |-> sk, pk |-> pk]
    BY DEF Persist, vars
  <1>2. stored' \in Document
    BY <1>1 DEF KInv, SkType, Document, PublicKey
  <1>3. SkType /\ SlotOf(sk) \in Nat /\ Mark \in Nat /\ Mark <= SlotOf(sk)
    BY <1>1, SlotFacts, MarkType, PowerFacts DEF KInv, SkType
  <1>4. Mark' = SlotOf(sk) /\ SkType'
    BY <1>1, <1>2, <1>3, DocumentAssumption DEF Mark, SkType
  <1>5. \A s \in released' : Signed(s) /\ s.sig.idx < Mark'
    BY <1>1, <1>3, <1>4 DEF KInv, Signed
  <1>6. OneMessage(released')
    BY <1>1, <1>3 DEF KInv, Signed, OneMessage
  <1> QED BY <1>1, <1>2, <1>3, <1>4, <1>5, <1>6 DEF KInv, OneMessage

LEMMA KDiscard == ASSUME KInv, Discard PROVE KInv'
  <1>1. /\ live' = live /\ live /\ sk' = sk /\ ret' = ret /\ ret.status = "KeyExhausted"
        /\ held' = {} /\ released' = released \cup held
        /\ stored' = Removed
    BY DEF Discard, vars
  <1>2. SkType' /\ Mark' = SlotOf(sk) /\ SlotOf(sk) = MaxIdx + 1 /\ MaxIdx \in Nat
    BY <1>1, DocumentAssumption, PowerFacts DEF KInv, SkType, Mark
  <1>3. Mark \in Nat /\ Mark <= SlotOf(sk)
    BY <1>1, <1>2, MarkType, PowerFacts DEF KInv
  <1>4. \A s \in released' : Signed(s) /\ s.sig.idx < Mark'
    BY <1>1, <1>2, <1>3 DEF KInv, Signed
  <1>5. OneMessage(released')
    BY <1>1, <1>2, <1>3 DEF KInv, Signed, OneMessage
  <1> QED BY <1>1, <1>2, <1>3, <1>4, <1>5 DEF KInv, OneMessage

LEMMA KCrash == ASSUME KInv, Crash PROVE KInv'
  <1>1. /\ live' = FALSE /\ held' = {} /\ stored' = stored /\ released' = released
        /\ sk' = [oid |-> FALSE, idx |-> 0, seed |-> "zero"]
        /\ ret'.status # "KeyExhausted"
    BY DEF Crash, Refusal
  <1>2. SkType' /\ Mark' = Mark
    BY <1>1, ZeroFits DEF SkType, Seeds, Mark
  <1> QED BY <1>1, <1>2 DEF KInv, OneMessage

LEMMA KRestart == ASSUME KInv, Restart PROVE KInv'
  <1>1. /\ ~live /\ stored \notin {None, Removed} /\ live' /\ sk' = stored.bytes
        /\ stored' = stored /\ held' = held /\ released' = released
        /\ ret'.status # "KeyExhausted"
    BY DEF Restart, Refusal
  <1>2. held = {} /\ stored \in Document /\ Mark' = Mark /\ Mark' = SlotOf(sk')
    BY <1>1 DEF KInv, Mark
  <1>3. SkType'
    BY <1>1, <1>2 DEF SkType, Document
  <1>4. Mark' <= SlotOf(sk')
    BY <1>2, MarkType, PowerFacts
  <1> QED BY <1>1, <1>2, <1>3, <1>4 DEF KInv, OneMessage

LEMMA KNextInv == ASSUME KInv, [StoreNext]_allVars PROVE KInv'
  <1>1. CASE UNCHANGED allVars
    BY <1>1 DEF allVars, KInv, SkType, Mark, OneMessage
  <1> QED BY <1>1, KCall, KPersist, KDiscard, KCrash, KRestart DEF StoreNext

LEMMA KInvariance == StoreSpec => []KInv
  <1> QED BY KInitInv, KNextInv, PTL DEF StoreSpec

(* No index is used for two messages outside the process, however often it *)
(* is lost and started again from what its owner stored.                   *)
THEOREM NoIndexReleasedTwice == StoreSpec => []ReleasedOnce
  <1>1. KInv => ReleasedOnce
    BY DEF KInv, OneMessage, ReleasedOnce
  <1> QED BY KInvariance, <1>1, PTL

(* Storage, and the key that lives, are past everything handed on.         *)
THEOREM StorageStaysAhead == StoreSpec => []StorageAhead
  <1>1. KInv => StorageAhead
    <2> SUFFICES ASSUME KInv, NEW s \in released
                 PROVE  /\ stored # None
                        /\ stored # Removed /\ stored.bytes.seed = "key"
                              => s.sig.idx < stored.bytes.idx
                        /\ live /\ sk.seed = "key" => s.sig.idx < sk.idx
      BY DEF StorageAhead
    <2>1. s.sig.idx \in Nat /\ s.sig.idx < Mark /\ MaxIdx \in Nat
      BY PowerFacts DEF KInv, Signed
    <2>2. stored # None
      BY <2>1 DEF Mark
    <2>3. sk.idx \in Nat /\ (stored # Removed => stored.bytes.idx \in Nat)
      BY <2>2, SlotFacts DEF KInv, Document, SkType
    <2>4. Mark \in 0..MaxIdx+1 /\ SlotOf(sk) \in Nat
      BY MarkType, SlotFacts, PowerFacts DEF KInv, SkType
    <2>5. stored # Removed /\ stored.bytes.seed = "key" => s.sig.idx < stored.bytes.idx
      BY <2>1, <2>2, <2>3, <2>4 DEF Mark, SlotOf
    <2>6. live /\ sk.seed = "key" => s.sig.idx < sk.idx
      BY <2>1, <2>3, <2>4 DEF KInv, SlotOf
    <2> QED BY <2>2, <2>5, <2>6
  <1> QED BY KInvariance, <1>1, PTL

(* A key pair whose owner stores it before handing signatures on is a      *)
(* durable signer.                                                         *)
THEOREM KeyStoreImplementsDurableSigner == StoreSpec => StoreRefines
  <1>1. StoreInit => Durable!Init
    BY DEF StoreInit, Durable!Init, Mark, Out
  <1>2. ASSUME KInv, [StoreNext]_allVars PROVE [Durable!Next]_(Durable!vars)
    <2>1. ASSUME stored' = stored, released' = released
          PROVE  [Durable!Next]_(Durable!vars)
      BY <2>1 DEF Durable!vars, Mark, Out
    <2>2. ASSUME live, Mark' = SlotOf(sk), released' = released \cup held
          PROVE  Durable!Next
      <3>1. /\ Mark \in 0..MaxIdx+1 /\ SlotOf(sk) \in 0..MaxIdx+1 /\ MaxIdx \in Nat
            /\ Mark <= SlotOf(sk)
        BY <1>2, <2>2, MarkType, SlotFacts, PowerFacts DEF KInv, SkType
      <3>2. Out' = Out \cup {[slot |-> s.sig.idx, msg |-> s.msg] : s \in held}
        BY <2>2 DEF Out
      <3>3. \A a \in Out' \ Out : a \in [slot : Mark..SlotOf(sk)-1, msg : Message]
        <4> SUFFICES ASSUME NEW s \in held
                     PROVE  [slot |-> s.sig.idx, msg |-> s.msg]
                               \in [slot : Mark..SlotOf(sk)-1, msg : Message]
          BY <3>2
        <4> QED BY <1>2, <3>1 DEF KInv, Signed
      <3>4. \A a, b \in Out' \ Out : a.slot = b.slot => a = b
        BY <1>2, <3>2 DEF KInv, OneMessage
      <3>5. Durable!Store(SlotOf(sk))
        BY <2>2, <3>1, <3>2, <3>3, <3>4 DEF Durable!Store
      <3> QED BY <3>1, <3>5 DEF Durable!Next
    <2>3. ASSUME NEW pk \in {PublicKey, None}, Persist(pk) PROVE Durable!Next
      <3>1. stored' = [bytes |-> sk, pk |-> pk] /\ stored' \in Document
        BY <1>2, <2>3 DEF Persist, KInv, SkType, Document, PublicKey
      <3>2. Mark' = SlotOf(sk)
        BY <3>1, DocumentAssumption DEF Mark
      <3> QED BY <2>2, <2>3, <3>2 DEF Persist
    <2>4. ASSUME Discard PROVE Durable!Next
      <3>1. Mark' = SlotOf(sk)
        BY <1>2, <2>4, DocumentAssumption DEF Discard, Mark, KInv
      <3> QED BY <2>2, <2>4, <3>1 DEF Discard
    <2> QED BY <1>2, <2>1, <2>3, <2>4 DEF StoreNext, Call, Crash, Restart, allVars
  <1> QED BY KInvariance, <1>1, <1>2, PTL DEF StoreSpec, StoreRefines, Durable!Spec

(* The promise of DurableSigner holds of whatever implements it: what goes *)
(* out in a step lies at or past the mark that all before it are behind.   *)
LEMMA DurableSignerKeepsSlotsApart == Durable!Spec => []Durable!SlotOutOnce
  <1> DEFINE Apart == /\ Mark \in 0..MaxIdx+1
                      /\ \A a \in Out : a.slot \in Nat /\ a.slot < Mark
                      /\ \A a, b \in Out : a.slot = b.slot => a = b
  <1>0. MaxIdx \in Nat
    BY PowerFacts
  <1>1. Durable!Init => Apart
    BY <1>0 DEF Durable!Init
  <1>2. Apart /\ [Durable!Next]_(Durable!vars) => Apart'
    <2> SUFFICES ASSUME Apart, [Durable!Next]_(Durable!vars) PROVE Apart'
      OBVIOUS
    <2>1. CASE UNCHANGED Durable!vars
      BY <2>1 DEF Durable!vars
    <2>2. ASSUME NEW n \in 0..MaxIdx+1, Durable!Store(n) PROVE Apart'
      <3>1. /\ n \in Mark..MaxIdx+1 /\ Mark' = n /\ Out \subseteq Out'
            /\ \A a \in Out' \ Out : a \in [slot : Mark..n-1, msg : Message]
            /\ \A a, b \in Out' \ Out : a.slot = b.slot => a = b
        BY <2>2 DEF Durable!Store
      <3>2. ASSUME NEW a \in Out' PROVE a.slot \in Nat /\ a.slot < Mark'
        BY <1>0, <3>1
      <3>3. ASSUME NEW a \in Out', NEW b \in Out', a.slot = b.slot PROVE a = b
        <4>1. \A c \in Out : c.slot \in Nat /\ c.slot < Mark
          OBVIOUS
        <4>2. \A c \in Out' \ Out : c.slot \in Nat /\ c.slot >= Mark
          BY <1>0, <3>1
        <4>3. a \in Out <=> b \in Out
          BY <1>0, <3>3, <4>1, <4>2
        <4> QED BY <3>1, <3>3, <4>3
      <3> QED BY <1>0, <3>1, <3>2, <3>3
    <2> QED BY <2>1, <2>2 DEF Durable!Next
  <1>3. Apart => Durable!SlotOutOnce
    BY DEF Durable!SlotOutOnce
  <1> QED BY <1>1, <1>2, <1>3, PTL DEF Durable!Spec

(* No slot is used outside for two messages, and none that a process       *)
(* started from storage would use again.                                   *)
THEOREM StoredSlotsOutOnce == StoreSpec => []Durable!SlotOutOnce
  BY KeyStoreImplementsDurableSigner, DurableSignerKeepsSlotsApart, PTL DEF StoreRefines

---------------------------------------------------------------------------
(* Types, and what the live key returns, across restarts *)

KCore == StoreTypeOK /\ CacheCoherent /\ SignaturesVerify

LEMMA KCoreInit == StoreInit => KCore
  <1> SUFFICES ASSUME StoreInit PROVE KCore
    OBVIOUS
  <1>1. TypeOK /\ CacheCoherent
    BY InitInv DEF StoreInit, Inv
  <1>2. StoreTypeOK
    BY <1>1, CrashAssumption DEF StoreInit, StoreTypeOK
  <1>3. SignaturesVerify
    BY DEF StoreInit, Init, Refusal, SignaturesVerify
  <1> QED BY <1>1, <1>2, <1>3 DEF KCore

LEMMA KCoreCall == ASSUME KCore, Call PROVE KCore'
  <1>1. Core /\ Next
    BY DEF KCore, StoreTypeOK, Core, Call
  <1>2. Core' /\ SignaturesVerify'
    BY <1>1, NextCore, VerifyStep DEF KCore
  <1>3. ret'.status = "Ok" =>
           ret' \in [status : {"Ok"}, msg : Message, sig : AnySignature]
    BY <1>2 DEF Core, TypeOK, Refusal, Errors
  <1>4. held' \subseteq [status : {"Ok"}, msg : Message, sig : AnySignature]
    BY <1>3 DEF Call, KCore, StoreTypeOK
  <1> QED BY <1>2, <1>4 DEF Call, KCore, StoreTypeOK, Core

LEMMA KCorePersist ==
    ASSUME KCore, NEW pk \in {PublicKey, None}, Persist(pk) PROVE KCore'
  <1>1. stored' \in Document
    BY DEF Persist, KCore, StoreTypeOK, TypeOK, Document, PublicKey
  <1>2. TypeOK' /\ CacheCoherent' /\ SignaturesVerify'
    BY DEF Persist, vars, KCore, StoreTypeOK, TypeOK, CacheCoherent, SignaturesVerify
  <1> QED BY <1>1, <1>2 DEF Persist, KCore, StoreTypeOK

LEMMA KCoreDiscard == ASSUME KCore, Discard PROVE KCore'
  <1>1. TypeOK' /\ CacheCoherent' /\ SignaturesVerify'
    BY DEF Discard, vars, KCore, StoreTypeOK, TypeOK, CacheCoherent, SignaturesVerify
  <1> QED BY <1>1 DEF Discard, KCore, StoreTypeOK

LEMMA KCoreCrash == ASSUME KCore, Crash PROVE KCore'
  <1>1. /\ sk' = [oid |-> FALSE, idx |-> 0, seed |-> "zero"]
        /\ cache' = [next |-> None, layers |-> <<>>]
        /\ ret' = Refusal("New") /\ uses' = uses /\ faults' = faults
    BY DEF Crash, Cleared
  <1>2. TypeOK'
    BY <1>1, ZeroFits DEF KCore, StoreTypeOK, TypeOK, Errors, Seeds
  <1>3. CacheCoherent' /\ SignaturesVerify'
    BY <1>1, NoneAssumption DEF CacheCoherent, SignaturesVerify, Refusal
  <1>4. crashes' \in 0..MaxCrashes
    BY CrashAssumption DEF Crash, KCore, StoreTypeOK
  <1> QED BY <1>2, <1>3, <1>4 DEF Crash, KCore, StoreTypeOK

LEMMA KCoreRestart == ASSUME KCore, Restart PROVE KCore'
  <1>1. /\ stored \in Document /\ sk' = stored.bytes
        /\ cache' = DecodedCache(stored.bytes)
        /\ ret' = Refusal("Decoded") /\ uses' = uses /\ faults' = faults
    BY DEF Restart, KCore, StoreTypeOK
  <1>2. TypeOK'
    BY <1>1, DecodedFacts DEF KCore, StoreTypeOK, TypeOK, Errors, Document
  <1>3. CacheCoherent' /\ SignaturesVerify'
    BY <1>1, DecodedFacts DEF CacheCoherent, SignaturesVerify, Refusal, Document
  <1> QED BY <1>2, <1>3 DEF Restart, KCore, StoreTypeOK

LEMMA KCoreInvariance == StoreSpec => []KCore
  <1>1. KCore /\ [StoreNext]_allVars => KCore'
    <2> SUFFICES ASSUME KCore, [StoreNext]_allVars PROVE KCore'
      OBVIOUS
    <2>1. CASE UNCHANGED allVars
      BY <2>1 DEF allVars, KCore, StoreTypeOK, TypeOK, CacheCoherent, SignaturesVerify
    <2> QED BY <2>1, KCoreCall, KCorePersist, KCoreDiscard, KCoreCrash, KCoreRestart DEF StoreNext
  <1> QED BY KCoreInit, <1>1, PTL DEF StoreSpec

(* The key, the cache, the stored document and the signatures keep the     *)
(* shape the code gives them through any number of crashes.                *)
THEOREM StoreTypeCorrect == StoreSpec => []StoreTypeOK
  <1>1. KCore => StoreTypeOK
    BY DEF KCore
  <1> QED BY KCoreInvariance, <1>1, PTL

(* Whatever the live key returns verifies, and its cache is the one its    *)
(* bytes call for, in every process that decoded the stored key.           *)
THEOREM RestartsAreSound == StoreSpec => []RestartedKeySound
  <1>1. KCore => RestartedKeySound
    BY DEF KCore, RestartedKeySound
  <1> QED BY KCoreInvariance, <1>1, PTL

---------------------------------------------------------------------------
(* What is handed on, layer by layer.  Every process with the key in it    *)
(* makes the same signature of a message under an index, so two signatures *)
(* share a one-time key only where it signs the same for both: at the      *)
(* lowest layer because the indices are equal, and then the messages are,  *)
(* at an upper one because the trees below are the same tree.              *)

AllExact == \A s \in held \cup released : Exact(s.msg, s.sig)

LEMMA ExactCall ==
    ASSUME KCore, AllExact, Call PROVE AllExact'
  <1>1. CASE held' = held
    BY <1>1 DEF Call, AllExact
  <1>2. CASE held' # held
    <2>1. /\ held' = held \cup {ret'} /\ released' = released
          /\ ret'.status = "Ok" /\ ret'.sig.r.seed = "key" /\ ret' # ret /\ Next
      BY <1>2 DEF Call
    <2>2. PICK m \in Message : SignNotLast(m) \/ SignLast(m)
      BY <2>1 DEF Next, Sign, SignExhausted, EnsureFails, SignLayerFails, AdvanceFails,
                  HashFails, Reload, Zeroize, Refusal
    <2>3. Core
      BY DEF KCore, StoreTypeOK, Core
    <2>4. sk.idx <= MaxIdx /\ ret' = Signature(Ensured(sk.idx), m)
      BY <2>2, <2>3, IndexAssumption, PowerFacts DEF SignNotLast, SignLast, Core, TypeOK
    <2>5. ret'.msg = m /\ sk.seed = "key"
      BY <2>1, <2>4 DEF Signature, Randomizer
    <2>6. Exact(ret'.msg, ret'.sig)
      BY <2>3, <2>4, <2>5, LiveSignatureExact
    <2> QED BY <2>1, <2>6 DEF AllExact
  <1> QED BY <1>1, <1>2

LEMMA ExactInvariance == StoreSpec => []AllExact
  <1>1. StoreInit => AllExact
    BY DEF StoreInit, AllExact
  <1>2. KCore /\ AllExact /\ [StoreNext]_allVars => AllExact'
    <2> SUFFICES ASSUME KCore, AllExact, [StoreNext]_allVars PROVE AllExact'
      OBVIOUS
    <2>1. CASE Call
      BY <2>1, ExactCall
    <2>2. CASE UNCHANGED allVars \/ Restart \/ Crash
      BY <2>2 DEF allVars, Restart, Crash, AllExact
    <2>3. CASE Discard \/ \E pk \in {PublicKey, None} : Persist(pk)
      BY <2>3 DEF Discard, Persist, AllExact
    <2> QED BY <2>1, <2>2, <2>3 DEF StoreNext
  <1> QED BY KCoreInvariance, <1>1, <1>2, PTL DEF StoreSpec

(* No one-time key of any layer signs two values in the signatures handed  *)
(* on, however often the process is lost and started again.                *)
THEOREM NoOneTimeKeyReleasedTwice == StoreSpec => []ReleasedOneTimeUse
  <1>1. ASSUME KInv, AllExact PROVE ReleasedOneTimeUse
    <2> SUFFICES ASSUME NEW a \in released, NEW b \in released, NEW l \in Layers,
                        a.sig.wots[l].key = b.sig.wots[l].key
                 PROVE  a.sig.wots[l] = b.sig.wots[l]
      BY DEF ReleasedOneTimeUse
    <2> DEFINE i == a.sig.idx
               j == b.sig.idx
    <2>1. Exact(a.msg, a.sig) /\ Exact(b.msg, b.sig) /\ i \in Nat /\ j \in Nat
      BY <1>1, PowerFacts DEF AllExact, KInv, Signed
    <2>2. TreeIdx(i, l) = TreeIdx(j, l) /\ LeafIdx(i, l) = LeafIdx(j, l)
      <3>1. ASSUME NEW s \in released, Exact(s.msg, s.sig)
            PROVE  /\ s.sig.wots[l].key.tree = TreeIdx(s.sig.idx, l)
                   /\ s.sig.wots[l].key.leaf = LeafIdx(s.sig.idx, l)
        <4>1. PICK v : s.sig.wots[l] =
                 WotsSign("key", l, TreeIdx(s.sig.idx, l), LeafIdx(s.sig.idx, l), v)
          BY <3>1 DEF Exact
        <4> QED BY <4>1 DEF WotsSign
      <3> QED BY <2>1, <3>1
    <2>3. CASE l = 0
      <3>1. i = j
        BY <2>1, <2>2, <2>3, LowestPosition
      <3>2. a.msg = b.msg
        BY <1>1, <3>1 DEF KInv, OneMessage
      <3> QED BY <2>1, <3>1, <3>2 DEF Exact
    <2>4. CASE l # 0
      <3>1. l > 0
        BY <2>4, DimensionAssumption DEF Layers
      <3>2. TreeIdx(i, l - 1) = TreeIdx(j, l - 1)
        BY <2>1, <2>2, <3>1, UpperPosition
      <3> QED BY <2>1, <2>2, <2>4, <3>2 DEF Exact
    <2> QED BY <2>3, <2>4
  <1> QED BY <1>1, KInvariance, ExactInvariance, PTL
==========================================================================
