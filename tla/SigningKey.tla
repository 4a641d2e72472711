---------------------------- MODULE SigningKey ---------------------------
(***************************************************************************)
(* A signing key as its owner holds it: the compact secret key bytes, the  *)
(* traversal cache beside them, and the calls that change them.            *)
(*                                                                         *)
(* A call to sign is one action, because it takes &mut self; what the      *)
(* model adds to its effect is where it may stop.  Every hash returns a    *)
(* Result, and each `?' leaves the key as the code has changed it so far:  *)
(* before the index moves (EnsureFails), after it (SignLayerFails), or     *)
(* with every one-time signature made and the cache half advanced          *)
(* (AdvanceFails).                                                         *)
(***************************************************************************)
EXTENDS Hypertree

CONSTANTS
    Message,      \* messages callers sign
    IndexModulus, \* 256 ^ params.index_bytes
    MaxFaults,    \* bound: how many calls may fail inside a hash
    None          \* Option::None

ASSUME IndexAssumption == IndexModulus \in Nat /\ IndexModulus >= Pow2[FullHeight]
ASSUME FaultAssumption == MaxFaults \in Nat

VARIABLES
    sk,     \* the bytes: OID, index, and the four n-byte fields as one seed
    cache,  \* TraversalState
    ret,    \* what the last call returned
    uses,   \* history: every WOTS+ signature computed from the live seed
    faults  \* how many calls have failed inside a hash

vars == <<sk, cache, ret, uses, faults>>

(* What the last index is replaced by: 0xFF in every index byte. *)
Sentinel == IndexModulus - 1

(* No index is mistaken for the sentinel.  It does not hold for every      *)
(* parameter set: index_bytes = 5 with full_height = 40.                   *)
DistinctSentinel == Sentinel > MaxIdx

---------------------------------------------------------------------------
(* Types *)
WotsKey   == [seed : {"key", "zero"}, layer : Layers, tree : Nat, leaf : Nat]
AnyNode   == [seed : {"key", "zero", "none"}, layer : Nat, tree : Nat,
              height : Nat, index : Nat]
AnyDigest == [r : [seed : Seeds, idx : Indices], root : AnyNode,
              idx : Indices, msg : Message]
AnyWots   == [key : WotsKey, msg : AnyNode \cup AnyDigest]

LayerState == [tree : Nat, leaf : Nat, root : AnyNode,
               auth : [Heights -> AnyNode], wots : AnyWots \cup {NoNode, None}]

ASSUME NoneAssumption == None \notin Nat /\ None \notin LayerState

AnySignature == [idx : Indices, r : [seed : Seeds, idx : Indices],
                 wots : [Layers -> AnyWots \cup {NoNode}],
                 auth : [Layers -> [Heights -> AnyNode]]]

(* what a call returns: a signature of msg, or the reason there is none *)
Refusal(error) == [status |-> error, msg |-> None, sig |-> None]
Errors == {"New", "KeyExhausted", "Hash", "Decoded", "Zeroized"}

TypeOK ==
    /\ sk \in [oid : BOOLEAN, idx : 0..IndexModulus-1, seed : Seeds]
    /\ cache \in [next   : Indices \cup {None},
                  layers : {<<>>} \cup [Layers -> LayerState \cup {None}]]
    /\ ret \in {Refusal(e) : e \in Errors}
             \cup [status : {"Ok"}, msg : Message, sig : AnySignature]
    /\ uses \subseteq AnyWots
    /\ faults \in 0..MaxFaults

---------------------------------------------------------------------------
(* TraversalState *)
Cleared == [next |-> None, layers |-> <<>>]

BuildLayerState(seed, layer, idx) ==
    LET tree == TreeIdx(idx, layer)
        leaf == LeafIdx(idx, layer)
    IN [tree |-> tree, leaf |-> leaf, root |-> Root(seed, layer, tree),
        auth |-> AuthPath(seed, layer, tree, leaf), wots |-> None]

AtPosition(state, layer, idx) ==
    /\ state # None
    /\ state.tree = TreeIdx(idx, layer)
    /\ state.leaf = LeafIdx(idx, layer)

(* (slip: the tree that is hashed for the public key is the lowest) *)
FromTopTreeLowest ==
    [l \in Layers |->
        IF l = 0
        THEN [tree |-> 0, leaf |-> 0, root |-> Root("key", D - 1, 0),
              auth |-> AuthPath("key", D - 1, 0, 0), wots |-> None]
        ELSE None]

(* from_top_tree: what hashing the topmost tree for its root leaves behind *)
FromTopTree ==
    [l \in Layers |->
        IF l = D - 1
        THEN [tree |-> 0, leaf |-> 0, root |-> Root("key", D - 1, 0),
              auth |-> AuthPath("key", D - 1, 0, 0), wots |-> None]
        ELSE None]

(* the cache of a generated key: ensure has gone through those layers *)
GeneratedCache ==
    [next   |-> 0,
     layers |-> [l \in Layers |-> IF AtPosition(FromTopTree[l], l, 0)
                                  THEN FromTopTree[l]
                                  ELSE BuildLayerState("key", l, 0)]]

(* (slip: the layers are built for a new key, not for the stored index) *)
DecodedCacheAtZero(bytes) ==
    [next |-> bytes.idx,
     layers |-> [l \in Layers |-> BuildLayerState(bytes.seed, l, 0)]]

(* from_compact_key: the cache a decoded key starts with *)
DecodedCache(bytes) ==
    IF bytes.idx > MaxIdx THEN Cleared
    ELSE [next |-> bytes.idx,
          layers |-> [l \in Layers |-> BuildLayerState(bytes.seed, l, bytes.idx)]]

(* ensure: the cache is kept only if it is for this index *)
IsFor(idx) == cache.next = idx /\ DOMAIN cache.layers = Layers

EnsureBase(idx) ==
    IF IsFor(idx) THEN cache.layers ELSE [l \in Layers |-> None]

(* the layers once ensure has been through the lowest n of them *)
EnsuredUpTo(n, idx) ==
    [l \in Layers |->
        IF l < n /\ ~AtPosition(EnsureBase(idx)[l], l, idx)
        THEN BuildLayerState(sk.seed, l, idx)
        ELSE EnsureBase(idx)[l]]

Ensured(idx) == EnsuredUpTo(D, idx)

(* advance_auth_path, once it has recomputed the lowest n nodes *)
Recomputed(n, state, layer, seed) ==
    [h \in Heights |->
        IF h < n
        THEN Node(seed, layer, state.tree, h, Sibling((state.leaf + 1) \div Pow2[h]))
        ELSE state.auth[h]]

(* (slip: off by one, the highest changed node is left as it was) *)
ChangedLevelsShort(leaf) == TrailingOnes(leaf)

ChangedLevels(leaf) == TrailingOnes(leaf) + 1

(* the state's tree goes on to the next leaf; otherwise it is rebuilt *)
Continues(state, layer, idx) ==
    /\ state.tree = TreeIdx(idx, layer)
    /\ state.leaf + 1 = LeafIdx(idx, layer)

(* (slip: the next leaf inherits the signature made by this one) *)
AdvanceLayerKeepsWots(state, layer, idx, seed) ==
    IF AtPosition(state, layer, idx) THEN state
    ELSE IF Continues(state, layer, idx)
         THEN [state EXCEPT
                 !.auth = Recomputed(ChangedLevels(state.leaf), state, layer, seed),
                 !.leaf = state.leaf + 1]
         ELSE BuildLayerState(seed, layer, idx)

(* (slip: a rebuilt layer inherits the signature of the tree before it) *)
AdvanceLayerRebuildsAround(state, layer, idx, seed) ==
    IF AtPosition(state, layer, idx) THEN state
    ELSE IF Continues(state, layer, idx)
         THEN [state EXCEPT
                 !.auth = Recomputed(ChangedLevels(state.leaf), state, layer, seed),
                 !.leaf = state.leaf + 1,
                 !.wots = None]
         ELSE [BuildLayerState(seed, layer, idx) EXCEPT !.wots = state.wots]

AdvanceLayer(state, layer, idx, seed) ==
    IF AtPosition(state, layer, idx) THEN state
    ELSE IF Continues(state, layer, idx)
         THEN [state EXCEPT
                 !.auth = Recomputed(ChangedLevels(state.leaf), state, layer, seed),
                 !.leaf = state.leaf + 1,
                 !.wots = None]
         ELSE BuildLayerState(seed, layer, idx)

(* the layers once advance has been through the lowest n of them *)
AdvancedUpTo(n, layers, idx, seed) ==
    [l \in Layers |->
        IF l < n THEN AdvanceLayer(layers[l], l, idx, seed) ELSE layers[l]]

---------------------------------------------------------------------------
(* xmssmt_core_sign_inner *)

(* (slip: the index wraps to the first) *)
NextIdxWraps(idx) == IF idx = MaxIdx THEN 0 ELSE idx + 1

(* (slip: the last index is not marked used) *)
NextIdxStays(idx) == IF idx = MaxIdx THEN idx ELSE idx + 1

(* (slip: the mark does not fit in the index bytes) *)
NextIdxOverflows(idx) == IF idx = MaxIdx THEN IndexModulus ELSE idx + 1

(* the index bytes once a signature has taken an index *)
NextIdx(idx) == IF idx = MaxIdx THEN Sentinel ELSE idx + 1

PubRoot(seed) == IF seed = "key" THEN Root("key", D - 1, 0) ELSE NoNode

DigestOf(m) ==
    Digest(Randomizer(sk.seed, sk.idx), PubRoot(sk.seed), sk.idx, m)

(* the WOTS+ signature that goes out at a layer: above the lowest, one     *)
(* made before is used again                                               *)
WotsAt(layers, layer, m) ==
    IF layer > 0 /\ layers[layer].wots # None
    THEN layers[layer].wots
    ELSE WotsSign(sk.seed, layer, TreeIdx(sk.idx, layer), LeafIdx(sk.idx, layer),
                  IF layer = 0 THEN DigestOf(m) ELSE layers[layer - 1].root)

(* the layers once the lowest n have signed *)
SignedUpTo(n, layers, m) ==
    [l \in Layers |->
        IF 0 < l /\ l < n
        THEN [layers[l] EXCEPT !.wots = WotsAt(layers, l, m)]
        ELSE layers[l]]

(* what the lowest n layers sign with the live seed *)
LiveUses(n, layers, m) ==
    {u \in {WotsAt(layers, l, m) : l \in {l \in Layers : l < n}} :
        sk.seed = "key"}

Signature(layers, m) ==
    [status |-> "Ok", msg |-> m,
     sig |-> [idx  |-> sk.idx,
              r    |-> Randomizer(sk.seed, sk.idx),
              wots |-> [l \in Layers |-> WotsAt(layers, l, m)],
              auth |-> [l \in Layers |-> layers[l].auth]]]

Init ==
    /\ sk = [oid |-> TRUE, idx |-> 0, seed |-> "key"]
    /\ cache = GeneratedCache
    /\ ret = Refusal("New")
    /\ uses = {}
    /\ faults = 0

(* The key is exhausted: nothing is signed and the cache is dropped. *)
SignExhausted ==
    /\ sk.idx > MaxIdx
    /\ cache' = Cleared
    /\ ret' = Refusal("KeyExhausted")
    /\ UNCHANGED <<sk, uses, faults>>

HashFails ==
    /\ faults < MaxFaults
    /\ faults' = faults + 1
    /\ ret' = Refusal("Hash")

(* (slip: the cache is marked as for the index before it is filled) *)
EnsureFailsMarked(layer) ==
    /\ sk.idx <= MaxIdx
    /\ ~AtPosition(EnsureBase(sk.idx)[layer], layer, sk.idx)
    /\ HashFails
    /\ cache' = [next |-> sk.idx, layers |-> EnsuredUpTo(layer, sk.idx)]
    /\ UNCHANGED <<sk, uses>>

(* ensure fails to build a layer; the index has not moved. *)
EnsureFails(layer) ==
    /\ sk.idx <= MaxIdx
    /\ ~AtPosition(EnsureBase(sk.idx)[layer], layer, sk.idx)
    /\ HashFails
    /\ cache' = [next   |-> IF IsFor(sk.idx) THEN sk.idx ELSE None,
                 layers |-> EnsuredUpTo(layer, sk.idx)]
    /\ UNCHANGED <<sk, uses>>

(* (slip: the index is written only by a call that succeeds) *)
SignLayerFailsIndexLate(m, n) ==
    /\ sk.idx <= MaxIdx
    /\ n > 0 => Ensured(sk.idx)[n].wots = None
    /\ HashFails
    /\ cache' = [next   |-> sk.idx,
                 layers |-> SignedUpTo(n, Ensured(sk.idx), m)]
    /\ uses' = uses \cup LiveUses(n, Ensured(sk.idx), m)
    /\ UNCHANGED sk

(* A hash fails in the message digest or the lowest layer (n = 0), or in   *)
(* layer n, which signs only if it has no signature to use again.  The     *)
(* index has moved and the cache is left at the one taken.                 *)
SignLayerFails(m, n) ==
    /\ sk.idx <= MaxIdx
    /\ n > 0 => Ensured(sk.idx)[n].wots = None
    /\ HashFails
    /\ sk' = [sk EXCEPT !.idx = NextIdx(sk.idx)]
    /\ cache' = [next   |-> sk.idx,
                 layers |-> SignedUpTo(n, Ensured(sk.idx), m)]
    /\ uses' = uses \cup LiveUses(n, Ensured(sk.idx), m)

(* Every layer has signed, but advance fails at one, with n nodes of its   *)
(* path already those of the next leaf.  Nothing is returned.              *)
AdvanceFails(m, layer, n) ==
    LET layers == SignedUpTo(D, Ensured(sk.idx), m)
        state  == layers[layer]
        next   == sk.idx + 1
    IN /\ sk.idx < MaxIdx
       /\ ~AtPosition(state, layer, next)
       /\ n > 0 => Continues(state, layer, next) /\ n < ChangedLevels(state.leaf)
       /\ HashFails
       /\ sk' = [sk EXCEPT !.idx = next]
       /\ cache' = [next   |-> sk.idx,
                    layers |-> [AdvancedUpTo(layer, layers, next, sk.seed)
                                EXCEPT ![layer].auth =
                                   Recomputed(n, state, layer, sk.seed)]]
       /\ uses' = uses \cup LiveUses(D, Ensured(sk.idx), m)

(* (slip: the index is not written) *)
SignNotLastIndexKept(m) ==
    LET layers == SignedUpTo(D, Ensured(sk.idx), m)
        next   == sk.idx + 1
    IN /\ sk.idx < MaxIdx
       /\ cache' = [next |-> next, layers |-> AdvancedUpTo(D, layers, next, sk.seed)]
       /\ ret' = Signature(Ensured(sk.idx), m)
       /\ uses' = uses \cup LiveUses(D, Ensured(sk.idx), m)
       /\ UNCHANGED <<sk, faults>>

(* A signature is returned, the cache advanced to the next index. *)
SignNotLast(m) ==
    LET layers == SignedUpTo(D, Ensured(sk.idx), m)
        next   == sk.idx + 1
    IN /\ sk.idx < MaxIdx
       /\ sk' = [sk EXCEPT !.idx = NextIdx(sk.idx)]
       /\ cache' = [next |-> next, layers |-> AdvancedUpTo(D, layers, next, sk.seed)]
       /\ ret' = Signature(Ensured(sk.idx), m)
       /\ uses' = uses \cup LiveUses(D, Ensured(sk.idx), m)
       /\ UNCHANGED faults

(* (slip: the key material outlives the last signature) *)
SignLastUnscrubbed(m) ==
    /\ sk.idx = MaxIdx
    /\ sk' = [sk EXCEPT !.idx = NextIdx(sk.idx)]
    /\ cache' = Cleared
    /\ ret' = Signature(Ensured(sk.idx), m)
    /\ uses' = uses \cup LiveUses(D, Ensured(sk.idx), m)
    /\ UNCHANGED faults

(* The last signature is returned: the cache is dropped and the secret key *)
(* material overwritten with zeros.                                        *)
SignLast(m) ==
    /\ sk.idx = MaxIdx
    /\ sk' = [sk EXCEPT !.idx = NextIdx(sk.idx), !.seed = "zero"]
    /\ cache' = Cleared
    /\ ret' = Signature(Ensured(sk.idx), m)
    /\ uses' = uses \cup LiveUses(D, Ensured(sk.idx), m)
    /\ UNCHANGED faults

(* The key is serialized with as_ref and decoded with try_from, which      *)
(* reconstructs the cache for the stored index.                            *)
Reload ==
    /\ sk.oid
    /\ cache' = DecodedCache(sk)
    /\ ret' = Refusal("Decoded")
    /\ UNCHANGED <<sk, uses, faults>>

Zeroed(state) ==
    [state EXCEPT !.root = NoNode,
                  !.auth = [h \in Heights |-> NoNode],
                  !.wots = IF state.wots = None THEN None ELSE NoNode]

(* (slip: the index goes, the seeds stay) *)
ZeroizeIndexOnly ==
    /\ sk' = [sk EXCEPT !.oid = FALSE, !.idx = 0]
    /\ cache' = Cleared
    /\ ret' = Refusal("Zeroized")
    /\ UNCHANGED <<uses, faults>>

(* SigningKey::zeroize: the key stays usable, with nothing but zeros in it *)
Zeroize ==
    /\ sk' = [oid |-> FALSE, idx |-> 0, seed |-> "zero"]
    /\ cache' = [next   |-> None,
                 layers |-> [l \in DOMAIN cache.layers |->
                                IF cache.layers[l] = None THEN None
                                ELSE Zeroed(cache.layers[l])]]
    /\ ret' = Refusal("Zeroized")
    /\ UNCHANGED <<uses, faults>>

Sign(m) ==
    \/ SignNotLast(m)
    \/ SignLast(m)
    \/ \E n \in Layers : SignLayerFails(m, n)
    \/ \E l \in Layers, n \in Heights : AdvanceFails(m, l, n)

Next ==
    \/ \E m \in Message : Sign(m)
    \/ SignExhausted
    \/ \E l \in Layers : EnsureFails(l)
    \/ Reload
    \/ Zeroize

Spec == Init /\ [][Next]_vars

---------------------------------------------------------------------------
(* Properties *)

(* No one-time key of any layer of the tree ever signs two values: not     *)
(* when calls fail half way, not when the cache is rebuilt, not when a     *)
(* signature of an upper layer is used again.                              *)
OneTimeUse == \A u, v \in uses : u.key = v.key => u.msg = v.msg

(* Every signature the live key returns is accepted under its public key:  *)
(* the paths updated incrementally, the trees rolled over and the upper    *)
(* signatures used again add up to what a fresh traversal would give.      *)
SignaturesVerify ==
    ret.status = "Ok" /\ ret.sig.r.seed = "key" => Verify(ret.msg, ret.sig)

(* A cache that says it is for the index the key is at holds exactly the   *)
(* state a rebuild would, and an upper signature only of the root of the   *)
(* tree now below it.  A cache a failed call left behind never says so.    *)
CachedWots(layer, seed, idx) ==
    IF layer = 0 THEN {None}
    ELSE {None, WotsSign(seed, layer, TreeIdx(idx, layer), LeafIdx(idx, layer),
                         Root(seed, layer - 1, TreeIdx(idx, layer - 1)))}

StateFor(state, layer, seed, idx) ==
    /\ state # None
    /\ state = [BuildLayerState(seed, layer, idx) EXCEPT !.wots = state.wots]
    /\ state.wots \in CachedWots(layer, seed, idx)

CacheCoherent ==
    cache.next = sk.idx =>
        /\ DOMAIN cache.layers = Layers
        /\ \A l \in Layers : StateFor(cache.layers[l], l, sk.seed, sk.idx)

(* Why one-time use holds: the lowest layer has signed one digest for each *)
(* index the key has gone past, and an upper leaf has signed the root of   *)
(* the one tree below it.                                                  *)
UsesInOrder ==
    /\ \A u \in uses : u.key.seed = "key"
    /\ \A u \in uses : u.key.layer = 0 =>
          /\ u.msg \in AnyDigest
          /\ u.key.tree = TreeIdx(u.msg.idx, 0)
          /\ u.key.leaf = LeafIdx(u.msg.idx, 0)
          /\ sk.seed = "key" => u.msg.idx < sk.idx
    /\ \A u \in uses : u.key.layer > 0 =>
          u.msg = Root("key", u.key.layer - 1, Leaves * u.key.tree + u.key.leaf)
    /\ \A u, v \in uses :
          u.key.layer = 0 /\ v.key.layer = 0 /\ u.msg.idx = v.msg.idx => u.msg = v.msg

(* The verifier takes one-time signatures of the key, whichever they are   *)
(* and whatever index they are put under, only for a message the key       *)
(* signed under that index: each layer commits to the one below, and the   *)
(* lowest to the index and the message.                                    *)
AcceptedWasSigned(m, sig) ==
    (\A l \in Layers : sig.wots[l] \in uses) /\ Verify(m, sig) =>
        \E u \in uses :
            u.msg = Digest(sig.r, Root("key", D - 1, 0), sig.idx, m)

(* one-time signatures of the key under an index, with the paths it needs  *)
Assembled ==
    {[idx  |-> idx, r |-> r, wots |-> wots,
      auth |-> [l \in Layers |-> AuthPath("key", l, TreeIdx(idx, l), LeafIdx(idx, l))]] :
        idx \in 0..IndexModulus-1, r \in [seed : {"key"}, idx : Indices],
        wots \in [Layers -> uses]}

OnlySignedAccepted == \A m \in Message, sig \in Assembled : AcceptedWasSigned(m, sig)

(* When the signature of the last index is out, the key material is gone   *)
(* from the bytes, the cache is dropped, and the index says exhausted.     *)
RetiredWhenLastSigned ==
    ret.status = "Ok" /\ ret.sig.idx = MaxIdx =>
        /\ sk.seed = "zero"
        /\ sk.idx > MaxIdx
        /\ cache = Cleared

(* A live key's index never goes back, and a signature is returned only    *)
(* for the index the key was at, which is behind it from then on.          *)
IndexAdvances ==
    [][ /\ sk'.seed = "key" => sk.idx <= sk'.idx
        /\ ret' # ret /\ ret'.status = "Ok" =>
              sk.idx = ret'.sig.idx /\ sk.idx < sk'.idx ]_vars

(* The call after the one that returned the last signature returns none    *)
(* (the comment on the branch that marks the key exhausted "for the next   *)
(* call").                                                                 *)
NoSignatureAfterLast ==
    [][ ret.status = "Ok" /\ ret.sig.idx = MaxIdx => ret'.status # "Ok" ]_vars

(* To its owner the key is a one-time signer: a slot for every index, each *)
(* handed out in order and lost if the call that took it fails.            *)
OTS == INSTANCE OneTimeSigner WITH
    Capacity <- MaxIdx + 1,
    next     <- IF sk.seed = "key" /\ sk.idx <= MaxIdx THEN sk.idx ELSE MaxIdx + 1,
    issued   <- {[slot |-> u.msg.idx, msg |-> u.msg.msg] :
                    u \in {v \in uses : v.key.layer = 0}}

Refines == OTS!Spec
==========================================================================
