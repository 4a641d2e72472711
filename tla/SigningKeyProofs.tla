------------------------- MODULE SigningKeyProofs -------------------------
(***************************************************************************)
(* Proofs about SigningKey, for every tree, every number of layers, every  *)
(* set of messages and every number of failed calls.                       *)
(***************************************************************************)
EXTENDS SigningKey, HypertreeTheorems

---------------------------------------------------------------------------
(* The state of one layer *)

LEMMA SiblingType == ASSUME NEW x \in Nat PROVE Sibling(x) \in Nat
  BY DEF Sibling

LEMMA NodeType ==
    ASSUME NEW seed \in {"key", "zero", "none"}, NEW l \in Nat, NEW t \in Nat,
           NEW h \in Nat, NEW i \in Nat
    PROVE  Node(seed, l, t, h, i) \in AnyNode
  BY DEF Node, AnyNode

LEMMA RootType ==
    ASSUME NEW seed \in Seeds, NEW l \in Nat, NEW t \in Nat
    PROVE  Root(seed, l, t) \in AnyNode
  BY NodeType, DimensionAssumption DEF Root, Seeds

LEMMA PathNodeType ==
    ASSUME NEW seed \in Seeds, NEW l \in Layers, NEW t \in Nat,
           NEW leaf \in Nat, NEW h \in Heights
    PROVE  Node(seed, l, t, h, Sibling(leaf \div Pow2[h])) \in AnyNode
  <1>1. h \in 0..FullHeight /\ h \in Nat /\ l \in Nat
    BY DimensionFacts, DimensionAssumption DEF Heights, Layers
  <1>2. leaf \div Pow2[h] \in Nat
    BY <1>1, PowerFacts, DivMod
  <1>3. Sibling(leaf \div Pow2[h]) \in Nat
    BY <1>2, SiblingType
  <1> QED BY <1>1, <1>3, NodeType DEF Seeds

LEMMA BuildType ==
    ASSUME NEW seed \in Seeds, NEW l \in Layers, NEW idx \in Nat
    PROVE  BuildLayerState(seed, l, idx) \in LayerState
  <1> DEFINE tree == TreeIdx(idx, l)
             leaf == LeafIdx(idx, l)
  <1>1. tree \in Nat /\ leaf \in Nat
    BY PositionType, PowerFacts
  <1>2. Root(seed, l, tree) \in AnyNode
    BY <1>1, RootType, DimensionAssumption DEF Layers
  <1> HIDE DEF tree, leaf
  <1>3. AuthPath(seed, l, tree, leaf) \in [Heights -> AnyNode]
    BY <1>1, PathNodeType DEF AuthPath
  <1>4. [tree |-> tree, leaf |-> leaf, root |-> Root(seed, l, tree),
         auth |-> AuthPath(seed, l, tree, leaf), wots |-> None] \in LayerState
    BY <1>1, <1>2, <1>3 DEF LayerState
  <1> QED BY <1>4 DEF BuildLayerState, tree, leaf

LEMMA UpperWotsType ==
    ASSUME NEW seed \in Seeds, NEW l \in Layers, l > 0, NEW idx \in Nat
    PROVE  WotsSign(seed, l, TreeIdx(idx, l), LeafIdx(idx, l),
                    Root(seed, l - 1, TreeIdx(idx, l - 1))) \in AnyWots
  <1>1. l - 1 \in Layers /\ l - 1 \in Nat
    BY DimensionAssumption DEF Layers
  <1>2. TreeIdx(idx, l) \in Nat /\ LeafIdx(idx, l) \in Nat /\ TreeIdx(idx, l - 1) \in Nat
    BY <1>1, PositionType, PowerFacts
  <1>3. Root(seed, l - 1, TreeIdx(idx, l - 1)) \in AnyNode
    BY <1>1, <1>2, RootType
  <1> QED BY <1>2, <1>3 DEF WotsSign, AnyWots, WotsKey, Seeds

(* What it is to be the right state for an index, field by field. *)
LEMMA StateForFields ==
    ASSUME NEW state, NEW l \in Layers, NEW seed, NEW idx,
           StateFor(state, l, seed, idx)
    PROVE  /\ state.tree = TreeIdx(idx, l)
           /\ state.leaf = LeafIdx(idx, l)
           /\ state.root = Root(seed, l, TreeIdx(idx, l))
           /\ state.auth = AuthPath(seed, l, TreeIdx(idx, l), LeafIdx(idx, l))
           /\ state.wots \in CachedWots(l, seed, idx)
           /\ state = [tree |-> state.tree, leaf |-> state.leaf,
                       root |-> state.root, auth |-> state.auth,
                       wots |-> state.wots]
           /\ AtPosition(state, l, idx)
  BY DEF StateFor, BuildLayerState, AtPosition

LEMMA StateForType ==
    ASSUME NEW state, NEW l \in Layers, NEW seed \in Seeds, NEW idx \in Nat,
           StateFor(state, l, seed, idx)
    PROVE  state \in LayerState
  <1>1. state.wots \in AnyWots \cup {NoNode, None}
    BY UpperWotsType, DimensionAssumption DEF StateFor, CachedWots, Layers
  <1>2. BuildLayerState(seed, l, idx) \in LayerState
    BY BuildType
  <1> QED BY <1>1, <1>2 DEF StateFor, LayerState

LEMMA BuildIsFor ==
    ASSUME NEW l \in Layers, NEW seed \in Seeds, NEW idx \in Nat
    PROVE  StateFor(BuildLayerState(seed, l, idx), l, seed, idx)
  <1>1. BuildLayerState(seed, l, idx) # None
    BY BuildType, NoneAssumption
  <1> QED BY <1>1 DEF StateFor, BuildLayerState, CachedWots

(* Two indices at one leaf of a layer are in one tree of the layer below,  *)
(* so what the layer has signed is still what it has to sign.              *)
LEMMA SamePosition ==
    ASSUME NEW state, NEW l \in Layers, NEW seed \in Seeds,
           NEW idx \in Nat, NEW next \in Nat,
           StateFor(state, l, seed, idx), AtPosition(state, l, next)
    PROVE  StateFor(state, l, seed, next)
  <1>1. TreeIdx(idx, l) = TreeIdx(next, l) /\ LeafIdx(idx, l) = LeafIdx(next, l)
    BY StateForFields DEF AtPosition
  <1>2. l > 0 => TreeIdx(idx, l - 1) = TreeIdx(next, l - 1)
    BY <1>1, UpperPosition
  <1>3. CachedWots(l, seed, idx) = CachedWots(l, seed, next)
    BY <1>1, <1>2, DimensionAssumption DEF CachedWots, Layers
  <1>4. BuildLayerState(seed, l, idx) = BuildLayerState(seed, l, next)
    BY <1>1 DEF BuildLayerState
  <1> QED BY <1>3, <1>4 DEF StateFor

(* advance_auth_path leaves exactly the path of the next leaf: the nodes   *)
(* it keeps are the ones the two leaves share.                             *)
LEMMA RecomputedPath ==
    ASSUME NEW state, NEW l \in Layers, NEW seed \in Seeds, NEW leaf \in 0..Leaves-1,
           state.leaf = leaf,
           state.auth = AuthPath(seed, l, state.tree, leaf)
    PROVE  Recomputed(ChangedLevels(leaf), state, l, seed)
              = AuthPath(seed, l, state.tree, leaf + 1)
  <1>1. ASSUME NEW h \in Heights, ~(h < ChangedLevels(leaf))
        PROVE  state.auth[h] = Node(seed, l, state.tree, h, Sibling((leaf + 1) \div Pow2[h]))
    <2>1. h > TrailingOnes(leaf)
      BY <1>1, TrailingOnesFacts, DimensionAssumption DEF ChangedLevels, Heights
    <2>2. (leaf + 1) \div Pow2[h] = leaf \div Pow2[h]
      BY <2>1, HigherBitsKept
    <2> QED BY <2>2 DEF AuthPath
  <1> QED BY <1>1 DEF Recomputed, AuthPath

(* What advance makes of the right state for an index is the right state   *)
(* for the next one.                                                       *)
LEMMA AdvanceLayerIsFor ==
    ASSUME NEW state, NEW l \in Layers, NEW seed \in Seeds, NEW idx \in Nat,
           StateFor(state, l, seed, idx)
    PROVE  StateFor(AdvanceLayer(state, l, idx + 1, seed), l, seed, idx + 1)
  <1>1. CASE AtPosition(state, l, idx + 1)
    BY <1>1, SamePosition DEF AdvanceLayer
  <1>2. CASE ~AtPosition(state, l, idx + 1) /\ ~Continues(state, l, idx + 1)
    <2>1. StateFor(BuildLayerState(seed, l, idx + 1), l, seed, idx + 1)
      BY BuildIsFor
    <2> QED BY <1>2, <2>1 DEF AdvanceLayer
  <1>3. CASE ~AtPosition(state, l, idx + 1) /\ Continues(state, l, idx + 1)
    <2> DEFINE tree == TreeIdx(idx + 1, l)
               leaf == LeafIdx(idx + 1, l)
               next == [state EXCEPT
                          !.auth = Recomputed(ChangedLevels(state.leaf), state, l, seed),
                          !.leaf = state.leaf + 1,
                          !.wots = None]
    <2>1. state.tree = tree /\ state.leaf + 1 = leaf
      BY <1>3 DEF Continues
    <2>2. TreeIdx(idx, l) = tree /\ state.leaf = LeafIdx(idx, l)
      BY <2>1, StateForFields
    <2>3. LeafIdx(idx, l) \in 0..Leaves-1
      BY PositionType
    <2> HIDE DEF tree, leaf
    <2>4. Recomputed(ChangedLevels(state.leaf), state, l, seed)
             = AuthPath(seed, l, state.tree, state.leaf + 1)
      <3>1. state.auth = AuthPath(seed, l, state.tree, state.leaf)
        BY StateForFields
      <3> QED BY <2>2, <2>3, <3>1, RecomputedPath
    <2>5. next = [tree |-> tree, leaf |-> leaf, root |-> Root(seed, l, tree),
                  auth |-> AuthPath(seed, l, tree, leaf), wots |-> None]
      <3>1. state \in LayerState /\ state.root = Root(seed, l, tree)
        BY <2>2, StateForFields, StateForType
      <3>2. next = [tree |-> state.tree, leaf |-> state.leaf + 1,
                    root |-> state.root,
                    auth |-> AuthPath(seed, l, state.tree, state.leaf + 1),
                    wots |-> None]
        <4> DEFINE auth == AuthPath(seed, l, state.tree, state.leaf + 1)
        <4>1. next = [state EXCEPT !.auth = auth, !.leaf = state.leaf + 1, !.wots = None]
          BY <2>4
        <4> HIDE DEF auth, next
        <4>2. next = [tree |-> state.tree, leaf |-> state.leaf + 1,
                      root |-> state.root, auth |-> auth, wots |-> None]
          BY <3>1, <4>1 DEF LayerState
        <4> QED BY <4>2 DEF auth
      <3> QED BY <2>1, <3>1, <3>2
    <2>6. next = BuildLayerState(seed, l, idx + 1)
      BY <2>5 DEF BuildLayerState, tree, leaf
    <2> HIDE DEF next
    <2>7. StateFor(next, l, seed, idx + 1)
      BY <2>6, BuildIsFor
    <2> QED BY <1>3, <2>7 DEF AdvanceLayer, next
  <1> QED BY <1>1, <1>2, <1>3

---------------------------------------------------------------------------
(* All layers *)

LayersFor(layers, seed, idx) ==
    /\ layers = [l \in Layers |-> layers[l]]
    /\ \A l \in Layers : StateFor(layers[l], l, seed, idx)

LEMMA BuiltLayersFor ==
    ASSUME NEW seed \in Seeds, NEW idx \in Nat
    PROVE  LayersFor([l \in Layers |-> BuildLayerState(seed, l, idx)], seed, idx)
  BY BuildIsFor DEF LayersFor

LEMMA LayersForType ==
    ASSUME NEW layers, NEW seed \in Seeds, NEW idx \in Nat, LayersFor(layers, seed, idx)
    PROVE  layers \in [Layers -> LayerState]
  BY StateForType DEF LayersFor

LEMMA AdvancedLayersFor ==
    ASSUME NEW layers, NEW seed \in Seeds, NEW idx \in Nat, LayersFor(layers, seed, idx)
    PROVE  LayersFor(AdvancedUpTo(D, layers, idx + 1, seed), seed, idx + 1)
  <1>1. AdvancedUpTo(D, layers, idx + 1, seed)
          = [l \in Layers |-> AdvanceLayer(layers[l], l, idx + 1, seed)]
    BY DimensionAssumption DEF AdvancedUpTo, Layers
  <1> QED BY <1>1, AdvanceLayerIsFor DEF LayersFor

(* ensure leaves every layer right for the index, whether it keeps the     *)
(* cache or not.                                                           *)
LEMMA EnsuredLayersFor ==
    ASSUME TypeOK, CacheCoherent, sk.idx <= MaxIdx
    PROVE  /\ LayersFor(Ensured(sk.idx), sk.seed, sk.idx)
           /\ IsFor(sk.idx) => \A l \in Layers : AtPosition(EnsureBase(sk.idx)[l], l, sk.idx)
  <1>1. sk.idx \in Nat /\ sk.seed \in Seeds
    BY IndexAssumption DEF TypeOK
  <1>2. Ensured(sk.idx) =
          [l \in Layers |->
             IF ~AtPosition(EnsureBase(sk.idx)[l], l, sk.idx)
             THEN BuildLayerState(sk.seed, l, sk.idx)
             ELSE EnsureBase(sk.idx)[l]]
    BY DimensionAssumption DEF Ensured, EnsuredUpTo, Layers
  <1>3. CASE IsFor(sk.idx)
    <2>1. EnsureBase(sk.idx) = cache.layers
      BY <1>3 DEF EnsureBase
    <2>2. \A l \in Layers : StateFor(cache.layers[l], l, sk.seed, sk.idx)
      BY <1>3 DEF CacheCoherent, IsFor
    <2>3. \A l \in Layers : AtPosition(cache.layers[l], l, sk.idx)
      BY <2>2, StateForFields
    <2> QED BY <1>2, <2>1, <2>2, <2>3 DEF LayersFor
  <1>4. CASE ~IsFor(sk.idx)
    <2>1. \A l \in Layers : ~AtPosition(EnsureBase(sk.idx)[l], l, sk.idx)
      BY <1>4 DEF EnsureBase, AtPosition
    <2>2. Ensured(sk.idx) = [l \in Layers |-> BuildLayerState(sk.seed, l, sk.idx)]
      BY <1>2, <2>1
    <2> QED BY <1>1, <1>4, <2>2, BuiltLayersFor
  <1> QED BY <1>3, <1>4

---------------------------------------------------------------------------
(* What a call to sign signs *)

(* The WOTS+ signature of a layer when nothing goes wrong with the cache. *)
MadeAt(l, m) ==
    WotsSign(sk.seed, l, TreeIdx(sk.idx, l), LeafIdx(sk.idx, l),
             IF l = 0 THEN DigestOf(m)
             ELSE Root(sk.seed, l - 1, TreeIdx(sk.idx, l - 1)))

LEMMA WotsExact ==
    ASSUME NEW layers, LayersFor(layers, sk.seed, sk.idx), NEW l \in Layers, NEW m
    PROVE  WotsAt(layers, l, m) = MadeAt(l, m)
  <1>1. CASE l = 0
    BY <1>1 DEF WotsAt, MadeAt
  <1>2. CASE l # 0
    <2>1. l > 0 /\ l - 1 \in Layers
      BY <1>2, DimensionAssumption DEF Layers
    <2>2. layers[l - 1].root = Root(sk.seed, l - 1, TreeIdx(sk.idx, l - 1))
      BY <2>1, StateForFields DEF LayersFor
    <2>3. layers[l].wots \in CachedWots(l, sk.seed, sk.idx)
      BY StateForFields DEF LayersFor
    <2> QED BY <1>2, <2>1, <2>2, <2>3 DEF WotsAt, MadeAt, CachedWots
  <1> QED BY <1>1, <1>2

LEMMA SignedLayersFor ==
    ASSUME NEW layers, LayersFor(layers, sk.seed, sk.idx), NEW n, NEW m,
           sk.seed \in Seeds, sk.idx \in Nat
    PROVE  LayersFor(SignedUpTo(n, layers, m), sk.seed, sk.idx)
  <1>1. SUFFICES ASSUME NEW l \in Layers
                 PROVE  StateFor(SignedUpTo(n, layers, m)[l], l, sk.seed, sk.idx)
    BY DEF LayersFor, SignedUpTo
  <1>2. StateFor(layers[l], l, sk.seed, sk.idx) /\ layers[l] \in LayerState
    BY StateForType DEF LayersFor
  <1>3. CASE ~(0 < l /\ l < n)
    BY <1>2, <1>3 DEF SignedUpTo
  <1>4. CASE 0 < l /\ l < n
    <2> DEFINE signed == [layers[l] EXCEPT !.wots = MadeAt(l, m)]
    <2>1. SignedUpTo(n, layers, m)[l] = signed
      BY <1>4, WotsExact DEF SignedUpTo
    <2>2. MadeAt(l, m) \in CachedWots(l, sk.seed, sk.idx) /\ MadeAt(l, m) \in AnyWots
      BY <1>4, UpperWotsType DEF MadeAt, CachedWots
    <2>3. signed \in LayerState /\ signed.wots = MadeAt(l, m)
      BY <1>2, <2>2 DEF LayerState
    <2>4. signed = [BuildLayerState(sk.seed, l, sk.idx) EXCEPT !.wots = signed.wots]
      <3>1. layers[l] = [BuildLayerState(sk.seed, l, sk.idx) EXCEPT !.wots = layers[l].wots]
        BY <1>2 DEF StateFor
      <3> HIDE DEF signed
      <3>2. BuildLayerState(sk.seed, l, sk.idx) \in LayerState
        BY BuildType
      <3> QED BY <1>2, <2>3, <3>1, <3>2 DEF LayerState, signed
    <2> HIDE DEF signed
    <2> QED BY <2>1, <2>2, <2>3, <2>4, NoneAssumption DEF StateFor
  <1> QED BY <1>3, <1>4

LEMMA DigestType ==
    ASSUME TypeOK, sk.idx <= MaxIdx, NEW m \in Message
    PROVE  DigestOf(m) \in AnyDigest /\ DigestOf(m).idx = sk.idx
  <1>1. sk.idx \in Indices /\ sk.seed \in Seeds
    BY IndexAssumption, PowerFacts DEF TypeOK, Indices
  <1>2. PubRoot(sk.seed) \in AnyNode
    <2>1. Root("key", D - 1, 0) \in AnyNode
      BY RootType, DimensionAssumption DEF Seeds
    <2>2. NoNode \in AnyNode
      BY NodeType DEF NoNode
    <2> QED BY <2>1, <2>2 DEF PubRoot
  <1> QED BY <1>1, <1>2 DEF DigestOf, Digest, Randomizer, AnyDigest

LEMMA MadeAtType ==
    ASSUME TypeOK, sk.idx <= MaxIdx, NEW m \in Message, NEW l \in Layers
    PROVE  MadeAt(l, m) \in AnyWots
  <1>1. sk.idx \in Nat /\ sk.seed \in Seeds
    BY IndexAssumption DEF TypeOK
  <1>2. CASE l = 0
    <2>1. TreeIdx(sk.idx, l) \in Nat /\ LeafIdx(sk.idx, l) \in Nat
      BY <1>1, PositionType, PowerFacts
    <2> QED BY <1>1, <1>2, <2>1, DigestType DEF MadeAt, WotsSign, AnyWots, WotsKey, Seeds
  <1>3. CASE l # 0
    <2>1. l > 0
      BY <1>3, DimensionAssumption DEF Layers
    <2> QED BY <1>1, <1>3, <2>1, UpperWotsType DEF MadeAt
  <1> QED BY <1>2, <1>3

(* What a call computes from the live seed, in order, keeps every use in   *)
(* order, provided the index leaves the one signed for.                    *)
LEMMA UsesStayInOrder ==
    ASSUME TypeOK, UsesInOrder, sk.idx <= MaxIdx, NEW m \in Message, NEW n,
           NEW layers, LayersFor(layers, sk.seed, sk.idx),
           uses' = uses \cup LiveUses(n, layers, m),
           sk'.idx \in Nat, sk'.idx > sk.idx,
           sk'.seed = "key" => sk.seed = "key"
    PROVE  uses' \subseteq AnyWots /\ UsesInOrder'
  <1> DEFINE new == {u \in {MadeAt(l, m) : l \in {l \in Layers : l < n}} : sk.seed = "key"}
  <1>1. LiveUses(n, layers, m) = new
    BY WotsExact DEF LiveUses
  <1>2. sk.idx \in Nat /\ sk.seed \in Seeds
    BY IndexAssumption DEF TypeOK
  <1>3. ASSUME NEW u \in new
        PROVE  /\ u \in AnyWots
               /\ u.key.seed = "key" /\ sk.seed = "key"
               /\ u.key.layer = 0 =>
                    /\ u.msg = DigestOf(m)
                    /\ u.key.tree = TreeIdx(sk.idx, 0)
                    /\ u.key.leaf = LeafIdx(sk.idx, 0)
               /\ u.key.layer > 0 =>
                    u.msg = Root("key", u.key.layer - 1, Leaves * u.key.tree + u.key.leaf)
    <2>1. PICK l \in Layers : u = MadeAt(l, m)
      OBVIOUS
    <2>2. sk.seed = "key"
      OBVIOUS
    <2>3. l > 0 => TreeIdx(sk.idx, l - 1) = Leaves * TreeIdx(sk.idx, l) + LeafIdx(sk.idx, l)
      BY <1>2, UpperPosition
    <2> QED BY <2>1, <2>2, <2>3, MadeAtType DEF MadeAt, WotsSign
  <1>4. DigestOf(m) \in AnyDigest /\ DigestOf(m).idx = sk.idx
    BY DigestType
  <1>5. uses' = uses \cup new
    BY <1>1
  <1> HIDE DEF new
  <1>6. uses' \subseteq AnyWots
    BY <1>3, <1>5 DEF TypeOK
  <1>7. \A u \in uses' : u.key.seed = "key"
    BY <1>3, <1>5 DEF UsesInOrder
  <1>8. ASSUME NEW u \in uses', u.key.layer = 0
        PROVE  /\ u.msg \in AnyDigest
               /\ u.key.tree = TreeIdx(u.msg.idx, 0)
               /\ u.key.leaf = LeafIdx(u.msg.idx, 0)
               /\ sk'.seed = "key" => u.msg.idx < sk'.idx
    <2>1. CASE u \in uses
      <3>1. /\ u.msg \in AnyDigest
            /\ u.key.tree = TreeIdx(u.msg.idx, 0)
            /\ u.key.leaf = LeafIdx(u.msg.idx, 0)
            /\ sk.seed = "key" => u.msg.idx < sk.idx
        BY <1>8, <2>1 DEF UsesInOrder
      <3>2. u.msg.idx \in Nat
        BY <3>1, PowerFacts DEF AnyDigest, Indices
      <3> QED BY <1>2, <3>1, <3>2
    <2>2. CASE u \in new
      BY <1>2, <1>3, <1>4, <1>8, <2>2
    <2> QED BY <1>5, <2>1, <2>2
  <1>9. \A u \in uses' : u.key.layer > 0 =>
           u.msg = Root("key", u.key.layer - 1, Leaves * u.key.tree + u.key.leaf)
    BY <1>3, <1>5 DEF UsesInOrder
  <1>10. ASSUME NEW u \in uses', NEW v \in uses',
                u.key.layer = 0, v.key.layer = 0, u.msg.idx = v.msg.idx
         PROVE  u.msg = v.msg
    <2>1. ASSUME NEW w \in uses, w.key.layer = 0, sk.seed = "key"
          PROVE  w.msg.idx < sk.idx /\ w.msg.idx \in Nat
      <3>1. w.msg \in AnyDigest /\ w.msg.idx < sk.idx
        BY <2>1 DEF UsesInOrder
      <3> QED BY <3>1, PowerFacts DEF AnyDigest, Indices
    <2>2. CASE u \in uses /\ v \in uses
      BY <1>10, <2>2 DEF UsesInOrder
    <2>3. CASE u \in new /\ v \in new
      BY <1>3, <1>10, <2>3
    <2>4. CASE u \in uses /\ v \in new
      BY <1>2, <1>3, <1>4, <1>10, <2>1, <2>4
    <2>5. CASE u \in new /\ v \in uses
      BY <1>2, <1>3, <1>4, <1>10, <2>1, <2>5
    <2> QED BY <1>5, <2>2, <2>3, <2>4, <2>5
  <1> QED BY <1>6, <1>7, <1>8, <1>9, <1>10 DEF UsesInOrder

---------------------------------------------------------------------------
(* The inductive invariant *)

Core == TypeOK /\ CacheCoherent

Inv == TypeOK /\ CacheCoherent /\ UsesInOrder

SkType    == sk \in [oid : BOOLEAN, idx : 0..IndexModulus-1, seed : Seeds]
CacheType == cache \in [next   : Indices \cup {None},
                        layers : {<<>>} \cup [Layers -> LayerState \cup {None}]]
RetType   == ret \in {Refusal(e) : e \in Errors}
                      \cup [status : {"Ok"}, msg : Message, sig : AnySignature]

LEMMA IndexFacts ==
    ASSUME TypeOK, sk.idx <= MaxIdx
    PROVE  /\ sk.idx \in Indices
           /\ sk.idx \in Nat
           /\ sk.seed \in Seeds
           /\ NextIdx(sk.idx) \in 0..IndexModulus-1
           /\ DistinctSentinel => NextIdx(sk.idx) > sk.idx
           /\ sk.idx < MaxIdx =>
                /\ sk.idx + 1 \in Indices
                /\ sk.idx + 1 \in 0..IndexModulus-1
                /\ NextIdx(sk.idx) = sk.idx + 1
  <1>1. IndexModulus \in Nat /\ MaxIdx \in Nat /\ IndexModulus >= MaxIdx + 1
    <2>1. Pow2[FullHeight] \in Nat \ {0}
      BY DimensionFacts, PowerFacts
    <2> QED BY <2>1, IndexAssumption, PowerFacts DEF MaxIdx
  <1> QED BY <1>1 DEF TypeOK, Indices, NextIdx, Sentinel, DistinctSentinel

LEMMA SignatureType ==
    ASSUME TypeOK, sk.idx <= MaxIdx, NEW m \in Message,
           NEW layers, LayersFor(layers, sk.seed, sk.idx)
    PROVE  Signature(layers, m) \in [status : {"Ok"}, msg : Message, sig : AnySignature]
  <1>1. sk.idx \in Indices /\ sk.idx \in Nat /\ sk.seed \in Seeds
    BY IndexFacts
  <1>2. [l \in Layers |-> WotsAt(layers, l, m)] \in [Layers -> AnyWots \cup {NoNode}]
    BY WotsExact, MadeAtType
  <1>3. layers \in [Layers -> LayerState]
    BY <1>1, LayersForType
  <1>4. [l \in Layers |-> layers[l].auth] \in [Layers -> [Heights -> AnyNode]]
    BY <1>3 DEF LayerState
  <1>5. Randomizer(sk.seed, sk.idx) \in [seed : Seeds, idx : Indices]
    BY <1>1 DEF Randomizer
  <1> QED BY <1>1, <1>2, <1>4, <1>5 DEF Signature, AnySignature

(* The layer left by hashing the topmost tree is the one ensure builds.    *)
LEMMA GeneratedLayers ==
    GeneratedCache = [next   |-> 0,
                      layers |-> [l \in Layers |-> BuildLayerState("key", l, 0)]]
  <1>1. ASSUME NEW l \in Layers
        PROVE  TreeIdx(0, l) = 0 /\ LeafIdx(0, l) = 0
    <2> DEFINE a == Pow2[TreeHeight * (l + 1)]
               b == Pow2[TreeHeight * l]
    <2>1. a \in Nat \ {0} /\ b \in Nat \ {0} /\ Leaves \in Nat \ {0}
      BY DimensionFacts, PowerFacts
    <2> HIDE DEF a, b
    <2>2. \A p \in Nat \ {0} : 0 \div p = 0 /\ 0 % p = 0
      <3> SUFFICES ASSUME NEW p \in Nat \ {0} PROVE 0 \div p = 0 /\ 0 % p = 0
        OBVIOUS
      <3>1. p * 0 + 0 = 0 /\ 0 \in 0..p-1
        OBVIOUS
      <3> QED BY <3>1, DivUnique
    <2>3. 0 \div a = 0 /\ 0 \div b = 0 /\ 0 % Leaves = 0
      BY <2>1, <2>2
    <2> QED BY <2>3 DEF TreeIdx, LeafIdx, a, b
  <1>2. ASSUME NEW l \in Layers, l = D - 1
        PROVE  FromTopTree[l] = BuildLayerState("key", l, 0)
    BY <1>1, <1>2 DEF FromTopTree, BuildLayerState
  <1>3. ASSUME NEW l \in Layers, l # D - 1
        PROVE  ~AtPosition(FromTopTree[l], l, 0)
    BY <1>3 DEF FromTopTree, AtPosition
  <1> QED BY <1>2, <1>3 DEF GeneratedCache

LEMMA InitInv == Init => Inv
  <1> SUFFICES ASSUME Init PROVE Inv
    OBVIOUS
  <1> DEFINE built == [l \in Layers |-> BuildLayerState("key", l, 0)]
  <1>1. "key" \in Seeds /\ 0 \in Nat
    BY DEF Seeds
  <1>2. LayersFor(built, "key", 0)
    BY <1>1, BuiltLayersFor
  <1>3. built \in [Layers -> LayerState]
    BY <1>1, BuildType
  <1>4. 0 \in Indices /\ 0 \in 0..IndexModulus-1
    <2>1. Pow2[FullHeight] \in Nat \ {0}
      BY DimensionFacts, PowerFacts
    <2> QED BY <2>1, IndexAssumption, PowerFacts DEF Indices
  <1> HIDE DEF built
  <1>5. sk = [oid |-> TRUE, idx |-> 0, seed |-> "key"] /\ cache = [next |-> 0, layers |-> built]
    BY GeneratedLayers DEF Init, built
  <1>6. SkType /\ CacheType
    BY <1>1, <1>3, <1>4, <1>5 DEF SkType, CacheType
  <1>7. RetType /\ uses \subseteq AnyWots /\ faults \in 0..MaxFaults
    BY FaultAssumption DEF Init, RetType, Errors
  <1>8. CacheCoherent
    BY <1>2, <1>3, <1>5 DEF CacheCoherent, LayersFor
  <1>9. UsesInOrder
    BY DEF Init, UsesInOrder
  <1> QED BY <1>6, <1>7, <1>8, <1>9 DEF Inv, TypeOK, SkType, CacheType, RetType

(* What a call computes is made of the key's own positions and digests.    *)
LEMMA UsesType ==
    ASSUME TypeOK, sk.idx <= MaxIdx, NEW m \in Message, NEW n,
           NEW layers, LayersFor(layers, sk.seed, sk.idx),
           uses' = uses \cup LiveUses(n, layers, m)
    PROVE  uses' \subseteq AnyWots
  <1>1. LiveUses(n, layers, m) \subseteq {MadeAt(l, m) : l \in Layers}
    BY WotsExact DEF LiveUses
  <1>2. LiveUses(n, layers, m) \subseteq AnyWots
    BY <1>1, MadeAtType
  <1> QED BY <1>2 DEF TypeOK

(* The layers a call signs with are those of its index, before and after   *)
(* some have signed.                                                       *)
LEMMA SigningFacts ==
    ASSUME Core, sk.idx <= MaxIdx, NEW m \in Message, NEW n
    PROVE  /\ LayersFor(Ensured(sk.idx), sk.seed, sk.idx)
           /\ LayersFor(SignedUpTo(n, Ensured(sk.idx), m), sk.seed, sk.idx)
           /\ SignedUpTo(n, Ensured(sk.idx), m) \in [Layers -> LayerState]
  <1>1. LayersFor(Ensured(sk.idx), sk.seed, sk.idx)
    BY EnsuredLayersFor DEF Core
  <1>2. sk.idx \in Nat /\ sk.seed \in Seeds
    BY IndexFacts DEF Core
  <1>3. LayersFor(SignedUpTo(n, Ensured(sk.idx), m), sk.seed, sk.idx)
    BY <1>1, <1>2, SignedLayersFor
  <1> QED BY <1>1, <1>2, <1>3, LayersForType

LEMMA SignLayerFailsCore ==
    ASSUME Core, NEW m \in Message, NEW n \in Layers, SignLayerFails(m, n)
    PROVE  Core'
  <1> DEFINE layers == SignedUpTo(n, Ensured(sk.idx), m)
  <1>1. sk.idx <= MaxIdx /\ TypeOK
    BY DEF SignLayerFails, Core
  <1>2. /\ LayersFor(Ensured(sk.idx), sk.seed, sk.idx)
        /\ LayersFor(layers, sk.seed, sk.idx)
        /\ layers \in [Layers -> LayerState]
    BY <1>1, SigningFacts
  <1> HIDE DEF layers
  <1>3. /\ sk' = [sk EXCEPT !.idx = NextIdx(sk.idx)]
        /\ cache' = [next |-> sk.idx, layers |-> layers]
        /\ uses' = uses \cup LiveUses(n, Ensured(sk.idx), m)
        /\ ret' = Refusal("Hash") /\ faults < MaxFaults /\ faults' = faults + 1
    BY DEF SignLayerFails, HashFails, layers
  <1>4. SkType' /\ sk'.idx = NextIdx(sk.idx) /\ sk'.seed = sk.seed
    BY <1>1, <1>3, IndexFacts DEF SkType, TypeOK
  <1>5. CacheType'
    BY <1>1, <1>2, <1>3, IndexFacts DEF CacheType
  <1>6. RetType' /\ faults' \in 0..MaxFaults
    BY <1>1, <1>3, FaultAssumption DEF RetType, Errors, TypeOK
  <1>7. CacheCoherent'
    <2>1. CASE sk'.idx = sk.idx
      BY <1>2, <1>3, <1>4, <2>1 DEF CacheCoherent, LayersFor
    <2>2. CASE sk'.idx # sk.idx
      BY <1>3, <2>2 DEF CacheCoherent
    <2> QED BY <2>1, <2>2
  <1>8. uses' \subseteq AnyWots
    BY <1>1, <1>2, <1>3, UsesType
  <1> QED BY <1>4, <1>5, <1>6, <1>7, <1>8 DEF Core, TypeOK, SkType, CacheType, RetType

LEMMA AdvanceFailsCore ==
    ASSUME Core, NEW m \in Message, NEW layer \in Layers, NEW n \in Heights,
           AdvanceFails(m, layer, n)
    PROVE  Core'
  <1> DEFINE layers   == SignedUpTo(D, Ensured(sk.idx), m)
             state    == layers[layer]
             advanced == AdvancedUpTo(layer, layers, sk.idx + 1, sk.seed)
             left     == [advanced EXCEPT ![layer].auth = Recomputed(n, state, layer, sk.seed)]
  <1>1. sk.idx < MaxIdx /\ sk.idx <= MaxIdx /\ TypeOK
    <2>1. sk.idx < MaxIdx /\ TypeOK
      BY DEF AdvanceFails, Core
    <2> QED BY <2>1, IndexAssumption, PowerFacts DEF TypeOK
  <1>2. /\ LayersFor(Ensured(sk.idx), sk.seed, sk.idx)
        /\ LayersFor(layers, sk.seed, sk.idx)
        /\ layers \in [Layers -> LayerState]
    BY <1>1, SigningFacts
  <1>3. /\ sk.idx \in Indices /\ sk.idx \in Nat /\ sk.seed \in Seeds
        /\ sk.idx + 1 \in 0..IndexModulus-1
    BY <1>1, IndexFacts
  <1>4. left \in [Layers -> LayerState]
    <2>1. LayersFor(AdvancedUpTo(D, layers, sk.idx + 1, sk.seed), sk.seed, sk.idx + 1)
      BY <1>2, <1>3, AdvancedLayersFor
    <2>2. AdvancedUpTo(D, layers, sk.idx + 1, sk.seed) \in [Layers -> LayerState]
      BY <1>3, <2>1, LayersForType
    <2>3. \A l \in Layers : AdvanceLayer(layers[l], l, sk.idx + 1, sk.seed) \in LayerState
      BY <2>2, DimensionAssumption DEF AdvancedUpTo, Layers
    <2>4. advanced \in [Layers -> LayerState]
      BY <1>2, <2>3 DEF AdvancedUpTo
    <2>5. Recomputed(n, state, layer, sk.seed) \in [Heights -> AnyNode]
      <3>1. state.tree \in Nat /\ state.leaf + 1 \in Nat /\ state.auth \in [Heights -> AnyNode]
        BY <1>2 DEF LayerState
      <3> HIDE DEF state
      <3> QED BY <1>3, <3>1, PathNodeType DEF Recomputed
    <2> HIDE DEF advanced, state
    <2>6. [advanced[layer] EXCEPT !.auth = Recomputed(n, state, layer, sk.seed)] \in LayerState
      BY <2>4, <2>5 DEF LayerState
    <2> QED BY <2>4, <2>6
  <1>5. /\ sk' = [sk EXCEPT !.idx = sk.idx + 1]
        /\ cache' = [next |-> sk.idx, layers |-> left]
        /\ uses' = uses \cup LiveUses(D, Ensured(sk.idx), m)
        /\ ret' = Refusal("Hash") /\ faults < MaxFaults /\ faults' = faults + 1
    BY DEF AdvanceFails, HashFails
  <1> HIDE DEF left, layers, state, advanced
  <1>6. SkType' /\ sk'.idx = sk.idx + 1 /\ sk'.seed = sk.seed
    BY <1>1, <1>3, <1>5 DEF SkType, TypeOK
  <1>7. CacheType'
    BY <1>3, <1>4, <1>5 DEF CacheType
  <1>8. RetType' /\ faults' \in 0..MaxFaults
    BY <1>1, <1>5, FaultAssumption DEF RetType, Errors, TypeOK
  <1>9. CacheCoherent'
    BY <1>3, <1>5, <1>6 DEF CacheCoherent
  <1>10. uses' \subseteq AnyWots
    BY <1>1, <1>2, <1>5, UsesType
  <1> QED BY <1>6, <1>7, <1>8, <1>9, <1>10 DEF Core, TypeOK, SkType, CacheType, RetType

LEMMA SignNotLastCore ==
    ASSUME Core, NEW m \in Message, SignNotLast(m)
    PROVE  Core'
  <1> DEFINE layers   == SignedUpTo(D, Ensured(sk.idx), m)
             advanced == AdvancedUpTo(D, layers, sk.idx + 1, sk.seed)
  <1>1. sk.idx < MaxIdx /\ sk.idx <= MaxIdx /\ TypeOK
    <2>1. sk.idx < MaxIdx /\ TypeOK
      BY DEF SignNotLast, Core
    <2> QED BY <2>1, IndexAssumption, PowerFacts DEF TypeOK
  <1>2. /\ LayersFor(Ensured(sk.idx), sk.seed, sk.idx)
        /\ LayersFor(layers, sk.seed, sk.idx)
    BY <1>1, SigningFacts
  <1>3. /\ sk.idx \in Nat /\ sk.seed \in Seeds
        /\ sk.idx + 1 \in Indices
        /\ sk.idx + 1 \in 0..IndexModulus-1
        /\ NextIdx(sk.idx) = sk.idx + 1
    BY <1>1, IndexFacts
  <1>4. LayersFor(advanced, sk.seed, sk.idx + 1) /\ advanced \in [Layers -> LayerState]
    <2>1. LayersFor(advanced, sk.seed, sk.idx + 1)
      BY <1>2, <1>3, AdvancedLayersFor
    <2> HIDE DEF advanced
    <2> QED BY <1>3, <2>1, LayersForType
  <1>5. /\ sk' = [sk EXCEPT !.idx = sk.idx + 1]
        /\ cache' = [next |-> sk.idx + 1, layers |-> advanced]
        /\ uses' = uses \cup LiveUses(D, Ensured(sk.idx), m)
        /\ ret' = Signature(Ensured(sk.idx), m) /\ faults' = faults
    BY <1>3 DEF SignNotLast
  <1> HIDE DEF layers, advanced
  <1>6. SkType' /\ sk'.idx = sk.idx + 1 /\ sk'.seed = sk.seed
    BY <1>1, <1>3, <1>5 DEF SkType, TypeOK
  <1>7. CacheType'
    BY <1>3, <1>4, <1>5 DEF CacheType
  <1>8. RetType' /\ faults' \in 0..MaxFaults
    BY <1>1, <1>2, <1>5, SignatureType DEF RetType, TypeOK
  <1>9. CacheCoherent'
    BY <1>4, <1>5, <1>6 DEF CacheCoherent, LayersFor
  <1>10. uses' \subseteq AnyWots
    BY <1>1, <1>2, <1>5, UsesType
  <1> QED BY <1>6, <1>7, <1>8, <1>9, <1>10 DEF Core, TypeOK, SkType, CacheType, RetType

LEMMA SignLastCore ==
    ASSUME Core, NEW m \in Message, SignLast(m)
    PROVE  Core'
  <1>1. sk.idx <= MaxIdx /\ TypeOK
    BY PowerFacts DEF SignLast, Core
  <1>2. LayersFor(Ensured(sk.idx), sk.seed, sk.idx)
    BY <1>1, SigningFacts
  <1>3. /\ sk' = [sk EXCEPT !.idx = NextIdx(sk.idx), !.seed = "zero"]
        /\ cache' = [next |-> None, layers |-> <<>>]
        /\ uses' = uses \cup LiveUses(D, Ensured(sk.idx), m)
        /\ ret' = Signature(Ensured(sk.idx), m) /\ faults' = faults
    BY DEF SignLast, Cleared
  <1>4. SkType' /\ sk'.idx = NextIdx(sk.idx) /\ sk'.seed = "zero"
    BY <1>1, <1>3, IndexFacts DEF SkType, TypeOK, Seeds
  <1>5. CacheType'
    BY <1>3 DEF CacheType
  <1>6. RetType' /\ faults' \in 0..MaxFaults
    BY <1>1, <1>2, <1>3, SignatureType DEF RetType, TypeOK
  <1>7. CacheCoherent'
    <2>1. sk'.idx \in Nat
      BY <1>1, <1>4, IndexFacts, IndexAssumption
    <2> QED BY <1>3, <2>1, NoneAssumption DEF CacheCoherent
  <1>8. uses' \subseteq AnyWots
    BY <1>1, <1>2, <1>3, UsesType
  <1> QED BY <1>4, <1>5, <1>6, <1>7, <1>8 DEF Core, TypeOK, SkType, CacheType, RetType

LEMMA SignExhaustedCore == ASSUME Core, SignExhausted PROVE Core'
  <1>1. /\ sk' = sk /\ uses' = uses /\ faults' = faults
        /\ cache' = [next |-> None, layers |-> <<>>]
        /\ ret' = Refusal("KeyExhausted")
    BY DEF SignExhausted, Cleared
  <1>2. TypeOK'
    BY <1>1 DEF Core, TypeOK, Errors
  <1>3. CacheCoherent'
    <2>1. sk'.idx \in Nat
      BY <1>1, IndexAssumption DEF Core, TypeOK
    <2> QED BY <1>1, <2>1, NoneAssumption DEF CacheCoherent
  <1> QED BY <1>2, <1>3 DEF Core

LEMMA EnsureFailsCore == ASSUME Core, NEW layer \in Layers, EnsureFails(layer) PROVE Core'
  <1>1. sk.idx <= MaxIdx /\ TypeOK /\ CacheCoherent
    BY DEF EnsureFails, Core
  <1>2. sk.idx \in Nat /\ sk.seed \in Seeds
    BY <1>1, IndexFacts
  <1>3. ~IsFor(sk.idx)
    BY <1>1, EnsuredLayersFor DEF EnsureFails
  <1>4. /\ sk' = sk /\ uses' = uses
        /\ cache' = [next |-> None, layers |-> EnsuredUpTo(layer, sk.idx)]
        /\ ret' = Refusal("Hash") /\ faults < MaxFaults /\ faults' = faults + 1
    BY <1>3 DEF EnsureFails, HashFails
  <1>5. EnsuredUpTo(layer, sk.idx) \in [Layers -> LayerState \cup {None}]
    BY <1>2, <1>3, BuildType DEF EnsuredUpTo, EnsureBase
  <1>6. TypeOK'
    BY <1>1, <1>4, <1>5, FaultAssumption DEF TypeOK, Errors
  <1>7. CacheCoherent'
    BY <1>2, <1>4, NoneAssumption DEF CacheCoherent
  <1> QED BY <1>6, <1>7 DEF Core

(* A decoded cache is right for the index in the bytes it is decoded from. *)
LEMMA DecodedFacts ==
    ASSUME NEW bytes \in [oid : BOOLEAN, idx : 0..IndexModulus-1, seed : Seeds]
    PROVE  /\ DecodedCache(bytes) \in
                  [next   : Indices \cup {None},
                   layers : {<<>>} \cup [Layers -> LayerState \cup {None}]]
           /\ DecodedCache(bytes).next = bytes.idx =>
                /\ DOMAIN DecodedCache(bytes).layers = Layers
                /\ \A l \in Layers :
                      StateFor(DecodedCache(bytes).layers[l], l, bytes.seed, bytes.idx)
  <1>1. bytes.idx \in Nat /\ bytes.seed \in Seeds
    BY IndexAssumption
  <1>2. CASE bytes.idx > MaxIdx
    <2>1. DecodedCache(bytes) = [next |-> None, layers |-> <<>>]
      BY <1>2 DEF DecodedCache, Cleared
    <2> QED BY <1>1, <2>1, NoneAssumption
  <1>3. CASE ~(bytes.idx > MaxIdx)
    <2> DEFINE built == [l \in Layers |-> BuildLayerState(bytes.seed, l, bytes.idx)]
    <2>1. DecodedCache(bytes) = [next |-> bytes.idx, layers |-> built]
      BY <1>3 DEF DecodedCache
    <2>2. LayersFor(built, bytes.seed, bytes.idx) /\ built \in [Layers -> LayerState]
      BY <1>1, BuiltLayersFor, BuildType
    <2>3. bytes.idx \in Indices
      BY <1>1, <1>3, PowerFacts DEF Indices
    <2> HIDE DEF built
    <2> QED BY <2>1, <2>2, <2>3 DEF LayersFor
  <1> QED BY <1>2, <1>3

LEMMA ReloadCore == ASSUME Core, Reload PROVE Core'
  <1>1. /\ sk' = sk /\ uses' = uses /\ faults' = faults /\ ret' = Refusal("Decoded")
        /\ cache' = DecodedCache(sk) /\ TypeOK
    BY DEF Reload, Core
  <1>2. TypeOK'
    BY <1>1, DecodedFacts DEF TypeOK, Errors
  <1>3. CacheCoherent'
    BY <1>1, DecodedFacts DEF CacheCoherent, TypeOK
  <1> QED BY <1>2, <1>3 DEF Core

LEMMA ZeroizeCore == ASSUME Core, Zeroize PROVE Core'
  <1> DEFINE zeroed == [l \in DOMAIN cache.layers |->
                          IF cache.layers[l] = None THEN None ELSE Zeroed(cache.layers[l])]
  <1>1. /\ sk' = [oid |-> FALSE, idx |-> 0, seed |-> "zero"]
        /\ cache' = [next |-> None, layers |-> zeroed]
        /\ uses' = uses /\ faults' = faults /\ ret' = Refusal("Zeroized")
        /\ TypeOK
    BY DEF Zeroize, Core
  <1>2. zeroed \in {<<>>} \cup [Layers -> LayerState \cup {None}]
    <2>1. CASE cache.layers = <<>>
      BY <2>1
    <2>2. CASE cache.layers \in [Layers -> LayerState \cup {None}]
      <3>1. NoNode \in AnyNode
        BY NodeType DEF NoNode
      <3>2. \A s \in LayerState : Zeroed(s) \in LayerState
        BY <3>1 DEF Zeroed, LayerState
      <3> QED BY <2>2, <3>2
    <2> QED BY <1>1, <2>1, <2>2 DEF TypeOK
  <1> HIDE DEF zeroed
  <1>3. 0 \in 0..IndexModulus-1
    <2>1. Pow2[FullHeight] \in Nat \ {0}
      BY DimensionFacts, PowerFacts
    <2> QED BY <2>1, IndexAssumption
  <1>4. TypeOK'
    BY <1>1, <1>2, <1>3 DEF TypeOK, Errors, Seeds
  <1>5. CacheCoherent'
    BY <1>1, NoneAssumption DEF CacheCoherent
  <1> QED BY <1>4, <1>5 DEF Core

LEMMA NextCore == ASSUME Core, [Next]_vars PROVE Core'
  <1>1. CASE UNCHANGED vars
    BY <1>1 DEF vars, Core, TypeOK, CacheCoherent
  <1>2. ASSUME NEW m \in Message, Sign(m) PROVE Core'
    BY <1>2, SignNotLastCore, SignLastCore, SignLayerFailsCore, AdvanceFailsCore DEF Sign
  <1> QED BY <1>1, <1>2, SignExhaustedCore, EnsureFailsCore, ReloadCore, ZeroizeCore DEF Next

(* The calls that sign nothing leave the uses as they are and the index no *)
(* lower, unless the live seed is gone.                                    *)
LEMMA UsesUnchanged ==
    ASSUME Inv, uses' = uses, sk'.seed = "key" => sk.seed = "key" /\ sk'.idx = sk.idx
    PROVE  UsesInOrder'
  BY DEF Inv, UsesInOrder

(* A call that signs anything leaves the index behind.                     *)
LEMMA SignUses ==
    ASSUME DistinctSentinel, Inv, NEW m \in Message, Sign(m) PROVE UsesInOrder'
  <1>1. Core /\ TypeOK /\ UsesInOrder /\ sk.idx \in Nat /\ MaxIdx \in Nat
    BY IndexAssumption, PowerFacts DEF Inv, Core, TypeOK
  <1>2. ASSUME NEW n, sk.idx <= MaxIdx,
               uses' = uses \cup LiveUses(n, Ensured(sk.idx), m),
               sk'.idx = NextIdx(sk.idx), sk'.seed = "key" => sk.seed = "key"
        PROVE  UsesInOrder'
    <2>1. LayersFor(Ensured(sk.idx), sk.seed, sk.idx)
      BY <1>1, <1>2, SigningFacts
    <2>2. sk'.idx \in Nat /\ sk'.idx > sk.idx
      BY <1>1, <1>2, IndexFacts, IndexAssumption
    <2> QED BY <1>1, <1>2, <2>1, <2>2, UsesStayInOrder
  <1>3. CASE SignNotLast(m) \/ SignLast(m)
    <2>1. /\ sk.idx <= MaxIdx
          /\ uses' = uses \cup LiveUses(D, Ensured(sk.idx), m)
          /\ sk' \in {[sk EXCEPT !.idx = NextIdx(sk.idx)],
                     [sk EXCEPT !.idx = NextIdx(sk.idx), !.seed = "zero"]}
      BY <1>1, <1>3 DEF SignNotLast, SignLast
    <2>2. sk'.idx = NextIdx(sk.idx) /\ (sk'.seed = "key" => sk.seed = "key")
      BY <1>1, <2>1 DEF TypeOK
    <2> QED BY <1>2, <2>1, <2>2
  <1>4. ASSUME NEW n \in Layers, SignLayerFails(m, n) PROVE UsesInOrder'
    <2>1. /\ sk.idx <= MaxIdx
          /\ uses' = uses \cup LiveUses(n, Ensured(sk.idx), m)
          /\ sk'.idx = NextIdx(sk.idx)
          /\ sk'.seed = "key" => sk.seed = "key"
      BY <1>1, <1>4 DEF SignLayerFails, TypeOK
    <2> QED BY <1>2, <2>1
  <1>5. ASSUME NEW l \in Layers, NEW n \in Heights, AdvanceFails(m, l, n) PROVE UsesInOrder'
    <2>1. /\ sk.idx < MaxIdx
          /\ uses' = uses \cup LiveUses(D, Ensured(sk.idx), m)
          /\ sk'.idx = sk.idx + 1
          /\ sk'.seed = "key" => sk.seed = "key"
      BY <1>1, <1>5 DEF AdvanceFails, TypeOK
    <2> QED BY <1>1, <1>2, <2>1, IndexFacts
  <1> QED BY <1>3, <1>4, <1>5 DEF Sign

LEMMA NextInv == ASSUME DistinctSentinel, Inv, [Next]_vars PROVE Inv'
  <1>1. Core'
    BY NextCore DEF Inv, Core
  <1>2. ASSUME UNCHANGED vars PROVE UsesInOrder'
    BY <1>2 DEF vars, Inv, UsesInOrder
  <1>3. ASSUME SignExhausted \/ Reload \/ Zeroize \/ \E l \in Layers : EnsureFails(l)
        PROVE  UsesInOrder'
    <2>1. uses' = uses /\ (sk' = sk \/ sk'.seed = "zero")
      BY <1>3 DEF SignExhausted, Reload, Zeroize, EnsureFails
    <2> QED BY <2>1, UsesUnchanged
  <1>4. ASSUME NEW m \in Message, Sign(m) PROVE UsesInOrder'
    BY <1>4, SignUses
  <1>5. UsesInOrder'
    BY <1>2, <1>3, <1>4 DEF Next
  <1> QED BY <1>1, <1>5 DEF Inv, Core

---------------------------------------------------------------------------
(* Theorems.  DistinctSentinel says the index bytes can tell "exhausted"   *)
(* from the last index; SigningKeySentinel.cfg is an instance without it.  *)
(* What it takes away is only the end of the key: the types, the cache and *)
(* the signatures returned are right for every set.                        *)

LEMMA CoreInvariance == Spec => []Core
  <1>1. Init => Core
    BY InitInv DEF Inv, Core
  <1>2. Core /\ [Next]_vars => Core'
    BY NextCore
  <1> QED BY <1>1, <1>2, PTL DEF Spec

LEMMA Invariance == ASSUME DistinctSentinel PROVE Spec => []Inv
  <1>1. Inv /\ [Next]_vars => Inv'
    BY NextInv
  <1> QED BY InitInv, <1>1, PTL DEF Spec

(* The bytes, the cache, what is returned and the history of uses keep the *)
(* shape the code gives them: in particular a decoded or advanced cache    *)
(* has a state for every layer whenever a signature is made from it.       *)
THEOREM TypeCorrect == Spec => []TypeOK
  <1>1. Core => TypeOK
    BY DEF Core
  <1> QED BY CoreInvariance, <1>1, PTL

(* The traversal cache, whenever it claims to be for the key's index,      *)
(* equals what a rebuild from the seed would produce: advance_auth_path    *)
(* recomputes every node that changes.                                     *)
THEOREM CacheAlwaysCoherent == Spec => []CacheCoherent
  <1>1. Core => CacheCoherent
    BY DEF Core
  <1> QED BY CoreInvariance, <1>1, PTL

LEMMA OneTimeUseFromInv == Inv => OneTimeUse
  <1> SUFFICES ASSUME Inv, NEW u \in uses, NEW v \in uses, u.key = v.key
               PROVE  u.msg = v.msg
    BY DEF OneTimeUse
  <1>1. u \in AnyWots /\ u.key.layer \in Nat
    BY DimensionAssumption DEF Inv, TypeOK, AnyWots, WotsKey, Layers
  <1>2. CASE u.key.layer > 0
    BY <1>2 DEF Inv, UsesInOrder
  <1>3. CASE u.key.layer = 0
    <2>1. u.msg.idx \in Nat /\ v.msg.idx \in Nat
      BY <1>3, PowerFacts DEF Inv, UsesInOrder, AnyDigest, Indices
    <2>2. /\ TreeIdx(u.msg.idx, 0) = TreeIdx(v.msg.idx, 0)
          /\ LeafIdx(u.msg.idx, 0) = LeafIdx(v.msg.idx, 0)
      BY <1>3 DEF Inv, UsesInOrder
    <2>3. u.msg.idx = v.msg.idx
      BY <2>1, <2>2, LowestPosition
    <2> QED BY <1>3, <2>3 DEF Inv, UsesInOrder
  <1> QED BY <1>1, <1>2, <1>3

(* No WOTS+ key of any layer ever signs two values, whatever sequence of   *)
(* successful and failing calls, reloads and zeroizations is made.         *)
THEOREM NoOneTimeKeyReused == DistinctSentinel => (Spec => []OneTimeUse)
  <1> SUFFICES ASSUME DistinctSentinel PROVE Spec => []OneTimeUse
    OBVIOUS
  <1> QED BY Invariance, OneTimeUseFromInv, PTL

LEMMA RetiredStep ==
    ASSUME DistinctSentinel, Inv, RetiredWhenLastSigned, [Next]_vars
    PROVE  RetiredWhenLastSigned'
  <1>1. CASE UNCHANGED vars
    BY <1>1 DEF vars, RetiredWhenLastSigned
  <1>2. ASSUME NEW m \in Message, SignLast(m) PROVE RetiredWhenLastSigned'
    <2>1. sk.idx <= MaxIdx /\ TypeOK
      BY <1>2, PowerFacts DEF SignLast, Inv
    <2>2. sk'.seed = "zero" /\ sk'.idx = NextIdx(sk.idx) /\ cache' = Cleared
      BY <1>2, <2>1 DEF SignLast, TypeOK
    <2>3. sk'.idx > MaxIdx
      BY <1>2, <2>1, <2>2, IndexFacts DEF SignLast
    <2> QED BY <2>2, <2>3 DEF RetiredWhenLastSigned, Cleared
  <1>3. ASSUME NEW m \in Message, SignNotLast(m) PROVE RetiredWhenLastSigned'
    <2>1. sk.idx < MaxIdx /\ sk.idx \in Nat
      BY <1>3, IndexAssumption DEF SignNotLast, Inv, TypeOK
    <2>2. ret'.sig.idx # MaxIdx
      BY <1>3, <2>1, PowerFacts DEF SignNotLast, Signature
    <2> QED BY <2>2 DEF RetiredWhenLastSigned
  <1>4. CASE ret' = Refusal("KeyExhausted") \/ ret' = Refusal("Hash")
             \/ ret' = Refusal("Decoded") \/ ret' = Refusal("Zeroized")
    BY <1>4 DEF RetiredWhenLastSigned, Refusal
  <1>5. ASSUME NEW m \in Message, Sign(m) PROVE RetiredWhenLastSigned'
    BY <1>2, <1>3, <1>4, <1>5 DEF Sign, SignLayerFails, AdvanceFails, HashFails
  <1> QED BY <1>1, <1>4, <1>5
        DEF Next, SignExhausted, EnsureFails, HashFails, Reload, Zeroize

LEMMA RetiredInvariance ==
    ASSUME DistinctSentinel PROVE Spec => [](Inv /\ RetiredWhenLastSigned)
  <1>1. Init => RetiredWhenLastSigned
    BY DEF Init, Refusal, RetiredWhenLastSigned
  <1>2. Inv /\ RetiredWhenLastSigned /\ [Next]_vars => (Inv /\ RetiredWhenLastSigned)'
    BY NextInv, RetiredStep
  <1> QED BY InitInv, <1>1, <1>2, PTL DEF Spec

(* The call that returns the last signature leaves no key material, no     *)
(* cache, and an index that reads as exhausted.                            *)
THEOREM LastSignatureRetires == DistinctSentinel => (Spec => []RetiredWhenLastSigned)
  <1> SUFFICES ASSUME DistinctSentinel PROVE Spec => []RetiredWhenLastSigned
    OBVIOUS
  <1> QED BY RetiredInvariance, PTL

(* The call after it returns no signature. *)
THEOREM ExhaustionIsFinal == DistinctSentinel => (Spec => NoSignatureAfterLast)
  <1> SUFFICES ASSUME DistinctSentinel PROVE Spec => NoSignatureAfterLast
    OBVIOUS
  <1>1. ASSUME Inv, RetiredWhenLastSigned, [Next]_vars
        PROVE  [ret.status = "Ok" /\ ret.sig.idx = MaxIdx => ret'.status # "Ok"]_vars
    <2> SUFFICES ASSUME Next, ret.status = "Ok", ret.sig.idx = MaxIdx
                 PROVE  ret'.status # "Ok"
      BY <1>1
    <2>1. sk.idx \in Nat /\ sk.idx > MaxIdx
      BY <1>1, IndexAssumption DEF RetiredWhenLastSigned, Inv, TypeOK
    <2>2. CASE ret' = Refusal("KeyExhausted") \/ ret' = Refusal("Hash")
               \/ ret' = Refusal("Decoded") \/ ret' = Refusal("Zeroized")
      BY <2>2 DEF Refusal
    <2> QED BY <2>1, <2>2, PowerFacts
          DEF Next, Sign, SignNotLast, SignLast, SignLayerFails, AdvanceFails,
              SignExhausted, EnsureFails, HashFails, Reload, Zeroize
  <1> QED BY RetiredInvariance, <1>1, PTL DEF Spec, NoSignatureAfterLast

(* The live index never goes back, and a returned signature is for the     *)
(* index the key has just left behind.                                     *)
THEOREM IndexOnlyAdvances == DistinctSentinel => (Spec => IndexAdvances)
  <1> SUFFICES ASSUME DistinctSentinel PROVE Spec => IndexAdvances
    OBVIOUS
  <1>1. ASSUME Inv, [Next]_vars
        PROVE  [ /\ sk'.seed = "key" => sk.idx <= sk'.idx
                 /\ ret' # ret /\ ret'.status = "Ok" =>
                      sk.idx = ret'.sig.idx /\ sk.idx < sk'.idx ]_vars
    <2> SUFFICES ASSUME Next
                 PROVE  /\ sk'.seed = "key" => sk.idx <= sk'.idx
                        /\ ret' # ret /\ ret'.status = "Ok" =>
                             sk.idx = ret'.sig.idx /\ sk.idx < sk'.idx
      BY <1>1
    <2>1. TypeOK /\ sk.idx \in Nat
      BY <1>1, IndexAssumption DEF Inv, TypeOK
    <2>2. CASE \E m \in Message : SignNotLast(m) \/ SignLast(m)
      <3>1. PICK m \in Message : SignNotLast(m) \/ SignLast(m)
        BY <2>2
      <3>2. sk.idx <= MaxIdx
        BY <2>1, <3>1, PowerFacts DEF SignNotLast, SignLast
      <3>3. /\ sk' = [sk EXCEPT !.idx = NextIdx(sk.idx)]
               \/ sk' = [sk EXCEPT !.idx = NextIdx(sk.idx), !.seed = "zero"]
            /\ ret' = Signature(Ensured(sk.idx), m)
        BY <3>1 DEF SignNotLast, SignLast
      <3>4. sk'.idx = NextIdx(sk.idx)
        BY <2>1, <3>3 DEF TypeOK
      <3>5. ret'.sig.idx = sk.idx
        BY <3>3 DEF Signature
      <3>6. NextIdx(sk.idx) > sk.idx /\ NextIdx(sk.idx) \in Nat
        BY <2>1, <3>2, IndexFacts, IndexAssumption
      <3> QED BY <2>1, <3>4, <3>5, <3>6
    <2>3. CASE \E m \in Message, n \in Layers : SignLayerFails(m, n)
      <3>1. PICK m \in Message, n \in Layers : SignLayerFails(m, n)
        BY <2>3
      <3>2. sk'.idx = NextIdx(sk.idx) /\ ret'.status # "Ok" /\ sk.idx <= MaxIdx
        BY <2>1, <3>1 DEF SignLayerFails, HashFails, Refusal, TypeOK
      <3>3. NextIdx(sk.idx) > sk.idx /\ NextIdx(sk.idx) \in Nat
        BY <2>1, <3>2, IndexFacts, IndexAssumption
      <3> QED BY <2>1, <3>2, <3>3
    <2>4. CASE \E m \in Message, l \in Layers, n \in Heights : AdvanceFails(m, l, n)
      <3>1. sk'.idx = sk.idx + 1 /\ ret'.status # "Ok"
        BY <2>1, <2>4 DEF AdvanceFails, HashFails, Refusal, TypeOK
      <3> QED BY <2>1, <3>1
    <2>5. CASE SignExhausted \/ Reload \/ \E l \in Layers : EnsureFails(l)
      BY <2>1, <2>5 DEF SignExhausted, Reload, EnsureFails, HashFails, Refusal
    <2>6. CASE Zeroize
      BY <2>6 DEF Zeroize, Refusal
    <2> QED BY <2>2, <2>3, <2>4, <2>5, <2>6 DEF Next, Sign
  <1> QED BY Invariance, <1>1, PTL DEF Spec, IndexAdvances

---------------------------------------------------------------------------
(* The key implements the one-time signer *)

Slot   == IF sk.seed = "key" /\ sk.idx <= MaxIdx THEN sk.idx ELSE MaxIdx + 1
Issued == {[slot |-> u.msg.idx, msg |-> u.msg.msg] : u \in {v \in uses : v.key.layer = 0}}

(* A call that signs with the lowest n layers issues the slot it takes,    *)
(* unless it fails before the lowest.                                      *)
LEMMA IssuedBySigning ==
    ASSUME Inv, sk.idx <= MaxIdx, NEW m \in Message, NEW n \in 0..D,
           uses' = uses \cup LiveUses(n, Ensured(sk.idx), m)
    PROVE  Issued' = IF sk.seed = "key" /\ n > 0
                     THEN Issued \cup {[slot |-> sk.idx, msg |-> m]}
                     ELSE Issued
  <1> DEFINE new == LiveUses(n, Ensured(sk.idx), m)
  <1>1. LayersFor(Ensured(sk.idx), sk.seed, sk.idx)
    BY SigningFacts DEF Inv, Core
  <1>2. new = {u \in {MadeAt(l, m) : l \in {l \in Layers : l < n}} : sk.seed = "key"}
    BY <1>1, WotsExact DEF LiveUses
  <1> HIDE DEF new
  <1>3. \A l \in Layers : MadeAt(l, m).key.layer = l
    BY DEF MadeAt, WotsSign
  <1>4. MadeAt(0, m).msg.idx = sk.idx /\ MadeAt(0, m).msg.msg = m
    BY DEF MadeAt, WotsSign, DigestOf, Digest
  <1>5. 0 \in Layers
    BY DimensionAssumption DEF Layers
  <1>6. {v \in new : v.key.layer = 0}
          = IF sk.seed = "key" /\ n > 0 THEN {MadeAt(0, m)} ELSE {}
    <2>1. CASE sk.seed = "key" /\ n > 0
      <3>1. MadeAt(0, m) \in new
        BY <1>2, <1>5, <2>1
      <3>2. \A v \in new : v.key.layer = 0 => v = MadeAt(0, m)
        BY <1>2, <1>3
      <3> QED BY <1>3, <1>5, <2>1, <3>1, <3>2
    <2>2. CASE sk.seed # "key"
      BY <1>2, <2>2
    <2>3. CASE ~(n > 0)
      <3>1. {l \in Layers : l < n} = {}
        BY <2>3, DimensionAssumption DEF Layers
      <3> QED BY <1>2, <2>3, <3>1
    <2> QED BY <2>1, <2>2, <2>3
  <1>7. Issued' = Issued \cup
          {[slot |-> u.msg.idx, msg |-> u.msg.msg] : u \in {v \in new : v.key.layer = 0}}
    <2>1. uses' = uses \cup new
      BY DEF new
    <2> QED BY <2>1 DEF Issued
  <1> QED BY <1>4, <1>6, <1>7

(* Every step of the key is a step of the one-time signer: a slot issued,  *)
(* burnt or retired, or none of the owner's business.                      *)
LEMMA StepImplements ==
    ASSUME DistinctSentinel, Inv, [Next]_vars
    PROVE  [OTS!Next]_(OTS!vars)
  <1>0. TypeOK /\ sk.idx \in Nat /\ sk.seed \in Seeds /\ MaxIdx \in Nat
    BY IndexAssumption, PowerFacts DEF Inv, TypeOK
  <1>1. ASSUME Slot' = Slot, Issued' = Issued PROVE [OTS!Next]_(OTS!vars)
    BY <1>1 DEF OTS!vars, Slot, Issued
  <1>2. ASSUME Slot' = MaxIdx + 1, Issued' = Issued PROVE [OTS!Next]_(OTS!vars)
    BY <1>2 DEF OTS!Next, OTS!Retire, Slot, Issued
  <1>3. ASSUME Slot < MaxIdx + 1, Slot' = Slot + 1, Issued' = Issued
        PROVE  [OTS!Next]_(OTS!vars)
    BY <1>3 DEF OTS!Next, OTS!Burn, Slot, Issued
  <1>4. ASSUME NEW m \in Message, Slot < MaxIdx + 1, Slot' = Slot + 1,
               Issued' = Issued \cup {[slot |-> Slot, msg |-> m]}
        PROVE  [OTS!Next]_(OTS!vars)
    BY <1>4 DEF OTS!Next, OTS!Issue, Slot, Issued
  <1>5. ASSUME NEW m \in Message, NEW n \in 0..D, sk.idx <= MaxIdx,
               uses' = uses \cup LiveUses(n, Ensured(sk.idx), m),
               sk'.idx = NextIdx(sk.idx), sk'.seed \in {sk.seed, "zero"},
               sk'.seed = sk.seed \/ sk.idx = MaxIdx
        PROVE  [OTS!Next]_(OTS!vars)
    <2>1. /\ NextIdx(sk.idx) \in Nat
          /\ sk.idx < MaxIdx => NextIdx(sk.idx) = sk.idx + 1
          /\ sk.idx = MaxIdx => NextIdx(sk.idx) > MaxIdx
      BY <1>0, <1>5, IndexFacts, IndexAssumption
    <2>2. CASE sk.seed # "key"
      <3>1. Slot' = MaxIdx + 1
        BY <1>5, <2>2 DEF Slot
      <3>2. Issued' = Issued
        BY <1>5, <2>2, IssuedBySigning
      <3> QED BY <1>2, <3>1, <3>2
    <2>3. CASE sk.seed = "key"
      <3>1. Slot = sk.idx /\ Slot < MaxIdx + 1
        BY <1>0, <1>5, <2>3 DEF Slot
      <3>2. Slot' = Slot + 1
        BY <1>0, <1>5, <2>1, <2>3, <3>1 DEF Slot
      <3>3. CASE n > 0
        BY <1>4, <1>5, <2>3, <3>1, <3>2, <3>3, IssuedBySigning
      <3>4. CASE ~(n > 0)
        BY <1>3, <1>5, <2>3, <3>1, <3>2, <3>4, IssuedBySigning
      <3> QED BY <3>3, <3>4
    <2> QED BY <2>2, <2>3
  <1>6. CASE UNCHANGED vars
    BY <1>1, <1>6 DEF vars, Slot, Issued
  <1>7. CASE SignExhausted \/ Reload \/ \E l \in Layers : EnsureFails(l)
    BY <1>1, <1>7 DEF SignExhausted, Reload, EnsureFails, Slot, Issued
  <1>8. CASE Zeroize
    BY <1>2, <1>8 DEF Zeroize, Slot, Issued
  <1>9. ASSUME NEW m \in Message, SignNotLast(m) \/ SignLast(m)
        PROVE  [OTS!Next]_(OTS!vars)
    <2>1. sk.idx <= MaxIdx
      BY <1>0, <1>9 DEF SignNotLast, SignLast
    <2>2. /\ sk'.idx = NextIdx(sk.idx)
          /\ sk'.seed \in {sk.seed, "zero"} /\ (sk'.seed = sk.seed \/ sk.idx = MaxIdx)
          /\ uses' = uses \cup LiveUses(D, Ensured(sk.idx), m)
      BY <1>0, <1>9 DEF SignNotLast, SignLast, TypeOK
    <2>3. D \in 0..D
      BY DimensionAssumption
    <2> QED BY <1>5, <2>1, <2>2, <2>3
  <1>10. ASSUME NEW m \in Message, NEW n \in Layers, SignLayerFails(m, n)
         PROVE  [OTS!Next]_(OTS!vars)
    <2>1. /\ sk.idx <= MaxIdx
          /\ sk'.idx = NextIdx(sk.idx) /\ sk'.seed = sk.seed
          /\ uses' = uses \cup LiveUses(n, Ensured(sk.idx), m)
      BY <1>0, <1>10 DEF SignLayerFails, TypeOK
    <2>2. n \in 0..D
      BY DimensionAssumption DEF Layers
    <2> QED BY <1>5, <2>1, <2>2
  <1>11. ASSUME NEW m \in Message, NEW l \in Layers, NEW n \in Heights, AdvanceFails(m, l, n)
         PROVE  [OTS!Next]_(OTS!vars)
    <2>1. /\ sk.idx < MaxIdx
          /\ sk'.idx = sk.idx + 1 /\ sk'.seed = sk.seed
          /\ uses' = uses \cup LiveUses(D, Ensured(sk.idx), m)
      BY <1>0, <1>11 DEF AdvanceFails, TypeOK
    <2>2. sk.idx <= MaxIdx /\ NextIdx(sk.idx) = sk.idx + 1 /\ D \in 0..D
      BY <1>0, <2>1, DimensionAssumption DEF NextIdx
    <2> QED BY <1>5, <2>1, <2>2
  <1> QED BY <1>6, <1>7, <1>8, <1>9, <1>10, <1>11 DEF Next, Sign

(* SigningKey implements OneTimeSigner under the mapping of OTS. *)
THEOREM KeyImplementsOneTimeSigner == DistinctSentinel => (Spec => Refines)
  <1> SUFFICES ASSUME DistinctSentinel PROVE Spec => Refines
    OBVIOUS
  <1>1. Init => OTS!Init
    BY PowerFacts DEF Init, OTS!Init
  <1>2. Inv /\ [Next]_vars => [OTS!Next]_(OTS!vars)
    BY StepImplements
  <1> QED BY Invariance, <1>1, <1>2, PTL DEF Spec, Refines, OTS!Spec

(* What the one-time signer promises, of any slot and any set of issues:   *)
(* its steps keep slots apart, because the next one is past all issued.    *)
SlotsApart(next, issued) ==
    /\ next \in 0..MaxIdx+1
    /\ \A a \in issued : a.slot \in Nat /\ a.slot < next
    /\ \A a, b \in issued : a.slot = b.slot => a = b

LEMMA SlotsStayApart ==
    ASSUME NEW next, NEW issued, SlotsApart(next, issued), NEW nextp, NEW issuedp,
           \/ /\ next < MaxIdx + 1 /\ nextp = next + 1
              /\ \E m \in Message : issuedp = issued \cup {[slot |-> next, msg |-> m]}
           \/ next < MaxIdx + 1 /\ nextp = next + 1 /\ issuedp = issued
           \/ nextp = MaxIdx + 1 /\ issuedp = issued
           \/ nextp = next /\ issuedp = issued
    PROVE  SlotsApart(nextp, issuedp)
  <1>0. MaxIdx \in Nat
    BY PowerFacts
  <1>1. CASE issuedp = issued
    BY <1>0, <1>1 DEF SlotsApart
  <1>2. ASSUME NEW m \in Message, next < MaxIdx + 1, nextp = next + 1,
               issuedp = issued \cup {[slot |-> next, msg |-> m]}
        PROVE  SlotsApart(nextp, issuedp)
    BY <1>0, <1>2 DEF SlotsApart
  <1> QED BY <1>1, <1>2

(* The promise of OneTimeSigner holds of whatever implements it.           *)
LEMMA OneTimeSignerKeepsSlotsApart == OTS!Spec => []OTS!SlotUsedOnce
  <1>1. OTS!Init => SlotsApart(Slot, Issued)
    BY PowerFacts DEF OTS!Init, SlotsApart, Slot, Issued
  <1>2. SlotsApart(Slot, Issued) /\ [OTS!Next]_(OTS!vars) => SlotsApart(Slot, Issued)'
    <2> SUFFICES ASSUME SlotsApart(Slot, Issued), [OTS!Next]_(OTS!vars)
                 PROVE  SlotsApart(Slot', Issued')
      BY DEF SlotsApart
    <2>1. \/ /\ Slot < MaxIdx + 1 /\ Slot' = Slot + 1
             /\ \E m \in Message : Issued' = Issued \cup {[slot |-> Slot, msg |-> m]}
          \/ Slot < MaxIdx + 1 /\ Slot' = Slot + 1 /\ Issued' = Issued
          \/ Slot' = MaxIdx + 1 /\ Issued' = Issued
          \/ Slot' = Slot /\ Issued' = Issued
      BY DEF OTS!Next, OTS!Issue, OTS!Burn, OTS!Retire, OTS!vars, Slot, Issued
    <2> QED BY <2>1, SlotsStayApart
  <1>3. SlotsApart(Slot, Issued) => OTS!SlotUsedOnce
    BY DEF SlotsApart, OTS!SlotUsedOnce, Slot, Issued
  <1> QED BY <1>1, <1>2, <1>3, PTL DEF OTS!Spec

(* No slot of the key signs two messages, and none is free again once it   *)
(* has signed: what the owner is promised, said of the code's own state.   *)
THEOREM KeySlotsUsedOnce == DistinctSentinel => (Spec => []OTS!SlotUsedOnce)
  BY KeyImplementsOneTimeSigner, OneTimeSignerKeepsSlotsApart, PTL DEF Refines

---------------------------------------------------------------------------
(* What is signed verifies *)

(* What the live key's signature under sig.idx is, whatever has become of  *)
(* the cache: the one-time signatures and paths of a fresh traversal.      *)
Exact(m, sig) ==
    /\ sig.idx \in Indices
    /\ sig.r = Randomizer("key", sig.idx)
    /\ \A l \in Layers :
          /\ sig.wots[l] =
               WotsSign("key", l, TreeIdx(sig.idx, l), LeafIdx(sig.idx, l),
                  IF l = 0 THEN Digest(sig.r, Root("key", D - 1, 0), sig.idx, m)
                  ELSE Root("key", l - 1, TreeIdx(sig.idx, l - 1)))
          /\ sig.auth[l] = AuthPath("key", l, TreeIdx(sig.idx, l), LeafIdx(sig.idx, l))

LEMMA LiveSignatureExact ==
    ASSUME Core, sk.idx <= MaxIdx, sk.seed = "key", NEW m \in Message
    PROVE  Exact(m, Signature(Ensured(sk.idx), m).sig)
  <1> DEFINE layers == Ensured(sk.idx)
             sig == Signature(layers, m).sig
  <1>1. LayersFor(layers, sk.seed, sk.idx)
    BY SigningFacts
  <1>2. sk.idx \in Indices
    BY IndexFacts DEF Core
  <1> HIDE DEF layers
  <1>3. /\ sig.idx = sk.idx
        /\ sig.r = Randomizer(sk.seed, sk.idx)
        /\ \A l \in Layers : sig.wots[l] = WotsAt(layers, l, m)
        /\ \A l \in Layers : sig.auth[l] = layers[l].auth
    BY DEF Signature
  <1>4. DigestOf(m) = Digest(sig.r, Root("key", D - 1, 0), sig.idx, m)
    BY <1>3 DEF DigestOf, PubRoot
  <1>5. ASSUME NEW l \in Layers
        PROVE  /\ sig.wots[l] =
                    WotsSign("key", l, TreeIdx(sig.idx, l), LeafIdx(sig.idx, l),
                       IF l = 0 THEN Digest(sig.r, Root("key", D - 1, 0), sig.idx, m)
                       ELSE Root("key", l - 1, TreeIdx(sig.idx, l - 1)))
               /\ sig.auth[l] = AuthPath("key", l, TreeIdx(sig.idx, l), LeafIdx(sig.idx, l))
    <2>1. sig.wots[l] = MadeAt(l, m)
      BY <1>1, <1>3, WotsExact
    <2>2. layers[l].auth = AuthPath("key", l, TreeIdx(sk.idx, l), LeafIdx(sk.idx, l))
      BY <1>1, StateForFields DEF LayersFor
    <2> HIDE DEF sig
    <2> QED BY <1>3, <1>4, <2>1, <2>2 DEF MadeAt
  <1> HIDE DEF sig
  <1>6. Exact(m, sig)
    BY <1>2, <1>3, <1>5 DEF Exact
  <1> QED BY <1>6 DEF sig, layers

LEMMA LiveSignatureVerifies ==
    ASSUME Core, sk.idx <= MaxIdx, sk.seed = "key", NEW m \in Message
    PROVE  Verify(m, Signature(Ensured(sk.idx), m).sig)
  <1> DEFINE sig == Signature(Ensured(sk.idx), m).sig
  <1>1. Exact(m, sig)
    BY LiveSignatureExact
  <1> HIDE DEF sig
  <1>2. Verify(m, sig)
    BY <1>1, VerifyHonest DEF Exact
  <1> QED BY <1>2 DEF sig

LEMMA VerifyStep ==
    ASSUME Core, SignaturesVerify, [Next]_vars
    PROVE  SignaturesVerify'
  <1>1. CASE UNCHANGED vars
    BY <1>1 DEF vars, SignaturesVerify
  <1>2. ASSUME NEW m \in Message, SignNotLast(m) \/ SignLast(m) PROVE SignaturesVerify'
    <2>1. sk.idx <= MaxIdx /\ ret' = Signature(Ensured(sk.idx), m)
      BY <1>2, IndexAssumption, PowerFacts DEF SignNotLast, SignLast, Core, TypeOK
    <2>2. ret'.sig.r.seed = sk.seed /\ ret'.msg = m
      BY <2>1 DEF Signature, Randomizer
    <2>3. sk.seed = "key" => Verify(m, ret'.sig)
      BY <2>1, LiveSignatureVerifies
    <2> QED BY <2>2, <2>3 DEF SignaturesVerify
  <1>3. CASE ret' = Refusal("KeyExhausted") \/ ret' = Refusal("Hash")
             \/ ret' = Refusal("Decoded") \/ ret' = Refusal("Zeroized")
    BY <1>3 DEF SignaturesVerify, Refusal
  <1>4. ASSUME NEW m \in Message, Sign(m) PROVE SignaturesVerify'
    BY <1>2, <1>3, <1>4 DEF Sign, SignLayerFails, AdvanceFails, HashFails
  <1> QED BY <1>1, <1>3, <1>4
        DEF Next, SignExhausted, EnsureFails, HashFails, Reload, Zeroize

(* Every signature a live key returns is accepted under its public key,    *)
(* after any number of incremental path updates, subtree rollovers, reused *)
(* upper signatures, failed calls and reloads, whatever the tree's size.   *)
THEOREM EverySignatureVerifies == Spec => []SignaturesVerify
  <1>1. Init => SignaturesVerify
    BY DEF Init, Refusal, SignaturesVerify
  <1>2. Core /\ SignaturesVerify /\ [Next]_vars => SignaturesVerify'
    BY VerifyStep
  <1> QED BY CoreInvariance, <1>1, <1>2, PTL DEF Spec

-----------------------------------------------------------------------------
(* What the verifier takes. Each layer it accepts is the one-time signature *)
(* of a root the key signed there, which is the root of the tree below it   *)
(* at the signature's index: going down, the layers are those of one index, *)
(* and the lowest signs the digest of the message under it.                 *)

(* The part of UsesInOrder that holds however the key ends. *)
UpperUses == \A u \in uses : u.key.layer > 0 =>
    u.msg = Root("key", u.key.layer - 1, Leaves * u.key.tree + u.key.leaf)

LEMMA UpperUsesStep == ASSUME Core, UpperUses, [Next]_vars PROVE UpperUses'
  <1>1. CASE uses' = uses
    BY <1>1 DEF UpperUses
  <1>2. ASSUME NEW m \in Message, NEW n, sk.idx <= MaxIdx,
               uses' = uses \cup LiveUses(n, Ensured(sk.idx), m)
        PROVE  UpperUses'
    <2>1. LayersFor(Ensured(sk.idx), sk.seed, sk.idx)
      BY <1>2, SigningFacts
    <2>2. sk.idx \in Nat
      BY <1>2, IndexFacts DEF Core
    <2>3. ASSUME NEW u \in LiveUses(n, Ensured(sk.idx), m), u.key.layer > 0
          PROVE  u.msg = Root("key", u.key.layer - 1, Leaves * u.key.tree + u.key.leaf)
      <3>1. PICK l \in Layers : u = MadeAt(l, m) /\ sk.seed = "key"
        BY <2>1, WotsExact DEF LiveUses
      <3>2. l > 0 => TreeIdx(sk.idx, l - 1) = Leaves * TreeIdx(sk.idx, l) + LeafIdx(sk.idx, l)
        BY <2>2, UpperPosition
      <3> QED BY <2>3, <3>1, <3>2 DEF MadeAt, WotsSign
    <2> QED BY <1>2, <2>3 DEF UpperUses
  <1>3. ASSUME NEW m \in Message, Sign(m) PROVE UpperUses'
    <2>1. MaxIdx \in Nat /\ sk.idx \in Nat
      BY IndexAssumption, PowerFacts DEF Core, TypeOK
    <2>2. \E n : sk.idx <= MaxIdx /\ uses' = uses \cup LiveUses(n, Ensured(sk.idx), m)
      BY <1>3, <2>1 DEF Sign, SignNotLast, SignLast, SignLayerFails, AdvanceFails
    <2> QED BY <1>2, <2>2
  <1> QED BY <1>1, <1>3 DEF Next, vars, SignExhausted, EnsureFails, Reload, Zeroize

LEMMA UpperUsesInvariance == Spec => []UpperUses
  <1>1. Init => UpperUses
    BY DEF Init, UpperUses
  <1>2. Core /\ UpperUses /\ [Next]_vars => UpperUses'
    BY UpperUsesStep
  <1> QED BY CoreInvariance, <1>1, <1>2, PTL DEF Spec

(* An upper one-time signature of the key, by the leaf of an index, signs   *)
(* the root of the tree that index falls in one layer down.                 *)
LEMMA UpperUseCommits ==
    ASSUME UpperUses, NEW u \in uses, NEW idx \in Nat, NEW l \in Layers, l # 0, NEW msg,
           u = WotsSign("key", l, TreeIdx(idx, l), LeafIdx(idx, l), msg)
    PROVE  l - 1 \in Layers /\ msg = Root("key", l - 1, TreeIdx(idx, l - 1))
  <1>1. l \in Nat /\ l > 0 /\ l - 1 \in Layers
    BY DimensionAssumption DEF Layers
  <1>2. /\ u.key.layer = l
        /\ u.key.tree = TreeIdx(idx, l)
        /\ u.key.leaf = LeafIdx(idx, l)
        /\ u.msg = msg
    BY DEF WotsSign
  <1>3. msg = Root("key", l - 1, Leaves * TreeIdx(idx, l) + LeafIdx(idx, l))
    BY <1>1, <1>2 DEF UpperUses
  <1>4. TreeIdx(idx, l - 1) = Leaves * TreeIdx(idx, l) + LeafIdx(idx, l)
    BY <1>1, UpperPosition
  <1> QED BY <1>1, <1>3, <1>4

LEMMA AcceptedFromInv ==
    ASSUME UpperUses, NEW m, NEW sig, sig.idx \in Nat
    PROVE  AcceptedWasSigned(m, sig)
  <1> DEFINE root(l) == Root("key", l, TreeIdx(sig.idx, l))
  <1> SUFFICES ASSUME \A l \in Layers : sig.wots[l] \in uses, Verify(m, sig)
               PROVE  \E u \in uses : u.msg = MsgDigest(m, sig)
    BY DEF AcceptedWasSigned, MsgDigest, PubKeyRoot
  <1>1. D \in Nat \ {0}
    BY DimensionAssumption
  <1>2. PICK f :
          /\ f[-1] = MsgDigest(m, sig)
          /\ f[D - 1] = root(D - 1)
          /\ \A l \in Layers : f[l] = root(l) =>
                sig.wots[l] = WotsSign("key", l, TreeIdx(sig.idx, l), LeafIdx(sig.idx, l), f[l - 1])
    BY VerifyLinks
  <1>3. ASSUME NEW l \in Layers, l # 0, f[l] = root(l)
        PROVE  l - 1 \in Layers /\ f[l - 1] = root(l - 1)
    <2>1. sig.wots[l] \in uses
      OBVIOUS
    <2>2. sig.wots[l] = WotsSign("key", l, TreeIdx(sig.idx, l), LeafIdx(sig.idx, l), f[l - 1])
      BY <1>2, <1>3
    <2> QED BY <1>3, <2>1, <2>2, UpperUseCommits
  <1> HIDE DEF root
  <1> DEFINE Up(k) == f[D - 1 - k] # root(D - 1 - k)
             T == {k \in 0..D-1 : Up(k)}
  <1>4. T = {}
    <2> SUFFICES ASSUME T # {} PROVE FALSE
      OBVIOUS
    <2>1. T \subseteq Nat
      BY <1>1
    <2> HIDE DEF T
    <2>2. PICK x \in T : \A y \in T : x <= y
      BY <2>1, LeastElement
    <2>3. x \in 0..D-1 /\ f[D - 1 - x] # root(D - 1 - x)
      BY <2>2 DEF T
    <2>4. x # 0
      <3>1. D - 1 - 0 = D - 1
        BY <1>1
      <3> QED BY <1>2, <2>3, <3>1
    <2>5. x - 1 \in 0..D-1 /\ ~(x <= x - 1)
      BY <1>1, <2>3, <2>4
    <2>6. f[D - 1 - (x - 1)] = root(D - 1 - (x - 1))
      BY <2>2, <2>5 DEF T
    <2>7. /\ D - 1 - (x - 1) \in Layers
          /\ D - 1 - (x - 1) # 0
          /\ (D - 1 - (x - 1)) - 1 = D - 1 - x
      BY <1>1, <2>3, <2>4 DEF Layers
    <2> QED BY <1>3, <2>3, <2>6, <2>7
  <1>5. f[0] = root(0)
    <2>1. D - 1 \in 0..D-1 /\ D - 1 - (D - 1) = 0
      BY <1>1
    <2> QED BY <1>4, <2>1
  <1>6. 0 \in Layers /\ 0 - 1 = -1
    BY <1>1 DEF Layers
  <1>7. sig.wots[0] = WotsSign("key", 0, TreeIdx(sig.idx, 0), LeafIdx(sig.idx, 0), f[-1])
    BY <1>2, <1>5, <1>6
  <1>8. sig.wots[0].msg = MsgDigest(m, sig)
    BY <1>2, <1>7 DEF WotsSign
  <1> QED BY <1>6, <1>8

(* The same of every signature and every message, whatever they are made of. *)
AcceptanceSound == \A m, sig : sig.idx \in Nat => AcceptedWasSigned(m, sig)

(* Whatever is put together from the one-time signatures the key has made,  *)
(* under any index and with any paths, the verifier accepts it only for a   *)
(* message the key signed under that very index.                            *)
THEOREM AcceptsOnlyTheSigned == Spec => []AcceptanceSound
  <1>1. UpperUses => AcceptanceSound
    BY AcceptedFromInv DEF AcceptanceSound
  <1> QED BY UpperUsesInvariance, <1>1, PTL

(* In particular of those a run assembles from what the key has signed.     *)
THEOREM AssembledAcceptedWasSigned == Spec => []OnlySignedAccepted
  <1>1. AcceptanceSound => OnlySignedAccepted
    <2> SUFFICES ASSUME AcceptanceSound, NEW m \in Message, NEW sig \in Assembled
                 PROVE  AcceptedWasSigned(m, sig)
      BY DEF OnlySignedAccepted
    <2>1. sig.idx \in Nat
      BY IndexAssumption DEF Assembled
    <2> QED BY <2>1 DEF AcceptanceSound
  <1> QED BY AcceptsOnlyTheSigned, <1>1, PTL

---------------------------------------------------------------------------
(* One-time use where the index bytes have no room for the mark: a call    *)
(* whose hashes fail at the last index leaves the key at it, so the last   *)
(* leaf may sign again, and no other one-time key of any layer.            *)

OfIndex(key, idx) ==
    key.layer = 0 /\ key.tree = TreeIdx(idx, 0) /\ key.leaf = LeafIdx(idx, 0)

LowestUses ==
    /\ \A u \in uses : u.key.layer = 0 =>
          /\ u.msg \in AnyDigest
          /\ OfIndex(u.key, u.msg.idx)
          /\ sk.seed = "key" => u.msg.idx < sk.idx \/ u.msg.idx = MaxIdx
    /\ \A u, v \in uses :
          u.key.layer = 0 /\ v.key.layer = 0 /\ u.msg.idx = v.msg.idx /\ u.msg.idx # MaxIdx =>
             u.msg = v.msg

LEMMA LowestUsesSign ==
    ASSUME Core, LowestUses, NEW m \in Message, NEW n, sk.idx <= MaxIdx,
           uses' = uses \cup LiveUses(n, Ensured(sk.idx), m),
           sk'.idx = NextIdx(sk.idx), sk'.seed = "key" => sk.seed = "key"
    PROVE  LowestUses'
  <1> DEFINE new == LiveUses(n, Ensured(sk.idx), m)
  <1>1. /\ LayersFor(Ensured(sk.idx), sk.seed, sk.idx) /\ TypeOK
        /\ sk.idx \in Indices /\ sk.idx \in Nat /\ MaxIdx \in Nat
    BY SigningFacts, IndexFacts, PowerFacts DEF Core
  <1>2. sk'.idx \in Nat /\ (sk'.idx > sk.idx \/ (sk.idx = MaxIdx /\ sk'.idx >= MaxIdx))
    <2>1. IndexModulus \in Nat /\ IndexModulus >= MaxIdx + 1
      <3>1. Pow2[FullHeight] \in Nat \ {0}
        BY DimensionFacts, PowerFacts
      <3> QED BY <3>1, IndexAssumption DEF MaxIdx
    <2> QED BY <1>1, <2>1 DEF NextIdx, Sentinel
  <1>3. DigestOf(m) \in AnyDigest /\ DigestOf(m).idx = sk.idx
    BY <1>1, DigestType
  <1>4. ASSUME NEW u \in new, u.key.layer = 0
        PROVE  u.msg = DigestOf(m) /\ OfIndex(u.key, sk.idx) /\ sk.seed = "key"
    <2>1. PICK l \in Layers : u = MadeAt(l, m) /\ sk.seed = "key"
      BY <1>1, WotsExact DEF LiveUses
    <2> QED BY <1>4, <2>1 DEF MadeAt, WotsSign, OfIndex
  <1> HIDE DEF new
  <1>5. uses' = uses \cup new
    BY DEF new
  <1>6. ASSUME NEW u \in uses, u.key.layer = 0
        PROVE  /\ u.msg \in AnyDigest /\ u.msg.idx \in Nat
               /\ OfIndex(u.key, u.msg.idx)
               /\ sk.seed = "key" => u.msg.idx < sk.idx \/ u.msg.idx = MaxIdx
    <2>1. u.msg \in AnyDigest
      BY <1>6 DEF LowestUses
    <2> QED BY <1>6, <2>1, PowerFacts DEF LowestUses, AnyDigest, Indices
  <1>7. ASSUME NEW u \in uses', u.key.layer = 0
        PROVE  /\ u.msg \in AnyDigest
               /\ OfIndex(u.key, u.msg.idx)
               /\ sk'.seed = "key" => u.msg.idx < sk'.idx \/ u.msg.idx = MaxIdx
    <2>1. CASE u \in uses
      BY <1>1, <1>2, <1>6, <1>7, <2>1
    <2>2. CASE u \in new
      BY <1>1, <1>2, <1>3, <1>4, <1>7, <2>2
    <2> QED BY <1>5, <2>1, <2>2
  <1>8. ASSUME NEW u \in uses', NEW v \in uses', u.key.layer = 0, v.key.layer = 0,
               u.msg.idx = v.msg.idx, u.msg.idx # MaxIdx
        PROVE  u.msg = v.msg
    <2>1. CASE u \in uses /\ v \in uses
      BY <1>8, <2>1 DEF LowestUses
    <2>2. CASE u \in new /\ v \in new
      BY <1>4, <1>8, <2>2
    <2>3. CASE u \in uses /\ v \in new
      BY <1>1, <1>3, <1>4, <1>6, <1>8, <2>3
    <2>4. CASE u \in new /\ v \in uses
      BY <1>1, <1>3, <1>4, <1>6, <1>8, <2>4
    <2> QED BY <1>5, <2>1, <2>2, <2>3, <2>4
  <1>9. \A u \in uses' : u.key.layer = 0 =>
           /\ u.msg \in AnyDigest
           /\ OfIndex(u.key, u.msg.idx)
           /\ sk'.seed = "key" => u.msg.idx < sk'.idx \/ u.msg.idx = MaxIdx
    BY <1>7
  <1>10. \A u, v \in uses' :
           u.key.layer = 0 /\ v.key.layer = 0 /\ u.msg.idx = v.msg.idx /\ u.msg.idx # MaxIdx =>
              u.msg = v.msg
    BY <1>8
  <1> QED BY <1>9, <1>10 DEF LowestUses, OfIndex

LEMMA LowestUsesStep == ASSUME Core, LowestUses, [Next]_vars PROVE LowestUses'
  <1>1. CASE uses' = uses /\ (sk' = sk \/ sk'.seed = "zero")
    BY <1>1 DEF LowestUses, OfIndex
  <1>2. ASSUME NEW m \in Message, Sign(m) PROVE LowestUses'
    <2>1. MaxIdx \in Nat /\ sk.idx \in Nat /\ TypeOK
      BY IndexAssumption, PowerFacts DEF Core, TypeOK
    <2>2. \E n :
            /\ sk.idx <= MaxIdx
            /\ uses' = uses \cup LiveUses(n, Ensured(sk.idx), m)
            /\ sk' \in {[sk EXCEPT !.idx = NextIdx(sk.idx)],
                       [sk EXCEPT !.idx = NextIdx(sk.idx), !.seed = "zero"]}
      <3>1. CASE SignNotLast(m) \/ SignLast(m)
        BY <2>1, <3>1 DEF SignNotLast, SignLast
      <3>2. CASE \E n \in Layers : SignLayerFails(m, n)
        BY <3>2 DEF SignLayerFails
      <3>3. CASE \E l \in Layers, n \in Heights : AdvanceFails(m, l, n)
        <4>1. sk.idx < MaxIdx => NextIdx(sk.idx) = sk.idx + 1 /\ sk.idx <= MaxIdx
          BY <2>1 DEF NextIdx
        <4> QED BY <3>3, <4>1 DEF AdvanceFails
      <3> QED BY <1>2, <3>1, <3>2, <3>3 DEF Sign
    <2>3. sk' \in {[sk EXCEPT !.idx = NextIdx(sk.idx)],
                  [sk EXCEPT !.idx = NextIdx(sk.idx), !.seed = "zero"]} =>
             sk'.idx = NextIdx(sk.idx) /\ (sk'.seed = "key" => sk.seed = "key")
      BY <2>1 DEF TypeOK
    <2> QED BY <2>2, <2>3, LowestUsesSign
  <1>3. CASE UNCHANGED vars \/ SignExhausted \/ Reload \/ Zeroize \/ \E l \in Layers : EnsureFails(l)
    BY <1>1, <1>3 DEF vars, SignExhausted, EnsureFails, Reload, Zeroize
  <1> QED BY <1>2, <1>3 DEF Next

AllButLastUsedOnce == \A u, v \in uses :
    u.key = v.key => u.msg = v.msg \/ OfIndex(u.key, MaxIdx)

(* For every set, with or without room for the mark: if a one-time key     *)
(* ever signs two values, it is the lowest one of the last index.          *)
THEOREM OnlyTheLastSignsAgain == Spec => []AllButLastUsedOnce
  <1>1. Init => LowestUses
    BY DEF Init, LowestUses
  <1>2. Core /\ LowestUses /\ [Next]_vars => LowestUses'
    BY LowestUsesStep
  <1>3. ASSUME Core, UpperUses, LowestUses PROVE AllButLastUsedOnce
    <2> SUFFICES ASSUME NEW u \in uses, NEW v \in uses, u.key = v.key,
                        ~ OfIndex(u.key, MaxIdx)
                 PROVE  u.msg = v.msg
      BY DEF AllButLastUsedOnce
    <2>1. u \in AnyWots /\ u.key.layer \in Nat
      BY <1>3, DimensionAssumption DEF Core, TypeOK, AnyWots, WotsKey, Layers
    <2>2. CASE u.key.layer > 0
      BY <1>3, <2>2 DEF UpperUses
    <2>3. CASE u.key.layer = 0
      <3>1. u.msg.idx \in Nat /\ v.msg.idx \in Nat
        BY <1>3, <2>3, PowerFacts DEF LowestUses, AnyDigest, Indices
      <3>2. OfIndex(u.key, u.msg.idx) /\ OfIndex(u.key, v.msg.idx)
        BY <1>3, <2>3 DEF LowestUses
      <3>3. u.msg.idx = v.msg.idx
        BY <3>1, <3>2, LowestPosition DEF OfIndex
      <3> QED BY <1>3, <2>3, <3>2, <3>3 DEF LowestUses
    <2> QED BY <2>1, <2>2, <2>3
  <1> QED BY CoreInvariance, UpperUsesInvariance, <1>1, <1>2, <1>3, PTL DEF Spec
===========================================================================
