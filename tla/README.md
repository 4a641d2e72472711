# pq-xmss: specifications and proofs

TLA+ models of the XMSS and XMSS^MT signature crate in `src/`, checked with TLC
and, where it matters most, proved with TLAPS. Everything is translated from the
Rust source; `PROJECT.json` gives, for each definition, the lines it stands for.

An XMSS key is *stateful*: it is a tree of one-time keys with an index, and a
one-time key that signs two messages gives its secret away. So the questions are
about state: is an index ever used twice, does an incremental update of the
cached paths ever differ from computing them afresh, what does a call that
fails half way leave behind, what does a crash do, when does the key end.

## The system

| Part | Source | State | Operations | Hard because |
|---|---|---|---|---|
| Signing | `xmss_core.rs` | the compact secret key: index, seeds, root | key generation, `xmssmt_core_sign_inner`, exhaustion, zeroizing | the index moves before the hashes run; each hash may return an error; the last index is special |
| Traversal cache | `xmss_core.rs` | for each layer its tree, leaf, root, path and upper signature | `ensure`, `advance`, `clear`, `from_compact_key` | updated in place, layer by layer and height by height; must be what a rebuild gives |
| Tree hashing | `xmss_core.rs` | a stack of nodes and the path | `treehash`, `treehash_root`, `advance_auth_path` | stack room, order of nodes, a path half moved |
| Verification | `xmss_commons.rs` | none | `compute_root`, `xmssmt_core_verify_detached` | must meet the signer at every layer |
| WOTS+ | `wots.rs` | buffers of a call | `base_w`, checksum, chains, sign, recover | bit positions; a signer and a verifier with the same mistake agree |
| Hash addresses, leaf | `hash_address.rs`, `wots.rs`, `xmss_commons.rs` | three addresses of eight words, the L-tree in place | the setters, `expand_seed`, `gen_chain`, `l_tree` | words left over from the last use; odd widths |
| Keys, PKCS#8, storage | `xmss.rs`, `pkcs8.rs` | the key pair; what its owner stored | encoding, decoding, zeroizing | crash and restart; a public key derived from erased bytes |
| Parameter sets | `params.rs` | none | identifiers, tables, lengths | 77 sets in hand-written tables, every length computed three times |
| Boxed API | `boxed.rs` | as typed keys, with the set as a value | the same | identifiers of XMSS and XMSS^MT overlap |
| Containers, serde | `xmss.rs`, `boxed.rs` | bytes | decoding, `sign`/`verify` with the message attached or detached | nothing in the bytes tells the set or the form, only lengths |
| Hash functions | `hash.rs` | none | five keyed functions over SHA-2 and SHAKE | fixed buffers, offsets by hand, two ways to the same digest |

How they interact: a `KeyPair` or `BoxedKeyPair` holds a signing key (compact
bytes and cache) and a verifying key. `sign` takes `&mut self` and calls the core,
which ensures the cache is for the index, writes the next index into the bytes,
signs layer by layer with WOTS+ (upper signatures are cached), and advances the
cache. Cache and key generation hash trees; those hash leaves; those hash chains
and an L-tree, all under addresses. Verification recomputes leaf and root at each
layer. Nothing in the crate is concurrent: `&mut` excludes it, no callback
runs user code in the middle of a call, and nothing is asynchronous. What
interleaves are calls, failures inside calls, and the life of the process.

What makes each part correct:

- signing: no one-time key signs two values; the index only advances; the key
  ends after the last index;
- cache: if it says it is for an index, it is what a rebuild would give;
- tree hashing: same root and path as the definition, in the room allocated;
- verification: accepts what the signer makes, and nothing put together from its parts for
  a message it did not sign under that index;
- WOTS+: no digest's signature extends to another's;
- addresses: every hash has the address of its place and purpose;
- storage: an owner who stores before releasing never releases an index twice, nor two
  values signed by one one-time key of any layer;
- parameter sets: all tables agree, and a key is not taken for another set's;
- layouts: whoever reads a field of a key or signature reads it where it was written;
- hash functions: inputs fill their buffers, no two functions share an input, and
  messages and trees are hashed with one function;
- containers: what verifies was signed, for that set and in that form.

## Modules

    OneTimeSigner (abstract)        DurableSigner (abstract)
          ^ implemented by                ^ implemented by
    SigningKey -------------------- KeyStore          (process, storage, crashes)
          |
    Hypertree ---- TreeHash         (how a layer of SigningKey's cache is computed)
          |            v implements
          |        LayerTraversal (abstract)
          +------- LeafHash ---- HashAddress
    Wots                            (why a WOTS+ signature is a record in SigningKey)
    ParameterSets -- Layouts -- HashInputs -- KeyEncoding

Proofs are in modules of their own: `Arithmetic` (division, least numbers, recursion over
an interval), `HypertreeTheorems` (on `Hypertree`), and `SigningKeyProofs`,
`KeyStoreProofs`, `TreeHashProofs`, `WotsProofs`, `LeafHashProofs`, `KeyEncodingProofs`.

**Hypertree**: positions, nodes, paths, WOTS+ signatures and verification as
symbols. A hash is a record of what was hashed: different inputs, different
outputs. A parent of two nodes that belong together is the node above them, and
of any others is `NoNode`. `D` is `params.d`, `TreeHeight` is `params.tree_height`,
`Pow2` the table of shifts (a constant, so that proofs need only that it doubles).

**SigningKey**: `sk` is the compact key (an identifier that is there or zeroed, the
index, the seeds as one symbol), `cache` is `TraversalState` (`next` is
`next_idx`), `ret` the result of the last call; `uses` is a history of the one-time
signatures made and `faults` counts failures.
Each call is one action, as `&mut self` allows, and each place where a `?` can
end it is an action too: `EnsureFails` (a layer not built, index not moved),
`SignLayerFails` (index moved, some layers signed), `AdvanceFails` (all signed,
cache half advanced, in the middle of a path). `SignNotLast`, `SignLast` and
`SignExhausted` are the ends of a call that did not fail. `Reload` decodes
the bytes again, `Zeroize` is `SigningKey::zeroize`, after which the key can still be
called. A key starts with the cache that key generation leaves (`GeneratedCache`): the
tree it hashes for the public root is the top layer's, kept with `FromTopTree`, and the
layers below it are built as a decoded key's are.
Errors that no registered set can give (a digest length, a Winternitz parameter,
`TraversalState`) are not actions; the errors of hashes are, because the
code returns a `Result` from each and is written to survive it.

**OneTimeSigner**: what a signing key promises: slots handed out in order, each signing
one message or lost. `SigningKey!Refines` maps the index to `next` and the
signatures of the lowest layer to `issued`.

What the verifier may be given is `Assembled`: one-time signatures the key has made, under
any index the field can hold, those beyond the key's range too, with the paths that index
needs. `AcceptedWasSigned` says what its acceptance is worth. Other paths, and other values in place
of one-time signatures, are other symbols, which nothing but a collision would make
accepted; the proof is for any paths.

**KeyStore**: a key pair in a process that may crash, and its owner's storage. Persisting
and releasing are the owner's, modelled as the README of the crate
tells owners to do it: signatures are handed on only once the key written
after them is stored (`Persist`), or, once a call has returned `KeyExhausted`, the key
taken out of storage (`Discard`). Storage is written whole. A history (`released`)
holds what was handed on. `ReleasedOneTimeUse` looks at all its layers: a restarted process
has lost the cached upper signatures and signs the upper roots again.

**DurableSigner**: what a key and its storage promise together. `mark` is the slot that a
process started from storage goes on at, `out` the slots used outside; the mark only
rises, and what goes out lies behind it, once per slot. `KeyStore!StoreRefines` maps
`stored` to `mark` (a document whose seeds are erased, or a removed one, is past the last
slot) and `released` to `out`. A crash, a restart and every call that is not followed by a
write are stutters there: that is the claim.

**TreeHash**: one leaf or one pair of `treehash`, `treehash_root` and
`advance_auth_path` a step, on an explicit stack. Its two results are what
SigningKey takes as single values (`BuildLayerState`, `Recomputed`).

**LayerTraversal**: that assumption of SigningKey's, as a specification. A layer is built in
one go; its path goes over to the next leaf's one node at a time, lowest first; a failure
leaves it where it has got to. `TreeHash!LayerRefines` shows that tree hashing, with its
stack and its writes in the middle of a call, does that. A node that `advance_auth_path`
does not have to change is none of its steps.

**Wots**: `base_w`, the checksum, the chains with symbolic values, sign and recover. The
shifts are a table (`Pow2`) and the sum over the digits is the loop of `wots_checksum`
(`SumTo`). `wots_w` is 16 in every set (`params.rs:1602`), so the runs have no
other; the proofs take any width that leaves the checksum room (`ChecksumFits`).

**LeafHash**, **HashAddress**: the setters one by one, and the three addresses as
tree hashing, signing and verifying carry them from use to use. A hash is recorded
with the address it was made under. `l_tree` runs in place, over runs of chain
ends.

**ParameterSets**: the tables as the source has them, with the names that the boxed
interface goes through (`NameOf`, `FromName`) and the lengths known to the compiler.

**Layouts**: which bytes of a key or signature hold what, once for each part of the code
that works it out: key generation, signer, verifier, cache, the derivation of a public
key. A field is a record with its bounds; the bytes themselves play no part.

**HashInputs**: the buffers of `hash.rs`, what each of the five functions writes where, and
by which of two ways (the pointer `params.hash`, or `params.func` and `params.n`) a
digest is reached in each interface.

**KeyEncoding**: keys and signatures on their way from one interface (typed, family with a
depth, boxed) to another. `made`, `key` and `sig` are what was generated and what it was
decoded for; `sent` is the form of the signature, with its message behind it or
without. Any signature may be decoded as either form for any set of the interface,
since lengths are all that the containers check.

**MC...** modules give TLC the tables and sets a `.cfg` cannot write.
Definitions marked `(slip: ...)` are the wrong forms of the definition that
follows them: plausible mistakes, not part of any specification, with which each
property is shown to fail (`mutants` in `PROJECT.json`).

## Runs

| Run | Instance | Shows |
|---|---|---|
| `signing_key_single` | 1 layer of height 3, 2 messages, 1 failure | types; index advances; the last signature retires the key; nothing is signed after it |
| `signing_key_hyper` | 2 layers of height 2, 2 failures | the cache is what a rebuild gives; signatures verify |
| `signing_key_deep` | 3 layers of height 1, 2 messages, 1 failure | no one-time key of any layer signs two values; the key implements `OneTimeSigner` |
| `signing_key_rollover` | 3 layers of height 2, all 64 signatures, index field of 64 values | signatures verify across all boundaries of trees, also where the exhausted mark is the last index |
| `signing_key_accepts` | 2 layers of height 1, 2 messages, 1 failure, index field of 6 values | what is assembled from one-time signatures of the key is accepted only for a message signed under that index |
| `signing_key_sentinel` | as hyper, index field of 16 values | **violation**, see below |
| `key_store` | 2 layers of height 1, 2 messages, 1 failure, 1 crash | no index is released with two messages, and no one-time key of any layer with two values; storage is ahead; restarted keys are sound; key and storage implement `DurableSigner` |
| `key_store_export` | the same without failures, 2 crashes | **violation**, see below |
| `tree_hash` | one tree of 16 leaves, every leaf | stacks fit; layer and path are right, also after a failure; calls return; the layer implements `LayerTraversal` |
| `wots` | pairs of digests of 24 bytes in two runs | a signature leads to the public key for its digest only; the checksum over its whole range |
| `leaf_hash` | 3 layers of height 2, words of 12 | addresses; the L-tree keeps every chain end |
| `key_encoding` | 77 sets, all 21 extra depths, messages of 0 and 2463 bytes | tables, layouts, hash inputs and hash functions agree; keys and signatures keep to their set and form |

### Bounds, and why they are enough

- *Trees.* What happens depends on how many trailing ones an index has, on where trees
  end, and on how many layers end at once. Height 2 has each kind of step within a tree;
  with 3 layers one, two or all layers move on. `signing_key_deep` has height 1,
  where a tree's path is a single node; `signing_key_rollover` has every index.
- *`MaxFaults`.* A failed call leaves a cache that the next call mends, so two failures
  are the first with a failure while mending; both happen in `signing_key_hyper`.
- *Messages.* Two are enough to differ. They are symmetric, except in the runs
  with one.
- *`IndexModulus`* is 256 to the `index_bytes`. 256 leaves the exhausted mark distinct
  from every index, 16 with 16 indices does not. `signing_key_accepts` has 6 with 4 indices, so that
  the field holds two indices that are not the key's, as it does for every full
  height but 40. `signing_key_rollover` has none to spare, as at 40.
- *`MaxFaults`, `MaxCrashes` of `key_store`.* One each, together: a call that failed between two
  writes, then a crash, then a restart from the older write. The proofs are for any
  number of both. `key_store_export` needs no failure.
- *`MessageLengths`.* An empty message makes both forms the same bytes. With 2463 bytes,
  a signature of XMSS-SHA2_10_256 with its message (2500 + 2463) is as long as one of
  XMSSMT-SHA2_20/2_256 without (4963): the length check cannot tell them apart, so
  what keeps them apart has to be something else.
- *Digests.* 24 bytes are the shortest real digests, with a checksum from 0 to 720; all pairs of the 52
  that are two runs of equal bytes are taken, which reaches both ends and carries
  into each of the three digits.
- *`WordModulus`* stands for 2^32. At 12, tree indices need two words, as those
  of sets of height 60 do.
- *`ExtraHeights`.* All there are.

`CHECK_DEADLOCK FALSE` is set where a model really stops: a process that crashed before it
stored anything or for the last time, a tree whose last leaf was reached, a signature
made and checked, a decode that was refused.

### Fairness and liveness

`TreeHash` is the only module with a call in several steps that all succeed, and the only one
with fairness: `FairSpec` has weak fairness of `GoesOn`, the steps that take a call in
progress further. A call has its caller's thread, holds no lock and waits for nobody, so
it goes on; that is all it says. `StartAdvance` (another call) is not in it, nor is
`HashFails`. `CallsReturn` then says that the loops of `treehash`, `treehash_root` and
`advance_auth_path` end, for every leaf, with the layer built, moved on, or a failure. In
the other modules a call is one step and when to call is up to the caller, so
there is nothing that must happen.

### What the violations show

`signing_key_sentinel` (`NoSignatureAfterLast`): the exhausted mark is 0xFF in
every index byte. For sets of full height 40 the index takes 5 bytes
(`params.rs:1633`), so the mark is 2^40 - 1, which is the last index: after
its last signature the key is not exhausted. It goes on returning signatures, made from
the zeroed key material, which do not verify. The other sets are not affected: 20
bits in 3 bytes, 60 in 8, and 4 bytes for a single tree leave room. The instance is this
case scaled to 4 bits. It does not compute a second one-time signature with the
real seed, since that has been erased.

`key_store_export` (`ExportDecodes`): the last signature erases root and `PUB_SEED` as well,
so the public key derived from the bytes is zero, while the key pair still has its
own; the PKCS#8 document then written is refused with `PublicKeyMismatch`. It
concerns only a key that has nothing left to sign.

## Proofs

The theorems are for every value of the constants: every `D`, `TreeHeight`, set of messages, index
width and number of failures and crashes, digests of every length, words of every width,
every choice of extra depths, messages of every length. They rest on the assumptions next
to the constants, and on the two hypotheses that are named below, `DistinctSentinel` and
`ChecksumFits`.

**Arithmetic** has division (`DivUnique`, `NestedDiv`), and stands in for induction: of the
numbers for which something fails one is least (`LeastElement`), and a function
defined by recursion over `0..n` exists (`Iterates`).

**HypertreeTheorems**: arithmetic of positions. Division by `Pow2` nests; the next index is at
the next leaf of the same tree exactly when this leaf is not the last; bits above the
trailing ones are kept, so nodes that high are shared by the two paths. Then verification,
both ways: at each height and at each layer the result is either the node of
the index or `NoNode`, and it is that node exactly if what came from below is and the
sibling is (`ClimbStepExact`, `ComputeRootExact`, `LayerRootExact`). So an honest
signature is accepted (`VerifyHonest`), and an accepted one has an index of the key and is,
from the top down, linked layer by layer (`VerifyLinks`).

**SigningKeyProofs**. The inductive invariant is

    Inv == Core /\ UsesInOrder        Core == TypeOK /\ CacheCoherent

`Core` is kept by every action whatever has been signed before (`NextCore`), so it also
survives a restart from storage, which `UsesInOrder` does not: a restarted key computes
one-time signatures again. KeyStoreProofs builds on that split. Nor does `Core` need
`DistinctSentinel` (the exhausted mark is no index; false for full height 40, see above), as
`UsesInOrder` does.
`OneTimeUse` is not inductive: that a *new* signature does not clash needs to know where
the old ones are. `UsesInOrder` says so: below the index in the lowest layer, and
in an upper layer only of the root of the tree under that leaf. That the second holds
for a cached upper signature or a layer rebuilt after a failure is `CacheCoherent`.
One lemma per action shows `Core` kept; `AdvanceLayerIsFor` is the heart of it, that an
incremental update of a layer is what a build for the next index gives.

For every set, from `Core`:

- `TypeCorrect`, `CacheAlwaysCoherent`,
- `EverySignatureVerifies`: a signature is `Exact`, that is what a fresh traversal would give,
  and `VerifyHonest` applies,
- `AcceptsOnlyTheSigned`: of all signatures and messages, whatever they are made of, those
  whose one-time signatures are the key's are accepted only for a digest the key signed.
  By `VerifyLinks` the top layer leads to the root of its tree, so its one-time signature is by
  the leaf of the index; that leaf has signed only the root of the tree under it
  (`UpperUses`), so the layer below leads to its root, and so on down to the digest.
  `AssembledAcceptedWasSigned` is this for the signatures of the run,
- `OnlyTheLastSignsAgain`: no one-time key signs two values, except perhaps the lowest of
  the last index. At full height 40 a call whose hashes fail at the last index leaves the key
  at it, and the next call signs with it again; `OneTimeUse` fails there. The
  failed call returned nothing, and hashes do not fail in the sets there are.

Under `DistinctSentinel`, from `Inv`:

- `NoOneTimeKeyReused`, `LastSignatureRetires`, `ExhaustionIsFinal`, `IndexOnlyAdvances`,
- `KeyImplementsOneTimeSigner`: a step of the key is a step of `OneTimeSigner` or none;
  `KeySlotsUsedOnce` carries over what that specification promises, once proved of it.

**TreeHashProofs**. `TInv` says what the stack is (`Piled`): from the bottom, aligned
subtrees side by side, of falling heights except perhaps the topmost two, that cover the
leaves so far; and what the path holds (`Gathered`). From it: `TreeHashType`,
`TreeHashStackFits` (an entry below the top two spans more than all above it),
`TreeHashLayerRight`, `TreeHashPathInStep`.

`TreeHashImplementsLayer` maps each step to a step of `LayerTraversal` or none: the nodes of
two neighbouring paths differ exactly up to the height where their leaves part, so the
node just written is the lowest that was still the old one.

**KeyStoreProofs** has two invariants, for any number of crashes and restarts. Neither needs
`DistinctSentinel`: what is released is right for full height 40 too.

`KInv`: what was released lies below `Mark`, what is held between `Mark` and the slot of the live
key, and neither has two messages for one slot. A call only moves the slot up, past the
index it signs with; a crash loses what is held; a restart takes the slot back to `Mark`,
which nothing released has reached. `KeyExhausted` comes only when all slots are
passed, so removing the key then loses none. From it: `NoIndexReleasedTwice`,
`StorageStaysAhead`, `KeyStoreImplementsDurableSigner` and, with the durable signer's own
promise, `StoredSlotsOutOnce`.

`KCore == StoreTypeOK /\ CacheCoherent /\ SignaturesVerify` is kept by
calls as `Core` is, and by a restart because any document gives a coherent cache when
decoded: `StoreTypeCorrect`, `RestartsAreSound`.

`NoOneTimeKeyReleasedTwice` needs both. `UsesInOrder` does not survive a restart, since the
one-time signatures of the lost process may have been released while those of the
new one are still to come. What does is `AllExact`: whatever process made a
signature and whatever its cache went through, it is the one a fresh
traversal gives. Two of them share a one-time key of an upper layer only if they are in the
same tree below it, and then it signs the same root; in the lowest layer only if their
indices are equal, and then `KInv` says their messages are.

**WotsProofs** is about digests of every length, for `w` of 4 and 16. `ChecksumProtects`: if no
chain of another digest is shorter, one of the message digits is greater (`DigitsTellApart`),
so fewer steps are left (`SumStrictlyMonotonic`), so the checksum is less, so one of its digits
is less (`DigitsOrder`), which contradicts the beginning. In between lies `ChecksumDigit`: shifted
up, written to bytes and read by `base_w` from their top, the sum has the digits it should.
That holds under `ChecksumFits`: the digits of the checksum do not fill their last byte, and the largest
sum has no more of them. `RegisteredSetsFit` shows it for `w` = 16, three checksum digits and
up to 64 bytes, which is what `params.rs` has. With `w` = 256, which `initialize` would take
and no set uses, the digits do fill the last byte, `8 - (len2 * log_w) % 8` is 8, and the sum is
moved out of its bytes. `WotsRecovers` and `WotsSigns` follow with an invariant of the two calls.

**LeafHashProofs**. A hash reads words that several earlier calls have written, so `AddressRight`
is not inductive. `AddressInv` says for each phase which words of which address are
already right: the tree from its subtree's call on, the leaf of the OTS address while seeds and
chains are hashed, that of the L-tree address until the L-tree is closed. From it
`AddressesRight`, and `NoAddressShared`: two hashes of one behaviour, however far apart, with the same
function and address are the same hash of the same place. `FoldInv` is for the L-tree: nodes already
folded and nodes still to fold are runs of chain ends that follow each other, so
`LTreeCovers` holds for every number of chains, odd at any level.

**KeyEncodingProofs**. `ParamsAre`: the tables of `initialize`, the macro's types and the generic
XMSS parameters all come to the record that the name of the set says, whatever depths are
compiled in. From that record follow the lengths, the layouts (`SignatureFilled`, `KeysFilled`), and the
hash inputs (`InputsFilled`). The other three are an invariant, `EncodingInv`: a key decoded for
another set is known for its kind when it verifies, and then lengths and layouts decide. `OidsApart`,
`SecretKeysApart`, `AlgorithmsApart` and `FieldsApart` say what tells two sets apart in each place.

### What is only model-checked

- `CallsReturn`, since liveness is out of the prover's reach.
- That a layer built by `TreeHash` is the `BuildLayerState` of `SigningKey` is said by `LayerRight` and
  `LayerTraversal`, not by a module that runs both.
- `ExportDecodes` and `NoSignatureAfterLast` as the documentation has them: they fail (see above).

Every other property of a passing run is stated by a theorem. Induction over data is made
with least counterexamples; there is no `RECURSIVE` operator.

## Not modelled

- The digests themselves: symbols. That SHA-2 and SHAKE are collision-free is an assumption, not a
  result. What is put into them, and which one is taken, is in `HashInputs`.
- Randomness: the seed is a symbol. `from_seed` and `generate` differ in nothing else.
- Secrecy: that freed memory is wiped, that comparisons take constant time.
- DER, hex and serde: what they carry is modelled, their form is not.
- `Error` and its conversions to the error types of other crates: a status in the models.
- A caller who decodes old bytes twice, or derives the key from its seed again after it has
  signed. The crate's documentation forbids both, and nothing in the code could prevent
  them. (`RestartFromSeed` in `KeyStore` is such an owner, as a wrong form of `Restart`.)

## Plan

In the order of importance; 1 to 12 are done.

1. `Hypertree`, `OneTimeSigner`, `SigningKey`: one-time use, cache, exhaustion. Proved.
2. `KeyStore`: storage and crashes, over SigningKey. Proved.
3. `TreeHash`: what SigningKey takes as a single value. Proved.
4. `Wots`. Proved, for digests of every length.
5. `HashAddress`, `LeafHash`. Proved, for every word width and number of chains.
6. `ParameterSets`, `KeyEncoding`, with layouts, hash inputs and both forms of signatures. Proved,
   for every choice of extra depths.
7. `DurableSigner`, and KeyStore's implementation of it. Proved.
8. `LayerTraversal`, and TreeHash's implementation of it. Proved.
9. One-time use of what is released, in all layers and over restarts. Proved.
10. What the verifier's acceptance is worth. Proved, for signatures of any parts.
11. The promises of the abstract specifications, carried over to the key and the store. Proved.
12. What holds of every set, full height 40 included. Proved.
13. A module that runs `TreeHash` for each layer in place of SigningKey's `BuildLayerState` and
    `Recomputed`, and its implementation of SigningKey: what the two say of each other now are
    `LayerRight` and `LayerTraversal`.
