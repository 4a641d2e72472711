----------------------------- MODULE TreeHash ------------------------------
(***************************************************************************)
(* How one layer of the traversal cache is computed.  treehash hashes a    *)
(* whole tree with a stack of unmatched nodes and picks out the nodes of   *)
(* one leaf's authentication path as they appear; advance_auth_path takes  *)
(* the path to the next leaf, in place, by hashing one small aligned       *)
(* subtree for each height that changes (treehash_root).                   *)
(*                                                                         *)
(* SigningKey takes the results of the two as single values; this module   *)
(* is where they come from.  A step here is one leaf generated or one pair *)
(* hashed.                                                                 *)
(***************************************************************************)
EXTENDS Hypertree, Sequences

CONSTANTS Layer, Tree  \* subtree_addr: which tree of the hypertree this is

ASSUME SubtreeAssumption == Layer \in Layers /\ Tree \in Nat

VARIABLES
    op,     \* what runs: "build", "advance", nothing ("idle"), or a hash failed
    leaf,   \* leaf_idx: the leaf the path is for, or is being built for
    height, \* height of the subtree being hashed
    next,   \* the leaf to generate next
    stack,  \* nodes whose sibling has not appeared yet, with their heights
    auth,   \* auth_path
    root    \* root of the tree

vars == <<op, leaf, height, next, stack, auth, root>>

TreeNode(h, index) == Node("key", Layer, Tree, h, index)

(* (slip: the subtree of the leaf itself, not of its sibling) *)
FirstLeafOwn(l, h) == ((l + 1) \div Pow2[h]) * Pow2[h]

(* sibling_start *)
FirstLeaf(l, h) == Sibling((l + 1) \div Pow2[h]) * Pow2[h]

(* leaves the subtree starts and ends at; treehash hashes the whole tree   *)
Start == IF op = "build" THEN 0 ELSE FirstLeaf(leaf, height)
End   == Start + Pow2[height]

(* (slip: off by one, the highest changed node is left as it was) *)
ChangedLevelsShort(l) == TrailingOnes(l)

(* (slip: off by one, a node that does not change is hashed again) *)
ChangedLevelsLong(l) == TrailingOnes(l) + 2

ChangedLevels(l) == TrailingOnes(l) + 1

Init ==
    /\ op = "build"
    /\ leaf \in 0..Leaves-1
    /\ height = TreeHeight
    /\ next = 0
    /\ stack = <<>>
    /\ auth = [h \in Heights |-> NoNode]
    /\ root = NoNode

Running == op \in {"build", "advance"}

(* the two topmost nodes are siblings *)
CanMerge ==
    /\ Len(stack) >= 2
    /\ stack[Len(stack)].height = stack[Len(stack) - 1].height

(* (slip: the leaf's own ancestors) *)
CollectedOwn(h, index, node) ==
    IF op = "build" /\ leaf \div Pow2[h] = index
    THEN [k \in DOMAIN auth \cup {h} |-> IF k = h THEN node ELSE auth[k]]
    ELSE auth

(* Keep a node of the path.  Nothing checks that there is room for it.     *)
Collected(h, index, node) ==
    IF op = "build" /\ Sibling(leaf \div Pow2[h]) = index
    THEN [k \in DOMAIN auth \cup {h} |-> IF k = h THEN node ELSE auth[k]]
    ELSE auth

(* (slip: the next leaf before the pairs on the stack) *)
PushLeafEager ==
    /\ Running
    /\ next < End
    /\ stack' = Append(stack, [height |-> 0, node |-> TreeNode(0, next)])
    /\ auth' = Collected(0, next, TreeNode(0, next))
    /\ next' = next + 1
    /\ UNCHANGED <<op, leaf, height, root>>

(* gen_leaf_wots, once no pair is left to hash *)
PushLeaf ==
    /\ Running
    /\ next < End
    /\ ~CanMerge
    /\ stack' = Append(stack, [height |-> 0, node |-> TreeNode(0, next)])
    /\ auth' = Collected(0, next, TreeNode(0, next))
    /\ next' = next + 1
    /\ UNCHANGED <<op, leaf, height, root>>

(* thash_h of the two topmost nodes, at the address of their parent: the   *)
(* ancestor, at that height, of the leaf generated last *)
Merge ==
    LET top   == Len(stack)
        h     == stack[top].height + 1
        index == (next - 1) \div Pow2[h]
        node  == Parent(Layer, Tree, h, index, stack[top - 1].node, stack[top].node)
    IN /\ Running
       /\ CanMerge
       /\ stack' = Append(SubSeq(stack, 1, top - 2), [height |-> h, node |-> node])
       /\ auth' = Collected(h, index, node)
       /\ UNCHANGED <<op, leaf, height, next, root>>

Hashed == next = End /\ ~CanMerge

(* treehash returns *)
FinishBuild ==
    /\ op = "build"
    /\ Hashed
    /\ root' = stack[1].node
    /\ op' = "idle"
    /\ stack' = <<>>
    /\ UNCHANGED <<leaf, height, next, auth>>

(* advance_auth_path is called for the next leaf of the same tree. *)
StartAdvance ==
    /\ op = "idle"
    /\ leaf + 1 < Leaves
    /\ op' = "advance"
    /\ height' = 0
    /\ next' = FirstLeaf(leaf, 0)
    /\ UNCHANGED <<leaf, stack, auth, root>>

(* (slip: the same subtree over and over) *)
FinishSubtreeAgain ==
    /\ op = "advance"
    /\ Hashed
    /\ auth' = [auth EXCEPT ![height] = stack[1].node]
    /\ stack' = <<>>
    /\ IF height + 1 < ChangedLevels(leaf)
       THEN next' = FirstLeaf(leaf, height) /\ UNCHANGED <<op, leaf, height>>
       ELSE op' = "idle" /\ leaf' = leaf + 1 /\ UNCHANGED <<height, next>>
    /\ UNCHANGED root

(* treehash_root returns, into the path, and the loop goes on to the next  *)
(* height that changes or ends.                                            *)
FinishSubtree ==
    /\ op = "advance"
    /\ Hashed
    /\ auth' = [auth EXCEPT ![height] = stack[1].node]
    /\ stack' = <<>>
    /\ IF height + 1 < ChangedLevels(leaf)
       THEN /\ height' = height + 1
            /\ next' = FirstLeaf(leaf, height + 1)
            /\ UNCHANGED <<op, leaf>>
       ELSE /\ op' = "idle"
            /\ leaf' = leaf + 1
            /\ UNCHANGED <<height, next>>
    /\ UNCHANGED root

(* A hash fails: what is on the stack is gone, the path is left as it is.  *)
HashFails ==
    /\ Running
    /\ ~Hashed
    /\ op' = "failed"
    /\ stack' = <<>>
    /\ UNCHANGED <<leaf, height, next, auth, root>>

Next ==
    \/ PushLeaf \/ Merge \/ FinishBuild
    \/ StartAdvance \/ FinishSubtree \/ HashFails

Spec == Init /\ [][Next]_vars

GoesOn == PushLeaf \/ Merge \/ FinishBuild \/ FinishSubtree

(* A call in progress has its caller's thread and waits for nobody, so it  *)
(* goes on.  Whether another call is made is up to the caller.             *)
FairSpec == Spec /\ WF_vars(GoesOn)

---------------------------------------------------------------------------
(* Properties *)

TreeTypeOK ==
    /\ op \in {"build", "advance", "idle", "failed"}
    /\ leaf \in 0..Leaves-1
    /\ height \in 0..TreeHeight
    /\ next \in 0..Leaves
    /\ \A i \in DOMAIN stack : stack[i].height \in 0..TreeHeight
    /\ DOMAIN auth = Heights

(* The stack never outgrows the height + 1 nodes allocated for it, nor the *)
(* path the height of the tree.                                            *)
StackFits == Len(stack) <= height + 1

(* Between calls the layer holds the root of its tree and the siblings of  *)
(* all ancestors of its leaf, whether they were picked out of a whole tree *)
(* or replaced one subtree at a time from the path of the leaf before.     *)
LayerRight ==
    op = "idle" =>
        /\ root = Root("key", Layer, Tree)
        /\ auth = AuthPath("key", Layer, Tree, leaf)

(* While the path moves to the next leaf, and when a hash fails in the     *)
(* middle, it is the new one below the height reached and the old one from *)
(* there up: a node is never half written, and none is touched out of turn *)
(* (SigningKey's AdvanceFails rests on this).                              *)
PathInStep ==
    op = "advance" \/ (op = "failed" /\ root # NoNode) =>
        \A h \in Heights :
            auth[h] = AuthPath("key", Layer, Tree,
                               IF h < height THEN leaf + 1 ELSE leaf)[h]

(* A call returns: the loops over leaves, pairs and heights all end, for   *)
(* every leaf and whatever is on the stack, with the layer built or taken  *)
(* to the next leaf, if no hash fails.                                     *)
CallsReturn ==
    \A l \in 0..Leaves-1 :
        /\ (op = "build" /\ leaf = l) ~> (op \in {"idle", "failed"} /\ leaf = l)
        /\ (op = "advance" /\ leaf = l) ~> \/ op = "idle" /\ leaf = l + 1
                                           \/ op = "failed"

(* The layer does what SigningKey takes it to do: seen from outside it is  *)
(* built in one go, and goes to the next leaf's path by replacing exactly  *)
(* the nodes that differ, each once and whole.                             *)
Layered == INSTANCE LayerTraversal WITH
    Leaf   <- 0..Leaves-1,
    Height <- Heights,
    Path   <- [l \in 0..Leaves-1 |-> AuthPath("key", Layer, Tree, l)],
    Top    <- Root("key", Layer, Tree),
    Unset  <- NoNode,
    mode   <- CASE op = "build" -> "building" [] op = "idle" -> "ready"
                [] op = "advance" -> "moving" [] op = "failed" -> "failed",
    path   <- IF root = NoNode THEN [h \in Heights |-> NoNode] ELSE auth

LayerRefines == Layered!Spec
============================================================================
