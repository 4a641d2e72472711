--------------------------- MODULE LayerTraversal ---------------------------
(***************************************************************************)
(* What SigningKey takes one layer of the traversal cache to do, whatever  *)
(* way it hashes: it is built for a leaf in one go, its path goes over to  *)
(* the path of the next leaf a node at a time from the lowest up, and a    *)
(* call that fails leaves the path where it has got to.                    *)
(***************************************************************************)
EXTENDS Integers

CONSTANTS
    Leaf,    \* the leaves of the tree, from 0
    Height,  \* the heights a path has a node at
    Path,    \* the path of each leaf
    Top,     \* the root
    Unset    \* a node nobody has written

VARIABLES
    mode, \* "building", "ready", "moving", or a hash has failed
    leaf, \* the leaf the path is for
    path,
    root

vars == <<mode, leaf, path, root>>

Init ==
    /\ mode = "building"
    /\ leaf \in Leaf
    /\ path = [h \in Height |-> Unset]
    /\ root = Unset

Build ==
    /\ mode = "building"
    /\ mode' = "ready"
    /\ path' = Path[leaf]
    /\ root' = Top
    /\ UNCHANGED leaf

Move ==
    /\ mode = "ready"
    /\ leaf + 1 \in Leaf
    /\ mode' = "moving"
    /\ UNCHANGED <<leaf, path, root>>

(* The lowest node that is not yet the next leaf's becomes it; with the    *)
(* last of them the path is the next leaf's.                               *)
Replace(h) ==
    /\ mode = "moving"
    /\ path[h] # Path[leaf + 1][h]
    /\ \A g \in Height : g < h => path[g] = Path[leaf + 1][g]
    /\ path' = [path EXCEPT ![h] = Path[leaf + 1][h]]
    /\ IF path' = Path[leaf + 1]
       THEN mode' = "ready" /\ leaf' = leaf + 1
       ELSE UNCHANGED <<mode, leaf>>
    /\ UNCHANGED root

Fail ==
    /\ mode \in {"building", "moving"}
    /\ mode' = "failed"
    /\ UNCHANGED <<leaf, path, root>>

Next == Build \/ Move \/ (\E h \in Height : Replace(h)) \/ Fail

Spec == Init /\ [][Next]_vars
============================================================================
