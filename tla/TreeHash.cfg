SPECIFICATION FairSpec
CONSTANTS
    D = 1
    TreeHeight = 4
    Pow2 <- Pow2To4
    Layer = 0
    Tree = 0
CHECK_DEADLOCK FALSE
INVARIANT TreeTypeOK
INVARIANT StackFits
INVARIANT LayerRight
INVARIANT PathInStep
PROPERTY CallsReturn
PROPERTY LayerRefines
