SPECIFICATION Spec
CONSTANTS
    D = 3
    TreeHeight = 2
    Pow2 <- Pow2To6
    WordModulus = 12
    WotsW = 4
    WotsLen = 5
    IndexModulus = 128
INVARIANT AddressRight
INVARIANT LeafCovers
