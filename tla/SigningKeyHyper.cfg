SPECIFICATION Spec
CONSTANTS
    D = 2
    TreeHeight = 2
    Pow2 <- Pow2To4
    IndexModulus = 256
    Message = {m1}
    MaxFaults = 2
    None = None
    m1 = m1
INVARIANT SignaturesVerify
INVARIANT CacheCoherent
