SPECIFICATION Spec
CONSTANTS
    D = 3
    TreeHeight = 1
    Pow2 <- Pow2To3
    IndexModulus = 256
    Message = {m1, m2}
    MaxFaults = 1
    None = None
    m1 = m1
    m2 = m2
SYMMETRY MessageSymmetry
INVARIANT OneTimeUse
INVARIANT CacheCoherent
PROPERTY Refines
