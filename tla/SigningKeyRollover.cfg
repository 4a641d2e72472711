SPECIFICATION Spec
CONSTANTS
    D = 3
    TreeHeight = 2
    Pow2 <- Pow2To6
    IndexModulus = 64
    Message = {m1}
    MaxFaults = 0
    None = None
    m1 = m1
INVARIANT SignaturesVerify
