SPECIFICATION Spec
CONSTANTS
    D = 2
    TreeHeight = 1
    Pow2 <- Pow2To2
    IndexModulus = 6
    Message = {m1, m2}
    MaxFaults = 1
    None = None
    m1 = m1
    m2 = m2
SYMMETRY MessageSymmetry
INVARIANT OnlySignedAccepted
