SPECIFICATION Spec
CONSTANTS
    D = 1
    TreeHeight = 3
    Pow2 <- Pow2To3
    IndexModulus = 256
    Message = {m1, m2}
    MaxFaults = 1
    None = None
    m1 = m1
    m2 = m2
SYMMETRY MessageSymmetry
INVARIANT TypeOK
INVARIANT RetiredWhenLastSigned
PROPERTY IndexAdvances
PROPERTY NoSignatureAfterLast
