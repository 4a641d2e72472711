SPECIFICATION Spec
CONSTANTS
    D = 2
    TreeHeight = 2
    Pow2 <- Pow2To4
    IndexModulus = 16
    Message = {m1}
    MaxFaults = 0
    None = None
    m1 = m1
PROPERTY NoSignatureAfterLast
