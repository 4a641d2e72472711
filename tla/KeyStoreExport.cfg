SPECIFICATION StoreSpec
CONSTANTS
    D = 2
    TreeHeight = 1
    Pow2 <- Pow2To2
    IndexModulus = 256
    Message = {m1, m2}
    MaxFaults = 0
    MaxCrashes = 2
    None = None
    Removed = Removed
    m1 = m1
    m2 = m2
CHECK_DEADLOCK FALSE
INVARIANT ExportDecodes
