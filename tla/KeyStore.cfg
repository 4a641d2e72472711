SPECIFICATION StoreSpec
CONSTANTS
    D = 2
    TreeHeight = 1
    Pow2 <- Pow2To2
    IndexModulus = 256
    Message = {m1, m2}
    MaxFaults = 1
    MaxCrashes = 1
    None = None
    Removed = Removed
    m1 = m1
    m2 = m2
CHECK_DEADLOCK FALSE
INVARIANT StoreTypeOK
INVARIANT ReleasedOnce
INVARIANT ReleasedOneTimeUse
INVARIANT StorageAhead
INVARIANT RestartedKeySound
PROPERTY StoreRefines
SYMMETRY MessageSymmetry
