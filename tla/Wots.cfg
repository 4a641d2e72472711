SPECIFICATION Spec
CONSTANTS
    N = 24
    WotsLogW = 4
    WotsLen2 = 3
    Pow2 <- Pow2To24
    Digests <- TwoRuns
CHECK_DEADLOCK FALSE
INVARIANT SignatureOnChains
INVARIANT NoDigestAhead
INVARIANT RecoversOnlySigned
