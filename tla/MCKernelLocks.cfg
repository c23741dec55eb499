CONSTANTS
    Cores = {"c0", "c1"}
    Bsp = "c0"
    MaxNest = 2
SPECIFICATION FairSpec
INVARIANTS NoSelfWait MaskMatchesRequests StubTransparent
PROPERTIES LockReturns BootEnds
