CONSTANTS
    id0 = id0  id1 = id1  id2 = id2
    h0 = h0  h1 = h1  h2 = h2
    x1 = x1  x2 = x2
    alice = alice  bob = bob  zero = zero
    SwapIds = {id0, id1, id2}
    Hashes = {h0, h1, h2}
    Secrets = {x1, x2}
    Accounts = {alice, bob, zero}
    ZeroId = id0  ZeroHash = h0  ZeroAddress = zero
    Sha256 <- MCSha256
    Rejecting = {bob}
    Values = {1000, 1500}
    Funds <- MCFunds
    BPS_DENOMINATOR = 1000
    MaxTime = 2
    MaxCrashes = 1
SPECIFICATION MCSpec
INVARIANTS Solvency SecretOpensOneSwap LogTellsStorage RecordAgrees 
PROPERTIES ImplementsEscrow ResolutionIsFinal LpClaimsUnlessRestarted
CHECK_DEADLOCK FALSE
