CONSTANTS
    None = None
    p = p
    q = q
    x = x
    y = y
    Paths <- MCPaths
    Blobs <- MCBlobs
    BaseTrees <- MCBaseTrees
    Heads <- MCHeads
    Manifests <- MCManifests
    Bundles <- MCBundles
    Verdicts = {"passed", "advisory", "failed"}
    Unavailable <- MCUnavailable
    MaxIdentities = 4
    MaxSourceBytes = 8
    MaxReceipts = 3
    MaxPushes = 2
SPECIFICATION MCSpec
INVARIANTS
    CarriesAreReviewed
    ChainHolds
    SkipIsHonest
CHECK_DEADLOCK FALSE
