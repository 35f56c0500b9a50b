SPECIFICATION Spec
CONSTANTS
    None = None
    idx = idx
    amd = amd
    arm = arm
    solo = solo
    RawImages <- MCRawImages
    RegistryMap <- MCRegistryMap
    Digests <- MCDigests
    Indexes <- MCIndexes
    Manifests <- MCManifests
    UpstreamTags <- AbsentUpstream
    MaxMoves = 1
    ImageLists <- MCImageLists
INVARIANTS
    TypeOK
    Accounting
    WarmedIsStored
    CachedIsPresent
    WarmedOnce
    CancelBound
    OnlyCancellationDrops
PROPERTIES
    ImplementsPass
    NoRequestRepeats
CHECK_DEADLOCK FALSE
