SPECIFICATION CliSpec
CONSTANTS
    None = None
    idx = idx
    amd = amd
    arm = arm
    solo = solo
    RawImages <- MCRawImages
    RegistryMap <- MCRegistryMap
    Digests <- MCDigests
    Indexes <- MCIndexes
    Manifests <- MCManifests
    UpstreamTags <- MCUpstreamTags
    MaxMoves = 0
    ImageLists <- MCImageLists
INVARIANTS
    CliTypeOK
    GateSound
    ExitClassifies
PROPERTIES
    Exits
CHECK_DEADLOCK FALSE
