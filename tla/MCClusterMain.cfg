SPECIFICATION MainSpec
CONSTANTS
    None = None
    idx = idx
    amd = amd
    solo = solo
    RawImages <- MCRawImages
    RegistryMap <- MCRegistryMap
    Digests <- MCDigests
    Indexes <- MCIndexes
    Manifests <- MCManifests
    UpstreamTags <- MCUpstreamTags
    MaxMoves = 0
    ImageLists <- MCImageLists
    KindOrder <- MCKindOrder
    Objects <- MCObjects
    Include <- MCInclude
    Exclude <- MCExclude
    Steps = 2
    PageSize = 1
    MaxChanges = 1
INVARIANTS
    MainTypeOK
    EveryImageAccountedFor
PROPERTIES
    OneContext
    MainExits
CHECK_DEADLOCK FALSE
