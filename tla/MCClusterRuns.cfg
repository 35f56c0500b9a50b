SPECIFICATION ClusterSpec
CONSTANTS
    None = None
    idx = idx
    amd = amd
    solo = solo
    RawImages <- MCWorkloads
    Workloads <- MCWorkloads
    RegistryMap <- MCRegistryMap
    Digests <- MCDigests
    Indexes <- MCIndexes
    Manifests <- MCManifests
    UpstreamTags <- MCUpstreamTags
    MaxMoves = 0
    ImageLists <- MCImageLists
INVARIANTS
    SteadyRun
PROPERTIES
    EventuallyCached
