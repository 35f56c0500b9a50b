SPECIFICATION Spec
CONSTANTS
    Absent = Absent
    Broken = Broken
    Refused = Refused
    Integer <- MCInteger
    Duration <- MCDuration
    Unitless <- MCUnitless
    Truth <- MCTruth
    Levels <- MCLevels
    HttpPrefixed <- MCHttpPrefixed
    HttpHosted <- MCHttpHosted
    Slashed <- MCSlashed
    DefaultRegistryMap <- MCDefaultRegistryMap
    DefaultOf <- MCDefaultOf
    Samples <- MCSamples
INVARIANT
    MapsAgree
CHECK_DEADLOCK FALSE
