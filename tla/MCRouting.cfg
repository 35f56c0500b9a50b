SPECIFICATION Spec
CONSTANTS
    None = None
    RawImages <- MCRawImages
    Layouts <- MCLayouts
    Components <- MCComponents
    Dotted <- MCDotted
    Ported <- MCPorted
    Mirrors <- MCMirrors
    ZotHost <- MCZotHost
    Children <- MCChildren
INVARIANTS
    NodeFindsIt
    ChildrenBesideIndex
    CollisionsNeedOverlap
CHECK_DEADLOCK FALSE
