SPECIFICATION Spec
CONSTANTS
    app = app
    app1 = app1
    nginx = nginx
    None = None
    Junk = Junk
    Refs <- MCRefs
    Bare <- MCBare
    Shorter <- MCShorter
    Documents <- MCDocuments
INVARIANTS
    OnlyImageKeys
    NoneMissed
    CutAtOnePlace
CHECK_DEADLOCK FALSE
