SPECIFICATION Spec
CONSTANTS
    app = app
    db = db
    job = job
    secret = secret
    KindOrder <- MCKindOrder
    Objects <- MCObjects
    Include <- MCInclude
    Exclude <- MCExclude
    Steps = 2
    PageSize = 1
    MaxChanges = 1
INVARIANTS
    TypeOK
    NoSilentLoss
PROPERTIES
    ScanEnds
    
