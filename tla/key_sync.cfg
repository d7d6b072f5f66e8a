CONSTANTS
    access = access
    refresh = refresh
    signatures <- TwoSignatures
    MaxWrites = 3
SPECIFICATION Spec
INVARIANTS
    KeysBeforeRequests
    NoWriteIsMissed
PROPERTIES
    CacheNeverGoesBack
    BrokenDocumentEndsServer
    RepairedDocumentsServe
CHECK_DEADLOCK FALSE
