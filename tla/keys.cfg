SPECIFICATION Spec
CONSTANTS
    Request = {q1, q2}
    Sources = {"firestore", "isolated"}
    Kinds = {"jwt", "code"}
    Millis = 2
    Ttl = 6
    CodeLife = 5
    Month = 4
    MaxTime = 7
    MaxKeys = 3
    MaxTokens = 2
INVARIANTS
    OneRotationLogsNobodyOut
PROPERTIES
    RejectedStaysRejected
    SignedWithCurrentKeyOrDead
    CacheCatchesUp
    RestartEndsSessions
