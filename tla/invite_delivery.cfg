CONSTANTS
    Invitee = {p, q}
    Uploads = {u, v}
    MaxBatch = 2
    MaxEnds = 1
SPECIFICATION Spec
CHECK_DEADLOCK FALSE
INVARIANTS
    NoMailWithoutInvite
PROPERTIES
    CodesAreLostOnlyWithTheProcess
    StrandedUntilRemoved
    EveryCodeArrives
