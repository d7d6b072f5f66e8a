SPECIFICATION Spec
CONSTANTS
    UserId = {1, 2, 3}
    Email = {e1, e2}
    Request = {q1, q2}
    NoUser = NoUser
ACTION_CONSTRAINT UuidsInOrder
INVARIANTS
    TwoStepsOneAccount
PROPERTIES
    DeletedStaysOut
