SPECIFICATION Spec
CONSTANTS
    SignUps = {s1, s2}
    Removals = {d1}
    Uploads = {i1}
    Memberships = {m1, m2}
    FirstRegistry = FirstRegistry
    None = None
SYMMETRY RaceSymmetry
CHECK_DEADLOCK FALSE
PROPERTY NewAccountIsLinked
