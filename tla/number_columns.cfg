CONSTANTS
    d = 0
    e = 7
    Texts <- SomeTexts
    Rounded <- SomeRounded
SPECIFICATION Spec
CHECK_DEADLOCK FALSE
INVARIANTS
    CpfsAreTheOfficialOnes
    CondominiumNumbersComeBack
    OnlyLeadingZerosAreLost
