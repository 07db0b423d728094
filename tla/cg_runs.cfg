SPECIFICATION FairSpec
CONSTANTS
    c1 = c1  c2 = c2
    Containers = {c1, c2}
    Delegated <- WithoutIo
    Requested <- SomeLimits
    PidNamespace = TRUE
    Faults <- SecondFaulty
INVARIANTS
    TypeOK
    LimitedInside
    NoSurvivors
    NoLimitMissedLater
PROPERTIES
    KilledEventually
