SPECIFICATION Spec
CONSTANTS
    Options <- SomeOptions
    Texts <- SomeTexts
    MaxOptions = 2
    MAX_PORTS = 2
    MAX_MOUNTS = 1
    Kilo = 8
    INT64_MAX = 32767
    Fraction = 4
INVARIANTS
    NeverCrashes
