\* Two accounts, timeouts that fit an int and some that do not, and restarts.
SPECIFICATION Spec
CONSTANTS
    Account = {"test", "bob"}
    Survivor = "test"
    Half = 8
    PerSecond = 3
    Default = 6
    Asked <- Timeouts
    SeedStart = 1
    NoSession = NoSession
    MaxClock = 17
    MaxUsed = 18
INVARIANTS
    TypeOK
    NeverEarly
PROPERTIES
    OverStaysOver
