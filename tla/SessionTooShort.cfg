\* The timeout of a day, 6 s of 3 ticks here, is read back modulo 2^W.
SPECIFICATION Spec
CONSTANTS
    Account = {"test"}
    Survivor = "test"
    Half = 8
    PerSecond = 3
    Default = 6
    Asked = {6}
    SeedStart = 1
    NoSession = NoSession
    MaxClock = 17
    MaxUsed = 18
INVARIANTS
    ValidForADay
