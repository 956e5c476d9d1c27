SPECIFICATION FairSpec
CONSTANTS
    State = {1, 2}
    Hour = 4
    HistoryCap = 2
    RawConfig <- Raws
    DefaultMax = 2
    DefaultCooldown = 1
    MaxTime = 7
    MaxToggles = 1
CHECK_DEADLOCK FALSE
INVARIANTS
    TypeOK
    HourlyLimit
    LimitIsExact
    CooldownKept
    GivenUpForCause
    OnlyWedgeBlocks
PROPERTIES
    ChecksEnd
