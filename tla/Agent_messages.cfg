SPECIFICATION FairSpec
CONSTANTS
    w1 = w1
    e1 = e1
    e2 = e2
    Egress = {e1, e2}
    Configs <- SomeConfigs
    Worker = {w1}
    Capacity = 2
    MaxMessages = 3
INVARIANTS
    TypeOK
    NoOvertaking
    AckedIsInForce
    StopIsOrderly
PROPERTIES
    ImplementsMessages
    AcceptedIsSettled
    StopCompletes
