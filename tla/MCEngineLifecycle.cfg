\* A window, two engines at the default path, three kills.
SPECIFICATION Spec
CONSTANTS
    w1 = w1  s1 = s1  s2 = s2
    Windows = {w1}
    ByHand = {s1, s2}
    Default = Default
    NoOne = NoOne
    Attempts = 2
    MaxKills = 3
INVARIANTS
    TypeOK
    OwnEngineAndSocket
PROPERTIES
    SoleEngineServes
    ReadyEngineEnds
CHECK_DEADLOCK FALSE
