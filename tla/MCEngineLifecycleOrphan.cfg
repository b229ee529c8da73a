\* A window and its engine, which takes longer than the probes to open its database.
SPECIFICATION Spec
CONSTANTS
    w1 = w1  s1 = s1  s2 = s2
    Windows = {w1}
    ByHand = {}
    Default = Default
    NoOne = NoOne
    Attempts = 2
    MaxKills = 0
PROPERTY ClosesItsEngine
CHECK_DEADLOCK FALSE
