\* Two commands, two flushes that may overlap, two broken connections and one
\* kill.
SPECIFICATION Spec
CONSTANTS
    f1 = f1  f2 = f2
    Flushes = {f1, f2}
    Fixes = {"fix"}
    Statuses = {"status"}
    MaxCommands = 2
    MaxBreaks = 2
    MaxKills = 1
INVARIANT TypeOK
PROPERTIES
    PendingUntilApplied
    LeavesInOrder
    QueueDrains
CHECK_DEADLOCK FALSE
