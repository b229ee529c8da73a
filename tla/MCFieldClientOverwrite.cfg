\* Two commands, two flushes that may overlap, one broken connection.
SPECIFICATION Spec
CONSTANTS
    f1 = f1  f2 = f2
    Flushes = {f1, f2}
    Fixes = {"fix"}
    Statuses = {"status"}
    MaxCommands = 2
    MaxBreaks = 1
    MaxKills = 0
PROPERTY QueueNeverOverwrites
CHECK_DEADLOCK FALSE
