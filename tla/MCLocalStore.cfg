\* Two engines on one file, two searches and a questionnaire, one kill.
SPECIFICATION Spec
CONSTANTS
    e1 = e1  e2 = e2
    Engines = {e1, e2}
    Creates = {1, 2}
    Saves = {3}
    LastVersion = 2
    Limit = 1
    NoOne = NoOne
    MaxOpens = 2
    MaxKills = 1
INVARIANTS
    TypeOK
    AnswersAreTrue
    ServesMigrated
    PagesMissNothing
PROPERTY EveryRequestEnds
CHECK_DEADLOCK FALSE
