\* Two containers, three starts of any release or of a dry run, one kill.
SPECIFICATION Spec
CONSTANTS
    x1 = x1  x2 = x2
    init = init  users = users  usersEdited = usersEdited  tasks = tasks  routes = routes
    Runners = {x1, x2}
    Releases <- MCReleases
    Files = {init, users, usersEdited, tasks, routes}
    Ship <- MCShip
    NoOne = NoOne
    MaxStarts = 3
    MaxKills = 1
INVARIANTS
    TypeOK
    LedgerMatchesSchema
    ServesItsSchema
PROPERTIES
    ImplementsHistory
    EveryRunEnds
CHECK_DEADLOCK FALSE
