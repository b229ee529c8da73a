\* Two requests at a time on one search, one task and one searcher who comes
\* and goes; five events.
SPECIFICATION Spec
CONSTANTS
    s1 = s1  s2 = s2
    op1 = op1  task1 = task1
    lead = lead  sam = sam  ann = ann
    Searches = {op1}
    Users = {lead, sam}
    Tasks = {task1}
    Sessions = {s1, s2}
    PoolSize = 2
    Partners = {}
    Requests <- TaskWork
    FirstRole <- Roles
    RoleChanges = {}
    SnapshotLimit = 2
    MaxEvents = 5
INVARIANTS
    TypeOK
    TimelineRestores
PROPERTIES
    SearchersUpdateTheirOwn
    ImplementsBoard
SYMMETRY Interchangeable
VIEW Undated
