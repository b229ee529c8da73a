\* Two managers change the status of one search at the same time.
SPECIFICATION Spec
CONSTANTS
    s1 = s1  s2 = s2
    op1 = op1  task1 = task1
    lead = lead  sam = sam  ann = ann
    Searches = {op1}
    Users = {lead, sam}
    Tasks = {task1}
    Sessions = {s1, s2}
    PoolSize = 2
    Partners = {}
    Requests <- StatusWork
    FirstRole <- Roles
    RoleChanges = {}
    SnapshotLimit = 2
    MaxEvents = 4
INVARIANT TimelineRestoresByTime
