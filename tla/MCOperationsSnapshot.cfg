\* A snapshot read while another request commits; accounts reached through an
\* organization.
SPECIFICATION Spec
CONSTANTS
    s1 = s1  s2 = s2
    op1 = op1  task1 = task1
    lead = lead  sam = sam  ann = ann
    Searches = {op1}
    Users = {lead, ann}
    Tasks = {task1}
    Sessions = {s1, s2}
    PoolSize = 2
    Partners <- ThroughOrganization
    Requests <- SnapshotWork
    FirstRole <- RolesWithAnn
    RoleChanges = {}
    SnapshotLimit = 2
    MaxEvents = 3
INVARIANTS
    SnapshotRestores
    SnapshotAuthorised
    PoolNeverStarves
SYMMETRY Interchangeable
