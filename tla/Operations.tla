----------------------------- MODULE Operations -----------------------------
(***************************************************************************)
(* Search operations on the server: searches and their members             *)
(* (server/src/routes/searches.ts), tasks (routes/tasks.ts), the timeline   *)
(* (routes/events.ts, http.ts audit) and the offline snapshot               *)
(* (routes/gps.ts), over PostgreSQL at READ COMMITTED.                     *)
(*                                                                         *)
(* searches, members, tasks, events and users are COMMITTED state.  A       *)
(* session serves one request at a time; its row of tx says how far the     *)
(* handler got.  A handler first reads the caller's role (auth), then checks *)
(* the caller's access through the pool, and only then takes a connection    *)
(* out of the pool and opens its transaction, so both answers may be out of  *)
(* date in every later step.  A snapshot takes its connection first.        *)
(* What a transaction wrote becomes visible at its commit; until then it     *)
(* keeps the row it wrote locked, which is why the row may be computed at    *)
(* the commit from the request and the committed row.  A refusal or an      *)
(* error drops the transaction and changes nothing else.                   *)
(***************************************************************************)
EXTENDS Rbac, Naturals, FiniteSets, Functions

CONSTANTS
    Searches, Users, Tasks,     \* primary keys
    Sessions,                   \* requests under way at once
    PoolSize,                   \* connections of the pool
    Partners,                   \* <<search, user>>: reached through an organization
    Requests,                   \* what clients ask for
    FirstRole,                  \* the accounts when the system starts
    RoleChanges,                \* the roles PATCH /users gives afterwards
    SnapshotLimit,              \* events that a snapshot returns (200 in the source)
    MaxEvents                   \* bound: event ids drawn

Nobody == "nobody"      \* SQL NULL in tasks.assignee_id
Keep == "keep"          \* a field the request body leaves out
None == "none"          \* a field the request does not have
Absent == "absent"      \* a primary key that no row has yet

SearchStatus == {"PLANNED", "ACTIVE", "PAUSED", "COMPLETED", "CANCELLED"}
TaskStatus == {"OPEN", "IN_PROGRESS", "DONE", "CANCELLED"}

\* What a client may ask for.  user is the member to add or to remove or the
\* assignee of a task; priority tells whether the body has that field.
Request ==
    [kind: {"newSearch", "snapshot"}, search: Searches, task: {None}, user: {None},
     status: {Keep}, priority: {FALSE}]
      \cup
    [kind: {"patchSearch"}, search: Searches, task: {None}, user: {None},
     status: SearchStatus \cup {Keep}, priority: {FALSE}]
      \cup
    [kind: {"addMember", "removeMember"}, search: Searches, task: {None}, user: Users,
     status: {Keep}, priority: {FALSE}]
      \cup
    [kind: {"newTask"}, search: Searches, task: Tasks, user: Users \cup {Nobody},
     status: {Keep}, priority: BOOLEAN]
      \cup
    [kind: {"patchTask"}, search: {None}, task: Tasks, user: Users \cup {Nobody, Keep},
     status: TaskStatus \cup {Keep}, priority: BOOLEAN]
      \cup
    [kind: {"note"}, search: Searches, task: {None}, user: {None},
     status: {Keep}, priority: {FALSE}]

ASSUME NamesAssumption ==
    /\ {Nobody, Keep, None} \cap (Users \cup Searches \cup Tasks) = {}
    /\ Partners \subseteq Searches \X Users
ASSUME RequestsAssumption == Requests \subseteq Request
ASSUME RolesAssumption == FirstRole \in [Users -> Role] /\ RoleChanges \subseteq Role
ASSUME LimitsAssumption == SnapshotLimit \in Nat \ {0} /\ MaxEvents \in Nat
ASSUME PoolAssumption == IsFiniteSet(Sessions) /\ PoolSize \in Nat \ {0}

VARIABLES
    users,      \* role and active of each account
    searches,   \* the searches table
    members,    \* search_members: <<search, user>> to the row's version, 0 if none
    tasks,      \* the tasks table
    events,     \* the committed rows of the events table
    nextId,     \* the sequence behind events.id
    tx          \* what each session is doing

db == <<searches, members, tasks, events>>
vars == <<users, searches, members, tasks, events, nextId, tx>>

-----------------------------------------------------------------------------
(* Rows.  started, ended and completed tell whether started_at, ended_at    *)
(* and completed_at are set.                                               *)

User == [role: Role, active: BOOLEAN]

NoSearch == [status |-> Absent, started |-> FALSE, ended |-> FALSE]
NewSearch == [status |-> "PLANNED", started |-> FALSE, ended |-> FALSE]
Search == [status: SearchStatus \cup {Absent}, started: BOOLEAN, ended: BOOLEAN]

NoTask == [search |-> None, status |-> Absent, assignee |-> Nobody, completed |-> FALSE]
Task == [search: Searches \cup {None}, status: TaskStatus \cup {Absent},
         assignee: Users \cup {Nobody}, completed: BOOLEAN]

\* An event keeps the request's fields: payload { changes: body }, { userId }
\* or { taskId }.  created_at is now(), the time of BEGIN; time is measured
\* in event ids drawn, which orders what is told apart below.
Event == [id: 1..MaxEvents, at: 1..(MaxEvents + 1), actor: Users,
          type: {"SEARCH_CREATED", "SEARCH_UPDATED", "MEMBER_ADDED", "MEMBER_REMOVED",
                 "TASK_CREATED", "TASK_UPDATED", "COORDINATOR_NOTE"},
          search: Searches, task: Tasks \cup {None}, user: Users \cup {Nobody, Keep, None},
          status: SearchStatus \cup TaskStatus \cup {Keep}]

IsMember(s, u) == members[<<s, u>>] # 0

Reaches(s, u) ==
    \/ IsMember(s, u)
    \/ searches[s].status # Absent /\ <<s, u>> \in Partners

\* What the server holds about one search.
OfSearch(s) ==
    [search |-> searches[s],
     members |-> {u \in Users : IsMember(s, u)},
     tasks |-> [k \in Tasks |-> IF tasks[k].search = s THEN tasks[k] ELSE NoTask],
     events |-> {e \in events : e.search = s}]

-----------------------------------------------------------------------------
(* Sessions.                                                               *)

Nothing == [kind |-> None, search |-> None, task |-> None, user |-> None,
            status |-> Keep, priority |-> FALSE]

Unread == [search |-> NoSearch, members |-> {}, tasks |-> [k \in Tasks |-> NoTask],
           events |-> {}]

Idle == [at |-> "idle", req |-> Nothing, actor |-> None, role |-> None,
         began |-> 0, seen |-> 0, event |-> 0, view |-> Unread, read |-> Unread]

Goto(s, t, at) == tx' = [tx EXCEPT ![s] = [t EXCEPT !.at = at]]

End(s) == tx' = [tx EXCEPT ![s] = Idle]

\* The row a request inserts, updates or deletes.
Row(t) ==
    CASE t.req.kind \in {"newTask", "patchTask"} -> <<"task", t.req.task>>
      [] t.req.kind \in {"newSearch", "patchSearch"} -> <<"search", t.req.search>>
      [] t.req.kind \in {"addMember", "removeMember"} -> <<"member", t.req.search, t.req.user>>
      [] OTHER -> <<None>>

\* Mutant: SELECT without FOR UPDATE OF t; the row is locked by its UPDATE.
LockedFromUpdate(t) == t.at \in {"written", "logged"}

\* The row is locked by the UPDATE, DELETE or INSERT, and a task already by
\* SELECT ... FOR UPDATE OF t, up to the end of the transaction.
HoldsRow(t) ==
    \/ t.at \in {"written", "logged"}
    \/ t.at = "locked" /\ t.req.kind = "patchTask"

RowFree(s) == \A r \in Sessions \ {s} : HoldsRow(tx[r]) => Row(tx[r]) # Row(tx[s])

\* Mutant: the account is read without FOR SHARE, and its row is locked only
\* by the foreign key, once the member is inserted.
SharedFromInsert(t) ==
    t.req.kind = "addMember" /\ t.at \in {"written", "logged"}

\* The FOR SHARE of a member's account.
Shares(t) ==
    t.req.kind = "addMember" /\ t.at \in {"locked", "written", "logged"}

\* The accounts whose rows a transaction keeps from being updated: a FOR
\* SHARE, and the FOR KEY SHARE of each foreign key it has written
\* (created_by, assignee_id, user_id).
Referenced(t) ==
    {u \in Users :
        \/ u = t.req.user /\ Shares(t)
        \/ /\ u = t.actor
           /\ \/ t.at = "logged"
              \/ t.at = "written" /\ t.req.kind \in {"newSearch", "newTask"}
        \/ /\ u = t.req.user
           /\ t.at \in {"written", "logged"} /\ t.req.kind \in {"newTask", "patchTask"}}

\* The connection is released in the finally of the handler; POST .../events
\* takes one for a statement at a time.
Connected(t) == t.at \notin {"idle", "known"} /\ t.req.kind # "note"

Holders == {s \in Sessions : Connected(tx[s])}

FreeConnection == Cardinality(Holders) < PoolSize

Init ==
    /\ users = [u \in Users |-> [role |-> FirstRole[u], active |-> TRUE]]
    /\ searches = [s \in Searches |-> NoSearch]
    /\ members = [k \in Searches \X Users |-> 0]
    /\ tasks = [k \in Tasks |-> NoTask]
    /\ events = {}
    /\ nextId = 1
    /\ tx = [s \in Sessions |-> Idle]

-----------------------------------------------------------------------------
(* Who may do what, on the role the session was given by auth.             *)

\* requireSearchAccess and requireSearchManagement
Accesses(t) ==
    IF t.role \in PrivilegedRoles THEN searches[t.req.search].status # Absent
                                  ELSE Reaches(t.req.search, t.actor)

Manages(t) == Accesses(t) /\ t.role \in ManagementRoles

\* The WHERE of the locking query of PATCH /tasks.
Finds(t) ==
    /\ tasks[t.req.task].status # Absent
    /\ t.role \in PrivilegedRoles \/ Reaches(tasks[t.req.task].search, t.actor)

\* A searcher's own task, and neither a new assignee nor a new priority.
MayUpdate(t) ==
    \/ t.role \in ManagementRoles
    \/ /\ t.role = "SEARCHER"
       /\ tasks[t.req.task].assignee = t.actor
       /\ t.req.user = Keep
       /\ ~t.req.priority

\* Assignee must be an active member of the search; read without a lock.
Assignable(s, u) == u \in Users => IsMember(s, u) /\ users[u].active

-----------------------------------------------------------------------------
(* Requests.                                                               *)

\* auth: an active caller and the role it has now.
Arrive(s) ==
    /\ tx[s] = Idle
    /\ \E r \in Requests, u \in Users :
          /\ users[u].active
          /\ r.kind = "newSearch" => users[u].role \in ManagementRoles
          /\ tx' = [tx EXCEPT ![s] =
                [Idle EXCEPT !.at = "known", !.req = r, !.actor = u, !.role = users[u].role]]
    /\ UNCHANGED <<users, nextId, db>>

\* The access check through the pool, and BEGIN.  POST /searches and
\* PATCH /tasks have no access check here.
Begin(s) ==
    LET t == tx[s] IN
    /\ t.at = "known" /\ t.req.kind # "snapshot"
    /\ FreeConnection
    /\ t.req.kind \notin {"newSearch", "patchTask"} => Manages(t)
    /\ Goto(s, [t EXCEPT !.began = nextId], "begun")
    /\ UNCHANGED <<users, nextId, db>>

\* PATCH /tasks: the locking query finds the task in the statement's snapshot,
\* waits for its row, and reads it again once it has it.
FindTask(s) ==
    LET t == tx[s] IN
    /\ t.at = "begun" /\ t.req.kind = "patchTask"
    /\ Finds(t)
    /\ Goto(s, t, "found")
    /\ UNCHANGED <<users, nextId, db>>

LockTask(s) ==
    LET t == tx[s] IN
    /\ t.at = "found" /\ t.req.kind = "patchTask"
    /\ RowFree(s)
    /\ MayUpdate(t)
    /\ Goto(s, t, "locked")
    /\ UNCHANGED <<users, nextId, db>>

UpdateTask(s) ==
    LET t == tx[s] IN
    /\ t.at = "locked" /\ t.req.kind = "patchTask"
    /\ RowFree(s)
    /\ Assignable(tasks[t.req.task].search, t.req.user)
    /\ Goto(s, t, "written")
    /\ UNCHANGED <<users, nextId, db>>

\* POST /searches and POST .../tasks insert a row nobody else can see yet.
InsertNew(s) ==
    LET t == tx[s] IN
    /\ t.at = "begun"
    /\ \/ t.req.kind = "newSearch" /\ searches[t.req.search].status = Absent
       \/ /\ t.req.kind = "newTask" /\ tasks[t.req.task].status = Absent
          /\ Assignable(t.req.search, t.req.user)
    /\ RowFree(s)
    /\ Goto(s, t, "written")
    /\ UNCHANGED <<users, nextId, db>>

UpdateSearch(s) ==
    LET t == tx[s] IN
    /\ t.at = "begun" /\ t.req.kind = "patchSearch"
    /\ RowFree(s)
    /\ Goto(s, t, "written")
    /\ UNCHANGED <<users, nextId, db>>

\* POST .../members
ShareAccount(s) ==
    LET t == tx[s] IN
    /\ t.at = "begun" /\ t.req.kind = "addMember"
    /\ users[t.req.user].active
    /\ Goto(s, t, "locked")
    /\ UNCHANGED <<users, nextId, db>>

\* ON CONFLICT DO NOTHING waits for whoever is inserting or deleting the key.
InsertMember(s) ==
    LET t == tx[s] IN
    /\ t.at = "locked" /\ t.req.kind = "addMember"
    /\ RowFree(s)
    /\ IF IsMember(t.req.search, t.req.user) THEN End(s) ELSE Goto(s, t, "written")
    /\ UNCHANGED <<users, nextId, db>>

\* DELETE .../members/:userId removes the row its snapshot shows; when it had
\* to wait and that row is gone, it removes nothing.
FindMember(s) ==
    LET t == tx[s] IN
    /\ t.at = "begun" /\ t.req.kind = "removeMember"
    /\ LET version == members[<<t.req.search, t.req.user>>] IN
          IF version = 0 THEN End(s) ELSE Goto(s, [t EXCEPT !.seen = version], "found")
    /\ UNCHANGED <<users, nextId, db>>

DeleteMember(s) ==
    LET t == tx[s] IN
    /\ t.at = "found" /\ t.req.kind = "removeMember"
    /\ RowFree(s)
    /\ IF members[<<t.req.search, t.req.user>>] = t.seen THEN Goto(s, t, "written") ELSE End(s)
    /\ UNCHANGED <<users, nextId, db>>

-----------------------------------------------------------------------------
(* The timeline.                                                           *)

EventType(t) ==
    CASE t.req.kind = "newSearch" -> "SEARCH_CREATED"
      [] t.req.kind = "patchSearch" -> "SEARCH_UPDATED"
      [] t.req.kind = "addMember" -> "MEMBER_ADDED"
      [] t.req.kind = "removeMember" -> "MEMBER_REMOVED"
      [] t.req.kind = "newTask" -> "TASK_CREATED"
      [] t.req.kind = "patchTask" -> "TASK_UPDATED"
      [] t.req.kind = "note" -> "COORDINATOR_NOTE"

\* TASK_CREATED names the task and nothing else of it.
EventOf(t, id, at) ==
    [id |-> id, at |-> at, actor |-> t.actor, type |-> EventType(t),
     search |-> IF t.req.kind = "patchTask" THEN tasks[t.req.task].search ELSE t.req.search,
     task |-> t.req.task,
     user |-> IF t.req.kind = "newTask" THEN None ELSE t.req.user,
     status |-> t.req.status]

\* Mutant: the event goes through audit() on the pool, before the COMMIT.
LogOnPool(s) ==
    LET t == tx[s] IN
    /\ t.at = "written"
    /\ nextId <= MaxEvents
    /\ Goto(s, [t EXCEPT !.event = nextId], "logged")
    /\ events' = events \cup {EventOf(t, nextId, t.began)}
    /\ nextId' = nextId + 1
    /\ UNCHANGED <<users, searches, members, tasks>>

\* INSERT INTO events draws the id; the row appears with the commit.
Log(s) ==
    LET t == tx[s] IN
    /\ t.at = "written"
    /\ nextId <= MaxEvents
    /\ Goto(s, [t EXCEPT !.event = nextId], "logged")
    /\ nextId' = nextId + 1
    /\ UNCHANGED <<users, db>>

\* POST .../events: one statement on the pool, a transaction of its own.
Note(s) ==
    LET t == tx[s] IN
    /\ t.at = "begun" /\ t.req.kind = "note"
    /\ FreeConnection
    /\ nextId <= MaxEvents
    /\ events' = events \cup {EventOf(t, nextId, nextId)}
    /\ nextId' = nextId + 1
    /\ End(s)
    /\ UNCHANGED <<users, searches, members, tasks>>

-----------------------------------------------------------------------------
(* Commit.                                                                 *)

PatchedSearch(row, status) ==
    [status |-> IF status = Keep THEN row.status ELSE status,
     started |-> row.started \/ status = "ACTIVE",
     ended |-> status \in {"COMPLETED", "CANCELLED"} \/ (row.ended /\ status # "ACTIVE")]

\* Mutant: SET without CASE WHEN, so a field the body leaves out is overwritten.
OverwrittenTask(row, r) ==
    [row EXCEPT !.status = r.status, !.assignee = IF r.user = Keep THEN @ ELSE r.user,
                !.completed = r.status = "DONE"]

PatchedTask(row, r) ==
    [row EXCEPT !.status = IF r.status = Keep THEN @ ELSE r.status,
                !.assignee = IF r.user = Keep THEN @ ELSE r.user,
                !.completed = r.status = "DONE" \/ (@ /\ r.status = Keep)]

Publish(t) ==
    LET r == t.req IN
    /\ searches' =
          IF r.kind = "newSearch" THEN [searches EXCEPT ![r.search] = NewSearch]
          ELSE IF r.kind = "patchSearch"
               THEN [searches EXCEPT ![r.search] = PatchedSearch(@, r.status)]
          ELSE searches
    /\ members' =
          IF r.kind = "newSearch" THEN [members EXCEPT ![<<r.search, t.actor>>] = t.event]
          ELSE IF r.kind = "addMember"
               THEN [members EXCEPT ![<<r.search, r.user>>] = t.event]
          ELSE IF r.kind = "removeMember" THEN [members EXCEPT ![<<r.search, r.user>>] = 0]
          ELSE members
    /\ tasks' =
          IF r.kind = "newTask"
          THEN [tasks EXCEPT ![r.task] = [search |-> r.search, status |-> "OPEN",
                                          assignee |-> r.user, completed |-> FALSE]]
          ELSE IF r.kind = "patchTask" THEN [tasks EXCEPT ![r.task] = PatchedTask(@, r)]
          ELSE tasks

Commit(s) ==
    LET t == tx[s] IN
    /\ t.at = "logged"
    /\ Publish(t)
    /\ events' = events \cup {EventOf(t, t.event, t.began)}
    /\ End(s)
    /\ UNCHANGED <<users, nextId>>

\* Any check that refuses, any error, and a connection that breaks.
Fail(s) ==
    /\ tx[s] # Idle
    /\ End(s)
    /\ UNCHANGED <<users, nextId, db>>

-----------------------------------------------------------------------------
(* GET .../snapshot: REPEATABLE READ, so its first query, which is the      *)
(* access check, fixes what every section shows.                            *)

Connect(s) ==
    LET t == tx[s] IN
    /\ t.at = "known" /\ t.req.kind = "snapshot"
    /\ FreeConnection
    /\ Goto(s, t, "connected")
    /\ UNCHANGED <<users, nextId, db>>

\* Mutant: requireSearchAccess is not given the client and asks the pool for
\* another connection.
OnPool(s) == FreeConnection

OnClient(s) == s \in Holders

OpenSnapshot(s) ==
    LET t == tx[s] IN
    /\ t.at = "connected"
    /\ OnClient(s)
    /\ Accesses(t)
    /\ Goto(s, [t EXCEPT !.view = OfSearch(t.req.search)], "search")
    /\ UNCHANGED <<users, nextId, db>>

\* Mutant: BEGIN without an isolation level, hence READ COMMITTED.
CommittedNow(t) == OfSearch(t.req.search)

Visible(t) == t.view

SectionAfter == [search |-> "members", members |-> "tasks", tasks |-> "events",
                 events |-> "answered"]

\* ORDER BY created_at DESC LIMIT 200; which of equal times come first is open.
Newest(E) ==
    {F \in SUBSET E :
        /\ Cardinality(F) = IF Cardinality(E) < SnapshotLimit THEN Cardinality(E)
                                                              ELSE SnapshotLimit
        /\ \A e \in F, f \in E \ F : e.at >= f.at}

\* What a section's query may return.
Returned(t) == IF t.at = "events" THEN Newest(Visible(t).events) ELSE {Visible(t)[t.at]}

ReadSection(s) ==
    LET t == tx[s] IN
    /\ t.at \in DOMAIN SectionAfter
    /\ \E rows \in Returned(t) : Goto(s, [t EXCEPT !.read[t.at] = rows], SectionAfter[t.at])
    /\ UNCHANGED <<users, nextId, db>>

Answer(s) ==
    /\ tx[s].at = "answered"
    /\ End(s)
    /\ UNCHANGED <<users, nextId, db>>

-----------------------------------------------------------------------------
(* PATCH /users (module Accounts): it locks the account's row FOR UPDATE,   *)
(* so it waits for whoever shares or references it.                        *)

ChangeUser(u) ==
    /\ \A s \in Sessions : u \notin Referenced(tx[s])
    /\ \E r \in RoleChanges \cup {users[u].role}, a \in BOOLEAN :
          users' = [users EXCEPT ![u] = [role |-> r, active |-> a]]
    /\ UNCHANGED <<nextId, db, tx>>

Handle(s) ==
    \/ Arrive(s) \/ Begin(s) \/ Log(s) \/ Note(s) \/ Commit(s) \/ Fail(s)
    \/ FindTask(s) \/ LockTask(s) \/ UpdateTask(s)
    \/ InsertNew(s) \/ UpdateSearch(s)
    \/ ShareAccount(s) \/ InsertMember(s) \/ FindMember(s) \/ DeleteMember(s)
    \/ Connect(s) \/ OpenSnapshot(s) \/ ReadSection(s) \/ Answer(s)

Next == (\E s \in Sessions : Handle(s)) \/ (\E u \in Users : ChangeUser(u))

Spec == Init /\ [][Next]_vars

-----------------------------------------------------------------------------
(* What the timeline tells.                                                *)

Snapshot == [search: Search, members: SUBSET Users, tasks: [Tasks -> Task],
             events: SUBSET Event]

Steps == {"idle", "known", "connected", "begun", "found", "locked", "written", "logged",
          "answered"} \cup DOMAIN SectionAfter

\* The types of the variables.
TypeOK ==
    /\ users \in [Users -> User]
    /\ searches \in [Searches -> Search]
    /\ members \in [Searches \X Users -> 0..MaxEvents]
    /\ tasks \in [Tasks -> Task]
    /\ events \in SUBSET Event
    /\ nextId \in 1..(MaxEvents + 1)
    /\ tx \in [Sessions ->
          [at: Steps, req: Requests \cup {Nothing}, actor: Users \cup {None},
           role: Role \cup {None}, began: 0..(MaxEvents + 1), seen: 0..MaxEvents,
           event: 0..MaxEvents, view: Snapshot, read: Snapshot]]

\* The event of a set that comes last, by id or by the field a client sorts by.
Last(E, by) ==
    CHOOSE e \in E : \A f \in E : e[by] > f[by] \/ (e[by] = f[by] /\ e.id >= f.id)

Of(E, types) == {e \in E : e.type \in types}

SearchTold(x, by) ==
    LET Statuses == {e \in Of(x.events, {"SEARCH_UPDATED"}) : e.status # Keep}
        Turns == {e \in Statuses : e.status \in {"ACTIVE", "COMPLETED", "CANCELLED"}}
    IN  /\ x.search.status = IF Of(x.events, {"SEARCH_CREATED"}) = {} THEN Absent
                             ELSE IF Statuses = {} THEN "PLANNED"
                             ELSE Last(Statuses, by).status
        /\ x.search.started <=> \E e \in Statuses : e.status = "ACTIVE"
        /\ x.search.ended <=> Turns # {} /\ Last(Turns, by).status # "ACTIVE"

MembersTold(x, by) ==
    \A u \in Users :
        LET Moves == {e \in Of(x.events, {"MEMBER_ADDED", "MEMBER_REMOVED"}) : e.user = u}
                        \cup {e \in Of(x.events, {"SEARCH_CREATED"}) : e.actor = u}
        IN  u \in x.members <=> Moves # {} /\ Last(Moves, by).type # "MEMBER_REMOVED"

\* A task's first assignee is not in its timeline, its later ones are.
TasksTold(x, by) ==
    \A k \in Tasks :
        LET Mine == {e \in x.events : e.task = k}
            Statuses == {e \in Of(Mine, {"TASK_UPDATED"}) : e.status # Keep}
            Assignments == {e \in Of(Mine, {"TASK_UPDATED"}) : e.user # Keep}
        IN  /\ x.tasks[k].status = IF Of(Mine, {"TASK_CREATED"}) = {} THEN Absent
                                   ELSE IF Statuses = {} THEN "OPEN"
                                   ELSE Last(Statuses, by).status
            /\ Assignments # {} => x.tasks[k].assignee = Last(Assignments, by).user

Told(x, by) == SearchTold(x, by) /\ MembersTold(x, by) /\ TasksTold(x, by)

\* The timeline, read in the order of events.id, restores every search: its
\* status and whether it started and ended, who is a member, and each task's
\* status and assignee.  Each handler writes its row and its event in one
\* transaction and draws the event's id while it holds the row.
TimelineRestores == \A s \in Searches : Told(OfSearch(s), "id")

\* The same in the order of created_at, by which GET .../events and the
\* snapshot return the timeline.
TimelineRestoresByTime == \A s \in Searches : Told(OfSearch(s), "at")

\* An offline client's snapshot is of one moment, although it was read in four
\* queries: its rows are what some timeline of the search restores, of which it
\* returned the newest events.  With fewer than SnapshotLimit events returned
\* that timeline is the returned one (gps.ts 72-85).
SnapshotRestores ==
    \A s \in Sessions : LET t == tx[s] IN
        t.at = "answered" =>
            \E E \in SUBSET OfSearch(t.req.search).events :
                /\ t.read.events \in Newest(E)
                /\ Told([t.read EXCEPT !.events = E], "id")

\* No snapshot is given to a caller whom its own members section leaves out:
\* access was decided on the same moment the sections show.
SnapshotAuthorised ==
    \A s \in Sessions : LET t == tx[s] IN
        t.at = "answered" =>
            \/ t.role \in PrivilegedRoles
            \/ t.actor \in t.read.members
            \/ <<t.req.search, t.actor>> \in Partners

WaitsForRow(s) ==
    LET t == tx[s] IN
    /\ \/ t.at = "begun" /\ t.req.kind \in {"newSearch", "newTask", "patchSearch"}
       \/ t.at \in {"found", "locked"}
    /\ ~RowFree(s)

WaitsForConnection(s) == tx[s].at = "connected" /\ ~OnClient(s)

\* The pool has no time-out (config.ts 49): when all its connections are taken,
\* one of those who have them waits neither for a row nor for yet another
\* connection, so that a connection comes back and the others are served.
PoolNeverStarves ==
    ~FreeConnection => \E s \in Holders : ~WaitsForRow(s) /\ ~WaitsForConnection(s)

\* A task's update logged for a searcher is an update of a task that was that
\* searcher's when the update took effect, however many requests reassigned
\* it meanwhile.
SearchersUpdateTheirOwn ==
    [][\A s \in Sessions : LET t == tx[s] IN
          (/\ t.req.kind = "patchTask" /\ t.role \notin ManagementRoles
           /\ \E e \in events' \ events : e.id = t.event)
              => /\ t.role = "SEARCHER"
                 /\ tasks[t.req.task].assignee = t.actor
                 /\ tasks'[t.req.task].assignee = t.actor]_vars

\* Nobody is added to a search by an account that is no longer active when the
\* membership takes effect.
AddedWhileActive ==
    [][\A e \in events' \ events : e.type = "MEMBER_ADDED" => users[e.user].active]_vars

\* The tables as module SearchBoard knows them.
ActiveUsers == {u \in Users : users[u].active}
SearchStatuses == [k \in Searches |-> searches[k].status]
Memberships == {k \in Searches \X Users : members[k] # 0}
TaskRows == [k \in Tasks |-> [search |-> tasks[k].search, status |-> tasks[k].status,
                              assignee |-> tasks[k].assignee]]

Board == INSTANCE SearchBoard WITH
    Entry <- Event, active <- ActiveUsers, status <- SearchStatuses,
    members <- Memberships, tasks <- TaskRows, timeline <- events

\* However requests overlap, wait and fail, what is committed is a sequence of
\* legal changes, each together with its one event, whose id is later than those
\* of all that was told of the same row: nobody is added twice or while
\* switched off, nothing is removed or updated that is not there, and nothing
\* changes that the timeline does not tell.
ImplementsBoard == Board!Spec
=============================================================================
