---------------------------- MODULE SearchBoard ----------------------------
(***************************************************************************)
(* What the routes of searches, tasks and events promise together, without  *)
(* requests, transactions, locks or connections: searches with their members *)
(* and tasks, changed by one legal change at a time, each entered in the     *)
(* timeline in the same step and after what was entered of the same row.     *)
(***************************************************************************)
EXTENDS Naturals

CONSTANTS
    Searches, Users, Tasks,
    Entry,                      \* what the timeline may hold
    SearchStatus, TaskStatus,
    Nobody,                     \* no assignee
    Keep,                       \* what a change leaves as it is
    None,                       \* a field the entry does not have
    Absent                      \* the status of what does not exist

VARIABLES
    active,     \* the accounts that are switched on
    status,     \* of each search
    members,    \* pairs of a search and an account
    tasks,      \* search, status and assignee of each task
    timeline    \* the entries

vars == <<active, status, members, tasks, timeline>>

Init ==
    /\ active = Users
    /\ status = [s \in Searches |-> Absent]
    /\ members = {}
    /\ tasks = [k \in Tasks |-> [search |-> None, status |-> Absent, assignee |-> Nobody]]
    /\ timeline = {}

Subject(e) ==
    CASE e.type \in {"TASK_CREATED", "TASK_UPDATED"} -> <<"task", e.task>>
      [] e.type \in {"SEARCH_CREATED", "SEARCH_UPDATED"} -> <<"search", e.search>>
      [] e.type \in {"MEMBER_ADDED", "MEMBER_REMOVED"} -> <<"member", e.search, e.user>>
      [] OTHER -> <<"note", e.id>>

\* An entry follows the creation of its search and all that is told of its subject.
Enters(e) ==
    /\ e \in Entry
    /\ \A f \in timeline :
          /\ f.id # e.id
          /\ Subject(f) = Subject(e) => f.id < e.id
          /\ f.type = "SEARCH_CREATED" /\ f.search = e.search => f.id < e.id
    /\ timeline' = timeline \cup {e}

\* The changes that an entry e tells of.  Whoever creates a search is its
\* first member.
Create(e) ==
    /\ e.type = "SEARCH_CREATED" /\ status[e.search] = Absent
    /\ status' = [status EXCEPT ![e.search] = "PLANNED"]
    /\ members' = members \cup {<<e.search, e.actor>>}
    /\ UNCHANGED <<active, tasks>>

Change(e) ==
    /\ e.type = "SEARCH_UPDATED" /\ status[e.search] # Absent
    /\ e.status \in SearchStatus \cup {Keep}
    /\ status' = [status EXCEPT ![e.search] = IF e.status = Keep THEN @ ELSE e.status]
    /\ UNCHANGED <<active, members, tasks>>

\* Nobody is added who is a member or switched off, and nobody removed who is
\* no member.
Join(e) ==
    /\ e.type = "MEMBER_ADDED" /\ status[e.search] # Absent
    /\ e.user \in active /\ <<e.search, e.user>> \notin members
    /\ members' = members \cup {<<e.search, e.user>>}
    /\ UNCHANGED <<active, status, tasks>>

Leave(e) ==
    /\ e.type = "MEMBER_REMOVED" /\ <<e.search, e.user>> \in members
    /\ members' = members \ {<<e.search, e.user>>}
    /\ UNCHANGED <<active, status, tasks>>

\* The entry names a new task and tells nothing else of it.
AddTask(e) ==
    /\ e.type = "TASK_CREATED" /\ status[e.search] # Absent
    /\ e.task \in Tasks /\ tasks[e.task].status = Absent
    /\ \E a \in Users \cup {Nobody} :
          tasks' = [tasks EXCEPT ![e.task] =
                       [search |-> e.search, status |-> "OPEN", assignee |-> a]]
    /\ UNCHANGED <<active, status, members>>

UpdateTask(e) ==
    /\ e.type = "TASK_UPDATED" /\ e.task \in Tasks
    /\ tasks[e.task].status # Absent /\ tasks[e.task].search = e.search
    /\ e.status \in TaskStatus \cup {Keep} /\ e.user \in Users \cup {Nobody, Keep}
    /\ tasks' = [tasks EXCEPT ![e.task] =
                    [search |-> e.search,
                     status |-> IF e.status = Keep THEN @.status ELSE e.status,
                     assignee |-> IF e.user = Keep THEN @.assignee ELSE e.user]]
    /\ UNCHANGED <<active, status, members>>

Note(e) ==
    /\ e.type = "COORDINATOR_NOTE" /\ status[e.search] # Absent
    /\ UNCHANGED <<active, status, members, tasks>>

\* PATCH of an account, of which the timeline tells nothing.
Switch(u) ==
    /\ active' = IF u \in active THEN active \ {u} ELSE active \cup {u}
    /\ UNCHANGED <<status, members, tasks, timeline>>

\* A step enters one entry, the one the timeline then has more, and does what
\* it tells of; or it switches an account.
Next ==
    \/ \E e \in timeline' \ timeline :
          /\ Enters(e)
          /\ \/ Create(e) \/ Change(e) \/ Join(e) \/ Leave(e)
             \/ AddTask(e) \/ UpdateTask(e) \/ Note(e)
    \/ \E u \in Users : Switch(u)

Spec == Init /\ [][Next]_vars
=============================================================================
