-------------------------- MODULE OperationsProofs --------------------------
(***************************************************************************)
(* For any searches, users, tasks, sessions and pool: what Operations        *)
(* promises of concurrent requests.                                         *)
(***************************************************************************)
EXTENDS Operations, FiniteSetTheorems, TLAPS

Tx == [at: Steps, req: Requests \cup {Nothing}, actor: Users \cup {None},
       role: Role \cup {None}, began: 0..(MaxEvents + 1), seen: 0..MaxEvents,
       event: 0..MaxEvents, view: Snapshot, read: Snapshot]

Sections == {"search", "members", "tasks", "events"}

LEMMA StepsAre ==
  /\ Steps = {"idle", "known", "connected", "begun", "found", "locked", "written", "logged",
              "answered"} \cup Sections
  /\ DOMAIN SectionAfter = Sections
  BY DEF Steps, SectionAfter, Sections

\* What a session is doing fits how far it got.
Fits(t) ==
    /\ t.at = "idle" => t = Idle
    /\ t.at # "idle" => t.req \in Requests /\ t.actor \in Users /\ t.role \in Role
    /\ t.at = "found" => t.req.kind \in {"patchTask", "removeMember"}
    /\ t.at = "locked" => t.req.kind \in {"patchTask", "addMember"}
    /\ t.at \in {"written", "logged"} => t.req.kind \notin {"note", "snapshot"}
    /\ t.at \in Sections \cup {"connected", "answered"} => t.req.kind = "snapshot"
    /\ t.at \in {"begun", "found", "locked", "written", "logged"} => t.began > 0
    /\ IF t.at = "logged" THEN t.event \in 1..(nextId - 1) ELSE t.event = 0

\* A task that exists has its search; one that a request found exists.
Homes ==
    /\ \A k \in Tasks : tasks[k].status # Absent => tasks[k].search \in Searches
    /\ \A s \in Sessions :
          tx[s].req.kind = "patchTask" /\ tx[s].at \in {"found", "locked", "written", "logged"}
             => tasks[tx[s].req.task].status # Absent

Shape == TypeOK /\ Homes /\ \A s \in Sessions : Fits(tx[s])

\* A session that has its row locked is alone with it.
Exclusive ==
    \A r, s \in Sessions : r # s /\ HoldsRow(tx[r]) /\ HoldsRow(tx[s]) => Row(tx[r]) # Row(tx[s])

LEMMA TypeIsTx == TypeOK => tx \in [Sessions -> Tx]
  BY DEF TypeOK, Tx

LEMMA IdleIsTx == Idle \in Tx /\ Fits(Idle)
  BY LimitsAssumption
     DEF Idle, Tx, Fits, Steps, Sections, Unread, Snapshot, NoSearch, Search, SearchStatus, NoTask,
         Task, TaskStatus, Nothing

\* Where a session goes, the others stay.
LEMMA Goes ==
  ASSUME TypeOK, NEW s \in Sessions, NEW t \in Tx, NEW at \in Steps, Goto(s, t, at)
  PROVE  /\ tx' \in [Sessions -> Tx] /\ \A r \in Sessions \ {s} : tx'[r] = tx[r]
         /\ tx'[s].at = at /\ tx'[s].req = t.req /\ tx'[s].actor = t.actor
         /\ tx'[s].role = t.role /\ tx'[s].began = t.began /\ tx'[s].seen = t.seen
         /\ tx'[s].event = t.event /\ tx'[s].view = t.view /\ tx'[s].read = t.read
  <1>1. [t EXCEPT !.at = at] \in Tx
    BY DEF Tx
  <1>2. tx' = [tx EXCEPT ![s] = [t EXCEPT !.at = at]]
    BY DEF Goto
  <1>3. tx'[s] = [t EXCEPT !.at = at]
    BY <1>2, TypeIsTx
  <1> QED BY <1>1, <1>2, <1>3, TypeIsTx DEF Tx

LEMMA Ended ==
  ASSUME TypeOK, NEW s \in Sessions, End(s)
  PROVE  /\ tx' \in [Sessions -> Tx] /\ \A r \in Sessions \ {s} : tx'[r] = tx[r]
         /\ tx'[s] = Idle
  BY TypeIsTx, IdleIsTx DEF End

\* A step of one session that leaves the tables alone: it ends, or goes on
\* with its request.
Leaves(s) ==
    /\ tx' \in [Sessions -> Tx] /\ \A r \in Sessions \ {s} : tx'[r] = tx[r]
    /\ tx'[s] = Idle
    /\ UNCHANGED <<users, searches, members, tasks, events, nextId>>

Advances(s) ==
    /\ tx' \in [Sessions -> Tx] /\ \A r \in Sessions \ {s} : tx'[r] = tx[r]
    /\ tx[s].at # "idle"
    /\ tx'[s].req = tx[s].req /\ tx'[s].actor = tx[s].actor /\ tx'[s].role = tx[s].role
    /\ UNCHANGED <<users, searches, members, tasks, events>>

To(s, at) ==
    /\ Advances(s)
    /\ tx'[s].at = at /\ tx'[s].began = tx[s].began /\ tx'[s].event = tx[s].event
    /\ tx'[s].view = tx[s].view /\ tx'[s].read = tx[s].read
    /\ nextId' = nextId

Beginning(s) ==
    /\ Advances(s) /\ tx[s].at = "known" /\ tx[s].req.kind # "snapshot"
    /\ tx[s].req.kind \notin {"newSearch", "patchTask"} => Manages(tx[s])
    /\ tx'[s].at = "begun" /\ tx'[s].began = nextId /\ tx'[s].event = tx[s].event
    /\ nextId' = nextId

Logging(s) ==
    /\ Advances(s) /\ tx[s].at = "written" /\ tx'[s].at = "logged"
    /\ tx'[s].event = nextId /\ nextId \in 1..MaxEvents /\ tx'[s].began = tx[s].began
    /\ nextId' = nextId + 1

Arriving(s) ==
    /\ tx' \in [Sessions -> Tx] /\ \A r \in Sessions \ {s} : tx'[r] = tx[r]
    /\ tx[s] = Idle /\ tx'[s].at = "known" /\ tx'[s].req \in Requests
    /\ tx'[s].actor \in Users /\ tx'[s].role \in Role /\ tx'[s].event = 0
    /\ UNCHANGED <<users, searches, members, tasks, events, nextId>>

Opening(s) ==
    /\ Advances(s) /\ tx[s].at = "connected" /\ Accesses(tx[s])
    /\ tx'[s].at = "search" /\ tx'[s].view = OfSearch(tx[s].req.search)
    /\ tx'[s].event = tx[s].event /\ nextId' = nextId

Reading(s) ==
    /\ Advances(s) /\ tx[s].at \in Sections
    /\ tx'[s].at = SectionAfter[tx[s].at]
    /\ tx'[s].view = tx[s].view /\ tx'[s].event = tx[s].event /\ nextId' = nextId
    /\ \E rows \in Returned(tx[s]) : tx'[s].read = [tx[s].read EXCEPT ![tx[s].at] = rows]

LEMMA EndLeaves ==
  ASSUME TypeOK, NEW s \in Sessions, End(s), UNCHANGED <<users, nextId, db>>
  PROVE  Leaves(s)
  BY Ended DEF Leaves, db

LEMMA GotoAdvances ==
  ASSUME TypeOK, NEW s \in Sessions, NEW at \in Steps, tx[s].at # "idle", Goto(s, tx[s], at),
         UNCHANGED <<users, nextId, db>>
  PROVE  To(s, at)
  <1>1. tx[s] \in Tx
    BY TypeIsTx
  <1> QED BY <1>1, Goes DEF To, Advances, db

LEMMA Begins ==
  ASSUME TypeOK, NEW s \in Sessions, Begin(s)
  PROVE  Beginning(s)
  <1> DEFINE t == [tx[s] EXCEPT !.began = nextId]
  <1>1. tx[s] \in Tx /\ nextId \in 0..(MaxEvents + 1)
    BY TypeIsTx, LimitsAssumption DEF TypeOK
  <1>2. /\ t \in Tx /\ t.began = nextId /\ t.req = tx[s].req /\ t.actor = tx[s].actor
        /\ t.role = tx[s].role /\ t.event = tx[s].event
    BY <1>1 DEF Tx
  <1>3. /\ Goto(s, t, "begun") /\ UNCHANGED <<users, nextId, db>> /\ tx[s].at = "known"
        /\ tx[s].req.kind # "snapshot"
        /\ tx[s].req.kind \notin {"newSearch", "patchTask"} => Manages(tx[s])
    BY DEF Begin
  <1>4. "begun" \in Steps
    BY StepsAre
  <1> HIDE DEF t
  <1> QED BY <1>2, <1>3, <1>4, Goes DEF Advances, db, Beginning

LEMMA Logs ==
  ASSUME TypeOK, NEW s \in Sessions, Log(s)
  PROVE  Logging(s)
  <1> DEFINE t == [tx[s] EXCEPT !.event = nextId]
  <1>1. tx[s] \in Tx /\ nextId \in 0..MaxEvents /\ nextId \in 1..MaxEvents
    BY TypeIsTx, LimitsAssumption DEF TypeOK, Log
  <1>2. /\ t \in Tx /\ t.event = nextId /\ t.req = tx[s].req /\ t.actor = tx[s].actor
        /\ t.role = tx[s].role /\ t.began = tx[s].began
    BY <1>1 DEF Tx
  <1>3. /\ Goto(s, t, "logged") /\ UNCHANGED <<users, db>> /\ nextId' = nextId + 1
        /\ tx[s].at = "written"
    BY DEF Log
  <1>4. "logged" \in Steps
    BY StepsAre
  <1> HIDE DEF t
  <1> QED BY <1>1, <1>2, <1>3, <1>4, Goes DEF Advances, db, Logging

LEMMA ArrivesAs ==
  ASSUME TypeOK, NEW s \in Sessions, Arrive(s)
  PROVE  Arriving(s)
  <1>1. PICK q \in Requests, u \in Users :
           tx' = [tx EXCEPT ![s] =
              [Idle EXCEPT !.at = "known", !.req = q, !.actor = u, !.role = users[u].role]]
    BY DEF Arrive
  <1> DEFINE t == [Idle EXCEPT !.at = "known", !.req = q, !.actor = u, !.role = users[u].role]
  <1>2. "known" \in Steps /\ users[u].role \in Role
    BY StepsAre DEF TypeOK, User
  <1>3. /\ t \in Tx /\ t.at = "known" /\ t.req = q /\ t.actor = u /\ t.role = users[u].role
        /\ t.event = 0
    BY <1>2, IdleIsTx DEF Tx, Idle
  <1>4. tx' = [tx EXCEPT ![s] = t]
    BY <1>1
  <1> HIDE DEF t
  <1>5. tx' \in [Sessions -> Tx] /\ tx'[s] = t /\ \A r \in Sessions \ {s} : tx'[r] = tx[r]
    BY <1>3, <1>4, TypeIsTx
  <1> QED BY <1>2, <1>3, <1>5 DEF Arrive, db, Arriving

\* The fields a request has, by its kind.
LEMMA RequestIs ==
  ASSUME NEW q \in Requests
  PROVE  /\ q.kind \in {"newSearch", "snapshot", "patchSearch", "addMember", "removeMember",
                        "newTask", "patchTask", "note"}
         /\ q.kind # "patchTask" => q.search \in Searches
         /\ q.kind \in {"newTask", "patchTask"} => q.task \in Tasks
         /\ q.kind \notin {"newTask", "patchTask"} => q.task = None
         /\ q.kind \in {"addMember", "removeMember"} => q.user \in Users
         /\ q.kind = "newTask" => q.user \in Users \cup {Nobody}
         /\ q.kind = "patchTask" => q.user \in Users \cup {Nobody, Keep}
         /\ q.kind \in {"newSearch", "patchSearch", "note", "snapshot"} => q.user = None
         /\ q.kind = "patchSearch" => q.status \in SearchStatus \cup {Keep}
         /\ q.kind = "patchTask" => q.status \in TaskStatus \cup {Keep}
         /\ q.kind \notin {"patchSearch", "patchTask"} => q.status = Keep
  BY RequestsAssumption DEF Request

LEMMA OfSearchType ==
  ASSUME TypeOK, NEW k \in Searches
  PROVE  OfSearch(k) \in Snapshot
  <1>1. NoTask \in Task
    BY DEF NoTask, Task
  <1>2. searches[k] \in Search /\ \A j \in Tasks : tasks[j] \in Task
    BY DEF TypeOK
  <1>3. {u \in Users : IsMember(k, u)} \in SUBSET Users
    OBVIOUS
  <1>4. [j \in Tasks |-> IF tasks[j].search = k THEN tasks[j] ELSE NoTask] \in [Tasks -> Task]
    BY <1>1, <1>2
  <1>5. {e \in events : e.search = k} \in SUBSET Event
    BY DEF TypeOK
  <1> QED BY <1>2, <1>3, <1>4, <1>5 DEF OfSearch, Snapshot

LEMMA Opens ==
  ASSUME Shape, NEW s \in Sessions, OpenSnapshot(s)
  PROVE  Opening(s)
  <1> DEFINE view == OfSearch(tx[s].req.search)
             t == [tx[s] EXCEPT !.view = view]
  <1>1. tx[s] \in Tx /\ tx[s].at = "connected"
    BY TypeIsTx DEF Shape, OpenSnapshot
  <1>2. tx[s].req \in Requests /\ tx[s].req.kind = "snapshot"
    BY <1>1 DEF Shape, Fits
  <1>3. view \in Snapshot
    BY <1>2, RequestIs, OfSearchType DEF Shape
  <1>4. Goto(s, t, "search") /\ UNCHANGED <<users, nextId, db>> /\ Accesses(tx[s])
    BY DEF OpenSnapshot
  <1> HIDE DEF view
  <1>5. /\ t \in Tx /\ t.view = view /\ t.req = tx[s].req /\ t.actor = tx[s].actor
        /\ t.role = tx[s].role /\ t.event = tx[s].event
    BY <1>1, <1>3 DEF Tx
  <1>6. "search" \in Steps
    BY StepsAre DEF Sections
  <1> HIDE DEF t
  <1> QED BY <1>1, <1>4, <1>5, <1>6, Goes DEF Advances, Shape, db, view, Opening

LEMMA Reads ==
  ASSUME Shape, NEW s \in Sessions, ReadSection(s)
  PROVE  Reading(s)
  <1> DEFINE at == tx[s].at
  <1>0. PICK rows \in Returned(tx[s]) :
           /\ Goto(s, [tx[s] EXCEPT !.read[at] = rows], SectionAfter[at])
           /\ UNCHANGED <<users, nextId, db>>
    BY DEF ReadSection
  <1> DEFINE t == [tx[s] EXCEPT !.read[at] = rows]
             read == [tx[s].read EXCEPT ![at] = rows]
  <1>1. tx[s] \in Tx /\ at \in Sections
    BY TypeIsTx, StepsAre DEF Shape, ReadSection
  <1>2. read \in Snapshot
    <2>1. tx[s].read \in Snapshot /\ tx[s].view \in Snapshot
      BY <1>1 DEF Tx
    <2>2. CASE at = "events"
      <3>1. rows \in SUBSET Event
        BY <2>1, <2>2 DEF Returned, Newest, Visible, Snapshot
      <3> HIDE DEF at
      <3> QED BY <2>1, <2>2, <3>1 DEF Snapshot
    <2>3. CASE at # "events"
      <3>1. rows = tx[s].view[at]
        BY <2>3 DEF Returned, Visible
      <3> HIDE DEF at
      <3> QED BY <1>1, <2>1, <2>3, <3>1 DEF Snapshot, Sections
    <2> QED BY <2>2, <2>3
  <1>3. t = [tx[s] EXCEPT !.read = read]
    OBVIOUS
  <1>4. Goto(s, t, SectionAfter[at]) /\ UNCHANGED <<users, nextId, db>>
    BY <1>0
  <1>5. SectionAfter[at] \in Steps
    BY <1>1, StepsAre DEF Sections, SectionAfter
  <1> HIDE DEF read
  <1>6. /\ t \in Tx /\ t.read = read /\ t.view = tx[s].view /\ t.req = tx[s].req
        /\ t.actor = tx[s].actor /\ t.role = tx[s].role /\ t.event = tx[s].event
    BY <1>1, <1>2, <1>3 DEF Tx
  <1> HIDE DEF t
  <1>7. at # "idle"
    BY <1>1 DEF Sections
  <1>8. \E new \in Returned(tx[s]) : read = [tx[s].read EXCEPT ![tx[s].at] = new]
    BY <1>0 DEF read
  <1> QED BY <1>1, <1>4, <1>5, <1>6, <1>7, <1>8, Goes DEF Advances, Shape, db, Reading

\* Each step of a session that neither notes nor commits.
Quiet(s) ==
    \/ Arrive(s) \/ Begin(s) \/ Log(s) \/ Fail(s) \/ FindTask(s) \/ LockTask(s) \/ UpdateTask(s)
    \/ InsertNew(s) \/ UpdateSearch(s) \/ ShareAccount(s) \/ InsertMember(s) \/ FindMember(s)
    \/ DeleteMember(s) \/ Connect(s) \/ OpenSnapshot(s) \/ ReadSection(s) \/ Answer(s)

LEMMA HandleIs ==
  ASSUME NEW s \in Sessions
  PROVE  Handle(s) <=> Quiet(s) \/ Note(s) \/ Commit(s)
  BY DEF Handle, Quiet

\* The steps of a transaction up to its row: who finds, locks and writes it.
Finding(s) ==
    /\ tx[s].at = "begun" /\ To(s, "found") /\ tx[s].req.kind = "patchTask"
    /\ Finds(tx[s])

Seeing(s) ==
    /\ tx[s].at = "begun" /\ tx[s].req.kind = "removeMember"
    /\ Advances(s) /\ tx'[s].at = "found" /\ tx'[s].event = tx[s].event
    /\ tx'[s].began = tx[s].began /\ nextId' = nextId
    /\ tx'[s].seen = members[<<tx[s].req.search, tx[s].req.user>>] /\ tx'[s].seen # 0

Locking(s) ==
    /\ To(s, "locked")
    /\ \/ /\ tx[s].at = "found" /\ tx[s].req.kind = "patchTask"
          /\ RowFree(s) /\ MayUpdate(tx[s])
       \/ /\ tx[s].at = "begun" /\ tx[s].req.kind = "addMember"
          /\ users[tx[s].req.user].active

Writing(s) ==
    /\ To(s, "written") /\ RowFree(s)
    /\ \/ tx[s].at = "locked" /\ tx[s].req.kind = "patchTask"
       \/ /\ tx[s].at = "locked" /\ tx[s].req.kind = "addMember"
          /\ ~IsMember(tx[s].req.search, tx[s].req.user)
       \/ /\ tx[s].at = "found" /\ tx[s].req.kind = "removeMember"
          /\ members[<<tx[s].req.search, tx[s].req.user>>] = tx[s].seen
       \/ tx[s].at = "begun" /\ tx[s].req.kind = "patchSearch"
       \/ /\ tx[s].at = "begun" /\ tx[s].req.kind = "newSearch"
          /\ searches[tx[s].req.search].status = Absent
       \/ /\ tx[s].at = "begun" /\ tx[s].req.kind = "newTask"
          /\ tasks[tx[s].req.task].status = Absent

LEMMA Sees ==
  ASSUME Shape, NEW s \in Sessions, FindMember(s)
  PROVE  Leaves(s) \/ Seeing(s)
  <1> DEFINE version == members[<<tx[s].req.search, tx[s].req.user>>]
             t == [tx[s] EXCEPT !.seen = version]
  <1>0. TypeOK /\ tx[s].at = "begun" /\ tx[s].req.kind = "removeMember"
    BY DEF FindMember, Shape
  <1>1. CASE version = 0
    BY <1>0, <1>1, EndLeaves DEF FindMember
  <1>2. CASE version # 0 /\ version \in 0..MaxEvents
    <2>1. tx[s] \in Tx
      BY <1>0, TypeIsTx
    <2>2. /\ tx[s].at = "begun" /\ tx[s].req.kind = "removeMember"
          /\ Goto(s, t, "found") /\ UNCHANGED <<users, nextId, db>>
      BY <1>2 DEF FindMember
    <2>3. /\ t \in Tx /\ t.seen = version /\ t.req = tx[s].req /\ t.actor = tx[s].actor
          /\ t.role = tx[s].role /\ t.event = tx[s].event /\ t.began = tx[s].began
      BY <1>2, <2>1 DEF Tx
    <2>4. "found" \in Steps
      BY StepsAre
    <2> HIDE DEF t
    <2> QED BY <1>0, <1>2, <2>2, <2>3, <2>4, Goes DEF Advances, Seeing, db
  <1>3. version \in 0..MaxEvents
    <2>1. tx[s].req \in Requests
      BY <1>0 DEF Shape, Fits
    <2>2. <<tx[s].req.search, tx[s].req.user>> \in Searches \X Users
      BY <1>0, <2>1, RequestIs
    <2> QED BY <1>0, <2>2 DEF TypeOK
  <1> QED BY <1>1, <1>2, <1>3

LEMMA QuietIs ==
  ASSUME Shape, NEW s \in Sessions, Quiet(s)
  PROVE  \/ Leaves(s) \/ Arriving(s) \/ Beginning(s) \/ Finding(s) \/ Seeing(s) \/ Locking(s)
         \/ Writing(s) \/ Logging(s)
         \/ tx[s].at = "known" /\ tx[s].req.kind = "snapshot" /\ To(s, "connected")
         \/ Opening(s) \/ Reading(s)
  <1>0. TypeOK /\ {"found", "locked", "written", "connected"} \subseteq Steps
    BY StepsAre DEF Shape
  <1>1. CASE Arrive(s) BY <1>0, <1>1, ArrivesAs
  <1>2. CASE Begin(s) BY <1>0, <1>2, Begins
  <1>3. CASE Log(s) BY <1>0, <1>3, Logs
  <1>4. CASE Fail(s) BY <1>0, <1>4, EndLeaves DEF Fail
  <1>5. CASE FindTask(s) BY <1>0, <1>5, GotoAdvances DEF FindTask, Finding
  <1>6. CASE LockTask(s) BY <1>0, <1>6, GotoAdvances DEF LockTask, Locking
  <1>7. CASE UpdateTask(s) BY <1>0, <1>7, GotoAdvances DEF UpdateTask, Writing
  <1>8. CASE InsertNew(s) BY <1>0, <1>8, GotoAdvances DEF InsertNew, Writing
  <1>9. CASE UpdateSearch(s) BY <1>0, <1>9, GotoAdvances DEF UpdateSearch, Writing
  <1>10. CASE ShareAccount(s) BY <1>0, <1>10, GotoAdvances DEF ShareAccount, Locking
  <1>11. CASE InsertMember(s)
    BY <1>0, <1>11, GotoAdvances, EndLeaves DEF InsertMember, Writing
  <1>12. CASE FindMember(s) BY <1>12, Sees
  <1>13. CASE DeleteMember(s)
    BY <1>0, <1>13, GotoAdvances, EndLeaves DEF DeleteMember, Writing
  <1>14. CASE Connect(s) BY <1>0, <1>14, GotoAdvances DEF Connect
  <1>15. CASE OpenSnapshot(s) BY <1>15, Opens
  <1>16. CASE ReadSection(s) BY <1>16, Reads
  <1>17. CASE Answer(s) BY <1>0, <1>17, EndLeaves DEF Answer
  <1> QED BY <1>1, <1>2, <1>3, <1>4, <1>5, <1>6, <1>7, <1>8, <1>9, <1>10, <1>11, <1>12, <1>13,
             <1>14, <1>15, <1>16, <1>17 DEF Quiet

\* In each of them the tables stay, and so do the other sessions.
LEMMA QuietKeeps ==
  ASSUME Shape, NEW s \in Sessions, Quiet(s)
  PROVE  /\ tx' \in [Sessions -> Tx] /\ \A r \in Sessions \ {s} : tx'[r] = tx[r]
         /\ UNCHANGED <<users, searches, members, tasks, events>>
         /\ nextId' = nextId \/ (nextId' = nextId + 1 /\ nextId <= MaxEvents)
  <1>1. CASE Leaves(s) \/ Arriving(s) BY <1>1 DEF Leaves, Arriving
  <1>2. CASE Beginning(s) \/ Seeing(s) \/ Opening(s) \/ Reading(s)
    BY <1>2 DEF Beginning, Seeing, Opening, Reading, Advances
  <1>3. CASE Logging(s) BY <1>3 DEF Logging, Advances
  <1>4. ASSUME NEW at, To(s, at)
        PROVE  /\ tx' \in [Sessions -> Tx] /\ \A r \in Sessions \ {s} : tx'[r] = tx[r]
               /\ UNCHANGED <<users, searches, members, tasks, events>>
               /\ nextId' = nextId
    BY <1>4 DEF To, Advances
  <1>5. CASE Finding(s) BY <1>4, <1>5 DEF Finding
  <1>6. CASE Locking(s) BY <1>4, <1>6 DEF Locking
  <1>7. CASE Writing(s) BY <1>4, <1>7 DEF Writing
  <1> QED BY <1>1, <1>2, <1>3, <1>4, <1>5, <1>6, <1>7, QuietIs

LEMMA ShapeQuiet ==
  ASSUME Shape, NEW s \in Sessions, Quiet(s)
  PROVE  Shape'
  <1>0. TypeOK /\ nextId \in 1..(MaxEvents + 1) /\ MaxEvents \in Nat /\ Fits(tx[s])
    BY LimitsAssumption DEF Shape, TypeOK
  <1>1. /\ tx' \in [Sessions -> Tx] /\ \A r \in Sessions \ {s} : tx'[r] = tx[r]
        /\ UNCHANGED <<users, searches, members, tasks, events>>
        /\ nextId' = nextId \/ (nextId' = nextId + 1 /\ nextId <= MaxEvents)
    BY <1>0, QuietKeeps
  <1>2. TypeOK'
    <2>1. nextId' \in 1..(MaxEvents + 1)
      BY <1>0, <1>1
    <2> QED BY <1>0, <1>1, <2>1 DEF TypeOK, Tx
  <1>3. Fits(tx[s])'
    <2> USE DEF Fits, Sections
    <2>1. CASE Leaves(s) BY <2>1, IdleIsTx DEF Leaves, Idle
    <2>2. CASE Arriving(s) BY <2>2 DEF Arriving
    <2>3. CASE Beginning(s) BY <1>0, <2>3 DEF Beginning, Advances
    <2>4. CASE Finding(s) \/ Seeing(s)
      BY <1>0, <2>4 DEF Finding, Seeing, To, Advances
    <2>5. CASE Locking(s) BY <1>0, <2>5 DEF Locking, To, Advances
    <2>6. CASE Writing(s) BY <1>0, <2>6 DEF Writing, To, Advances
    <2>7. CASE Logging(s) BY <1>0, <2>7 DEF Logging, Advances
    <2>8. CASE tx[s].at = "known" /\ tx[s].req.kind = "snapshot" /\ To(s, "connected")
      BY <1>0, <2>8 DEF To, Advances
    <2>9. CASE Opening(s) BY <1>0, <2>9 DEF Opening, Advances
    <2>10. CASE Reading(s) BY <1>0, <2>10 DEF Reading, Advances, SectionAfter
    <2> HIDE DEF Fits
    <2> QED BY <2>1, <2>2, <2>3, <2>4, <2>5, <2>6, <2>7, <2>8, <2>9, <2>10, QuietIs
  <1>4. ASSUME NEW r \in Sessions \ {s}
        PROVE  Fits(tx[r])'
    <2>1. tx'[r] = tx[r] /\ Fits(tx[r])
      BY <1>1 DEF Shape
    <2>2. 1..(nextId - 1) \subseteq 1..(nextId' - 1)
      BY <1>0, <1>1
    <2> QED BY <2>1, <2>2 DEF Fits
  <1>5. Homes'
    <2>1. \A r \in Sessions \ {s} : tx'[r] = tx[r]
      BY <1>1
    <2>2. tx'[s].req.kind = "patchTask" /\ tx'[s].at \in {"found", "locked", "written", "logged"}
             => tasks[tx'[s].req.task].status # Absent
      <3> USE DEF Shape, Homes, Fits
      <3>1. CASE Leaves(s) BY <3>1 DEF Leaves, Idle
      <3>2. CASE Arriving(s) BY <3>2 DEF Arriving
      <3>3. CASE Beginning(s) BY <3>3 DEF Beginning
      <3>4. CASE Finding(s) BY <3>4 DEF Finding, To, Advances, Finds
      <3>5. CASE Seeing(s) BY <3>5 DEF Seeing, Advances
      <3>6. CASE Locking(s) BY <3>6 DEF Locking, To, Advances
      <3>7. CASE Writing(s) BY <3>7 DEF Writing, To, Advances
      <3>8. CASE Logging(s) BY <3>8 DEF Logging, Advances
      <3>9. CASE tx[s].at = "known" /\ tx[s].req.kind = "snapshot" /\ To(s, "connected")
        BY <3>9 DEF To, Advances
      <3>10. CASE Opening(s) BY <3>10 DEF Opening
      <3>11. CASE Reading(s) BY <3>11 DEF Reading, SectionAfter, Sections
      <3> HIDE DEF Homes, Fits, Shape
      <3> QED BY <3>1, <3>2, <3>3, <3>4, <3>5, <3>6, <3>7, <3>8, <3>9, <3>10, <3>11, QuietIs
    <2> QED BY <1>1, <2>1, <2>2 DEF Shape, Homes
  <1> QED BY <1>2, <1>3, <1>4, <1>5 DEF Shape

\* The rows a request leaves.
LEMMA PatchedSearchType ==
  ASSUME NEW row \in Search, NEW status \in SearchStatus \cup {Keep}
  PROVE  /\ PatchedSearch(row, status) \in Search
         /\ PatchedSearch(row, status).status = IF status = Keep THEN row.status ELSE status
  BY DEF PatchedSearch, Search

LEMMA PatchedTaskIs ==
  ASSUME NEW row \in Task, NEW q, q.user \in Users \cup {Nobody, Keep},
         q.status \in TaskStatus \cup {Keep}
  PROVE  /\ PatchedTask(row, q) \in Task
         /\ PatchedTask(row, q).search = row.search
         /\ PatchedTask(row, q).status = IF q.status = Keep THEN row.status ELSE q.status
         /\ PatchedTask(row, q).assignee = IF q.user = Keep THEN row.assignee ELSE q.user
  BY NamesAssumption DEF PatchedTask, Task

\* What a commit does to the tables, by the kind of its request.
Publishing(s) == LET q == tx[s].req IN
    /\ tx[s].at = "logged"
    /\ tx' \in [Sessions -> Tx] /\ \A r \in Sessions \ {s} : tx'[r] = tx[r]
    /\ tx'[s] = Idle
    /\ users' = users /\ nextId' = nextId
    /\ events' = events \cup {EventOf(tx[s], tx[s].event, tx[s].began)}
    /\ q.kind \notin {"newSearch", "patchSearch"} => searches' = searches
    /\ q.kind = "newSearch" => searches' = [searches EXCEPT ![q.search] = NewSearch]
    /\ q.kind = "patchSearch" =>
          searches' = [searches EXCEPT ![q.search] = PatchedSearch(@, q.status)]
    /\ q.kind \notin {"newSearch", "addMember", "removeMember"} => members' = members
    /\ q.kind = "newSearch" =>
          members' = [members EXCEPT ![<<q.search, tx[s].actor>>] = tx[s].event]
    /\ q.kind = "addMember" =>
          members' = [members EXCEPT ![<<q.search, q.user>>] = tx[s].event]
    /\ q.kind = "removeMember" => members' = [members EXCEPT ![<<q.search, q.user>>] = 0]
    /\ q.kind \notin {"newTask", "patchTask"} => tasks' = tasks
    /\ q.kind = "newTask" =>
          tasks' = [tasks EXCEPT ![q.task] = [search |-> q.search, status |-> "OPEN",
                                              assignee |-> q.user, completed |-> FALSE]]
    /\ q.kind = "patchTask" => tasks' = [tasks EXCEPT ![q.task] = PatchedTask(@, q)]

LEMMA Commits ==
  ASSUME Shape, NEW s \in Sessions, Commit(s)
  PROVE  Publishing(s)
  <1>1. /\ tx[s].at = "logged" /\ Publish(tx[s]) /\ End(s) /\ users' = users /\ nextId' = nextId
        /\ events' = events \cup {EventOf(tx[s], tx[s].event, tx[s].began)}
    BY DEF Commit
  <1>2. /\ tx' \in [Sessions -> Tx] /\ \A r \in Sessions \ {s} : tx'[r] = tx[r]
        /\ tx'[s] = Idle
    BY <1>1, Ended DEF Shape
  <1> HIDE DEF Commit
  <1> QED BY <1>1, <1>2 DEF Publishing, Publish

LEMMA LoggedIs ==
  ASSUME Shape, NEW s \in Sessions, tx[s].at = "logged"
  PROVE  /\ tx[s] \in Tx /\ tx[s].req \in Requests /\ tx[s].actor \in Users
         /\ tx[s].req.kind \in {"newSearch", "patchSearch", "addMember", "removeMember",
                                "newTask", "patchTask"}
         /\ tx[s].event \in 1..MaxEvents /\ tx[s].event < nextId
         /\ tx[s].began \in 1..(MaxEvents + 1)
  <1>1. tx[s] \in Tx /\ Fits(tx[s]) /\ nextId \in 1..(MaxEvents + 1)
    BY TypeIsTx DEF Shape, TypeOK
  <1>2. tx[s].req \in Requests /\ tx[s].req.kind \notin {"note", "snapshot"}
    BY <1>1 DEF Fits
  <1>3. tx[s].began \in 1..(MaxEvents + 1)
    BY <1>1 DEF Fits, Tx
  <1>4. tx[s].event \in 1..MaxEvents /\ tx[s].event < nextId
    BY <1>1, LimitsAssumption DEF Fits
  <1> QED BY <1>1, <1>2, <1>3, <1>4, RequestIs DEF Fits

LEMMA EventType1 ==
  ASSUME Shape, NEW t, t.req \in Requests, t.req.kind # "snapshot", t.actor \in Users,
         t.req.kind = "patchTask" => tasks[t.req.task].search \in Searches,
         NEW id \in 1..MaxEvents, NEW at \in 1..(MaxEvents + 1)
  PROVE  EventOf(t, id, at) \in Event
  <1>1. EventType(t) \in {"SEARCH_CREATED", "SEARCH_UPDATED", "MEMBER_ADDED", "MEMBER_REMOVED",
                          "TASK_CREATED", "TASK_UPDATED", "COORDINATOR_NOTE"}
    BY RequestIs DEF EventType
  <1>2. (IF t.req.kind = "patchTask" THEN tasks[t.req.task].search ELSE t.req.search) \in Searches
    BY RequestIs
  <1>3. t.req.task \in Tasks \cup {None}
    BY RequestIs
  <1>4. (IF t.req.kind = "newTask" THEN None ELSE t.req.user) \in Users \cup {Nobody, Keep, None}
    BY RequestIs
  <1>5. t.req.status \in SearchStatus \cup TaskStatus \cup {Keep}
    BY RequestIs
  <1> QED BY <1>1, <1>2, <1>3, <1>4, <1>5 DEF EventOf, Event

LEMMA ShapeCommit ==
  ASSUME Shape, NEW s \in Sessions, Commit(s)
  PROVE  Shape'
  <1> DEFINE q == tx[s].req
  <1>1. Publishing(s)
    BY Commits
  <1>2. /\ q \in Requests /\ tx[s].actor \in Users /\ tx[s].event \in 1..MaxEvents
        /\ q.kind \in {"newSearch", "patchSearch", "addMember", "removeMember",
                       "newTask", "patchTask"}
        /\ tx[s].began \in 1..(MaxEvents + 1) /\ tx[s].event \in 0..MaxEvents
    BY <1>1, LoggedIs, LimitsAssumption DEF Publishing
  <1>3. /\ q.kind # "patchTask" => q.search \in Searches
        /\ q.kind \in {"newTask", "patchTask"} => q.task \in Tasks
        /\ q.kind \in {"addMember", "removeMember"} => q.user \in Users
        /\ q.kind = "newTask" => q.user \in Users \cup {Nobody}
        /\ q.kind = "patchTask" => q.user \in Users \cup {Nobody, Keep}
        /\ q.kind = "patchSearch" => q.status \in SearchStatus \cup {Keep}
        /\ q.kind = "patchTask" => q.status \in TaskStatus \cup {Keep}
    BY <1>2, RequestIs
  <1>4. q.kind = "patchTask" => tasks[q.task].status # Absent /\ tasks[q.task].search \in Searches
    BY <1>1, <1>3 DEF Publishing, Shape, Homes
  <1>5. searches' \in [Searches -> Search]
    <2>1. NewSearch \in Search
      BY DEF NewSearch, Search, SearchStatus
    <2>2. CASE q.kind = "patchSearch"
      <3>1. PatchedSearch(searches[q.search], q.status) \in Search
        BY <1>3, <2>2, PatchedSearchType DEF Shape, TypeOK
      <3> QED BY <1>1, <2>2, <3>1 DEF Publishing, Shape, TypeOK
    <2> QED BY <1>1, <2>1, <2>2 DEF Publishing, Shape, TypeOK
  <1>6. members' \in [Searches \X Users -> 0..MaxEvents]
    <2>1. members \in [Searches \X Users -> 0..MaxEvents] /\ 0 \in 0..MaxEvents
      BY LimitsAssumption DEF Shape, TypeOK
    <2> QED BY <1>1, <1>2, <2>1 DEF Publishing
  <1>7. /\ tasks' \in [Tasks -> Task]
        /\ \A k \in Tasks : tasks'[k].status # Absent => tasks'[k].search \in Searches
        /\ \A k \in Tasks : tasks[k].status # Absent => tasks'[k].status # Absent
    <2>1. CASE q.kind = "newTask"
      <3> DEFINE row == [search |-> q.search, status |-> "OPEN", assignee |-> q.user,
                         completed |-> FALSE]
      <3>1. row \in Task /\ row.search \in Searches /\ row.status # Absent
        BY <1>3, <2>1 DEF Task, TaskStatus, Absent
      <3>2. tasks' = [tasks EXCEPT ![q.task] = row]
        BY <1>1, <2>1 DEF Publishing
      <3> HIDE DEF row
      <3> QED BY <1>3, <2>1, <3>1, <3>2 DEF Shape, TypeOK, Homes
    <2>2. CASE q.kind = "patchTask"
      <3> DEFINE row == PatchedTask(tasks[q.task], q)
      <3>1. row \in Task /\ row.search \in Searches /\ row.status # Absent
        <4>1. tasks[q.task] \in Task
          BY <1>3, <2>2 DEF Shape, TypeOK
        <4>2. /\ PatchedTask(tasks[q.task], q) \in Task
              /\ PatchedTask(tasks[q.task], q).search = tasks[q.task].search
              /\ PatchedTask(tasks[q.task], q).status =
                    IF q.status = Keep THEN tasks[q.task].status ELSE q.status
          BY <1>3, <2>2, <4>1, PatchedTaskIs
        <4> QED BY <1>3, <1>4, <2>2, <4>2 DEF TaskStatus, Absent, Keep
      <3>2. tasks' = [tasks EXCEPT ![q.task] = row]
        BY <1>1, <2>2 DEF Publishing
      <3> HIDE DEF row
      <3> QED BY <1>3, <2>2, <3>1, <3>2 DEF Shape, TypeOK, Homes
    <2>3. CASE q.kind \notin {"newTask", "patchTask"}
      BY <1>1, <2>3 DEF Publishing, Shape, TypeOK, Homes
    <2> QED BY <2>1, <2>2, <2>3
  <1>8. events' \in SUBSET Event
    <2>1. EventOf(tx[s], tx[s].event, tx[s].began) \in Event
      BY <1>2, <1>4, EventType1
    <2> QED BY <1>1, <2>1 DEF Publishing, Shape, TypeOK
  <1>9. /\ tx' \in [Sessions -> Tx] /\ \A r \in Sessions \ {s} : tx'[r] = tx[r]
        /\ tx'[s] = Idle /\ users' = users /\ nextId' = nextId
    BY <1>1 DEF Publishing
  <1>10. TypeOK'
    BY <1>5, <1>6, <1>7, <1>8, <1>9 DEF Shape, TypeOK, Tx
  <1>11. \A r \in Sessions : Fits(tx[r])'
    BY <1>9, IdleIsTx DEF Shape, Fits, Idle
  <1>12. Homes'
    <2>1. ASSUME NEW r \in Sessions, tx'[r].req.kind = "patchTask",
                 tx'[r].at \in {"found", "locked", "written", "logged"}
          PROVE  tasks'[tx'[r].req.task].status # Absent
      <3>1. r # s /\ tx'[r] = tx[r]
        BY <1>9, <2>1 DEF Idle
      <3>2. tx[r].req \in Requests /\ tx[r].req.task \in Tasks
        BY <2>1, <3>1, RequestIs DEF Shape, Fits
      <3> QED BY <1>7, <2>1, <3>1, <3>2 DEF Shape, Homes
    <2> QED BY <1>7, <2>1 DEF Homes
  <1> QED BY <1>10, <1>11, <1>12 DEF Shape

Noting(s) ==
    /\ tx[s].at = "begun" /\ tx[s].req.kind = "note" /\ nextId <= MaxEvents
    /\ tx' \in [Sessions -> Tx] /\ \A r \in Sessions \ {s} : tx'[r] = tx[r]
    /\ tx'[s] = Idle
    /\ UNCHANGED <<users, searches, members, tasks>>
    /\ nextId' = nextId + 1 /\ events' = events \cup {EventOf(tx[s], nextId, nextId)}

LEMMA Notes ==
  ASSUME Shape, NEW s \in Sessions, Note(s)
  PROVE  Noting(s)
  BY Ended DEF Note, Noting, Shape

LEMMA ShapeNote ==
  ASSUME Shape, NEW s \in Sessions, Note(s)
  PROVE  Shape'
  <1>1. Noting(s) /\ nextId \in 1..(MaxEvents + 1) /\ MaxEvents \in Nat
    BY Notes, LimitsAssumption DEF Shape, TypeOK
  <1>2. tx[s].req \in Requests /\ tx[s].actor \in Users /\ nextId \in 1..MaxEvents
    BY <1>1 DEF Noting, Shape, Fits
  <1>3. EventOf(tx[s], nextId, nextId) \in Event
    BY <1>1, <1>2, EventType1 DEF Noting
  <1>4. /\ tx' \in [Sessions -> Tx] /\ \A r \in Sessions \ {s} : tx'[r] = tx[r]
        /\ tx'[s] = Idle /\ UNCHANGED <<users, searches, members, tasks>> /\ nextId' = nextId + 1
    BY <1>1 DEF Noting
  <1>5. events' \in SUBSET Event
    BY <1>1, <1>3 DEF Noting, Shape, TypeOK
  <1>6. nextId' \in 1..(MaxEvents + 1)
    BY <1>1, <1>2, <1>4
  <1>7. TypeOK'
    BY <1>4, <1>5, <1>6 DEF Shape, TypeOK, Tx
  <1>8. \A r \in Sessions : Fits(tx[r])'
    <2>1. 1..(nextId - 1) \subseteq 1..(nextId' - 1)
      BY <1>1, <1>4
    <2>2. Fits(tx[s])'
      BY <1>4, IdleIsTx DEF Fits, Idle
    <2>3. ASSUME NEW r \in Sessions \ {s} PROVE Fits(tx[r])'
      <3>1. tx'[r] = tx[r] /\ Fits(tx[r])
        BY <1>4 DEF Shape
      <3> QED BY <2>1, <3>1 DEF Fits
    <2> QED BY <2>2, <2>3
  <1>9. Homes'
    BY <1>4 DEF Shape, Homes, Idle
  <1> QED BY <1>7, <1>8, <1>9 DEF Shape

LEMMA ShapeInit == Init => Shape
  <1> SUFFICES ASSUME Init PROVE Shape
    OBVIOUS
  <1> USE DEF Init
  <1>1. TypeOK
    <2>1. NoSearch \in Search /\ NoTask \in Task
      BY DEF NoSearch, Search, NoTask, Task
    <2>2. users \in [Users -> User]
      BY RolesAssumption DEF User
    <2>3. /\ members \in [Searches \X Users -> 0..MaxEvents] /\ events \in SUBSET Event
          /\ nextId \in 1..(MaxEvents + 1)
      BY LimitsAssumption
    <2>4. tx \in [Sessions -> Tx]
      BY IdleIsTx
    <2> QED BY <2>1, <2>2, <2>3, <2>4 DEF TypeOK, Tx
  <1>2. \A s \in Sessions : Fits(tx[s])
    BY IdleIsTx
  <1>3. Homes
    BY DEF Homes, NoTask, Idle
  <1> QED BY <1>1, <1>2, <1>3 DEF Shape

LEMMA ShapeUsers ==
  ASSUME Shape, \E u \in Users : ChangeUser(u)
  PROVE  Shape' /\ UNCHANGED <<searches, members, tasks, events, nextId, tx>>
  <1>1. UNCHANGED <<searches, members, tasks, events, nextId, tx>>
    BY DEF ChangeUser, db
  <1>2. users' \in [Users -> User]
    BY RolesAssumption DEF ChangeUser, User, Shape, TypeOK
  <1> QED BY <1>1, <1>2 DEF Shape, TypeOK, Homes, Fits

LEMMA ShapeNext ==
  ASSUME Shape, [Next]_vars
  PROVE  Shape'
  <1>1. CASE UNCHANGED vars
    BY <1>1 DEF vars, Shape, TypeOK, Homes, Fits
  <1>2. CASE \E s \in Sessions : Handle(s)
    BY <1>2, HandleIs, ShapeQuiet, ShapeNote, ShapeCommit
  <1>3. CASE \E u \in Users : ChangeUser(u)
    BY <1>3, ShapeUsers
  <1> QED BY <1>1, <1>2, <1>3 DEF Next
-----------------------------------------------------------------------------
(***************************************************************************)
(* Locks, and what was decided under them.                                  *)
(***************************************************************************)
\* A session that holds its row got it free, and keeps its request.
LEMMA HoldsAfter ==
  ASSUME Shape, NEW s \in Sessions, Handle(s), HoldsRow(tx[s])'
  PROVE  /\ tx'[s].req = tx[s].req /\ tx'[s].actor = tx[s].actor /\ tx'[s].role = tx[s].role
         /\ HoldsRow(tx[s]) \/ RowFree(s)
  <1> USE DEF HoldsRow
  <1>1. CASE Quiet(s)
    <2>1. CASE Leaves(s) BY <2>1 DEF Leaves, Idle
    <2>2. CASE Arriving(s) BY <2>2 DEF Arriving
    <2>3. CASE Beginning(s) BY <2>3 DEF Beginning
    <2>4. CASE Finding(s) BY <2>4 DEF Finding, To
    <2>5. CASE Seeing(s) BY <2>5 DEF Seeing
    <2>6. CASE Locking(s) BY <2>6 DEF Locking, To, Advances
    <2>7. CASE Writing(s) BY <2>7 DEF Writing, To, Advances
    <2>8. CASE Logging(s) BY <2>8 DEF Logging, Advances
    <2>9. CASE To(s, "connected") BY <2>9 DEF To
    <2>10. CASE Opening(s) BY <2>10 DEF Opening
    <2>11. CASE Reading(s) BY <2>11 DEF Reading, SectionAfter, Sections
    <2> HIDE DEF HoldsRow
    <2> QED BY <1>1, <2>1, <2>2, <2>3, <2>4, <2>5, <2>6, <2>7, <2>8, <2>9, <2>10, <2>11, QuietIs
  <1>2. CASE Note(s) \/ Commit(s)
    <2>1. tx'[s] = Idle
      BY <1>2, Notes, Commits DEF Noting, Publishing
    <2> QED BY <2>1 DEF Idle
  <1> QED BY <1>1, <1>2, HandleIs

\* A step of one session leaves the others where they are.
LEMMA OthersStay ==
  ASSUME Shape, NEW s \in Sessions, Handle(s)
  PROVE  /\ \A r \in Sessions \ {s} : tx'[r] = tx[r]
         /\ users' = users
  BY HandleIs, QuietKeeps, Notes, Commits DEF Noting, Publishing

LEMMA ExclusiveNext ==
  ASSUME Shape, Exclusive, [Next]_vars
  PROVE  Exclusive'
  <1>1. CASE UNCHANGED vars BY <1>1 DEF vars, Exclusive
  <1>2. CASE \E u \in Users : ChangeUser(u)
    BY <1>2, ShapeUsers DEF Exclusive
  <1>3. ASSUME NEW s \in Sessions, Handle(s)
        PROVE  Exclusive'
    <2>1. ASSUME NEW r \in Sessions \ {s}, HoldsRow(tx[r])', HoldsRow(tx[s])'
          PROVE  Row(tx[r])' # Row(tx[s])'
      <3>1. tx'[r] = tx[r] /\ HoldsRow(tx[r])
        BY <1>3, <2>1, OthersStay
      <3>2. tx'[s].req = tx[s].req /\ (HoldsRow(tx[s]) \/ RowFree(s))
        BY <1>3, <2>1, HoldsAfter
      <3>3. Row(tx[r]) # Row(tx[s])
        BY <3>1, <3>2 DEF Exclusive, RowFree
      <3>4. Row(tx[s])' = Row(tx[s])
        BY <3>2 DEF Row
      <3> QED BY <3>1, <3>3, <3>4
    <2>2. ASSUME NEW q \in Sessions \ {s}, NEW r \in Sessions \ {s}, q # r,
                 HoldsRow(tx[r])', HoldsRow(tx[q])'
          PROVE  Row(tx[r])' # Row(tx[q])'
      <3>1. tx'[r] = tx[r] /\ tx'[q] = tx[q]
        BY <1>3, OthersStay
      <3> QED BY <2>2, <3>1 DEF Exclusive
    <2> QED BY <2>1, <2>2 DEF Exclusive
  <1> QED BY <1>1, <1>2, <1>3 DEF Next

\* A task that a request has locked is as it was when the request was allowed.
Allowed ==
    \A s \in Sessions :
        tx[s].req.kind = "patchTask" /\ tx[s].at \in {"locked", "written", "logged"}
           => MayUpdate(tx[s])

\* An account that is being added to a search is active.
Active ==
    \A s \in Sessions : Shares(tx[s]) => users[tx[s].req.user].active

\* No two events have one id, drawn or committed.
Ids ==
    /\ \A e \in events : e.id < nextId
    /\ \A e, f \in events : e.id = f.id => e = f
    /\ \A s \in Sessions : tx[s].at = "logged" =>
          /\ \A e \in events : e.id # tx[s].event
          /\ \A r \in Sessions \ {s} : tx[r].at = "logged" => tx[r].event # tx[s].event

\* The commit of another leaves the task alone that a request has locked.
LEMMA TaskKept ==
  ASSUME Shape, Exclusive, NEW r \in Sessions, NEW s \in Sessions \ {r}, Commit(r),
         HoldsRow(tx[s]), tx[s].req.kind = "patchTask"
  PROVE  tasks'[tx[s].req.task] = tasks[tx[s].req.task]
  <1>1. Publishing(r) /\ Row(tx[r]) # Row(tx[s])
    BY Commits DEF Publishing, Exclusive, HoldsRow
  <1>2. tx[s].req \in Requests /\ tx[s].req.task \in Tasks /\ tasks \in [Tasks -> Task]
    BY RequestIs DEF Shape, Fits, TypeOK, HoldsRow
  <1>3. Row(tx[s]) = <<"task", tx[s].req.task>>
    BY DEF Row
  <1>4. CASE tx[r].req.kind \in {"newTask", "patchTask"}
    <2>1. Row(tx[r]) = <<"task", tx[r].req.task>>
      BY <1>4 DEF Row
    <2>2. tx[r].req.task # tx[s].req.task
      BY <1>1, <1>3, <2>1
    <2> QED BY <1>1, <1>2, <1>4, <2>2 DEF Publishing
  <1>5. CASE tx[r].req.kind \notin {"newTask", "patchTask"}
    BY <1>1, <1>5 DEF Publishing
  <1> QED BY <1>4, <1>5

\* Who gets a lock, writes or draws an id does it in one of three steps.
LEMMA IdleAfter ==
  ASSUME Shape, NEW r \in Sessions, Note(r) \/ Commit(r)
  PROVE  tx'[r] = Idle /\ tx'[r].at = "idle"
  <1>1. tx'[r] = Idle
    BY Notes, Commits DEF Noting, Publishing
  <1> QED BY <1>1 DEF Idle

LEMMA ProgressIs ==
  ASSUME Shape, NEW r \in Sessions, Handle(r), tx'[r].at \in {"locked", "written", "logged"}
  PROVE  Quiet(r) /\ (Locking(r) \/ Writing(r) \/ Logging(r))
  <1>1. Quiet(r)
    BY HandleIs, IdleAfter
  <1>2. CASE Leaves(r) BY <1>2 DEF Leaves, Idle
  <1>3. CASE Arriving(r) BY <1>3 DEF Arriving
  <1>4. CASE Beginning(r) BY <1>4 DEF Beginning
  <1>5. CASE Finding(r) BY <1>5 DEF Finding, To
  <1>6. CASE Seeing(r) BY <1>6 DEF Seeing
  <1>7. CASE To(r, "connected") BY <1>7 DEF To
  <1>8. CASE Opening(r) BY <1>8 DEF Opening
  <1>9. CASE Reading(r) BY <1>9 DEF Reading, SectionAfter, Sections
  <1> QED BY <1>1, <1>2, <1>3, <1>4, <1>5, <1>6, <1>7, <1>8, <1>9, QuietIs

LEMMA AllowedNext ==
  ASSUME Shape, Exclusive, Allowed, [Next]_vars
  PROVE  Allowed'
  <1>1. ASSUME NEW s \in Sessions, UNCHANGED tasks, tx'[s] = tx[s],
               tx[s].req.kind = "patchTask", tx[s].at \in {"locked", "written", "logged"}
        PROVE  MayUpdate(tx[s])'
    BY <1>1 DEF Allowed, MayUpdate
  <1>2. CASE UNCHANGED vars BY <1>1, <1>2 DEF vars, db, Allowed
  <1>3. CASE \E u \in Users : ChangeUser(u) BY <1>1, <1>3, ShapeUsers DEF Allowed
  <1>4. ASSUME NEW r \in Sessions, Handle(r), NEW s \in Sessions, tx'[s].req.kind = "patchTask",
               tx'[s].at \in {"locked", "written", "logged"}
        PROVE  MayUpdate(tx[s])'
    <2>1. CASE s # r
      <3>1. tx'[s] = tx[s] /\ HoldsRow(tx[s]) /\ MayUpdate(tx[s])
        BY <1>4, <2>1, OthersStay DEF Allowed, HoldsRow
      <3>2. CASE Quiet(r) \/ Note(r)
        BY <1>1, <1>4, <3>1, <3>2, QuietKeeps, Notes DEF Noting
      <3>3. CASE Commit(r)
        <4>1. tasks'[tx[s].req.task] = tasks[tx[s].req.task]
          BY <1>4, <2>1, <3>1, <3>3, TaskKept
        <4> QED BY <3>1, <4>1 DEF MayUpdate
      <3> QED BY <1>4, <3>2, <3>3, HandleIs
    <2>2. CASE s = r
      <3>1. Quiet(r) /\ (Locking(r) \/ Writing(r) \/ Logging(r))
        BY <1>4, <2>2, ProgressIs
      <3>2. UNCHANGED tasks
        BY <3>1, QuietKeeps
      <3>3. CASE Locking(r)
        BY <1>4, <2>2, <3>2, <3>3 DEF Locking, To, Advances, MayUpdate
      <3>4. CASE Writing(r) \/ Logging(r)
        BY <1>4, <2>2, <3>2, <3>4 DEF Writing, Logging, To, Advances, Allowed, MayUpdate, Shape,
           Fits
      <3> QED BY <3>1, <3>3, <3>4
    <2> QED BY <2>1, <2>2
  <1>5. CASE \E r \in Sessions : Handle(r)
    BY <1>4, <1>5 DEF Allowed
  <1> QED BY <1>2, <1>3, <1>5 DEF Next

LEMMA ActiveNext ==
  ASSUME Shape, Active, [Next]_vars
  PROVE  Active'
  <1>1. CASE UNCHANGED vars BY <1>1 DEF vars, Active
  <1>2. ASSUME NEW u \in Users, ChangeUser(u)
        PROVE  Active'
    <2>1. tx' = tx /\ \A s \in Sessions : u \notin Referenced(tx[s])
      BY <1>2 DEF ChangeUser
    <2>2. \A s \in Sessions : Shares(tx[s]) => tx[s].req.user # u
      BY <2>1 DEF Referenced
    <2>3. PICK row : users' = [users EXCEPT ![u] = row]
      BY <1>2 DEF ChangeUser
    <2> QED BY <2>1, <2>2, <2>3 DEF Active, Shape, TypeOK
  <1>3. ASSUME NEW r \in Sessions, Handle(r)
        PROVE  Active'
    <2>1. users' = users /\ \A s \in Sessions \ {r} : tx'[s] = tx[s]
      BY <1>3, OthersStay
    <2>2. ASSUME Shares(tx[r])'
          PROVE  users[tx'[r].req.user].active
      <3> USE DEF Shares
      <3>1. Quiet(r) /\ (Locking(r) \/ Writing(r) \/ Logging(r))
        BY <1>3, <2>2, ProgressIs
      <3>3. CASE Locking(r)
        BY <2>2, <3>3 DEF Locking, To, Advances
      <3>4. CASE Writing(r) \/ Logging(r)
        BY <2>2, <3>4 DEF Writing, Logging, To, Advances, Active, Shape, Fits
      <3> QED BY <3>1, <3>3, <3>4
    <2> QED BY <2>1, <2>2 DEF Active
  <1> QED BY <1>1, <1>2, <1>3 DEF Next

LEMMA IdsNext ==
  ASSUME Shape, Ids, [Next]_vars
  PROVE  Ids'
  <1>0. nextId \in Nat /\ \A e \in events : e.id \in Nat
    BY LimitsAssumption DEF Shape, TypeOK, Event
  <1>1. CASE UNCHANGED vars BY <1>1 DEF vars, db, Ids
  <1>2. CASE \E u \in Users : ChangeUser(u) BY <1>2, ShapeUsers DEF Ids
  <1>3. ASSUME NEW s \in Sessions, Quiet(s)
        PROVE  Ids'
    <2>1. events' = events /\ \A r \in Sessions \ {s} : tx'[r] = tx[r]
      BY <1>3, QuietKeeps
    <2>2. CASE Logging(s)
      <3>1. /\ tx'[s].at = "logged" /\ tx'[s].event = nextId /\ nextId' = nextId + 1
        BY <2>2 DEF Logging
      <3>2. \A r \in Sessions \ {s} : tx[r].at = "logged" => tx[r].event < nextId /\ tx[r].event \in Nat
        BY LoggedIs
      <3>3. \A r \in Sessions \ {s} : tx[r].at = "logged" => tx[r].event # nextId
        BY <1>0, <3>2
      <3>4. \A e \in events : e.id # nextId /\ e.id < nextId + 1
        BY <1>0 DEF Ids
      <3> QED BY <2>1, <3>1, <3>3, <3>4 DEF Ids
    <2>3. CASE ~Logging(s)
      <3>1. tx'[s].at # "logged"
        <4>1. tx'[s].at = "logged" => Locking(s) \/ Writing(s)
          BY <1>3, <2>3, ProgressIs, HandleIs
        <4> QED BY <4>1 DEF Locking, Writing, To
      <3>2. \A e \in events : e.id < nextId'
        BY <1>0, <1>3, QuietKeeps DEF Ids
      <3> QED BY <2>1, <3>1, <3>2 DEF Ids
    <2> QED BY <2>2, <2>3
  <1>4. ASSUME NEW s \in Sessions, Note(s)
        PROVE  Ids'
    <2>1. Noting(s) /\ tx'[s].at = "idle"
      BY <1>4, Notes, IdleAfter
    <2> DEFINE n == EventOf(tx[s], nextId, nextId)
    <2>2. n.id = nextId
      BY DEF EventOf
    <2>3. events' = events \cup {n} /\ nextId' = nextId + 1 /\ \A r \in Sessions \ {s} : tx'[r] = tx[r]
      BY <2>1 DEF Noting
    <2>4. \A r \in Sessions : tx[r].at = "logged" => tx[r].event < nextId /\ tx[r].event \in Nat
      BY LoggedIs
    <2> HIDE DEF n
    <2>5. \A e \in events' : e.id < nextId'
      BY <1>0, <2>2, <2>3 DEF Ids
    <2>6. \A e, f \in events' : e.id = f.id => e = f
      BY <1>0, <2>2, <2>3 DEF Ids
    <2>7. \A r \in Sessions \ {s} : tx[r].at = "logged" => \A e \in events' : e.id # tx[r].event
      BY <1>0, <2>2, <2>3, <2>4 DEF Ids
    <2> QED BY <2>1, <2>3, <2>5, <2>6, <2>7 DEF Ids
  <1>5. ASSUME NEW s \in Sessions, Commit(s)
        PROVE  Ids'
    <2>1. Publishing(s) /\ tx'[s].at = "idle"
      BY <1>5, Commits, IdleAfter
    <2> DEFINE n == EventOf(tx[s], tx[s].event, tx[s].began)
    <2>2. n.id = tx[s].event
      BY DEF EventOf
    <2>3. /\ tx[s].at = "logged" /\ events' = events \cup {n} /\ nextId' = nextId
          /\ \A r \in Sessions \ {s} : tx'[r] = tx[r]
      BY <2>1 DEF Publishing
    <2>4. tx[s].event < nextId /\ \A e \in events : e.id # tx[s].event
      BY <2>3, LoggedIs DEF Ids
    <2>5. \A r \in Sessions \ {s} : tx[r].at = "logged" => tx[r].event # tx[s].event
      BY <2>3 DEF Ids
    <2> HIDE DEF n
    <2>6. \A e \in events' : e.id < nextId'
      BY <2>2, <2>3, <2>4 DEF Ids
    <2>7. \A e, f \in events' : e.id = f.id => e = f
      BY <2>2, <2>3, <2>4 DEF Ids
    <2>8. \A r \in Sessions \ {s} : tx[r].at = "logged" => \A e \in events' : e.id # tx[r].event
      BY <2>2, <2>3, <2>5 DEF Ids
    <2> QED BY <2>1, <2>3, <2>6, <2>7, <2>8 DEF Ids
  <1> QED BY <1>1, <1>2, <1>3, <1>4, <1>5, HandleIs DEF Next
-----------------------------------------------------------------------------
(***************************************************************************)
(* Snapshots.                                                               *)
(***************************************************************************)
\* The sections read so far are those of the view, which the caller may see; of
\* its events, the newest.
ReadIs(t) ==
    /\ t.at \in {"members", "tasks", "events", "answered"} => t.read.search = t.view.search
    /\ t.at \in {"tasks", "events", "answered"} => t.read.members = t.view.members
    /\ t.at \in {"events", "answered"} => t.read.tasks = t.view.tasks
    /\ t.at = "answered" => t.read.events \in Newest(t.view.events)

MaySee(t) ==
    t.at \in Sections \cup {"answered"} =>
        \/ t.role \in PrivilegedRoles
        \/ t.actor \in t.view.members
        \/ <<t.req.search, t.actor>> \in Partners

Views == \A s \in Sessions : ReadIs(tx[s]) /\ MaySee(tx[s])

LEMMA ViewsNext ==
  ASSUME Shape, Views, [Next]_vars
  PROVE  Views'
  <1>1. CASE UNCHANGED vars BY <1>1 DEF vars, Views, ReadIs, MaySee
  <1>2. CASE \E u \in Users : ChangeUser(u) BY <1>2, ShapeUsers DEF Views, ReadIs, MaySee
  <1>3. ASSUME NEW s \in Sessions, Handle(s)
        PROVE  Views'
    <2>1. \A r \in Sessions \ {s} : ReadIs(tx[r])' /\ MaySee(tx[r])'
      BY <1>3, OthersStay DEF Views, ReadIs, MaySee
    <2>2. ASSUME Opening(s)
          PROVE  ReadIs(tx[s])' /\ MaySee(tx[s])'
      <3>1. /\ tx'[s].at = "search" /\ tx'[s].view = OfSearch(tx[s].req.search)
            /\ tx'[s].req = tx[s].req /\ tx'[s].actor = tx[s].actor /\ tx'[s].role = tx[s].role
            /\ Accesses(tx[s]) /\ tx[s].actor \in Users
        BY <2>2 DEF Opening, Advances, Shape, Fits
      <3>2. tx'[s].view.members = {u \in Users : IsMember(tx[s].req.search, u)}
        BY <3>1 DEF OfSearch
      <3>3. MaySee(tx[s])'
        BY <3>1, <3>2 DEF Accesses, Reaches, MaySee
      <3>4. ReadIs(tx[s])'
        BY <3>1 DEF ReadIs
      <3> QED BY <3>3, <3>4
    <2>3. ASSUME Reading(s)
          PROVE  ReadIs(tx[s])' /\ MaySee(tx[s])'
      <3> DEFINE at == tx[s].at
                 t == tx'[s]
      <3>1. /\ at \in Sections /\ t.at = SectionAfter[at] /\ t.view = tx[s].view
            /\ t.req = tx[s].req /\ t.actor = tx[s].actor /\ t.role = tx[s].role
        BY <2>3 DEF Reading, Advances
      <3>0. PICK rows \in Returned(tx[s]) : t.read = [tx[s].read EXCEPT ![at] = rows]
        BY <2>3 DEF Reading
      <3>6. /\ at # "events" => rows = tx[s].view[at]
            /\ at = "events" => rows \in Newest(tx[s].view.events)
        BY <3>0 DEF Returned, Visible
      <3>2. tx[s].read \in Snapshot
        BY TypeIsTx DEF Shape, Tx
      <3>3. ReadIs(tx[s]) /\ MaySee(tx[s])
        BY DEF Views
      <3>4. MaySee(tx[s])'
        BY <3>1, <3>3 DEF MaySee, SectionAfter, Sections
      <3> HIDE DEF t
      <3>5. ReadIs(t)
        <4>1. CASE at = "search"
          BY <3>0, <3>1, <3>2, <3>3, <3>6, <4>1 DEF ReadIs, SectionAfter, Snapshot
        <4>2. CASE at = "members"
          BY <3>0, <3>1, <3>2, <3>3, <3>6, <4>2 DEF ReadIs, SectionAfter, Snapshot
        <4>3. CASE at = "tasks"
          BY <3>0, <3>1, <3>2, <3>3, <3>6, <4>3 DEF ReadIs, SectionAfter, Snapshot
        <4>4. CASE at = "events"
          BY <3>0, <3>1, <3>2, <3>3, <3>6, <4>4 DEF ReadIs, SectionAfter, Snapshot
        <4> QED BY <3>1, <4>1, <4>2, <4>3, <4>4 DEF Sections
      <3> QED BY <3>4, <3>5 DEF t
    <2>4. ASSUME ~Opening(s), ~Reading(s)
          PROVE  ReadIs(tx[s])' /\ MaySee(tx[s])'
      <3>1. tx'[s].at \notin Sections \cup {"answered"}
        <4> USE DEF Sections
        <4>1. CASE Note(s) \/ Commit(s) BY <4>1, IdleAfter
        <4>2. CASE Leaves(s) BY <4>2 DEF Leaves, Idle
        <4>3. CASE Arriving(s) BY <4>3 DEF Arriving
        <4>4. CASE Beginning(s) BY <4>4 DEF Beginning
        <4>5. CASE Finding(s) BY <4>5 DEF Finding, To
        <4>6. CASE Seeing(s) BY <4>6 DEF Seeing
        <4>7. CASE Locking(s) BY <4>7 DEF Locking, To
        <4>8. CASE Writing(s) BY <4>8 DEF Writing, To
        <4>9. CASE Logging(s) BY <4>9 DEF Logging
        <4>10. CASE To(s, "connected") BY <4>10 DEF To
        <4> QED BY <1>3, <2>4, <4>1, <4>2, <4>3, <4>4, <4>5, <4>6, <4>7, <4>8, <4>9, <4>10, HandleIs,
                   QuietIs
      <3> QED BY <3>1 DEF ReadIs, MaySee, Sections
    <2> QED BY <2>1, <2>2, <2>3, <2>4 DEF Views
  <1> QED BY <1>1, <1>2, <1>3 DEF Next
-----------------------------------------------------------------------------
(***************************************************************************)
(* What the pool, the searchers, the members and the snapshots rest on.     *)
(***************************************************************************)
IInv == Shape /\ Exclusive /\ Allowed /\ Active /\ Ids /\ Views

LEMMA IInvInit == Init => IInv
  <1> SUFFICES ASSUME Init PROVE IInv
    OBVIOUS
  <1>1. \A s \in Sessions : tx[s] = Idle /\ tx[s].at = "idle" /\ tx[s].req.kind = None
    BY DEF Init, Idle, Nothing
  <1>2. Shape
    BY ShapeInit
  <1>3. Exclusive
    BY <1>1 DEF Exclusive, HoldsRow
  <1>4. Allowed /\ Active
    BY <1>1 DEF Allowed, Active, Shares
  <1>5. Ids
    BY <1>1 DEF Ids, Init
  <1>6. Views
    BY <1>1 DEF Views, ReadIs, MaySee, Sections
  <1> QED BY <1>2, <1>3, <1>4, <1>5, <1>6 DEF IInv

LEMMA IInvNext ==
  ASSUME IInv, [Next]_vars
  PROVE  IInv'
  BY ShapeNext, ExclusiveNext, AllowedNext, ActiveNext, IdsNext, ViewsNext DEF IInv

\* The inductive invariant: types, what each step of a request has settled, one
\* holder for each row, and what was decided under the lock.
THEOREM Invariant == Spec => []IInv
  BY IInvInit, IInvNext, PTL DEF Spec

\* The tables, the event sequence and every session keep their types.
THEOREM TypeCorrect == Spec => []TypeOK
  <1>1. IInv => TypeOK
    BY DEF IInv, Shape
  <1> QED BY <1>1, Invariant, PTL

\* A snapshot's access check and its members section come from one moment, so
\* whoever is answered is privileged, a partner, or among those members.
THEOREM Authorised == Spec => []SnapshotAuthorised
  <1>1. IInv => SnapshotAuthorised
    BY DEF IInv, Views, ReadIs, MaySee, SnapshotAuthorised
  <1> QED BY <1>1, Invariant, PTL

\* When the pool is empty somebody who has a connection goes on: whoever holds
\* a row waits for nobody, and when nobody holds one, every row is free.
THEOREM NeverStarves == Spec => []PoolNeverStarves
  <1>1. ASSUME IInv, ~FreeConnection
        PROVE  \E s \in Holders : ~WaitsForRow(s) /\ ~WaitsForConnection(s)
    <2>1. \A s \in Holders : ~WaitsForConnection(s)
      BY DEF WaitsForConnection, OnClient
    <2>2. Holders # {}
      BY <1>1, PoolAssumption, FS_EmptySet DEF FreeConnection
    <2>3. CASE \E s \in Sessions : HoldsRow(tx[s])
      <3>1. PICK s \in Sessions : HoldsRow(tx[s])
        BY <2>3
      <3>2. s \in Holders
        BY <1>1, <3>1 DEF HoldsRow, Holders, Connected, IInv, Shape, Fits
      <3>3. RowFree(s)
        BY <1>1, <3>1 DEF RowFree, Exclusive, IInv
      <3> QED BY <2>1, <3>2, <3>3 DEF WaitsForRow
    <2>4. CASE ~\E s \in Sessions : HoldsRow(tx[s])
      <3>1. \A s \in Sessions : RowFree(s)
        BY <2>4 DEF RowFree
      <3> QED BY <2>1, <2>2, <3>1 DEF WaitsForRow, Holders
    <2> QED BY <2>3, <2>4
  <1>2. IInv => PoolNeverStarves
    BY <1>1 DEF PoolNeverStarves
  <1> QED BY <1>2, Invariant, PTL

\* The event a step adds: the one its session notes, or commits.
LEMMA EventsAdded ==
  ASSUME IInv, [Next]_vars, NEW e \in events' \ events
  PROVE  \E s \in Sessions :
            \/ Noting(s) /\ e = EventOf(tx[s], nextId, nextId)
            \/ Commit(s) /\ Publishing(s) /\ e = EventOf(tx[s], tx[s].event, tx[s].began)
  <1>1. ~UNCHANGED events
    OBVIOUS
  <1>2. PICK s \in Sessions : Note(s) \/ Commit(s)
    BY <1>1, ShapeUsers, QuietKeeps, HandleIs DEF Next, vars, IInv
  <1>3. CASE Note(s)
    <2>1. Noting(s)
      BY <1>3, Notes DEF IInv
    <2> QED BY <2>1 DEF Noting
  <1>4. CASE Commit(s)
    <2>1. Publishing(s)
      BY <1>4, Commits DEF IInv
    <2> QED BY <1>4, <2>1 DEF Publishing
  <1> QED BY <1>2, <1>3, <1>4

\* Only the transaction that adds a member logs MEMBER_ADDED, and it holds a
\* share lock on an account it found active.
THEOREM OnlyActive == Spec => AddedWhileActive
  <1>1. ASSUME IInv, [Next]_vars, NEW e \in events' \ events, e.type = "MEMBER_ADDED"
        PROVE  users[e.user].active
    <2>1. PICK s \in Sessions :
              \/ Noting(s) /\ e = EventOf(tx[s], nextId, nextId)
              \/ Commit(s) /\ Publishing(s) /\ e = EventOf(tx[s], tx[s].event, tx[s].began)
      BY <1>1, EventsAdded
    <2>2. e.type = EventType(tx[s]) /\
          e.user = IF tx[s].req.kind = "newTask" THEN None ELSE tx[s].req.user
      BY <2>1 DEF EventOf
    <2>3. CASE Noting(s)
      BY <1>1, <2>2, <2>3 DEF Noting, EventType
    <2>4. CASE Commit(s) /\ Publishing(s)
      <3>1. tx[s].at = "logged" /\ tx[s].req \in Requests
        BY <1>1, <2>4 DEF Publishing, IInv, Shape, Fits
      <3>2. tx[s].req.kind = "addMember"
        BY <1>1, <2>2, <2>4, <3>1, LoggedIs DEF EventType, IInv
      <3>3. e.user = tx[s].req.user
        BY <2>2, <3>2
      <3> QED BY <1>1, <3>1, <3>2, <3>3 DEF IInv, Active, Shares
    <2> QED BY <2>1, <2>3, <2>4
  <1>2. IInv /\ [Next]_vars
          => [\A e \in events' \ events : e.type = "MEMBER_ADDED" => users[e.user].active]_vars
    BY <1>1
  <1> QED BY <1>2, Invariant, PTL DEF Spec, AddedWhileActive

\* The event that carries a request's id is its own; the task it then updates
\* is the one it was allowed to, and stays with its assignee.
THEOREM TheirOwn == Spec => SearchersUpdateTheirOwn
  <1>1. ASSUME IInv, [Next]_vars, NEW s \in Sessions, tx[s].req.kind = "patchTask",
               tx[s].role \notin ManagementRoles, NEW e \in events' \ events,
               e.id = tx[s].event
        PROVE  /\ tx[s].role = "SEARCHER" /\ tasks[tx[s].req.task].assignee = tx[s].actor
               /\ tasks'[tx[s].req.task].assignee = tx[s].actor
    <2> DEFINE q == tx[s].req
    <2>1. PICK r \in Sessions :
              \/ Noting(r) /\ e = EventOf(tx[r], nextId, nextId)
              \/ Commit(r) /\ Publishing(r) /\ e = EventOf(tx[r], tx[r].event, tx[r].began)
      BY <1>1, EventsAdded
    <2>2. IF Noting(r) /\ e = EventOf(tx[r], nextId, nextId)
          THEN e.id = nextId ELSE e.id = tx[r].event
      BY <2>1 DEF EventOf
    <2>3. nextId \in Nat \ {0} /\ Fits(tx[s]) /\ tx[s] \in Tx
      BY <1>1, TypeIsTx, LimitsAssumption DEF IInv, Shape, TypeOK
    <2>4. \A k \in Sessions : tx[k].at = "logged" => tx[k].event \in 1..MaxEvents /\ tx[k].event < nextId
      BY <1>1, LoggedIs DEF IInv
    <2>5. tx[s].at # "logged" => tx[s].event = 0
      BY <2>3 DEF Fits
    <2>6. ~(Noting(r) /\ e = EventOf(tx[r], nextId, nextId))
      BY <1>1, <2>2, <2>3, <2>4, <2>5
    <2>7. Commit(r) /\ Publishing(r) /\ e.id = tx[r].event /\ tx[r].at = "logged"
      BY <2>1, <2>2, <2>6 DEF Publishing
    <2>8. r = s
      <3>1. tx[r].event \in 1..MaxEvents /\ tx[r].event = tx[s].event
        BY <1>1, <2>4, <2>7
      <3>2. tx[s].at = "logged"
        BY <2>5, <3>1
      <3> QED BY <1>1, <2>7, <3>1, <3>2 DEF IInv, Ids
    <2>9. q \in Requests /\ q.task \in Tasks /\ q.user \in Users \cup {Nobody, Keep}
          /\ q.status \in TaskStatus \cup {Keep}
      BY <1>1, <2>7, <2>8, LoggedIs, RequestIs DEF IInv
    <2>10. MayUpdate(tx[s])
      BY <1>1, <2>7, <2>8 DEF IInv, Allowed
    <2>11. /\ tx[s].role = "SEARCHER" /\ tasks[q.task].assignee = tx[s].actor
           /\ q.user = Keep
      BY <1>1, <2>10 DEF MayUpdate
    <2>12. tasks[q.task] \in Task /\ tasks \in [Tasks -> Task]
      BY <1>1, <2>9 DEF IInv, Shape, TypeOK
    <2>13. tasks'[q.task] = PatchedTask(tasks[q.task], q)
      BY <1>1, <2>7, <2>8, <2>9, <2>12 DEF Publishing
    <2>14. tasks'[q.task].assignee = tasks[q.task].assignee
      BY <2>9, <2>11, <2>12, <2>13, PatchedTaskIs
    <2> QED BY <2>11, <2>14
  <1>2. IInv /\ [Next]_vars
          => [\A s \in Sessions : LET t == tx[s] IN
                 (/\ t.req.kind = "patchTask" /\ t.role \notin ManagementRoles
                  /\ \E e \in events' \ events : e.id = t.event)
                     => /\ t.role = "SEARCHER"
                        /\ tasks[t.req.task].assignee = t.actor
                        /\ tasks'[t.req.task].assignee = t.actor]_vars
    BY <1>1
  <1> QED BY <1>2, Invariant, PTL DEF Spec, SearchersUpdateTheirOwn
-----------------------------------------------------------------------------
(***************************************************************************)
(* The timeline.  What it tells of a search, of a member and of a task.      *)
(***************************************************************************)
\* An event that is later than the others of a set is its last.
LEMMA LastIs ==
  ASSUME NEW E, NEW n \in E, \A e \in E : e.id \in Nat, \A e \in E \ {n} : e.id < n.id
  PROVE  Last(E, "id") = n
  <1>1. \A f \in E : n["id"] > f["id"] \/ (n["id"] = f["id"] /\ n.id >= f.id)
    OBVIOUS
  <1>2. ASSUME NEW e \in E, \A f \in E : e["id"] > f["id"] \/ (e["id"] = f["id"] /\ e.id >= f.id)
        PROVE  e = n
    <2>1. e["id"] > n["id"] \/ (e["id"] = n["id"] /\ e.id >= n.id)
      BY <1>2
    <2>2. ~(e.id < n.id)
      BY <2>1
    <2> QED BY <2>2
  <1> QED BY <1>1, <1>2 DEF Last

\* The row an event is about.
RowOf(e) ==
    CASE e.type \in {"TASK_CREATED", "TASK_UPDATED"} -> <<"task", e.task>>
      [] e.type \in {"SEARCH_CREATED", "SEARCH_UPDATED"} -> <<"search", e.search>>
      [] e.type \in {"MEMBER_ADDED", "MEMBER_REMOVED"} -> <<"member", e.search, e.user>>
      [] OTHER -> <<None>>

Exists(k) == searches[k].status # Absent

\* What is told is told of searches and tasks that exist; so are the members
\* and the tasks of a search.
Rooted ==
    /\ \A e \in events : Exists(e.search) /\ (e.task \in Tasks => tasks[e.task].status # Absent)
    /\ \A k \in Searches, u \in Users : IsMember(k, u) => Exists(k)
    /\ \A j \in Tasks : tasks[j].search \in Searches =>
          tasks[j].status # Absent /\ Exists(tasks[j].search)

\* Who got past the access check works in a search that exists.
Begun ==
    \A s \in Sessions :
        tx[s].at \in {"begun", "found", "locked", "written", "logged"}
        /\ tx[s].req.kind \notin {"newSearch", "patchTask"}
           => Exists(tx[s].req.search)

\* What is being inserted is not there before the commit.
Fresh ==
    \A s \in Sessions : tx[s].at \in {"written", "logged"} =>
        /\ tx[s].req.kind = "newSearch" => ~Exists(tx[s].req.search)
        /\ tx[s].req.kind = "newTask" => tasks[tx[s].req.task].status = Absent

\* The event a session is about to commit is later than all that is told of
\* its row.
Latest ==
    \A s \in Sessions : tx[s].at = "logged" => \A e \in events :
        (\/ RowOf(e) = Row(tx[s])
         \/ /\ tx[s].req.kind \in {"addMember", "removeMember"}
            /\ e.type = "SEARCH_CREATED" /\ e.search = tx[s].req.search)
           => e.id < tx[s].event

\* What the events of a search say of it, of a member and of a task.
EventsOf(k) == {e \in events : e.search = k}

Statuses(E) == {e \in Of(E, {"SEARCH_UPDATED"}) : e.status # Keep}
Turns(E) == {e \in Statuses(E) : e.status \in {"ACTIVE", "COMPLETED", "CANCELLED"}}
Moves(E, u) == {e \in Of(E, {"MEMBER_ADDED", "MEMBER_REMOVED"}) : e.user = u}
                  \cup {e \in Of(E, {"SEARCH_CREATED"}) : e.actor = u}
Mine(E, j) == {e \in E : e.task = j}
Updates(E) == {e \in Of(E, {"TASK_UPDATED"}) : e.status # Keep}
Assignments(E) == {e \in Of(E, {"TASK_UPDATED"}) : e.user # Keep}

TellsSearch(row, E) ==
    /\ row.status = IF Of(E, {"SEARCH_CREATED"}) = {} THEN Absent
                    ELSE IF Statuses(E) = {} THEN "PLANNED" ELSE Last(Statuses(E), "id").status
    /\ row.started <=> \E e \in Statuses(E) : e.status = "ACTIVE"
    /\ row.ended <=> Turns(E) # {} /\ Last(Turns(E), "id").status # "ACTIVE"

TellsMember(in, E, u) ==
    in <=> Moves(E, u) # {} /\ Last(Moves(E, u), "id").type # "MEMBER_REMOVED"

TellsTask(row, E) ==
    /\ row.status = IF Of(E, {"TASK_CREATED"}) = {} THEN Absent
                    ELSE IF Updates(E) = {} THEN "OPEN" ELSE Last(Updates(E), "id").status
    /\ Assignments(E) # {} => row.assignee = Last(Assignments(E), "id").user

Listed(k, j) == IF tasks[j].search = k THEN tasks[j] ELSE NoTask

Tells(k) ==
    /\ TellsSearch(searches[k], EventsOf(k))
    /\ \A u \in Users : TellsMember(IsMember(k, u), EventsOf(k), u)
    /\ \A j \in Tasks : TellsTask(Listed(k, j), Mine(EventsOf(k), j))

LEMMA TellsIs ==
  ASSUME NEW k \in Searches
  PROVE  Told(OfSearch(k), "id") <=> Tells(k)
  <1> DEFINE x == OfSearch(k)
  <1>1. /\ x.search = searches[k] /\ x.events = EventsOf(k)
        /\ \A u \in Users : u \in x.members <=> IsMember(k, u)
        /\ \A j \in Tasks : x.tasks[j] = Listed(k, j)
    BY DEF OfSearch, EventsOf, Listed
  <1> HIDE DEF x
  <1>2. SearchTold(x, "id") <=> TellsSearch(searches[k], EventsOf(k))
    BY <1>1 DEF SearchTold, TellsSearch, Statuses, Turns
  <1>3. MembersTold(x, "id") <=> \A u \in Users : TellsMember(IsMember(k, u), EventsOf(k), u)
    BY <1>1 DEF MembersTold, TellsMember, Moves
  <1>4. TasksTold(x, "id") <=> \A j \in Tasks : TellsTask(Listed(k, j), Mine(EventsOf(k), j))
    BY <1>1 DEF TasksTold, TellsTask, Mine, Updates, Assignments
  <1> QED BY <1>2, <1>3, <1>4 DEF Told, Tells, x

\* Which of them an event joins.
LEMMA Joins ==
  ASSUME NEW E, NEW n
  PROVE  /\ n.type # "SEARCH_CREATED" =>
               Of(E \cup {n}, {"SEARCH_CREATED"}) = Of(E, {"SEARCH_CREATED"})
         /\ n.type = "SEARCH_CREATED" => Of(E \cup {n}, {"SEARCH_CREATED"}) # {}
         /\ n.type # "TASK_CREATED" =>
               Of(E \cup {n}, {"TASK_CREATED"}) = Of(E, {"TASK_CREATED"})
         /\ n.type = "TASK_CREATED" => Of(E \cup {n}, {"TASK_CREATED"}) # {}
         /\ n.type # "SEARCH_UPDATED" \/ n.status = Keep => Statuses(E \cup {n}) = Statuses(E)
         /\ n.type = "SEARCH_UPDATED" /\ n.status # Keep =>
               Statuses(E \cup {n}) = Statuses(E) \cup {n}
         /\ n.type # "TASK_UPDATED" \/ n.status = Keep => Updates(E \cup {n}) = Updates(E)
         /\ n.type = "TASK_UPDATED" /\ n.status # Keep => Updates(E \cup {n}) = Updates(E) \cup {n}
         /\ n.type # "TASK_UPDATED" \/ n.user = Keep =>
               Assignments(E \cup {n}) = Assignments(E)
         /\ n.type = "TASK_UPDATED" /\ n.user # Keep =>
               Assignments(E \cup {n}) = Assignments(E) \cup {n}
  BY DEF Of, Statuses, Updates, Assignments

LEMMA JoinsTurns ==
  ASSUME NEW E, NEW n
  PROVE  /\ n \notin Statuses(E \cup {n}) \/ n.status \notin {"ACTIVE", "COMPLETED", "CANCELLED"}
               => Turns(E \cup {n}) = Turns(E)
         /\ n \in Statuses(E \cup {n}) /\ n.status \in {"ACTIVE", "COMPLETED", "CANCELLED"}
               => Turns(E \cup {n}) = Turns(E) \cup {n}
  <1>1. CASE n.type = "SEARCH_UPDATED" /\ n.status # Keep
    <2>1. Statuses(E \cup {n}) = Statuses(E) \cup {n}
      BY <1>1, Joins
    <2>2. n \in Statuses(E \cup {n})
      BY <2>1
    <2>3. n.status \in {"ACTIVE", "COMPLETED", "CANCELLED"} => Turns(E \cup {n}) = Turns(E) \cup {n}
      BY <2>1 DEF Turns
    <2>4. n.status \notin {"ACTIVE", "COMPLETED", "CANCELLED"} => Turns(E \cup {n}) = Turns(E)
      BY <2>1 DEF Turns
    <2> QED BY <2>2, <2>3, <2>4
  <1>2. CASE n.type # "SEARCH_UPDATED" \/ n.status = Keep
    <2>1. Statuses(E \cup {n}) = Statuses(E) /\ n \notin Statuses(E \cup {n})
      BY <1>2, Joins DEF Statuses, Of
    <2> QED BY <2>1 DEF Turns
  <1> QED BY <1>1, <1>2

LEMMA JoinsMoves ==
  ASSUME NEW E, NEW n, NEW u
  PROVE  LET moves == \/ n.type \in {"MEMBER_ADDED", "MEMBER_REMOVED"} /\ n.user = u
                      \/ n.type = "SEARCH_CREATED" /\ n.actor = u
         IN  /\ ~moves => Moves(E \cup {n}, u) = Moves(E, u)
             /\ moves => Moves(E \cup {n}, u) = Moves(E, u) \cup {n}
  BY DEF Moves, Of

LEMMA JoinsMine ==
  ASSUME NEW E, NEW n, NEW j
  PROVE  /\ n.task # j => Mine(E \cup {n}, j) = Mine(E, j)
         /\ n.task = j => Mine(E \cup {n}, j) = Mine(E, j) \cup {n}
  BY DEF Mine

\* A commit's event tells what the commit did, when it is the last to say so.
LEMMA SearchCreated ==
  ASSUME NEW E, NEW n, n.type = "SEARCH_CREATED", E = {}
  PROVE  TellsSearch(NewSearch, E \cup {n})
  <1>1. Of(E \cup {n}, {"SEARCH_CREATED"}) # {} /\ Statuses(E \cup {n}) = {}
    BY DEF Of, Statuses
  <1>2. Turns(E \cup {n}) = {}
    BY <1>1 DEF Turns
  <1> QED BY <1>1, <1>2 DEF TellsSearch, NewSearch

LEMMA SearchUpdated ==
  ASSUME NEW row \in Search, NEW status \in SearchStatus \cup {Keep}, NEW E, NEW n,
         TellsSearch(row, E), row.status # Absent,
         n.type = "SEARCH_UPDATED", n.status = status, n.id \in Nat,
         \A e \in Statuses(E) : e.id \in Nat /\ e.id < n.id
  PROVE  TellsSearch(PatchedSearch(row, status), E \cup {n})
  <1> DEFINE new == PatchedSearch(row, status)
             F == E \cup {n}
  <1> SUFFICES TellsSearch(new, F)
    OBVIOUS
  <1>1. /\ new.status = IF status = Keep THEN row.status ELSE status
        /\ new.started = (row.started \/ status = "ACTIVE")
        /\ new.ended = (status \in {"COMPLETED", "CANCELLED"} \/ (row.ended /\ status # "ACTIVE"))
    BY DEF PatchedSearch
  <1>2. Of(E, {"SEARCH_CREATED"}) # {} /\ Of(F, {"SEARCH_CREATED"}) = Of(E, {"SEARCH_CREATED"})
    BY Joins DEF TellsSearch
  <1> HIDE DEF new
  <1>3. CASE status = Keep
    <2>1. Statuses(F) = Statuses(E)
      BY <1>3, Joins
    <2>2. Turns(F) = Turns(E)
      BY <2>1 DEF Turns
    <2>3. new.ended <=> row.ended
      BY <1>1, <1>3 DEF Keep
    <2> HIDE DEF F
    <2>4. new.status = row.status
      BY <1>1, <1>3
    <2>5. new.started <=> row.started
      BY <1>1, <1>3 DEF Keep
    <2> QED BY <1>2, <2>1, <2>2, <2>3, <2>4, <2>5 DEF TellsSearch
  <1>4. CASE status # Keep
    <2>1. Statuses(F) = Statuses(E) \cup {n}
      BY <1>4, Joins
    <2>2. Last(Statuses(F), "id") = n
      BY <2>1, LastIs
    <2>3. new.status = Last(Statuses(F), "id").status /\ Statuses(F) # {}
      BY <1>1, <1>4, <2>1, <2>2
    <2>4. new.started <=> row.started \/ status = "ACTIVE"
      BY <1>1
    <2>5. (\E e \in Statuses(F) : e.status = "ACTIVE")
             <=> (\E e \in Statuses(E) : e.status = "ACTIVE") \/ status = "ACTIVE"
      BY <2>1
    <2>6. row.started <=> \E e \in Statuses(E) : e.status = "ACTIVE"
      BY DEF TellsSearch
    <2>7. new.started <=> \E e \in Statuses(F) : e.status = "ACTIVE"
      BY <2>4, <2>5, <2>6
    <2>8. row.ended <=> Turns(E) # {} /\ Last(Turns(E), "id").status # "ACTIVE"
      BY DEF TellsSearch
    <2>9. new.ended <=> Turns(F) # {} /\ Last(Turns(F), "id").status # "ACTIVE"
      <3>1. CASE status \in {"ACTIVE", "COMPLETED", "CANCELLED"}
        <4>1. n \in Statuses(F)
          BY <2>1
        <4>2. Turns(F) = Turns(E) \cup {n}
          BY <3>1, <4>1, JoinsTurns
        <4>3. \A e \in Turns(E) : e.id \in Nat /\ e.id < n.id
          BY DEF Turns
        <4>4. Last(Turns(F), "id") = n
          BY <4>2, <4>3, LastIs
        <4>5. new.ended <=> status # "ACTIVE"
          BY <1>1, <3>1
        <4> QED BY <4>2, <4>4, <4>5
      <3>2. CASE status \notin {"ACTIVE", "COMPLETED", "CANCELLED"}
        <4>1. Turns(F) = Turns(E)
          BY <3>2, JoinsTurns
        <4>2. new.ended <=> row.ended
          BY <1>1, <3>2
        <4> QED BY <2>8, <4>1, <4>2
      <3> QED BY <3>1, <3>2
    <2> HIDE DEF F
    <2> QED BY <1>2, <2>3, <2>7, <2>9 DEF TellsSearch
  <1> QED BY <1>3, <1>4

LEMMA SearchStays ==
  ASSUME NEW row, NEW E, NEW n, TellsSearch(row, E),
         n.type \notin {"SEARCH_CREATED", "SEARCH_UPDATED"}
  PROVE  TellsSearch(row, E \cup {n})
  <1>1. /\ Of(E \cup {n}, {"SEARCH_CREATED"}) = Of(E, {"SEARCH_CREATED"})
        /\ Statuses(E \cup {n}) = Statuses(E)
    BY Joins
  <1>2. Turns(E \cup {n}) = Turns(E)
    BY <1>1 DEF Turns
  <1> QED BY <1>1, <1>2 DEF TellsSearch

LEMMA MemberMoved ==
  ASSUME NEW E, NEW n, NEW u, n.id \in Nat,
         \/ n.type \in {"MEMBER_ADDED", "MEMBER_REMOVED"} /\ n.user = u
         \/ n.type = "SEARCH_CREATED" /\ n.actor = u,
         \A e \in Moves(E, u) : e.id \in Nat /\ e.id < n.id
  PROVE  TellsMember(n.type # "MEMBER_REMOVED", E \cup {n}, u)
  <1>1. Moves(E \cup {n}, u) = Moves(E, u) \cup {n}
    BY JoinsMoves
  <1>2. Last(Moves(E \cup {n}, u), "id") = n
    BY <1>1, LastIs, ZenonT(30)
  <1> QED BY <1>1, <1>2 DEF TellsMember

LEMMA MemberStays ==
  ASSUME NEW in, NEW E, NEW n, NEW u, TellsMember(in, E, u),
         ~(\/ n.type \in {"MEMBER_ADDED", "MEMBER_REMOVED"} /\ n.user = u
           \/ n.type = "SEARCH_CREATED" /\ n.actor = u)
  PROVE  TellsMember(in, E \cup {n}, u)
  <1>1. Moves(E \cup {n}, u) = Moves(E, u)
    BY JoinsMoves
  <1> QED BY <1>1 DEF TellsMember

LEMMA TaskCreated ==
  ASSUME NEW row, NEW E, NEW n, E = {}, n.type = "TASK_CREATED", row.status = "OPEN"
  PROVE  TellsTask(row, E \cup {n})
  <1>1. /\ Of(E \cup {n}, {"TASK_CREATED"}) # {}
        /\ Updates(E \cup {n}) = {} /\ Assignments(E \cup {n}) = {}
    BY DEF Of, Updates, Assignments
  <1> QED BY <1>1 DEF TellsTask

LEMMA TaskUpdated ==
  ASSUME NEW row \in Task, NEW q, q.user \in Users \cup {Nobody, Keep},
         q.status \in TaskStatus \cup {Keep}, NEW E, NEW n,
         TellsTask(row, E), row.status # Absent,
         n.type = "TASK_UPDATED", n.status = q.status, n.user = q.user, n.id \in Nat,
         \A e \in E : e.type = "TASK_UPDATED" => e.id \in Nat /\ e.id < n.id
  PROVE  TellsTask(PatchedTask(row, q), E \cup {n})
  <1> DEFINE new == PatchedTask(row, q)
             F == E \cup {n}
  <1> SUFFICES TellsTask(new, F)
    OBVIOUS
  <1>1. /\ new.status = IF q.status = Keep THEN row.status ELSE q.status
        /\ new.assignee = IF q.user = Keep THEN row.assignee ELSE q.user
    BY PatchedTaskIs
  <1>2. Of(E, {"TASK_CREATED"}) # {} /\ Of(F, {"TASK_CREATED"}) = Of(E, {"TASK_CREATED"})
    BY Joins DEF TellsTask
  <1>3. \A e \in Updates(E) \cup Assignments(E) : e.id \in Nat /\ e.id < n.id
    BY DEF Updates, Assignments, Of
  <1> HIDE DEF new
  <1>4. new.status = IF Updates(F) = {} THEN "OPEN" ELSE Last(Updates(F), "id").status
    <2>1. CASE q.status = Keep
      <3>1. Updates(F) = Updates(E)
        BY <2>1, Joins
      <3> QED BY <1>1, <1>2, <2>1, <3>1 DEF TellsTask
    <2>2. CASE q.status # Keep
      <3>1. Updates(F) = Updates(E) \cup {n}
        BY <2>2, Joins
      <3>2. Last(Updates(F), "id") = n
        BY <1>3, <3>1, LastIs
      <3> QED BY <1>1, <2>2, <3>1, <3>2
    <2> QED BY <2>1, <2>2
  <1>5. Assignments(F) # {} => new.assignee = Last(Assignments(F), "id").user
    <2>1. CASE q.user = Keep
      <3>1. Assignments(F) = Assignments(E)
        BY <2>1, Joins
      <3> QED BY <1>1, <2>1, <3>1 DEF TellsTask
    <2>2. CASE q.user # Keep
      <3>1. Assignments(F) = Assignments(E) \cup {n}
        BY <2>2, Joins
      <3>2. Last(Assignments(F), "id") = n
        BY <1>3, <3>1, LastIs
      <3> QED BY <1>1, <2>2, <3>1, <3>2
    <2> QED BY <2>1, <2>2
  <1> HIDE DEF F
  <1> QED BY <1>2, <1>4, <1>5 DEF TellsTask

\* The event of a commit, and the row it is about.
LEMMA Published ==
  ASSUME Shape, NEW s \in Sessions, Publishing(s), NEW n,
         n = EventOf(tx[s], tx[s].event, tx[s].began)
  PROVE  LET q == tx[s].req IN
         /\ n \in Event /\ n.id = tx[s].event /\ n.id \in Nat /\ n.actor = tx[s].actor
         /\ n.search \in Searches /\ n.task = q.task /\ n.status = q.status
         /\ n.search = IF q.kind = "patchTask" THEN tasks[q.task].search ELSE q.search
         /\ q.kind # "newTask" => n.user = q.user
         /\ RowOf(n) = Row(tx[s])
         /\ q.kind = "newSearch" => n.type = "SEARCH_CREATED"
         /\ q.kind = "patchSearch" => n.type = "SEARCH_UPDATED"
         /\ q.kind = "addMember" => n.type = "MEMBER_ADDED"
         /\ q.kind = "removeMember" => n.type = "MEMBER_REMOVED"
         /\ q.kind = "newTask" => n.type = "TASK_CREATED"
         /\ q.kind = "patchTask" => n.type = "TASK_UPDATED"
  <1> DEFINE q == tx[s].req
  <1>1. /\ q \in Requests /\ tx[s].actor \in Users /\ tx[s].event \in 1..MaxEvents
        /\ q.kind \in {"newSearch", "patchSearch", "addMember", "removeMember",
                       "newTask", "patchTask"}
        /\ tx[s].began \in 1..(MaxEvents + 1) /\ tx[s].at = "logged"
    BY LoggedIs DEF Publishing
  <1>2. /\ q.kind # "patchTask" => q.search \in Searches
        /\ q.kind \in {"newTask", "patchTask"} => q.task \in Tasks
    BY <1>1, RequestIs
  <1>3. q.kind = "patchTask" => tasks[q.task].search \in Searches
    BY <1>1, <1>2 DEF Shape, Homes
  <1>4. n \in Event /\ n.id \in Nat
    <2>1. n \in Event
      BY <1>1, <1>3, EventType1
    <2> QED BY <2>1, LimitsAssumption DEF Event
  <1>5. /\ n.id = tx[s].event /\ n.actor = tx[s].actor /\ n.task = q.task /\ n.status = q.status
        /\ n.search = IF q.kind = "patchTask" THEN tasks[q.task].search ELSE q.search
        /\ n.user = IF q.kind = "newTask" THEN None ELSE q.user
        /\ n.type = EventType(tx[s])
    BY DEF EventOf
  <1>6. n.search \in Searches
    BY <1>2, <1>3, <1>5
  <1>7. /\ q.kind = "newSearch" => n.type = "SEARCH_CREATED"
        /\ q.kind = "patchSearch" => n.type = "SEARCH_UPDATED"
        /\ q.kind = "addMember" => n.type = "MEMBER_ADDED"
        /\ q.kind = "removeMember" => n.type = "MEMBER_REMOVED"
        /\ q.kind = "newTask" => n.type = "TASK_CREATED"
        /\ q.kind = "patchTask" => n.type = "TASK_UPDATED"
    BY <1>5 DEF EventType
  <1>8. RowOf(n) = Row(tx[s])
    <2>1. CASE q.kind \in {"newTask", "patchTask"}
      BY <1>5, <1>7, <2>1 DEF RowOf, Row
    <2>2. CASE q.kind \in {"newSearch", "patchSearch"}
      BY <1>5, <1>7, <2>2 DEF RowOf, Row
    <2>3. CASE q.kind \in {"addMember", "removeMember"}
      BY <1>5, <1>7, <2>3 DEF RowOf, Row
    <2> QED BY <1>1, <2>1, <2>2, <2>3
  <1> QED BY <1>4, <1>5, <1>6, <1>7, <1>8

LEMMA NotedIs ==
  ASSUME Shape, NEW s \in Sessions, Noting(s), NEW n, n = EventOf(tx[s], nextId, nextId)
  PROVE  /\ n.search = tx[s].req.search /\ n.search \in Searches /\ n.task = None
         /\ n.type = "COORDINATOR_NOTE" /\ n.id = nextId
  <1>1. tx[s].req \in Requests /\ tx[s].req.kind = "note"
    BY DEF Noting, Shape, Fits
  <1>2. tx[s].req.search \in Searches /\ tx[s].req.task = None
    BY <1>1, RequestIs
  <1> QED BY <1>1, <1>2 DEF EventOf, EventType

\* Searches and tasks that exist go on to exist.
LEMMA Lasting ==
  ASSUME Shape, NEW s \in Sessions, Publishing(s)
  PROVE  /\ \A k \in Searches : Exists(k) => searches'[k].status # Absent
         /\ \A j \in Tasks : tasks[j].status # Absent => tasks'[j].status # Absent
         /\ tx[s].req.kind # "newTask" => \A j \in Tasks : tasks'[j].search = tasks[j].search
         /\ \A j \in Tasks : j # tx[s].req.task => tasks'[j] = tasks[j]
  <1> DEFINE q == tx[s].req
  <1>1. /\ q \in Requests
        /\ q.kind \in {"newSearch", "patchSearch", "addMember", "removeMember",
                       "newTask", "patchTask"}
        /\ searches \in [Searches -> Search] /\ tasks \in [Tasks -> Task]
    BY LoggedIs DEF Publishing, Shape, TypeOK
  <1>2. \A k \in Searches : Exists(k) => searches'[k].status # Absent
    <2>1. CASE q.kind = "newSearch"
      <3>1. NewSearch.status # Absent /\ searches' = [searches EXCEPT ![q.search] = NewSearch]
        BY <2>1 DEF NewSearch, Absent, Publishing
      <3> QED BY <1>1, <3>1 DEF Exists
    <2>2. CASE q.kind = "patchSearch"
      <3>1. q.search \in Searches /\ q.status \in SearchStatus \cup {Keep}
        BY <1>1, <2>2, RequestIs
      <3>2. PatchedSearch(searches[q.search], q.status).status
               = IF q.status = Keep THEN searches[q.search].status ELSE q.status
        BY <1>1, <3>1, PatchedSearchType
      <3>3. searches' = [searches EXCEPT ![q.search] = PatchedSearch(searches[q.search], q.status)]
        BY <2>2 DEF Publishing
      <3> QED BY <1>1, <3>1, <3>2, <3>3 DEF Exists, SearchStatus, Keep, Absent
    <2> QED BY <1>1, <2>1, <2>2 DEF Publishing, Exists
  <1>3. /\ \A j \in Tasks : tasks[j].status # Absent => tasks'[j].status # Absent
        /\ q.kind # "newTask" => \A j \in Tasks : tasks'[j].search = tasks[j].search
        /\ \A j \in Tasks : j # q.task => tasks'[j] = tasks[j]
    <2>1. CASE q.kind = "newTask"
      <3> DEFINE row == [search |-> q.search, status |-> "OPEN", assignee |-> q.user,
                         completed |-> FALSE]
      <3>1. row.status # Absent /\ tasks' = [tasks EXCEPT ![q.task] = row]
        BY <2>1 DEF Publishing, Absent
      <3> HIDE DEF row
      <3> QED BY <1>1, <2>1, <3>1
    <2>2. CASE q.kind = "patchTask"
      <3> DEFINE row == PatchedTask(tasks[q.task], q)
      <3>1. /\ q.task \in Tasks /\ q.user \in Users \cup {Nobody, Keep}
            /\ q.status \in TaskStatus \cup {Keep} /\ tasks[q.task] \in Task
        BY <1>1, <2>2, RequestIs
      <3>2. /\ row.search = tasks[q.task].search
            /\ row.status = IF q.status = Keep THEN tasks[q.task].status ELSE q.status
        BY <3>1, PatchedTaskIs
      <3>3. tasks' = [tasks EXCEPT ![q.task] = row]
        BY <2>2 DEF Publishing
      <3> HIDE DEF row
      <3> QED BY <1>1, <3>1, <3>2, <3>3 DEF TaskStatus, Absent, Keep
    <2>3. CASE q.kind \notin {"newTask", "patchTask"}
      BY <2>3 DEF Publishing
    <2> QED BY <2>1, <2>2, <2>3
  <1> QED BY <1>2, <1>3

LEMMA RootedNext ==
  ASSUME Shape, Rooted, Begun, [Next]_vars
  PROVE  Rooted'
  <1>0. \A e \in events : e.search \in Searches
    BY DEF Shape, TypeOK, Event
  <1>1. CASE UNCHANGED <<searches, members, tasks, events>>
    BY <1>1 DEF Rooted, Exists, IsMember
  <1>2. ASSUME NEW s \in Sessions, Noting(s)
        PROVE  Rooted'
    <2> DEFINE n == EventOf(tx[s], nextId, nextId)
    <2>1. events' = events \cup {n} /\ UNCHANGED <<searches, members, tasks>>
      BY <1>2 DEF Noting
    <2>2. n.search = tx[s].req.search /\ n.task = None
      BY <1>2, NotedIs
    <2>3. Exists(n.search) /\ n.task \notin Tasks
      BY <1>2, <2>2, NamesAssumption DEF Noting, Begun
    <2> HIDE DEF n
    <2> QED BY <2>1, <2>3 DEF Rooted, Exists, IsMember
  <1>3. ASSUME NEW s \in Sessions, Publishing(s)
        PROVE  Rooted'
    <2> DEFINE n == EventOf(tx[s], tx[s].event, tx[s].began)
               q == tx[s].req
    <2>1. events' = events \cup {n} /\ tx[s].at = "logged"
      BY <1>3 DEF Publishing
    <2>2. /\ n.search \in Searches /\ n.task = q.task
          /\ n.search = IF q.kind = "patchTask" THEN tasks[q.task].search ELSE q.search
      BY <1>3, Published
    <2> HIDE DEF n
    <2>3. /\ q \in Requests /\ tx[s].actor \in Users
          /\ q.kind \in {"newSearch", "patchSearch", "addMember", "removeMember",
                         "newTask", "patchTask"}
          /\ q.kind # "patchTask" => q.search \in Searches
          /\ q.kind \in {"newTask", "patchTask"} => q.task \in Tasks
          /\ q.kind \in {"addMember", "removeMember"} => q.user \in Users
          /\ q.kind \notin {"newTask", "patchTask"} => q.task = None
      BY <2>1, LoggedIs, RequestIs
    <2>4. searches'[n.search].status # Absent
      <3>1. CASE q.kind = "newSearch"
        <4>1. searches'[q.search] = NewSearch
          BY <1>3, <2>3, <3>1 DEF Publishing, Shape, TypeOK
        <4> QED BY <2>2, <3>1, <4>1 DEF Exists, NewSearch, Absent
      <3>2. CASE q.kind # "newSearch"
        <4>1. Exists(n.search)
          BY <2>1, <2>2, <2>3, <3>2 DEF Begun, Rooted, Shape, Homes, Exists
        <4> QED BY <1>3, <2>2, <4>1, Lasting
      <3> QED BY <3>1, <3>2
    <2>5. n.task \in Tasks => tasks'[n.task].status # Absent
      <3>1. CASE q.kind = "newTask"
        <4>1. tasks'[q.task].status = "OPEN"
          BY <1>3, <2>3, <3>1 DEF Publishing, Shape, TypeOK
        <4> QED BY <2>2, <4>1 DEF Absent
      <3>2. CASE q.kind = "patchTask"
        <4>1. tasks[q.task].status # Absent
          BY <2>1, <3>2 DEF Shape, Homes
        <4> QED BY <1>3, <2>2, <4>1, Lasting
      <3> QED BY <2>2, <2>3, <3>1, <3>2, NamesAssumption
    <2>6. \A e \in events' : /\ searches'[e.search].status # Absent
                             /\ e.task \in Tasks => tasks'[e.task].status # Absent
      BY <1>0, <1>3, <2>1, <2>4, <2>5, Lasting DEF Rooted
    <2>7. ASSUME NEW k \in Searches, NEW u \in Users, IsMember(k, u)'
          PROVE  searches'[k].status # Absent
      <3>1. CASE IsMember(k, u)
        BY <1>3, <3>1, Lasting DEF Rooted
      <3>2. CASE ~IsMember(k, u)
        <4>1. members \in [Searches \X Users -> 0..MaxEvents]
          BY DEF Shape, TypeOK
        <4>2. <<k, u>> \in Searches \X Users /\ members'[<<k, u>>] # members[<<k, u>>]
          BY <2>7, <3>2 DEF IsMember
        <4>3. q.kind \in {"newSearch", "addMember", "removeMember"}
          BY <1>3, <2>3, <4>2 DEF Publishing
        <4>4. q.search = k
          BY <1>3, <2>3, <4>1, <4>2, <4>3 DEF Publishing
        <4> QED BY <2>2, <2>4, <4>3, <4>4
      <3> QED BY <3>1, <3>2
    <2>8. ASSUME NEW j \in Tasks, tasks'[j].search \in Searches
          PROVE  tasks'[j].status # Absent /\ searches'[tasks'[j].search].status # Absent
      <3>1. CASE q.kind = "newTask" /\ j = q.task
        <4>1. tasks'[q.task].search = q.search
          BY <1>3, <2>3, <3>1 DEF Publishing, Shape, TypeOK
        <4> QED BY <2>2, <2>4, <2>5, <3>1, <4>1
      <3>2. CASE ~(q.kind = "newTask" /\ j = q.task)
        <4>1. tasks'[j].search = tasks[j].search
          BY <1>3, <3>2, Lasting
        <4> QED BY <1>3, <2>8, <4>1, Lasting DEF Rooted
      <3> QED BY <3>1, <3>2
    <2> QED BY <2>6, <2>7, <2>8 DEF Rooted, Exists
  <1> QED BY <1>1, <1>2, <1>3, ShapeUsers, QuietKeeps, Notes, Commits, HandleIs DEF Next, vars

\* Getting past the access check, and to the row: the searches go on.
LEMMA BegunIs ==
  ASSUME Shape, NEW r \in Sessions, Handle(r),
         tx'[r].at \in {"begun", "found", "locked", "written", "logged"}
  PROVE  /\ Quiet(r) /\ tx'[r].req = tx[r].req
         /\ \/ Beginning(r)
            \/ tx[r].at \in {"begun", "found", "locked", "written", "logged"}
  <1>1. Quiet(r)
    BY HandleIs, IdleAfter
  <1>2. CASE Leaves(r) BY <1>2 DEF Leaves, Idle
  <1>3. CASE Arriving(r) BY <1>3 DEF Arriving
  <1>4. CASE Beginning(r) BY <1>1, <1>4 DEF Beginning, Advances
  <1>5. CASE Finding(r) BY <1>1, <1>5 DEF Finding, To, Advances
  <1>6. CASE Seeing(r) BY <1>1, <1>6 DEF Seeing, Advances
  <1>7. CASE To(r, "connected") BY <1>7 DEF To
  <1>8. CASE Opening(r) BY <1>8 DEF Opening
  <1>9. CASE Reading(r) BY <1>9 DEF Reading, SectionAfter, Sections
  <1>10. CASE Locking(r) BY <1>1, <1>10 DEF Locking, To, Advances
  <1>11. CASE Writing(r) BY <1>1, <1>11 DEF Writing, To, Advances
  <1>12. CASE Logging(r) BY <1>1, <1>12 DEF Logging, Advances
  <1> QED BY <1>1, <1>2, <1>3, <1>4, <1>5, <1>6, <1>7, <1>8, <1>9, <1>10, <1>11, <1>12, QuietIs

LEMMA BegunNext ==
  ASSUME Shape, Rooted, Begun, [Next]_vars
  PROVE  Begun'
  <1>1. CASE UNCHANGED vars BY <1>1 DEF vars, db, Begun, Exists
  <1>2. CASE \E u \in Users : ChangeUser(u) BY <1>2, ShapeUsers DEF Begun, Exists
  <1>3. ASSUME NEW r \in Sessions, Handle(r)
        PROVE  Begun'
    <2>1. \A k \in Searches : Exists(k) => searches'[k].status # Absent
      <3>1. CASE Quiet(r) \/ Note(r)
        BY <3>1, QuietKeeps, Notes DEF Noting, Exists
      <3>2. CASE Commit(r)
        BY <3>2, Commits, Lasting
      <3> QED BY <1>3, <3>1, <3>2, HandleIs
    <2>2. ASSUME NEW s \in Sessions,
                 tx'[s].at \in {"begun", "found", "locked", "written", "logged"},
                 tx'[s].req.kind \notin {"newSearch", "patchTask"}
          PROVE  searches'[tx'[s].req.search].status # Absent
      <3>1. CASE s # r
        <4>1. tx'[s] = tx[s] /\ Exists(tx[s].req.search)
          BY <1>3, <2>2, <3>1, OthersStay DEF Begun
        <4>2. tx[s].req.search \in Searches
          BY <2>2, <4>1, RequestIs DEF Shape, Fits
        <4> QED BY <2>1, <4>1, <4>2
      <3>2. CASE s = r
        <4>1. /\ Quiet(r) /\ tx'[r].req = tx[r].req
              /\ Beginning(r) \/ tx[r].at \in {"begun", "found", "locked", "written", "logged"}
          BY <1>3, <2>2, <3>2, BegunIs
        <4>2. tx[r].req \in Requests /\ tx[r].actor \in Users
          BY <4>1 DEF Beginning, Shape, Fits
        <4>3. tx[r].req.search \in Searches
          BY <2>2, <3>2, <4>1, <4>2, RequestIs
        <4>4. Exists(tx[r].req.search)
          <5>1. CASE Beginning(r)
            BY <2>2, <3>2, <4>1, <4>2, <4>3, <5>1
               DEF Beginning, Manages, Accesses, Reaches, Rooted, Exists
          <5>2. CASE tx[r].at \in {"begun", "found", "locked", "written", "logged"}
            BY <2>2, <3>2, <4>1, <5>2 DEF Begun
          <5> QED BY <4>1, <5>1, <5>2
        <4> QED BY <2>1, <3>2, <4>1, <4>3, <4>4
      <3> QED BY <3>1, <3>2
    <2> QED BY <2>2 DEF Begun, Exists
  <1> QED BY <1>1, <1>2, <1>3 DEF Next

\* Another's commit leaves the search alone that a request holds.
LEMMA SearchKept ==
  ASSUME Shape, Exclusive, NEW r \in Sessions, NEW s \in Sessions \ {r}, Publishing(r),
         HoldsRow(tx[s]), tx[s].req.kind = "newSearch"
  PROVE  searches'[tx[s].req.search] = searches[tx[s].req.search]
  <1>1. Row(tx[r]) # Row(tx[s])
    BY DEF Publishing, Exclusive, HoldsRow
  <1>2. tx[s].req.search \in Searches /\ searches \in [Searches -> Search]
    BY RequestIs DEF Shape, Fits, TypeOK, HoldsRow
  <1>3. Row(tx[s]) = <<"search", tx[s].req.search>>
    BY DEF Row
  <1>4. CASE tx[r].req.kind \in {"newSearch", "patchSearch"}
    <2>1. Row(tx[r]) = <<"search", tx[r].req.search>>
      BY <1>4 DEF Row
    <2>2. tx[r].req.search # tx[s].req.search
      BY <1>1, <1>3, <2>1
    <2> QED BY <1>2, <1>4, <2>2 DEF Publishing
  <1>5. CASE tx[r].req.kind \notin {"newSearch", "patchSearch"}
    BY <1>5 DEF Publishing
  <1> QED BY <1>4, <1>5

LEMMA FreshNext ==
  ASSUME Shape, Exclusive, Fresh, [Next]_vars
  PROVE  Fresh'
  <1>1. CASE UNCHANGED vars BY <1>1 DEF vars, db, Fresh, Exists
  <1>2. CASE \E u \in Users : ChangeUser(u) BY <1>2, ShapeUsers DEF Fresh, Exists
  <1>3. ASSUME NEW r \in Sessions, Handle(r), NEW s \in Sessions,
               tx'[s].at \in {"written", "logged"}
        PROVE  /\ tx'[s].req.kind = "newSearch" =>
                     searches'[tx'[s].req.search].status = Absent
               /\ tx'[s].req.kind = "newTask" => tasks'[tx'[s].req.task].status = Absent
    <2>1. CASE s # r
      <3>1. tx'[s] = tx[s] /\ HoldsRow(tx[s]) /\ tx[s].at \in {"written", "logged"}
        BY <1>3, <2>1, OthersStay DEF HoldsRow
      <3>2. /\ tx[s].req.kind = "newSearch" => ~Exists(tx[s].req.search)
            /\ tx[s].req.kind = "newTask" => tasks[tx[s].req.task].status = Absent
        BY <3>1 DEF Fresh
      <3>3. CASE Quiet(r) \/ Note(r)
        BY <3>1, <3>2, <3>3, QuietKeeps, Notes DEF Noting, Exists
      <3>4. CASE Commit(r)
        <4>1. Publishing(r) /\ Row(tx[r]) # Row(tx[s])
          BY <2>1, <3>1, <3>4, Commits DEF Publishing, Exclusive, HoldsRow
        <4>2. ASSUME tx[s].req.kind = "newTask"
              PROVE  tasks'[tx[s].req.task] = tasks[tx[s].req.task]
          <5>1. tx[s].req.task \in Tasks /\ Row(tx[s]) = <<"task", tx[s].req.task>>
            BY <3>1, <4>2, RequestIs DEF Shape, Fits, Row
          <5>2. tx[r].req \in Requests
            BY <4>1, LoggedIs DEF Publishing
          <5>3. CASE tx[r].req.kind \in {"newTask", "patchTask"}
            <6>1. Row(tx[r]) = <<"task", tx[r].req.task>>
              BY <5>3 DEF Row
            <6>2. tx[r].req.task # tx[s].req.task
              BY <4>1, <5>1, <6>1
            <6> QED BY <4>1, <5>1, <6>2, Lasting
          <5>4. CASE tx[r].req.kind \notin {"newTask", "patchTask"}
            BY <4>1, <5>4 DEF Publishing
          <5> QED BY <5>3, <5>4
        <4> QED BY <2>1, <3>1, <3>2, <4>1, <4>2, SearchKept DEF Exists
      <3> QED BY <1>3, <3>3, <3>4, HandleIs
    <2>2. CASE s = r
      <3>1. Quiet(r) /\ (Locking(r) \/ Writing(r) \/ Logging(r))
        BY <1>3, <2>2, ProgressIs
      <3>2. UNCHANGED <<searches, tasks>>
        BY <3>1, QuietKeeps
      <3>3. CASE Locking(r)
        BY <1>3, <2>2, <3>3 DEF Locking, To
      <3>4. CASE Writing(r)
        BY <2>2, <3>2, <3>4 DEF Writing, To, Advances
      <3>5. CASE Logging(r)
        BY <2>2, <3>2, <3>5 DEF Logging, Advances, Fresh, Exists
      <3> QED BY <3>1, <3>3, <3>4, <3>5
    <2> QED BY <2>1, <2>2
  <1>4. CASE \E r \in Sessions : Handle(r)
    BY <1>3, <1>4 DEF Fresh, Exists
  <1> QED BY <1>1, <1>2, <1>4 DEF Next

LEMMA LatestNext ==
  ASSUME Shape, Exclusive, Ids, Begun, Fresh, Latest, [Next]_vars
  PROVE  Latest'
  <1> DEFINE Tied(e, t) == \/ RowOf(e) = Row(t)
                           \/ /\ t.req.kind \in {"addMember", "removeMember"}
                              /\ e.type = "SEARCH_CREATED" /\ e.search = t.req.search
  <1>0. /\ Latest <=> \A s \in Sessions : tx[s].at = "logged" =>
                         \A e \in events : Tied(e, tx[s]) => e.id < tx[s].event
        /\ Latest' <=> \A s \in Sessions : tx'[s].at = "logged" =>
                          \A e \in events' : Tied(e, tx'[s]) => e.id < tx'[s].event
    BY DEF Latest, RowOf, Row
  <1> HIDE DEF Tied
  <1>1. CASE UNCHANGED vars BY <1>0, <1>1 DEF vars, db
  <1>2. CASE \E u \in Users : ChangeUser(u) BY <1>0, <1>2, ShapeUsers
  <1>3. ASSUME NEW r \in Sessions, Handle(r), NEW s \in Sessions, tx'[s].at = "logged",
               NEW e \in events', Tied(e, tx'[s])
        PROVE  e.id < tx'[s].event
    <2>1. CASE s = r
      <3>1. Quiet(r) /\ Logging(r)
        BY <1>3, <2>1, ProgressIs DEF Locking, Writing, To
      <3>2. events' = events /\ tx'[s].event = nextId
        BY <2>1, <3>1, QuietKeeps DEF Logging
      <3> QED BY <1>3, <3>2 DEF Ids
    <2>2. CASE s # r
      <3>1. tx'[s] = tx[s] /\ tx[s].at = "logged"
        BY <1>3, <2>2, OthersStay
      <3>2. CASE e \in events
        BY <1>0, <1>3, <3>1, <3>2
      <3>3. CASE Quiet(r)
        BY <3>2, <3>3, <1>3, QuietKeeps
      <3>4. /\ tx[s].req.kind \in {"newSearch", "patchSearch", "addMember", "removeMember",
                                   "newTask", "patchTask"}
        BY <3>1, LoggedIs
      <3>5. CASE Noting(r) /\ e = EventOf(tx[r], nextId, nextId)
        <4>1. e.type = "COORDINATOR_NOTE"
          BY <3>5, NotedIs
        <4>2. RowOf(e) = <<None>>
          BY <4>1 DEF RowOf
        <4>3. Row(tx[s]) # <<None>>
          <5>1. CASE tx[s].req.kind \in {"newTask", "patchTask"}
            BY <5>1 DEF Row
          <5>2. CASE tx[s].req.kind \in {"newSearch", "patchSearch"}
            BY <5>2 DEF Row
          <5>3. CASE tx[s].req.kind \in {"addMember", "removeMember"}
            BY <5>3 DEF Row
          <5> QED BY <3>4, <5>1, <5>2, <5>3
        <4> QED BY <1>3, <3>1, <4>1, <4>2, <4>3 DEF Tied
      <3>6. CASE Publishing(r) /\ e = EventOf(tx[r], tx[r].event, tx[r].began)
        <4>1. /\ RowOf(e) = Row(tx[r]) /\ tx[r].at = "logged"
              /\ e.type = "SEARCH_CREATED" =>
                    tx[r].req.kind = "newSearch" /\ e.search = tx[r].req.search
          BY <3>6, Published, LoggedIs DEF Publishing
        <4>2. RowOf(e) # Row(tx[s])
          BY <2>2, <3>1, <4>1 DEF Exclusive, HoldsRow
        <4>3. ~(/\ tx[s].req.kind \in {"addMember", "removeMember"}
                /\ e.type = "SEARCH_CREATED" /\ e.search = tx[s].req.search)
          BY <3>1, <4>1 DEF Begun, Fresh
        <4> QED BY <1>3, <3>1, <4>2, <4>3 DEF Tied
      <3>7. CASE Note(r)
        <4>1. Noting(r)
          BY <3>7, Notes
        <4> QED BY <1>3, <3>2, <3>5, <4>1 DEF Noting
      <3>8. CASE Commit(r)
        <4>1. Publishing(r)
          BY <3>8, Commits
        <4> QED BY <1>3, <3>2, <3>6, <4>1 DEF Publishing
      <3> QED BY <1>3, <3>3, <3>7, <3>8, HandleIs
    <2> QED BY <2>1, <2>2
  <1>4. CASE \E r \in Sessions : Handle(r)
    BY <1>0, <1>3, <1>4
  <1> QED BY <1>1, <1>2, <1>4 DEF Next

\* The events of a search before and after.
LEMMA EventsGrow ==
  ASSUME Shape, NEW k \in Searches, NEW n, events' = events \cup {n}
  PROVE  /\ n.search = k => EventsOf(k)' = EventsOf(k) \cup {n}
         /\ n.search # k => EventsOf(k)' = EventsOf(k)
         /\ \A e \in EventsOf(k) : e \in events /\ e.search = k /\ e.id \in Nat
  <1>1. \A e \in events : e.id \in Nat
    BY LimitsAssumption DEF Shape, TypeOK, Event
  <1> QED BY <1>1 DEF EventsOf

LEMMA SearchTells ==
  ASSUME Shape, Rooted, Begun, Fresh, Latest, NEW s \in Sessions, Publishing(s),
         NEW k \in Searches, TellsSearch(searches[k], EventsOf(k))
  PROVE  TellsSearch(searches[k], EventsOf(k))'
  <1> DEFINE q == tx[s].req
             n == EventOf(tx[s], tx[s].event, tx[s].began)
             E == EventsOf(k)
  <1>1. /\ events' = events \cup {n} /\ tx[s].at = "logged"
        /\ searches \in [Searches -> Search]
    BY DEF Publishing, Shape, TypeOK
  <1>2. /\ q \in Requests /\ tx[s].event \in Nat
        /\ q.kind \in {"newSearch", "patchSearch", "addMember", "removeMember",
                       "newTask", "patchTask"}
        /\ q.kind # "patchTask" => q.search \in Searches
        /\ q.kind = "patchSearch" => q.status \in SearchStatus \cup {Keep}
    BY <1>1, LoggedIs, RequestIs
  <1>3. /\ n.id = tx[s].event /\ n.status = q.status
        /\ q.kind # "patchTask" => n.search = q.search
        /\ q.kind = "newSearch" => n.type = "SEARCH_CREATED"
        /\ q.kind = "patchSearch" => n.type = "SEARCH_UPDATED"
        /\ q.kind \notin {"newSearch", "patchSearch"} =>
              n.type \notin {"SEARCH_CREATED", "SEARCH_UPDATED"}
    BY <1>2, Published
  <1> HIDE DEF n
  <1>4. /\ n.search = k => EventsOf(k)' = E \cup {n}
        /\ n.search # k => EventsOf(k)' = E
        /\ \A e \in E : e \in events /\ e.search = k /\ e.id \in Nat
    BY <1>1, EventsGrow
  <1> HIDE DEF E
  <1>5. SUFFICES TellsSearch(searches'[k], EventsOf(k)')
    BY DEF TellsSearch, Statuses, Turns, Of, Last
  <1>6. CASE n.search # k
    <2>1. searches'[k] = searches[k]
      BY <1>1, <1>2, <1>3, <1>6 DEF Publishing
    <2> QED BY <1>4, <1>6, <2>1 DEF E
  <1>7. CASE n.search = k /\ q.kind = "newSearch"
    <2>1. E = {}
      BY <1>1, <1>3, <1>4, <1>7 DEF Fresh, Rooted
    <2>2. searches'[k] = NewSearch
      BY <1>1, <1>2, <1>3, <1>7 DEF Publishing
    <2> QED BY <1>3, <1>4, <1>7, <2>1, <2>2, SearchCreated
  <1>8. CASE n.search = k /\ q.kind = "patchSearch"
    <2>1. searches[k].status # Absent /\ searches[k] \in Search
      BY <1>1, <1>3, <1>8 DEF Begun, Exists
    <2>2. ASSUME NEW e \in Statuses(E)
          PROVE  e.id \in Nat /\ e.id < n.id
      <3>1. e \in E /\ e.type = "SEARCH_UPDATED"
        BY DEF Statuses, Of
      <3>2. RowOf(e) = Row(tx[s])
        BY <1>3, <1>4, <1>8, <3>1 DEF RowOf, Row
      <3> QED BY <1>1, <1>3, <1>4, <3>1, <3>2 DEF Latest
    <2>3. searches'[k] = PatchedSearch(searches[k], q.status)
      BY <1>1, <1>2, <1>3, <1>8 DEF Publishing
    <2>4. TellsSearch(searches[k], E)
      BY DEF E
    <2>5. TellsSearch(PatchedSearch(searches[k], q.status), E \cup {n})
      BY <1>2, <1>3, <1>8, <2>1, <2>2, <2>4, SearchUpdated
    <2> QED BY <1>4, <1>8, <2>3, <2>5
  <1>9. CASE n.search = k /\ q.kind \notin {"newSearch", "patchSearch"}
    <2>1. searches' = searches
      BY <1>9 DEF Publishing
    <2>2. TellsSearch(searches[k], E \cup {n})
      BY <1>3, <1>9, SearchStays DEF E
    <2> QED BY <1>4, <1>9, <2>1, <2>2
  <1> QED BY <1>6, <1>7, <1>8, <1>9

LEMMA MembersTell ==
  ASSUME Shape, Rooted, Begun, Fresh, Latest, NEW s \in Sessions, Publishing(s),
         NEW k \in Searches, NEW u \in Users, TellsMember(IsMember(k, u), EventsOf(k), u)
  PROVE  TellsMember(IsMember(k, u)', EventsOf(k)', u)
  <1> DEFINE q == tx[s].req
             n == EventOf(tx[s], tx[s].event, tx[s].began)
             E == EventsOf(k)
             in == members'[<<k, u>>] # 0
  <1>1. /\ events' = events \cup {n} /\ tx[s].at = "logged"
        /\ members \in [Searches \X Users -> 0..MaxEvents] /\ <<k, u>> \in Searches \X Users
    BY DEF Publishing, Shape, TypeOK
  <1>2. /\ q \in Requests /\ tx[s].event \in 1..MaxEvents /\ tx[s].actor \in Users
        /\ q.kind \in {"newSearch", "patchSearch", "addMember", "removeMember",
                       "newTask", "patchTask"}
        /\ q.kind # "patchTask" => q.search \in Searches
        /\ q.kind \in {"addMember", "removeMember"} => q.user \in Users
    BY <1>1, LoggedIs, RequestIs
  <1>3. /\ n.id = tx[s].event /\ n.id \in Nat /\ n.actor = tx[s].actor
        /\ q.kind # "patchTask" => n.search = q.search
        /\ q.kind # "newTask" => n.user = q.user
        /\ q.kind = "newSearch" => n.type = "SEARCH_CREATED"
        /\ q.kind = "addMember" => n.type = "MEMBER_ADDED"
        /\ q.kind = "removeMember" => n.type = "MEMBER_REMOVED"
        /\ q.kind \notin {"newSearch", "addMember", "removeMember"} =>
              n.type \notin {"SEARCH_CREATED", "MEMBER_ADDED", "MEMBER_REMOVED"}
    BY <1>2, Published
  <1> HIDE DEF n
  <1>4. /\ n.search = k => EventsOf(k)' = E \cup {n}
        /\ n.search # k => EventsOf(k)' = E
        /\ \A e \in E : e \in events /\ e.search = k /\ e.id \in Nat
    BY <1>1, EventsGrow
  <1>5. TellsMember(members[<<k, u>>] # 0, E, u)
    BY DEF IsMember
  <1> HIDE DEF E
  <1>6. SUFFICES TellsMember(in, EventsOf(k)', u)
    BY DEF IsMember
  <1>7. CASE n.search # k
    <2>1. members'[<<k, u>>] = members[<<k, u>>]
      BY <1>1, <1>2, <1>3, <1>7 DEF Publishing
    <2> QED BY <1>4, <1>5, <1>7, <2>1
  <1>8. CASE n.search = k /\ ~(\/ n.type \in {"MEMBER_ADDED", "MEMBER_REMOVED"} /\ n.user = u
                               \/ n.type = "SEARCH_CREATED" /\ n.actor = u)
    <2>1. members'[<<k, u>>] = members[<<k, u>>]
      BY <1>1, <1>2, <1>3, <1>8 DEF Publishing
    <2>2. TellsMember(members[<<k, u>>] # 0, E \cup {n}, u)
      BY <1>5, <1>8, MemberStays
    <2> QED BY <1>4, <1>8, <2>1, <2>2
  <1>9. CASE n.search = k /\ (\/ n.type \in {"MEMBER_ADDED", "MEMBER_REMOVED"} /\ n.user = u
                              \/ n.type = "SEARCH_CREATED" /\ n.actor = u)
    <2>1. in <=> n.type # "MEMBER_REMOVED"
      <3>1. CASE q.kind = "newSearch"
        <4>1. members'[<<k, u>>] = tx[s].event
          BY <1>1, <1>2, <1>3, <1>9, <3>1 DEF Publishing
        <4> QED BY <1>2, <1>3, <3>1, <4>1
      <3>2. CASE q.kind = "addMember"
        <4>1. members'[<<k, u>>] = tx[s].event
          BY <1>1, <1>2, <1>3, <1>9, <3>2 DEF Publishing
        <4> QED BY <1>2, <1>3, <3>2, <4>1
      <3>3. CASE q.kind = "removeMember"
        <4>1. members'[<<k, u>>] = 0
          BY <1>1, <1>2, <1>3, <1>9, <3>3 DEF Publishing
        <4> QED BY <1>3, <3>3, <4>1
      <3> QED BY <1>3, <1>9, <3>1, <3>2, <3>3
    <2>2. ASSUME NEW e \in Moves(E, u)
          PROVE  e.id \in Nat /\ e.id < n.id
      <3>1. /\ e \in E
            /\ \/ e.type \in {"MEMBER_ADDED", "MEMBER_REMOVED"} /\ e.user = u
               \/ e.type = "SEARCH_CREATED"
        BY DEF Moves, Of
      <3>2. CASE q.kind = "newSearch"
        BY <1>1, <1>3, <1>4, <1>9, <3>1, <3>2 DEF Fresh, Rooted
      <3>3. CASE q.kind \in {"addMember", "removeMember"}
        <4>1. Row(tx[s]) = <<"member", k, u>>
          BY <1>3, <1>9, <3>3 DEF Row
        <4>2. e.type \in {"MEMBER_ADDED", "MEMBER_REMOVED"} => RowOf(e) = <<"member", k, e.user>>
          BY <1>4, <3>1 DEF RowOf
        <4> QED BY <1>1, <1>3, <1>4, <1>9, <3>1, <3>3, <4>1, <4>2 DEF Latest
      <3> QED BY <1>3, <1>9, <3>2, <3>3
    <2>3. TellsMember(n.type # "MEMBER_REMOVED", E \cup {n}, u)
      BY <1>3, <1>9, <2>2, MemberMoved
    <2> QED BY <1>4, <1>9, <2>1, <2>3 DEF TellsMember
  <1> QED BY <1>7, <1>8, <1>9

LEMMA TasksTell ==
  ASSUME Shape, Rooted, Fresh, Latest, NEW s \in Sessions, Publishing(s),
         NEW k \in Searches, NEW j \in Tasks, TellsTask(Listed(k, j), Mine(EventsOf(k), j))
  PROVE  TellsTask(Listed(k, j)', Mine(EventsOf(k)', j))
  <1> DEFINE q == tx[s].req
             n == EventOf(tx[s], tx[s].event, tx[s].began)
             E == EventsOf(k)
             M == Mine(E, j)
             new == IF tasks'[j].search = k THEN tasks'[j] ELSE NoTask
  <1>1. /\ events' = events \cup {n} /\ tx[s].at = "logged" /\ tasks \in [Tasks -> Task]
    BY DEF Publishing, Shape, TypeOK
  <1>2. /\ q \in Requests
        /\ q.kind \in {"newSearch", "patchSearch", "addMember", "removeMember",
                       "newTask", "patchTask"}
        /\ q.kind \notin {"newTask", "patchTask"} => q.task = None
        /\ q.kind = "patchTask" => q.user \in Users \cup {Nobody, Keep}
        /\ q.kind = "patchTask" => q.status \in TaskStatus \cup {Keep}
    BY <1>1, LoggedIs, RequestIs
  <1>3. /\ n.id = tx[s].event /\ n.id \in Nat /\ n.task = q.task /\ n.status = q.status
        /\ n.search = IF q.kind = "patchTask" THEN tasks[q.task].search ELSE q.search
        /\ q.kind # "newTask" => n.user = q.user
        /\ q.kind = "newTask" => n.type = "TASK_CREATED"
        /\ q.kind = "patchTask" => n.type = "TASK_UPDATED"
    BY <1>2, Published
  <1> HIDE DEF n
  <1>4. /\ n.search = k => EventsOf(k)' = E \cup {n}
        /\ n.search # k => EventsOf(k)' = E
        /\ \A e \in E : e \in events /\ e.search = k /\ e.id \in Nat
    BY <1>1, EventsGrow
  <1>5. TellsTask(Listed(k, j), M)
    OBVIOUS
  <1> HIDE DEF E
  <1>6. \A e \in M : e \in E /\ e.task = j
    BY DEF Mine
  <1>7. SUFFICES TellsTask(new, Mine(EventsOf(k)', j))
    BY DEF Listed
  <1>8. CASE j # n.task
    <2>1. tasks'[j] = tasks[j]
      BY <1>3, <1>8, Lasting
    <2>2. Mine(EventsOf(k)', j) = M
      <3>1. Mine(E \cup {n}, j) = M
        BY <1>8, JoinsMine
      <3> QED BY <1>4, <3>1
    <2>3. new = Listed(k, j)
      BY <2>1 DEF Listed
    <2> QED BY <1>5, <2>2, <2>3
  <1>9. CASE j = n.task /\ n.search # k
    <2>1. q.kind \in {"newTask", "patchTask"}
      BY <1>2, <1>3, <1>9, NamesAssumption
    <2>2. tasks[j].search # k
      <3>1. CASE q.kind = "newTask"
        BY <1>1, <1>3, <1>9, <3>1 DEF Fresh, Rooted
      <3>2. CASE q.kind = "patchTask"
        BY <1>3, <1>9, <3>2
      <3> QED BY <2>1, <3>1, <3>2
    <2>3. tasks'[j].search # k
      <3>1. CASE q.kind = "newTask"
        <4>1. tasks'[j].search = q.search
          BY <1>1, <1>3, <1>9, <3>1 DEF Publishing
        <4> QED BY <1>3, <1>9, <3>1, <4>1
      <3>2. CASE q.kind = "patchTask"
        BY <2>2, <3>2, Lasting
      <3> QED BY <2>1, <3>1, <3>2
    <2>4. new = Listed(k, j)
      BY <2>2, <2>3 DEF Listed
    <2> QED BY <1>4, <1>5, <1>9, <2>4
  <1>10. CASE j = n.task /\ n.search = k
    <2>1. q.kind \in {"newTask", "patchTask"}
      BY <1>2, <1>3, <1>10, NamesAssumption
    <2>2. Mine(EventsOf(k)', j) = M \cup {n}
      <3>1. n.task = j
        BY <1>10
      <3>2. Mine(E \cup {n}, j) = Mine(E, j) \cup {n}
        BY <3>1 DEF Mine
      <3> QED BY <1>4, <1>10, <3>2
    <2>3. CASE q.kind = "newTask"
      <3>1. M = {}
        BY <1>1, <1>3, <1>4, <1>6, <1>10, <2>3 DEF Fresh, Rooted
      <3>2. tasks'[j].search = k /\ tasks'[j].status = "OPEN"
        BY <1>1, <1>3, <1>10, <2>3 DEF Publishing
      <3>3. TellsTask(new, M \cup {n})
        BY <1>3, <2>3, <3>1, <3>2, TaskCreated
      <3> QED BY <2>2, <3>3
    <2>4. CASE q.kind = "patchTask"
      <3>1. /\ tasks[j].search = k /\ tasks[j] \in Task /\ Listed(k, j) = tasks[j]
            /\ tasks[j].status # Absent
        BY <1>1, <1>3, <1>10, <2>4 DEF Listed, Shape, Homes
      <3>2. tasks'[j] = PatchedTask(tasks[j], q)
        BY <1>1, <1>3, <1>10, <2>4 DEF Publishing
      <3>3. tasks'[j].search = k
        BY <2>4, <3>1, Lasting
      <3>4. ASSUME NEW e \in M, e.type = "TASK_UPDATED"
            PROVE  e.id \in Nat /\ e.id < n.id
        <4>1. RowOf(e) = Row(tx[s])
          BY <1>3, <1>6, <1>10, <2>4, <3>4 DEF RowOf, Row
        <4> QED BY <1>1, <1>3, <1>4, <1>6, <4>1 DEF Latest
      <3> HIDE DEF M
      <3>5. TellsTask(PatchedTask(tasks[j], q), M \cup {n})
        BY <1>2, <1>3, <1>5, <2>4, <3>1, <3>4, TaskUpdated
      <3> QED BY <2>2, <3>2, <3>3, <3>5
    <2> QED BY <2>1, <2>3, <2>4
  <1> QED BY <1>8, <1>9, <1>10

LEMMA TellsNext ==
  ASSUME Shape, Rooted, Begun, Fresh, Latest, \A k \in Searches : Tells(k), [Next]_vars
  PROVE  \A k \in Searches : Tells(k)'
  <1>1. CASE UNCHANGED <<searches, members, tasks, events>>
    <2>1. /\ \A k : EventsOf(k)' = EventsOf(k)
          /\ \A k \in Searches, u \in Users : IsMember(k, u)' = IsMember(k, u)
          /\ \A k \in Searches, j \in Tasks : Listed(k, j)' = Listed(k, j)
      BY <1>1 DEF EventsOf, IsMember, Listed
    <2> QED BY <1>1, <2>1 DEF Tells
  <1>2. ASSUME NEW s \in Sessions, Noting(s), NEW k \in Searches
        PROVE  Tells(k)'
    <2> DEFINE n == EventOf(tx[s], nextId, nextId)
               E == EventsOf(k)
    <2>1. events' = events \cup {n} /\ UNCHANGED <<searches, members, tasks>>
      BY <1>2 DEF Noting
    <2>2. n.type = "COORDINATOR_NOTE" /\ n.task = None
      BY <1>2, NotedIs
    <2> HIDE DEF n
    <2>3. EventsOf(k)' = E \cup {n} \/ EventsOf(k)' = E
      BY <2>1, EventsGrow
    <2>4. /\ TellsSearch(searches[k], E) /\ \A u \in Users : TellsMember(IsMember(k, u), E, u)
          /\ \A j \in Tasks : TellsTask(Listed(k, j), Mine(E, j))
      BY DEF Tells
    <2> HIDE DEF E
    <2>5. TellsSearch(searches[k], EventsOf(k)')
      BY <2>2, <2>3, <2>4, SearchStays
    <2>6. \A u \in Users : TellsMember(IsMember(k, u), EventsOf(k)', u)
      BY <2>2, <2>3, <2>4, MemberStays
    <2>7. \A j \in Tasks : Mine(EventsOf(k)', j) = Mine(E, j)
      <3>1. \A j \in Tasks : Mine(E \cup {n}, j) = Mine(E, j)
        BY <2>2, JoinsMine, NamesAssumption
      <3> QED BY <2>3, <3>1
    <2>8. /\ \A u \in Users : IsMember(k, u)' = IsMember(k, u)
          /\ \A j \in Tasks : Listed(k, j)' = Listed(k, j)
      BY <2>1 DEF IsMember, Listed
    <2>9. \A j \in Tasks : TellsTask(Listed(k, j)', Mine(EventsOf(k)', j))
      BY <2>4, <2>7, <2>8
    <2> QED BY <2>1, <2>5, <2>6, <2>8, <2>9 DEF Tells
  <1>3. ASSUME NEW s \in Sessions, Publishing(s), NEW k \in Searches
        PROVE  Tells(k)'
    <2>1. /\ TellsSearch(searches[k], EventsOf(k))
          /\ \A u \in Users : TellsMember(IsMember(k, u), EventsOf(k), u)
          /\ \A j \in Tasks : TellsTask(Listed(k, j), Mine(EventsOf(k), j))
      BY DEF Tells
    <2>2. TellsSearch(searches[k], EventsOf(k))'
      BY <1>3, <2>1, SearchTells
    <2>3. \A u \in Users : TellsMember(IsMember(k, u)', EventsOf(k)', u)
      BY <1>3, <2>1, MembersTell
    <2>4. \A j \in Tasks : TellsTask(Listed(k, j)', Mine(EventsOf(k)', j))
      BY <1>3, <2>1, TasksTell
    <2> QED BY <2>2, <2>3, <2>4 DEF Tells
  <1> QED BY <1>1, <1>2, <1>3, ShapeUsers, QuietKeeps, Notes, Commits, HandleIs DEF Next, vars

\* Every open snapshot is of a moment that the timeline restores, whose events
\* are among those of today.
Past(t) == Told(t.view, "id") /\ t.view.events \subseteq OfSearch(t.req.search).events

Seen == \A s \in Sessions : tx[s].at \in Sections \cup {"answered"} => Past(tx[s])

LEMMA SeenNext ==
  ASSUME Shape, Seen, TimelineRestores, [Next]_vars
  PROVE  Seen'
  <1>1. CASE UNCHANGED <<tx, events>>
    BY <1>1 DEF Seen, Past, OfSearch
  <1>2. ASSUME NEW r \in Sessions, Handle(r), NEW s \in Sessions,
               tx'[s].at \in Sections \cup {"answered"}
        PROVE  Past(tx[s])'
    <2>0. events \subseteq events'
      BY <1>2, HandleIs, QuietKeeps, Notes, Commits DEF Noting, Publishing
    <2>1. CASE s # r
      <3>1. tx'[s] = tx[s]
        BY <1>2, <2>1, OthersStay
      <3> QED BY <1>2, <2>0, <3>1 DEF Seen, Past, OfSearch
    <2>2. CASE s = r
      <3> USE DEF Sections
      <3>1. Quiet(r)
        BY <1>2, <2>2, HandleIs, IdleAfter
      <3>2. CASE Opening(r)
        <4>1. tx[r].req \in Requests /\ tx[r].req.kind = "snapshot"
          BY <3>2 DEF Opening, Shape, Fits
        <4>2. tx[r].req.search \in Searches /\ tx'[r].view = OfSearch(tx[r].req.search)
          BY <3>2, <4>1, RequestIs DEF Opening
        <4>3. Told(tx'[s].view, "id")
          BY <2>2, <4>2 DEF TimelineRestores
        <4>4. tx'[s].view.events \subseteq {e \in events' : e.search = tx'[s].req.search}
          <5>1. tx'[s].view.events = {e \in events : e.search = tx[s].req.search}
            BY <2>2, <4>2 DEF OfSearch
          <5> QED BY <2>0, <2>2, <3>2, <5>1 DEF Opening, Advances
        <4>5. Told(tx[s].view, "id")' <=> Told(tx'[s].view, "id")
          BY DEF Told, SearchTold, MembersTold, TasksTold, Of, Last
        <4> QED BY <4>3, <4>4, <4>5 DEF Past, OfSearch
      <3>3. CASE Reading(r)
        <4>1. tx'[s].view = tx[s].view /\ tx'[s].req = tx[s].req /\ Past(tx[s])
          BY <2>2, <3>3 DEF Reading, Advances, Seen
        <4> QED BY <2>0, <4>1 DEF Past, OfSearch
      <3>4. CASE Leaves(r) BY <1>2, <2>2, <3>4 DEF Leaves, Idle
      <3>5. CASE Arriving(r) BY <1>2, <2>2, <3>5 DEF Arriving
      <3>6. CASE Beginning(r) BY <1>2, <2>2, <3>6 DEF Beginning
      <3>7. CASE Finding(r) BY <1>2, <2>2, <3>7 DEF Finding, To
      <3>8. CASE Seeing(r) BY <1>2, <2>2, <3>8 DEF Seeing
      <3>9. CASE Locking(r) BY <1>2, <2>2, <3>9 DEF Locking, To
      <3>10. CASE Writing(r) BY <1>2, <2>2, <3>10 DEF Writing, To
      <3>11. CASE Logging(r) BY <1>2, <2>2, <3>11 DEF Logging
      <3>12. CASE To(r, "connected") BY <1>2, <2>2, <3>12 DEF To
      <3> QED BY <3>1, <3>2, <3>3, <3>4, <3>5, <3>6, <3>7, <3>8, <3>9, <3>10, <3>11, <3>12, QuietIs
    <2> QED BY <2>1, <2>2
  <1>3. CASE \E r \in Sessions : Handle(r)
    BY <1>2, <1>3 DEF Seen
  <1> QED BY <1>1, <1>3, ShapeUsers DEF Next, vars
-----------------------------------------------------------------------------
(***************************************************************************)
(* What the timeline and the snapshots restore.                             *)
(***************************************************************************)
Story ==
    Rooted /\ Begun /\ Fresh /\ Latest /\ (\A k \in Searches : Tells(k)) /\ Seen

LEMMA RestoresIs == TimelineRestores <=> \A k \in Searches : Tells(k)
  BY TellsIs DEF TimelineRestores

LEMMA StoryInit == Init => Story
  <1> SUFFICES ASSUME Init PROVE Story
    OBVIOUS
  <1>1. \A s \in Sessions : tx[s].at = "idle"
    BY DEF Init, Idle
  <1>2. Begun /\ Fresh /\ Latest /\ Seen
    BY <1>1 DEF Begun, Fresh, Latest, Seen, Sections
  <1>3. Rooted
    BY NamesAssumption DEF Init, Rooted, Exists, IsMember, NoTask
  <1>4. ASSUME NEW k \in Searches
        PROVE  Tells(k)
    <2>1. EventsOf(k) = {} /\ searches[k] = NoSearch
      BY DEF EventsOf, Init
    <2>2. TellsSearch(NoSearch, {})
      BY DEF TellsSearch, NoSearch, Of, Statuses, Turns
    <2>3. ASSUME NEW u \in Users
          PROVE  TellsMember(IsMember(k, u), {}, u)
      <3>1. ~IsMember(k, u) /\ Moves({}, u) = {}
        BY DEF Init, IsMember, Moves, Of
      <3> QED BY <3>1 DEF TellsMember
    <2>4. ASSUME NEW j \in Tasks
          PROVE  TellsTask(Listed(k, j), Mine({}, j))
      <3>1. Listed(k, j).status = Absent /\ Mine({}, j) = {}
        BY DEF Init, Listed, NoTask, Mine
      <3>2. Of({}, {"TASK_CREATED"}) = {} /\ Assignments({}) = {}
        BY DEF Of, Assignments
      <3> QED BY <3>1, <3>2 DEF TellsTask
    <2> QED BY <2>1, <2>2, <2>3, <2>4 DEF Tells
  <1> QED BY <1>2, <1>3, <1>4 DEF Story

LEMMA StoryNext ==
  ASSUME IInv, Story, [Next]_vars
  PROVE  Story'
  <1>1. /\ Shape /\ Exclusive /\ Ids
        /\ Rooted /\ Begun /\ Fresh /\ Latest /\ (\A k \in Searches : Tells(k)) /\ Seen
    BY DEF IInv, Story
  <1>2. TimelineRestores
    BY <1>1, RestoresIs
  <1>3. Rooted' /\ Begun' /\ Fresh' /\ Latest' /\ Seen'
    BY <1>1, <1>2, RootedNext, BegunNext, FreshNext, LatestNext, SeenNext
  <1>4. \A k \in Searches : Tells(k)'
    BY <1>1, TellsNext
  <1> QED BY <1>3, <1>4 DEF Story

\* The timeline restores every search at every moment.  Its events are those of
\* rows that exist; a row is written by one session at a time, whose event
\* comes after all that was told of the row; so a commit's event is the last
\* to say what the commit did.
THEOREM Restores == Spec => []TimelineRestores
  <1>1. IInv /\ Story /\ [Next]_vars => (IInv /\ Story)'
    BY IInvNext, StoryNext
  <1>2. Story => TimelineRestores
    BY RestoresIs DEF Story
  <1> QED BY <1>1, <1>2, IInvInit, StoryInit, PTL DEF Spec

\* The sections of a snapshot are of one moment: its rows are those that the
\* timeline of that moment restores, and its events the newest of that timeline,
\* because all four are taken from the view that the first query opened.
THEOREM SnapshotIsOfOneMoment == Spec => []SnapshotRestores
  <1>1. IInv /\ Story /\ [Next]_vars => (IInv /\ Story)'
    BY IInvNext, StoryNext
  <1>2. ASSUME IInv, Story, NEW s \in Sessions, tx[s].at = "answered"
        PROVE  \E E \in SUBSET OfSearch(tx[s].req.search).events :
                  /\ tx[s].read.events \in Newest(E)
                  /\ Told([tx[s].read EXCEPT !.events = E], "id")
    <2>1. tx[s].read \in Snapshot /\ tx[s].view \in Snapshot
      BY <1>2, TypeIsTx DEF IInv, Shape, Tx
    <2>2. /\ tx[s].read.search = tx[s].view.search /\ tx[s].read.members = tx[s].view.members
          /\ tx[s].read.tasks = tx[s].view.tasks
          /\ tx[s].read.events \in Newest(tx[s].view.events)
      BY <1>2 DEF IInv, Views, ReadIs
    <2>3. [tx[s].read EXCEPT !.events = tx[s].view.events] = tx[s].view
      BY <2>1, <2>2 DEF Snapshot
    <2>4. Told(tx[s].view, "id") /\ tx[s].view.events \subseteq OfSearch(tx[s].req.search).events
      BY <1>2 DEF Story, Seen, Past
    <2> QED BY <2>2, <2>3, <2>4
  <1>3. IInv /\ Story => SnapshotRestores
    BY <1>2 DEF SnapshotRestores
  <1> QED BY <1>1, <1>3, IInvInit, StoryInit, PTL DEF Spec
-----------------------------------------------------------------------------
(***************************************************************************)
(* The board.  What a commit's event follows, and what it finds.             *)
(***************************************************************************)
\* The search a request works in.
SearchOf(t) == IF t.req.kind = "patchTask" THEN tasks[t.req.task].search ELSE t.req.search

\* The event a session is about to commit is later than its search's creation.
Founded ==
    \A s \in Sessions : tx[s].at = "logged" /\ tx[s].req.kind # "newSearch" =>
        \A e \in events : e.type = "SEARCH_CREATED" /\ e.search = SearchOf(tx[s])
                             => e.id < tx[s].event

\* Who is being added is no member before the commit, who is being removed is one.
Moving ==
    \A s \in Sessions :
        /\ tx[s].at = "found" /\ tx[s].req.kind = "removeMember" => tx[s].seen # 0
        /\ tx[s].at \in {"written", "logged"} =>
              /\ tx[s].req.kind = "addMember" => ~IsMember(tx[s].req.search, tx[s].req.user)
              /\ tx[s].req.kind = "removeMember" => IsMember(tx[s].req.search, tx[s].req.user)

\* A request that writes works in a search that exists and goes on to be its.
LEMMA SearchOfIs ==
  ASSUME Shape, Rooted, Begun, Fresh, NEW s \in Sessions, tx[s].at = "logged",
         tx[s].req.kind # "newSearch"
  PROVE  /\ SearchOf(tx[s]) \in Searches /\ Exists(SearchOf(tx[s]))
         /\ tx[s].req.kind = "patchTask" =>
               tx[s].req.task \in Tasks /\ tasks[tx[s].req.task].status # Absent
  <1>1. tx[s].req \in Requests
    BY LoggedIs
  <1>2. CASE tx[s].req.kind = "patchTask"
    <2>1. tx[s].req.task \in Tasks /\ tasks[tx[s].req.task].status # Absent
      BY <1>1, <1>2, RequestIs DEF Shape, Homes
    <2>2. tasks[tx[s].req.task].search \in Searches
      BY <2>1 DEF Shape, Homes
    <2> QED BY <1>2, <2>1, <2>2 DEF SearchOf, Rooted
  <1>3. CASE tx[s].req.kind # "patchTask"
    BY <1>1, <1>3, RequestIs DEF SearchOf, Begun
  <1> QED BY <1>2, <1>3

LEMMA SearchOfKept ==
  ASSUME Shape, Rooted, Begun, Fresh, NEW r \in Sessions, Handle(r), NEW s \in Sessions \ {r},
         tx[s].at = "logged", tx[s].req.kind # "newSearch"
  PROVE  tx'[s] = tx[s] /\ SearchOf(tx[s])' = SearchOf(tx[s])
  <1>1. tx'[s] = tx[s]
    BY OthersStay
  <1>2. CASE Quiet(r) \/ Note(r)
    <2>1. tasks' = tasks
      BY <1>2, QuietKeeps, Notes DEF Noting
    <2> QED BY <1>1, <2>1 DEF SearchOf
  <1>3. CASE Commit(r)
    <2>1. Publishing(r) /\ tx[r].at = "logged"
      BY <1>3, Commits DEF Publishing
    <2>2. ASSUME tx[s].req.kind = "patchTask"
          PROVE  tasks'[tx[s].req.task].search = tasks[tx[s].req.task].search
      <3>1. tx[s].req.task \in Tasks /\ tasks[tx[s].req.task].status # Absent
        BY <2>2, SearchOfIs
      <3>2. tx[r].req.kind = "newTask" => tx[s].req.task # tx[r].req.task
        BY <2>1, <3>1 DEF Fresh
      <3> QED BY <2>1, <3>1, <3>2, Lasting
    <2> QED BY <1>1, <2>2 DEF SearchOf
  <1> QED BY <1>2, <1>3, HandleIs

LEMMA FoundedNext ==
  ASSUME Shape, Ids, Rooted, Begun, Fresh, Founded, [Next]_vars
  PROVE  Founded'
  <1>1. CASE UNCHANGED vars BY <1>1 DEF vars, db, Founded, SearchOf
  <1>2. CASE \E u \in Users : ChangeUser(u) BY <1>2, ShapeUsers DEF Founded, SearchOf
  <1>3. ASSUME NEW r \in Sessions, Handle(r), NEW s \in Sessions, tx'[s].at = "logged",
               tx'[s].req.kind # "newSearch", NEW e \in events', e.type = "SEARCH_CREATED",
               e.search = SearchOf(tx[s])'
        PROVE  e.id < tx'[s].event
    <2>1. CASE s = r
      <3>1. Quiet(r) /\ Logging(r)
        BY <1>3, <2>1, ProgressIs DEF Locking, Writing, To
      <3>2. events' = events /\ tx'[s].event = nextId
        BY <2>1, <3>1, QuietKeeps DEF Logging
      <3> QED BY <1>3, <3>2 DEF Ids
    <2>2. CASE s # r
      <3>1. tx'[s] = tx[s] /\ SearchOf(tx[s])' = SearchOf(tx[s])
        <4>1. tx'[s] = tx[s]
          BY <1>3, <2>2, OthersStay
        <4> QED BY <1>3, <2>2, <4>1, SearchOfKept
      <3>2. Exists(SearchOf(tx[s]))
        BY <1>3, <3>1, SearchOfIs
      <3>3. CASE e \in events
        BY <1>3, <3>1, <3>3 DEF Founded
      <3>4. CASE e \notin events
        <4>1. CASE Quiet(r)
          BY <1>3, <3>4, <4>1, QuietKeeps
        <4>2. CASE Note(r)
          <5>1. Noting(r)
            BY <4>2, Notes
          <5>2. e = EventOf(tx[r], nextId, nextId)
            BY <1>3, <3>4, <5>1 DEF Noting
          <5> QED BY <1>3, <5>1, <5>2, NotedIs
        <4>3. CASE Commit(r)
          <5>1. Publishing(r) /\ tx[r].at = "logged"
            BY <4>3, Commits DEF Publishing
          <5>2. e = EventOf(tx[r], tx[r].event, tx[r].began)
            BY <1>3, <3>4, <5>1 DEF Publishing
          <5>3. tx[r].req.kind = "newSearch" /\ e.search = tx[r].req.search
            BY <1>3, <5>1, <5>2, Published, LoggedIs
          <5> QED BY <1>3, <3>1, <3>2, <5>1, <5>3 DEF Fresh
        <4> QED BY <1>3, <4>1, <4>2, <4>3, HandleIs
      <3> QED BY <3>3, <3>4
    <2> QED BY <2>1, <2>2
  <1>4. CASE \E r \in Sessions : Handle(r)
    BY <1>3, <1>4 DEF Founded
  <1> QED BY <1>1, <1>2, <1>4 DEF Next

\* Another's commit leaves the membership alone that a request holds.
LEMMA MemberKept ==
  ASSUME Shape, Exclusive, Begun, Fresh, NEW r \in Sessions, NEW s \in Sessions \ {r},
         Publishing(r), tx[s].at \in {"written", "logged"},
         tx[s].req.kind \in {"addMember", "removeMember"}
  PROVE  members'[<<tx[s].req.search, tx[s].req.user>>] = members[<<tx[s].req.search, tx[s].req.user>>]
  <1> DEFINE p == tx[r].req
             q == tx[s].req
  <1>1. /\ p \in Requests /\ tx[r].actor \in Users /\ tx[r].at = "logged" /\ HoldsRow(tx[r])
        /\ members \in [Searches \X Users -> 0..MaxEvents]
    BY LoggedIs DEF Publishing, Shape, TypeOK, HoldsRow
  <1>2. q \in Requests /\ q.search \in Searches /\ q.user \in Users /\ HoldsRow(tx[s])
    BY RequestIs DEF Shape, Fits, HoldsRow
  <1>3. Row(tx[r]) # Row(tx[s]) /\ Row(tx[s]) = <<"member", q.search, q.user>>
    BY <1>1, <1>2 DEF Exclusive, Row
  <1>4. CASE p.kind = "newSearch"
    <2>1. p.search # q.search
      BY <1>1, <1>4 DEF Fresh, Begun
    <2> QED BY <1>1, <1>2, <1>4, <2>1 DEF Publishing
  <1>5. CASE p.kind \in {"addMember", "removeMember"}
    <2>1. Row(tx[r]) = <<"member", p.search, p.user>>
      BY <1>5 DEF Row
    <2>2. <<p.search, p.user>> # <<q.search, q.user>>
      BY <1>3, <2>1
    <2> QED BY <1>1, <1>2, <1>5, <2>2 DEF Publishing
  <1>6. CASE p.kind \notin {"newSearch", "addMember", "removeMember"}
    BY <1>6 DEF Publishing
  <1> QED BY <1>4, <1>5, <1>6

\* Only a request that saw a row comes to remove it.
LEMMA FoundIs ==
  ASSUME Shape, NEW r \in Sessions, Handle(r), tx'[r].at = "found",
         tx'[r].req.kind = "removeMember"
  PROVE  Quiet(r) /\ Seeing(r)
  <1>1. Quiet(r)
    BY HandleIs, IdleAfter
  <1>2. CASE Leaves(r) BY <1>2 DEF Leaves, Idle
  <1>3. CASE Arriving(r) BY <1>3 DEF Arriving
  <1>4. CASE Beginning(r) BY <1>4 DEF Beginning
  <1>5. CASE Finding(r) BY <1>5 DEF Finding, To, Advances
  <1>6. CASE Locking(r) BY <1>6 DEF Locking, To
  <1>7. CASE To(r, "connected") BY <1>7 DEF To
  <1>8. CASE Opening(r) BY <1>8 DEF Opening
  <1>9. CASE Reading(r) BY <1>9 DEF Reading, SectionAfter, Sections
  <1>10. CASE Writing(r) BY <1>10 DEF Writing, To
  <1>11. CASE Logging(r) BY <1>11 DEF Logging
  <1> QED BY <1>1, <1>2, <1>3, <1>4, <1>5, <1>6, <1>7, <1>8, <1>9, <1>10, <1>11, QuietIs

LEMMA MovingNext ==
  ASSUME Shape, Exclusive, Begun, Fresh, Moving, [Next]_vars
  PROVE  Moving'
  <1>1. CASE UNCHANGED vars BY <1>1 DEF vars, db, Moving, IsMember
  <1>2. CASE \E u \in Users : ChangeUser(u) BY <1>2, ShapeUsers DEF Moving, IsMember
  <1>3. ASSUME NEW r \in Sessions, Handle(r)
        PROVE  Moving'
    <2>1. ASSUME NEW s \in Sessions, tx'[s].at = "found", tx'[s].req.kind = "removeMember"
          PROVE  tx'[s].seen # 0
      <3>1. CASE s # r
        <4>1. tx'[s] = tx[s]
          BY <1>3, <3>1, OthersStay
        <4> QED BY <2>1, <4>1 DEF Moving
      <3>2. CASE s = r
        BY <1>3, <2>1, <3>2, FoundIs DEF Seeing
      <3> QED BY <3>1, <3>2
    <2>2. ASSUME NEW s \in Sessions, tx'[s].at \in {"written", "logged"}
          PROVE  LET q == tx'[s].req IN
                 /\ q.kind = "addMember" => members'[<<q.search, q.user>>] = 0
                 /\ q.kind = "removeMember" => members'[<<q.search, q.user>>] # 0
      <3>1. CASE s # r
        <4>1. tx'[s] = tx[s]
          BY <1>3, <3>1, OthersStay
        <4>2. CASE tx[s].req.kind \in {"addMember", "removeMember"}
          <5>1. members'[<<tx[s].req.search, tx[s].req.user>>]
                   = members[<<tx[s].req.search, tx[s].req.user>>]
            <6>1. CASE Quiet(r) \/ Note(r)
              BY <6>1, QuietKeeps, Notes DEF Noting
            <6>2. CASE Commit(r)
              BY <2>2, <3>1, <4>1, <4>2, <6>2, Commits, MemberKept
            <6> QED BY <1>3, <6>1, <6>2, HandleIs
          <5> QED BY <2>2, <4>1, <5>1 DEF Moving, IsMember
        <4> QED BY <4>1, <4>2
      <3>2. CASE s = r
        <4>1. Quiet(r) /\ (Locking(r) \/ Writing(r) \/ Logging(r))
          BY <1>3, <2>2, <3>2, ProgressIs
        <4>2. members' = members
          BY <4>1, QuietKeeps
        <4>3. CASE Locking(r)
          BY <2>2, <3>2, <4>3 DEF Locking, To
        <4>4. CASE Writing(r)
          BY <3>2, <4>2, <4>4 DEF Writing, To, Advances, IsMember, Moving
        <4>5. CASE Logging(r)
          BY <3>2, <4>2, <4>5 DEF Logging, Advances, IsMember, Moving
        <4> QED BY <4>1, <4>3, <4>4, <4>5
      <3> QED BY <3>1, <3>2
    <2> QED BY <2>1, <2>2 DEF Moving, IsMember
  <1> QED BY <1>1, <1>2, <1>3 DEF Next

-----------------------------------------------------------------------------
(***************************************************************************)
(* The refinement.                                                          *)
(***************************************************************************)
\* The event of a commit.
Committed(s) == EventOf(tx[s], tx[s].event, tx[s].began)

\* Notes have no row; the other events have the same one in both modules.
LEMMA SubjectIs ==
  ASSUME NEW e \in Event, NEW f \in Event, f.type # "COORDINATOR_NOTE",
         Board!Subject(e) = Board!Subject(f)
  PROVE  RowOf(e) = RowOf(f)
  <1>1. Board!Subject(f) = RowOf(f) /\ Board!Subject(f)[1] # "note"
    BY DEF Board!Subject, RowOf, Event
  <1>2. e.type # "COORDINATOR_NOTE"
    BY <1>1 DEF Board!Subject
  <1>3. Board!Subject(e) = RowOf(e)
    BY <1>2 DEF Board!Subject, RowOf, Event
  <1> QED BY <1>1, <1>3

LEMMA EntersCommitted ==
  ASSUME Shape, Ids, Rooted, Begun, Fresh, Latest, Founded, NEW s \in Sessions, Publishing(s)
  PROVE  Board!Enters(Committed(s)) /\ Committed(s) \in events' \ events
  <1> DEFINE n == Committed(s)
             q == tx[s].req
  <1>1. /\ n \in Event /\ n.id = tx[s].event /\ RowOf(n) = Row(tx[s])
        /\ n.search = SearchOf(tx[s])
        /\ n.type # "COORDINATOR_NOTE"
    BY Published, LoggedIs DEF Committed, Publishing, SearchOf
  <1>2. tx[s].at = "logged" /\ events' = events \cup {n}
    BY DEF Publishing, Committed
  <1> HIDE DEF n
  <1>3. \A f \in events : f.id # n.id
    BY <1>1, <1>2 DEF Ids
  <1>4. ASSUME NEW f \in events, Board!Subject(f) = Board!Subject(n)
        PROVE  f.id < n.id
    <2>1. f \in Event
      BY DEF Shape, TypeOK
    <2>2. RowOf(f) = Row(tx[s])
      BY <1>1, <1>4, <2>1, SubjectIs
    <2> QED BY <1>1, <1>2, <2>2 DEF Latest
  <1>5. ASSUME NEW f \in events, f.type = "SEARCH_CREATED", f.search = n.search
        PROVE  f.id < n.id
    <2>1. CASE q.kind = "newSearch"
      <3>1. Exists(f.search) /\ ~Exists(q.search) /\ n.search = q.search
        BY <1>1, <1>2, <2>1 DEF Rooted, Fresh, SearchOf
      <3> QED BY <1>5, <3>1
    <2>2. CASE q.kind # "newSearch"
      BY <1>1, <1>2, <1>5, <2>2 DEF Founded
    <2> QED BY <2>1, <2>2
  <1> QED BY <1>1, <1>2, <1>3, <1>4, <1>5 DEF Board!Enters, n

LEMMA EntersNoted ==
  ASSUME Shape, Ids, NEW s \in Sessions, Noting(s), NEW n, n = EventOf(tx[s], nextId, nextId)
  PROVE  Board!Enters(n) /\ n \in events' \ events
  <1>1. n.id = nextId /\ events' = events \cup {n}
    BY DEF Noting, EventOf
  <1>2. nextId \in 1..MaxEvents /\ MaxEvents \in Nat
    BY LimitsAssumption DEF Noting, Shape, TypeOK
  <1>3. n \in Event
    BY <1>2, EventType1 DEF Noting, Shape, Fits
  <1>4. \A f \in events : f.id \in Nat /\ f.id < n.id
    BY <1>1, LimitsAssumption DEF Ids, Shape, TypeOK, Event
  <1> QED BY <1>1, <1>2, <1>3, <1>4 DEF Board!Enters

\* What a commit does to the tables as the board knows them.
LEMMA CommittedIs ==
  ASSUME Shape, NEW s \in Sessions, Publishing(s)
  PROVE  LET q == tx[s].req
             n == Committed(s)
         IN  /\ tx[s].at = "logged" /\ q \in Requests /\ tx[s].actor \in Users
             /\ tx[s].event # 0
             /\ n.actor = tx[s].actor /\ n.task = q.task /\ n.status = q.status
             /\ n.search = SearchOf(tx[s])
             /\ q.kind # "newTask" => n.user = q.user
             /\ q.kind = "newSearch" => n.type = "SEARCH_CREATED"
             /\ q.kind = "patchSearch" => n.type = "SEARCH_UPDATED"
             /\ q.kind = "addMember" => n.type = "MEMBER_ADDED"
             /\ q.kind = "removeMember" => n.type = "MEMBER_REMOVED"
             /\ q.kind = "newTask" => n.type = "TASK_CREATED"
             /\ q.kind = "patchTask" => n.type = "TASK_UPDATED"
  <1>1. tx[s].at = "logged"
    BY DEF Publishing
  <1> QED BY <1>1, Published, LoggedIs DEF Committed, SearchOf

LEMMA CommitsSearch ==
  ASSUME Shape, Fresh, NEW s \in Sessions, Publishing(s), tx[s].req.kind = "newSearch"
  PROVE  Board!Create(Committed(s))
  <1> DEFINE n == Committed(s)
             q == tx[s].req
  <1>1. /\ n.type = "SEARCH_CREATED" /\ n.search = q.search /\ n.actor = tx[s].actor
        /\ q.search \in Searches /\ tx[s].actor \in Users /\ tx[s].at = "logged"
        /\ tx[s].event # 0
    BY CommittedIs, RequestIs DEF SearchOf
  <1> HIDE DEF n
  <1>2. /\ searches' = [searches EXCEPT ![q.search] = NewSearch] /\ tasks' = tasks
        /\ members' = [members EXCEPT ![<<q.search, tx[s].actor>>] = tx[s].event]
        /\ users' = users
    BY DEF Publishing
  <1>3. /\ searches \in [Searches -> Search] /\ members \in [Searches \X Users -> 0..MaxEvents]
    BY DEF Shape, TypeOK
  <1>4. SearchStatuses[q.search] = Absent
    BY <1>1 DEF SearchStatuses, Fresh, Exists
  <1>5. SearchStatuses' = [SearchStatuses EXCEPT ![q.search] = "PLANNED"]
    BY <1>1, <1>2, <1>3 DEF SearchStatuses, NewSearch
  <1>6. Memberships' = Memberships \cup {<<q.search, tx[s].actor>>}
    BY <1>1, <1>2, <1>3 DEF Memberships
  <1>7. ActiveUsers' = ActiveUsers /\ TaskRows' = TaskRows
    BY <1>2 DEF ActiveUsers, TaskRows
  <1> QED BY <1>1, <1>4, <1>5, <1>6, <1>7 DEF Board!Create, n

LEMMA CommitsStatus ==
  ASSUME Shape, Begun, NEW s \in Sessions, Publishing(s), tx[s].req.kind = "patchSearch"
  PROVE  Board!Change(Committed(s))
  <1> DEFINE n == Committed(s)
             q == tx[s].req
  <1>1. /\ n.type = "SEARCH_UPDATED" /\ n.search = q.search /\ n.status = q.status
        /\ q.search \in Searches /\ q.status \in SearchStatus \cup {Keep} /\ tx[s].at = "logged"
    BY CommittedIs, RequestIs DEF SearchOf
  <1> HIDE DEF n
  <1>2. /\ searches' = [searches EXCEPT ![q.search] = PatchedSearch(searches[q.search], q.status)]
        /\ tasks' = tasks /\ members' = members /\ users' = users
    BY DEF Publishing
  <1>3. searches \in [Searches -> Search]
    BY DEF Shape, TypeOK
  <1>4. SearchStatuses[q.search] # Absent
    BY <1>1 DEF SearchStatuses, Begun, Exists
  <1>5. PatchedSearch(searches[q.search], q.status).status
           = IF q.status = Keep THEN searches[q.search].status ELSE q.status
    BY <1>1, <1>3, PatchedSearchType
  <1>6. SearchStatuses' =
           [SearchStatuses EXCEPT ![q.search] = IF q.status = Keep THEN @ ELSE q.status]
    BY <1>1, <1>2, <1>3, <1>5 DEF SearchStatuses
  <1>7. ActiveUsers' = ActiveUsers /\ TaskRows' = TaskRows /\ Memberships' = Memberships
    BY <1>2 DEF ActiveUsers, TaskRows, Memberships
  <1> QED BY <1>1, <1>4, <1>6, <1>7 DEF Board!Change, n

LEMMA CommitsMember ==
  ASSUME Shape, Active, Begun, Moving, NEW s \in Sessions, Publishing(s)
  PROVE  /\ tx[s].req.kind = "addMember" => Board!Join(Committed(s))
         /\ tx[s].req.kind = "removeMember" => Board!Leave(Committed(s))
  <1> DEFINE n == Committed(s)
             q == tx[s].req
  <1> SUFFICES ASSUME q.kind \in {"addMember", "removeMember"}
               PROVE  /\ q.kind = "addMember" => Board!Join(n)
                      /\ q.kind = "removeMember" => Board!Leave(n)
    OBVIOUS
  <1>1. /\ n.search = q.search /\ n.user = q.user
        /\ q.kind = "addMember" => n.type = "MEMBER_ADDED"
        /\ q.kind = "removeMember" => n.type = "MEMBER_REMOVED"
        /\ q.search \in Searches /\ q.user \in Users /\ tx[s].at = "logged" /\ tx[s].event # 0
    BY CommittedIs, RequestIs DEF SearchOf
  <1> HIDE DEF n
  <1>2. searches' = searches /\ tasks' = tasks /\ users' = users
    BY DEF Publishing
  <1>3. members \in [Searches \X Users -> 0..MaxEvents] /\ users \in [Users -> User]
    BY DEF Shape, TypeOK
  <1>4. SearchStatuses[q.search] # Absent
    BY <1>1 DEF SearchStatuses, Begun, Exists
  <1>5. /\ ActiveUsers' = ActiveUsers /\ TaskRows' = TaskRows
        /\ SearchStatuses' = SearchStatuses
    BY <1>2 DEF ActiveUsers, TaskRows, SearchStatuses
  <1>6. CASE q.kind = "addMember"
    <2>1. q.user \in ActiveUsers
      BY <1>1, <1>6 DEF ActiveUsers, Active, Shares
    <2>2. <<q.search, q.user>> \notin Memberships
      BY <1>1, <1>6 DEF Memberships, Moving, IsMember
    <2>3. members' = [members EXCEPT ![<<q.search, q.user>>] = tx[s].event]
      BY <1>6 DEF Publishing
    <2>4. Memberships' = Memberships \cup {<<q.search, q.user>>}
      BY <1>1, <1>3, <2>3 DEF Memberships
    <2> QED BY <1>1, <1>4, <1>5, <1>6, <2>1, <2>2, <2>4 DEF Board!Join
  <1>7. CASE q.kind = "removeMember"
    <2>1. <<q.search, q.user>> \in Memberships
      BY <1>1, <1>7 DEF Memberships, Moving, IsMember
    <2>2. members' = [members EXCEPT ![<<q.search, q.user>>] = 0]
      BY <1>7 DEF Publishing
    <2>3. Memberships' = Memberships \ {<<q.search, q.user>>}
      BY <1>1, <1>3, <2>2 DEF Memberships
    <2> QED BY <1>1, <1>5, <1>7, <2>1, <2>3 DEF Board!Leave
  <1> QED BY <1>6, <1>7

LEMMA CommitsTask ==
  ASSUME Shape, Begun, Fresh, NEW s \in Sessions, Publishing(s), tx[s].req.kind = "newTask"
  PROVE  Board!AddTask(Committed(s))
  <1> DEFINE n == Committed(s)
             q == tx[s].req
  <1>1. /\ n.type = "TASK_CREATED" /\ n.search = q.search /\ n.task = q.task
        /\ q.search \in Searches /\ q.task \in Tasks /\ q.user \in Users \cup {Nobody}
        /\ tx[s].at = "logged"
    BY CommittedIs, RequestIs DEF SearchOf
  <1> HIDE DEF n
  <1> DEFINE row == [search |-> q.search, status |-> "OPEN", assignee |-> q.user,
                     completed |-> FALSE]
  <1>2. /\ tasks' = [tasks EXCEPT ![q.task] = row]
        /\ searches' = searches /\ members' = members /\ users' = users
    BY DEF Publishing
  <1>3. tasks \in [Tasks -> Task]
    BY DEF Shape, TypeOK
  <1>4. SearchStatuses[q.search] # Absent /\ TaskRows[q.task].status = Absent
    BY <1>1 DEF SearchStatuses, TaskRows, Begun, Fresh, Exists
  <1>5. TaskRows' = [TaskRows EXCEPT ![q.task] =
                        [search |-> q.search, status |-> "OPEN", assignee |-> q.user]]
    <2>1. \A k \in Tasks : tasks'[k] = IF k = q.task THEN row ELSE tasks[k]
      BY <1>2, <1>3
    <2>2. \A k \in Tasks : TaskRows'[k] =
             IF k = q.task THEN [search |-> q.search, status |-> "OPEN", assignee |-> q.user]
                           ELSE TaskRows[k]
      BY <2>1 DEF TaskRows
    <2> QED BY <1>1, <2>2 DEF TaskRows
  <1>6. /\ ActiveUsers' = ActiveUsers /\ SearchStatuses' = SearchStatuses
        /\ Memberships' = Memberships
    BY <1>2 DEF ActiveUsers, SearchStatuses, Memberships
  <1> QED BY <1>1, <1>4, <1>5, <1>6 DEF Board!AddTask, n

LEMMA CommitsUpdate ==
  ASSUME Shape, Rooted, Begun, Fresh, NEW s \in Sessions, Publishing(s),
         tx[s].req.kind = "patchTask"
  PROVE  Board!UpdateTask(Committed(s))
  <1> DEFINE n == Committed(s)
             q == tx[s].req
  <1>1. /\ n.type = "TASK_UPDATED" /\ n.search = tasks[q.task].search /\ n.task = q.task
        /\ n.status = q.status /\ n.user = q.user
        /\ q.user \in Users \cup {Nobody, Keep} /\ q.status \in TaskStatus \cup {Keep}
    BY CommittedIs, RequestIs DEF SearchOf
  <1>2. q.task \in Tasks /\ tasks[q.task].status # Absent
    BY SearchOfIs DEF Publishing
  <1> HIDE DEF n
  <1> DEFINE row == PatchedTask(tasks[q.task], q)
  <1>3. /\ tasks' = [tasks EXCEPT ![q.task] = row]
        /\ searches' = searches /\ members' = members /\ users' = users
    BY DEF Publishing
  <1>4. tasks \in [Tasks -> Task]
    BY DEF Shape, TypeOK
  <1>5. /\ row.search = tasks[q.task].search
        /\ row.status = IF q.status = Keep THEN tasks[q.task].status ELSE q.status
        /\ row.assignee = IF q.user = Keep THEN tasks[q.task].assignee ELSE q.user
    BY <1>1, <1>2, <1>4, PatchedTaskIs
  <1> HIDE DEF row
  <1>6. TaskRows[q.task].status # Absent /\ TaskRows[q.task].search = n.search
    BY <1>1, <1>2 DEF TaskRows
  <1>7. \A k \in Tasks : tasks'[k] = IF k = q.task THEN row ELSE tasks[k]
    BY <1>3, <1>4
  <1> DEFINE old == TaskRows[q.task]
             new == [search |-> n.search,
                     status |-> IF q.status = Keep THEN old.status ELSE q.status,
                     assignee |-> IF q.user = Keep THEN old.assignee ELSE q.user]
  <1>8. TaskRows' = [TaskRows EXCEPT ![q.task] = new]
    <2>1. old.status = tasks[q.task].status /\ old.assignee = tasks[q.task].assignee
      BY <1>2 DEF TaskRows
    <2> HIDE DEF old
    <2>2. [search |-> row.search, status |-> row.status, assignee |-> row.assignee] = new
      BY <1>1, <1>5, <2>1
    <2> HIDE DEF new
    <2>3. \A k \in Tasks : TaskRows'[k] = IF k = q.task THEN new ELSE TaskRows[k]
      BY <1>7, <2>2 DEF TaskRows
    <2> QED BY <2>3 DEF TaskRows
  <1>9. /\ ActiveUsers' = ActiveUsers /\ SearchStatuses' = SearchStatuses
        /\ Memberships' = Memberships
    BY <1>3 DEF ActiveUsers, SearchStatuses, Memberships
  <1> QED BY <1>1, <1>2, <1>6, <1>8, <1>9 DEF Board!UpdateTask, n

LEMMA CommitIsChange ==
  ASSUME IInv, Story, Founded, Moving, NEW s \in Sessions, Commit(s)
  PROVE  Board!Next
  <1>1. /\ Shape /\ Active /\ Ids /\ Rooted /\ Begun /\ Fresh /\ Latest /\ Founded /\ Moving
        /\ Publishing(s)
    BY Commits DEF IInv, Story
  <1>2. Board!Enters(Committed(s)) /\ Committed(s) \in events' \ events
    BY <1>1, EntersCommitted
  <1>3. tx[s].req.kind \in {"newSearch", "patchSearch", "addMember", "removeMember",
                            "newTask", "patchTask"}
    BY <1>1, LoggedIs DEF Publishing
  <1>4. LET n == Committed(s) IN
        \/ Board!Create(n) \/ Board!Change(n) \/ Board!Join(n) \/ Board!Leave(n)
        \/ Board!AddTask(n) \/ Board!UpdateTask(n)
    BY <1>1, <1>3, CommitsSearch, CommitsStatus, CommitsMember, CommitsTask, CommitsUpdate
  <1> QED BY <1>2, <1>4 DEF Board!Next

LEMMA NoteIsNote ==
  ASSUME IInv, Story, NEW s \in Sessions, Note(s)
  PROVE  Board!Next
  <1> DEFINE n == EventOf(tx[s], nextId, nextId)
  <1>1. Shape /\ Ids /\ Begun /\ Noting(s)
    BY Notes DEF IInv, Story
  <1>2. Board!Enters(n) /\ n \in events' \ events
    BY <1>1, EntersNoted
  <1>3. /\ n.type = "COORDINATOR_NOTE" /\ n.search = tx[s].req.search /\ n.search \in Searches
        /\ tx[s].at = "begun" /\ tx[s].req.kind = "note"
        /\ UNCHANGED <<users, searches, members, tasks>>
    BY <1>1, NotedIs DEF Noting
  <1> HIDE DEF n
  <1>4. SearchStatuses[n.search] # Absent
    BY <1>1, <1>3 DEF Begun, Exists, SearchStatuses
  <1>5. UNCHANGED <<ActiveUsers, SearchStatuses, Memberships, TaskRows>>
    BY <1>3 DEF ActiveUsers, SearchStatuses, Memberships, TaskRows
  <1>6. Board!Note(n)
    BY <1>3, <1>4, <1>5 DEF Board!Note
  <1> QED BY <1>2, <1>6 DEF Board!Next

LEMMA PatchIsSwitch ==
  ASSUME Shape, NEW u \in Users, ChangeUser(u)
  PROVE  Board!Next \/ UNCHANGED Board!vars
  <1>1. UNCHANGED <<searches, members, tasks, events>>
    BY DEF ChangeUser, db
  <1>2. UNCHANGED <<SearchStatuses, Memberships, TaskRows, events>>
    BY <1>1 DEF SearchStatuses, Memberships, TaskRows
  <1>3. PICK r \in RoleChanges \cup {users[u].role}, a \in BOOLEAN :
           users' = [users EXCEPT ![u] = [role |-> r, active |-> a]]
    BY DEF ChangeUser
  <1>4. users \in [Users -> User] /\ \A v \in Users : users[v].active \in BOOLEAN
    BY DEF Shape, TypeOK, User
  <1>5. CASE a = users[u].active
    <2>1. ActiveUsers' = ActiveUsers
      BY <1>3, <1>4, <1>5 DEF ActiveUsers
    <2> QED BY <1>2, <2>1 DEF Board!vars
  <1>6. CASE a # users[u].active
    <2>1. ActiveUsers' = IF u \in ActiveUsers THEN ActiveUsers \ {u} ELSE ActiveUsers \cup {u}
      BY <1>3, <1>4, <1>6 DEF ActiveUsers
    <2> QED BY <1>2, <2>1 DEF Board!Next, Board!Switch
  <1> QED BY <1>5, <1>6

LEMMA StepImplements ==
  ASSUME IInv, Story, Founded, Moving, [Next]_vars
  PROVE  [Board!Next]_(Board!vars)
  <1>1. CASE UNCHANGED <<users, searches, members, tasks, events>>
    BY <1>1 DEF Board!vars, ActiveUsers, SearchStatuses, Memberships, TaskRows
  <1>2. CASE UNCHANGED vars
    BY <1>1, <1>2 DEF vars
  <1>3. CASE \E u \in Users : ChangeUser(u)
    BY <1>3, PatchIsSwitch DEF IInv
  <1>4. ASSUME NEW s \in Sessions, Handle(s)
        PROVE  [Board!Next]_(Board!vars)
    BY <1>1, <1>4, HandleIs, QuietKeeps, NoteIsNote, CommitIsChange DEF IInv
  <1> QED BY <1>2, <1>3, <1>4 DEF Next

LEMMA BoardInit == Init => Board!Init /\ Founded /\ Moving
  <1> SUFFICES ASSUME Init PROVE Board!Init /\ Founded /\ Moving
    OBVIOUS
  <1>1. ActiveUsers = Users /\ Memberships = {} /\ events = {}
    BY DEF Init, ActiveUsers, Memberships
  <1>2. SearchStatuses = [s \in Searches |-> Absent]
    BY DEF Init, SearchStatuses, NoSearch
  <1>3. TaskRows = [k \in Tasks |-> [search |-> None, status |-> Absent, assignee |-> Nobody]]
    BY DEF Init, TaskRows, NoTask
  <1>4. Board!Init
    BY <1>1, <1>2, <1>3 DEF Board!Init
  <1>5. \A s \in Sessions : tx[s].at = "idle"
    BY DEF Init, Idle
  <1>6. Founded /\ Moving
    BY <1>5 DEF Founded, Moving
  <1> QED BY <1>4, <1>6

\* The handlers implement SearchBoard.  What a request found under its row's lock
\* is still so at its commit, because nobody else writes that row and nobody
\* takes a search away; and its event's id, drawn meanwhile, is later than those
\* of the row and of the search's creation.  So a commit is one legal change with
\* its entry, a note is an entry alone, and every other step changes nothing.
THEOREM Implements == Spec => ImplementsBoard
  <1>1. Init => Board!Init /\ IInv /\ Story /\ Founded /\ Moving
    BY IInvInit, StoryInit, BoardInit
  <1>2. IInv /\ Story /\ Founded /\ Moving /\ [Next]_vars => (IInv /\ Story /\ Founded /\ Moving)'
    BY IInvNext, StoryNext, FoundedNext, MovingNext DEF IInv, Story
  <1>3. IInv /\ Story /\ Founded /\ Moving /\ [Next]_vars => [Board!Next]_(Board!vars)
    BY StepImplements
  <1> QED BY <1>1, <1>2, <1>3, PTL DEF Spec, ImplementsBoard, Board!Spec
=============================================================================
