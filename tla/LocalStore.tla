----------------------------- MODULE LocalStore -----------------------------
(***************************************************************************)
(* The local engine's data (rebuild/internal: application, storage/sqlite,  *)
(* httpapi): engine processes that open one SQLite file, bring its schema    *)
(* forward and serve requests.                                              *)
(*                                                                         *)
(* A request carries its own number: the id of the search it creates, or     *)
(* the questionnaire it saves; numbers of searches also order the list, so   *)
(* that a search can be created at any place of it.  An engine has one       *)
(* connection (SetMaxOpenConns(1)), SQLite one writer at a time; who waits   *)
(* for the writer longer than the busy timeout gets an error.               *)
(***************************************************************************)
EXTENDS Integers, FiniteSets

CONSTANTS
    Engines,
    Creates, Saves,     \* POST /v1/searches and PUT /v1/me/profile requests
    LastVersion,        \* migrations 1..LastVersion are embedded in the engine
    Limit,              \* the page size a client of the list asks for
    NoOne,
    MaxOpens,           \* bound: engine starts
    MaxKills            \* bound: engines killed

Requests == Creates \cup Saves

Versions == 1..LastVersion

ASSUME RequestsAssumption ==
    Creates \subseteq Nat \ {0} /\ Saves \subseteq Nat \ {0} /\ Creates \cap Saves = {}
ASSUME NoOneAssumption == NoOne \notin Engines /\ NoOne \notin Requests
ASSUME BoundsAssumption ==
    LastVersion \in Nat /\ Limit \in Nat \ {0} /\ MaxOpens \in Nat /\ MaxKills \in Nat

VARIABLES
    schema,             \* how often the statements of each migration took effect
    ledger,             \* the migrations with a row in schema_migrations
    searches, members, events,      \* searches with each kind of row
    profile,            \* the questionnaire stored last, 0 for none
    writer,             \* the engine that holds SQLite's write lock
    engine,             \* each engine: where it is, and the migration it is at
    connection,         \* the request that uses the engine's connection
    request,            \* each request: how far it got, at which engine
    reader,             \* a client paging through the list, and the searches it has
                        \* yet to see of those there were when it began
    opens, kills

file == <<schema, ledger, searches, members, events, profile>>
tables == <<searches, members, events, profile>>
vars == <<file, writer, engine, connection, request, reader, opens, kills>>

NoReader == [at |-> "idle", on |-> NoOne, offset |-> 0, due |-> {}]

EngineAt(e, pc) == engine[e].pc = pc

RequestAt(q, pc) == request[q].pc = pc

Home(q) == request[q].on

Step(q, pc) == request' = [request EXCEPT ![q].pc = pc]

Ends(q, pc) == request' = [request EXCEPT ![q] = [pc |-> pc, on |-> NoOne]]

Init ==
    /\ schema = [v \in Versions |-> 0] /\ ledger = {}
    /\ searches = {} /\ members = {} /\ events = {} /\ profile = 0
    /\ writer = NoOne
    /\ engine = [e \in Engines |-> [pc |-> "down", version |-> 1]]
    /\ connection = [e \in Engines |-> NoOne]
    /\ request = [q \in Requests |-> [pc |-> "new", on |-> NoOne]]
    /\ reader = NoReader
    /\ opens = 0 /\ kills = 0
-----------------------------------------------------------------------------
(***************************************************************************)
(* Opening: Migrate looks every version up and applies the missing one in a  *)
(* transaction of its own.  Its mutex is local to the process.              *)
(***************************************************************************)
Open(e) ==
    /\ EngineAt(e, "down") /\ opens < MaxOpens
    /\ opens' = opens + 1
    /\ engine' = [engine EXCEPT ![e] = [pc |-> "opening", version |-> 1]]
    /\ UNCHANGED <<file, writer, connection, request, reader, kills>>

AllLooked(e) == engine[e].version > LastVersion

LooksUp(e) ==
    /\ EngineAt(e, "opening")
    /\ engine' = [engine EXCEPT ![e] =
           IF AllLooked(e) THEN [pc |-> "serving", version |-> @.version]
           ELSE IF @.version \in ledger THEN [pc |-> "opening", version |-> @.version + 1]
           ELSE [pc |-> "applying", version |-> @.version]]
    /\ UNCHANGED <<file, writer, connection, request, reader, opens, kills>>

GivesUp(e) == engine' = [engine EXCEPT ![e] = [pc |-> "down", version |-> 1]]

\* Mutant: CREATE TABLE IF NOT EXISTS, and a ledger row that replaces another.
NeverRefused(e) == FALSE

\* CREATE TABLE of a table that another engine created since the look-up, and
\* the second row of the ledger with one primary key, are errors.
Refused(e) == schema[engine[e].version] > 0 \/ engine[e].version \in ledger

\* BEGIN and the statements: when they fail, so does the start.
Applies(e) ==
    /\ EngineAt(e, "applying") /\ writer = NoOne
    /\ IF Refused(e)
       THEN GivesUp(e) /\ UNCHANGED writer
       ELSE engine' = [engine EXCEPT ![e].pc = "applied"] /\ writer' = e
    /\ UNCHANGED <<file, connection, request, reader, opens, kills>>

\* The busy timeout of another's write lock, or an error of the file system.
OpenFails(e) ==
    /\ engine[e].pc \in {"opening", "applying", "applied"}
    /\ GivesUp(e)
    /\ writer' = IF writer = e THEN NoOne ELSE writer
    /\ UNCHANGED <<file, connection, request, reader, opens, kills>>

Migrated(e) ==
    /\ schema' = [schema EXCEPT ![engine[e].version] = @ + 1]
    /\ ledger' = ledger \cup {engine[e].version}

CommitsMigration(e) ==
    /\ EngineAt(e, "applied")
    /\ Migrated(e)
    /\ writer' = NoOne
    /\ engine' = [engine EXCEPT ![e] = [pc |-> "opening", version |-> @.version + 1]]
    /\ UNCHANGED <<tables, connection, request, reader, opens, kills>>
-----------------------------------------------------------------------------
(***************************************************************************)
(* Requests.                                                                *)
(***************************************************************************)
Unfinished == {"waiting", "begun", "search", "member", "event", "committed", "saved"}

InTransaction == {"begun", "search", "member", "event"}

Submit(q, e) ==
    /\ RequestAt(q, "new") /\ EngineAt(e, "serving")
    /\ request' = [request EXCEPT ![q] = [pc |-> "waiting", on |-> e]]
    /\ UNCHANGED <<file, writer, engine, connection, reader, opens, kills>>

\* Validate rejects the body: 400, and nothing was asked of the store.
Rejected(q) ==
    /\ RequestAt(q, "waiting")
    /\ Ends(q, "failed")
    /\ UNCHANGED <<file, writer, engine, connection, reader, opens, kills>>

\* BeginTx, or the connection of a single statement.
TakesConnection(q) ==
    /\ RequestAt(q, "waiting") /\ connection[Home(q)] = NoOne
    /\ connection' = [connection EXCEPT ![Home(q)] = q]
    /\ Step(q, "begun")
    /\ UNCHANGED <<file, writer, engine, reader, opens, kills>>

\* The first INSERT takes the write lock.
InsertSearch(q) ==
    /\ RequestAt(q, "begun") /\ q \in Creates /\ writer = NoOne
    /\ writer' = Home(q)
    /\ Step(q, "search")
    /\ UNCHANGED <<file, engine, connection, reader, opens, kills>>

\* Mutant: the repository is the store itself and asks the pool for a
\* connection instead of using the transaction's.
OnThePool(q) == connection[Home(q)] = NoOne

\* repositories{queryer: tx, execer: tx}: statements run on the transaction.
OnTransaction(q) == connection[Home(q)] = q

AddMember(q) ==
    /\ RequestAt(q, "search") /\ OnTransaction(q)
    /\ Step(q, "member")
    /\ UNCHANGED <<file, writer, engine, connection, reader, opens, kills>>

AppendAudit(q) ==
    /\ RequestAt(q, "member") /\ OnTransaction(q)
    /\ Step(q, "event")
    /\ UNCHANGED <<file, writer, engine, connection, reader, opens, kills>>

\* Mutant: the arguments of the membership are swapped.
SwappedMember(q) ==
    /\ searches' = searches \cup {q}
    /\ members' = members \cup {Home(q)}
    /\ events' = events \cup {q}

\* What COMMIT of the unit of work makes visible.
UnitOfWork(q) ==
    /\ searches' = searches \cup {q}
    /\ members' = members \cup {q}
    /\ events' = events \cup {q}

CommitsSearch(q) ==
    /\ RequestAt(q, "event")
    /\ UnitOfWork(q)
    /\ writer' = NoOne
    /\ connection' = [connection EXCEPT ![Home(q)] = NoOne]
    /\ Step(q, "committed")
    /\ UNCHANGED <<schema, ledger, profile, engine, reader, opens, kills>>

\* INSERT ... ON CONFLICT DO UPDATE: one statement, then the connection is free.
SavesProfile(q) ==
    /\ RequestAt(q, "begun") /\ q \in Saves /\ writer = NoOne
    /\ profile' = q
    /\ connection' = [connection EXCEPT ![Home(q)] = NoOne]
    /\ Step(q, "saved")
    /\ UNCHANGED <<schema, ledger, searches, members, events, writer, engine,
                   reader, opens, kills>>

\* The answer to a save is what GetProfile then reads; it may fail, and 500 is
\* the answer to a questionnaire that is stored.
ReadsBack(q) ==
    /\ RequestAt(q, "saved") /\ connection[Home(q)] = NoOne
    /\ \E pc \in {"done", "failed"} : Ends(q, pc)
    /\ UNCHANGED <<file, writer, engine, connection, reader, opens, kills>>

\* 201 is written after WithinTransaction returned nil.
AnswersCreated(q) ==
    /\ RequestAt(q, "committed")
    /\ Ends(q, "done")
    /\ UNCHANGED <<file, writer, engine, connection, reader, opens, kills>>

\* The answer is not written in time (WriteTimeout), or its client has gone.
AnswerLost(q) ==
    /\ request[q].pc \in {"committed", "saved"}
    /\ Ends(q, "lost")
    /\ UNCHANGED <<file, writer, engine, connection, reader, opens, kills>>

\* 500 for every error of the store.
AfterError(q) == "failed"

\* Mutant: the error path commits what was written so far.
CommittedInstead(q) ==
    /\ searches' = IF request[q].pc = "begun" THEN searches ELSE searches \cup {q}
    /\ members' = IF request[q].pc = "begun" THEN members ELSE members \cup {q}
    /\ events' = IF request[q].pc = "begun" THEN events ELSE events \cup {q}

\* ROLLBACK leaves the tables as they were.
Rollback(q) == UNCHANGED <<searches, members, events>>

\* A statement fails, or its wait for the write lock, or COMMIT, or the client
\* went away and the request's context with it.
RequestFails(q) ==
    /\ request[q].pc \in InTransaction
    /\ Rollback(q)
    /\ Ends(q, AfterError(q))
    /\ connection' = [connection EXCEPT ![Home(q)] = NoOne]
    /\ writer' = IF RequestAt(q, "begun") THEN writer ELSE NoOne
    /\ UNCHANGED <<schema, ledger, profile, engine, reader, opens, kills>>
-----------------------------------------------------------------------------
(***************************************************************************)
(* The list, newest first, read page by page by an API client.              *)
(***************************************************************************)
\* How many searches the list shows before s.
Before(s) == Cardinality({t \in searches : t > s})

\* Mutant: OFFSET counts from one.
PageFromNext(offset) == {s \in searches : Before(s) \in (offset + 1)..(offset + Limit)}

\* ORDER BY ... LIMIT ? OFFSET ?
Page(offset) == {s \in searches : Before(s) \in offset..(offset + Limit - 1)}

StartsReading(e) ==
    /\ reader.at = "idle" /\ EngineAt(e, "serving")
    /\ reader' = [at |-> "reading", on |-> e, offset |-> 0, due |-> searches]
    /\ UNCHANGED <<file, writer, engine, connection, request, opens, kills>>

\* A page that is not full is the last one.
ReadsPage ==
    LET page == Page(reader.offset)
        due == reader.due \ page
    IN
    /\ reader.at = "reading" /\ EngineAt(reader.on, "serving")
    /\ connection[reader.on] = NoOne
    /\ reader' = IF Cardinality(page) < Limit
                 THEN [NoReader EXCEPT !.at = "done", !.due = due]
                 ELSE [reader EXCEPT !.due = due, !.offset = @ + Limit]
    /\ UNCHANGED <<file, writer, engine, connection, request, opens, kills>>
-----------------------------------------------------------------------------
(***************************************************************************)
(* The end of an engine: told to stop it finishes its requests; killed it    *)
(* leaves only what was committed.                                          *)
(***************************************************************************)
OpenRequests(e) == {q \in Requests : Home(q) = e /\ request[q].pc \in Unfinished}

Stop(e) ==
    /\ EngineAt(e, "serving")
    /\ engine' = [engine EXCEPT ![e].pc = "stopping"]
    /\ UNCHANGED <<file, writer, connection, request, reader, opens, kills>>

Stopped(e) ==
    /\ EngineAt(e, "stopping") /\ OpenRequests(e) = {}
    /\ GivesUp(e)
    /\ UNCHANGED <<file, writer, connection, request, reader, opens, kills>>

\* The process ends with its requests: what they had not committed is gone.
Dies(e) ==
    /\ GivesUp(e)
    /\ writer' = IF writer = e THEN NoOne ELSE writer
    /\ connection' = [connection EXCEPT ![e] = NoOne]
    /\ request' = [q \in Requests |->
           IF q \in OpenRequests(e) THEN [pc |-> "lost", on |-> NoOne] ELSE request[q]]
    /\ UNCHANGED <<file, reader, opens>>

\* Shutdown waits five seconds at most, then closes the connections.
ShutdownTimesOut(e) ==
    /\ EngineAt(e, "stopping") /\ OpenRequests(e) # {}
    /\ Dies(e)
    /\ UNCHANGED kills

Kill(e) ==
    /\ ~EngineAt(e, "down") /\ kills < MaxKills
    /\ kills' = kills + 1
    /\ Dies(e)

EngineSteps(e) ==
    LooksUp(e) \/ Applies(e) \/ OpenFails(e) \/ CommitsMigration(e) \/ Stopped(e)

RequestSteps(q) ==
    \/ Rejected(q) \/ TakesConnection(q) \/ InsertSearch(q) \/ AddMember(q)
    \/ AppendAudit(q) \/ CommitsSearch(q) \/ AnswersCreated(q) \/ SavesProfile(q)
    \/ ReadsBack(q)

Next ==
    \/ \E e \in Engines :
           \/ Open(e) \/ EngineSteps(e) \/ StartsReading(e)
           \/ Stop(e) \/ ShutdownTimesOut(e) \/ Kill(e)
    \/ \E q \in Requests : RequestSteps(q) \/ RequestFails(q) \/ AnswerLost(q)
    \/ \E q \in Requests, e \in Engines : Submit(q, e)
    \/ ReadsPage

\* Engines run on; requests go on as far as they can.  Nothing has to fail,
\* but the wait for another engine's write lock ends (WF of Blocked).
Blocked(q) == RequestFails(q) /\ writer # NoOne /\ writer # Home(q)

Fairness ==
    /\ \A e \in Engines : WF_vars(EngineSteps(e))
    /\ \A q \in Requests : WF_vars(RequestSteps(q)) /\ WF_vars(Blocked(q))

Spec == Init /\ [][Next]_vars /\ Fairness
-----------------------------------------------------------------------------
EngineStates == {"down", "opening", "applying", "applied", "serving", "stopping"}

RequestStates == {"new", "done", "failed", "lost"} \cup Unfinished

\* The shapes of the file and of the processes.
TypeOK ==
    /\ schema \in [Versions -> Nat] /\ ledger \subseteq Versions
    /\ searches \subseteq Creates /\ members \subseteq Creates /\ events \subseteq Creates
    /\ profile \in Saves \cup {0}
    /\ writer \in Engines \cup {NoOne}
    /\ engine \in [Engines -> [pc : EngineStates, version : Nat]]
    /\ connection \in [Engines -> Requests \cup {NoOne}]
    /\ request \in [Requests -> [pc : RequestStates, on : Engines \cup {NoOne}]]
    /\ reader \in [at : {"idle", "reading", "done"}, on : Engines \cup {NoOne}, offset : Nat,
                   due : SUBSET Creates]
    /\ opens \in Nat /\ kills \in Nat

SearchesWhole == members = searches /\ events = searches

AnsweredIsStored == \A q \in Creates : RequestAt(q, "done") => q \in searches

FailedIsNotStored == \A q \in Creates : RequestAt(q, "failed") => q \notin searches

\* A search is there with its creator's membership and its SEARCH_CREATED
\* event, or not at all; it is there when the answer was 201, whatever fails or
\* is killed later, and not when the answer was an error, so that a user who
\* then creates it again does not have it twice (store.go 155-173, searches.go
\* 68-79, handler.go 123-154, main.c on_create_search).
AnswersAreTrue == SearchesWhole /\ AnsweredIsStored /\ FailedIsNotStored

\* A migration ran once if it has its ledger row, and not at all if it has none:
\* never twice, though engines that open the file together both find it missing.
\* An engine that serves has all its migrations (store.go 85-153).
ServesMigrated ==
    /\ \A v \in Versions : schema[v] = IF v \in ledger THEN 1 ELSE 0
    /\ \A e \in Engines : engine[e].pc \in {"serving", "stopping"} => ledger = Versions

\* A client that pages through the list while searches are created at any
\* place of it sees every search that was there when it began (store.go 269-308).
PagesMissNothing ==
    reader.at = "done" => reader.due = {}

\* Every request ends: no unit of work waits for the connection it holds.
EveryRequestEnds ==
    \A q \in Requests : RequestAt(q, "waiting") ~> request[q].pc \notin Unfinished
=============================================================================
