----------------------------- MODULE Migrations -----------------------------
(***************************************************************************)
(* The server's migration runner (server/src/migrate.ts) and the containers *)
(* that run it before they start the server (server/Dockerfile): several of *)
(* them, of several releases, against one database.                         *)
(*                                                                         *)
(* A migration file is known by its name and checksum, a member of Files.   *)
(* Its SQL and its ledger row are one PostgreSQL transaction: schema and     *)
(* ledger change at COMMIT.  A process that is killed leaves its session,   *)
(* with the advisory lock, until the database notices.                      *)
(***************************************************************************)
EXTENDS Naturals, Sequences

CONSTANTS
    Runners,    \* containers, and operators at a shell
    Releases,
    Files,
    Ship,       \* each release's sql/ directory: its file of each version
    NoOne,
    MaxStarts,  \* bound: times a container or the command is started
    MaxKills    \* bound: processes killed

ASSUME ShipAssumption ==
    \A r \in Releases :
        /\ DOMAIN Ship[r] \subseteq Nat \ {0}
        /\ 1 \in DOMAIN Ship[r]
        /\ \A v \in DOMAIN Ship[r] : Ship[r][v] \in Files
ASSUME NoOneAssumption == NoOne \notin Runners
ASSUME BoundsAssumption == MaxStarts \in Nat /\ MaxKills \in Nat

VARIABLES
    schema,     \* the files whose SQL took effect, in order
    created,    \* the ledger table exists
    ledger,     \* its rows: <<version, file>>
    lock,       \* who holds the advisory lock
    run,        \* each runner's process
    starts, kills

database == <<schema, created, ledger>>
vars == <<database, lock, run, starts, kills>>

Rows(r) == {<<v, Ship[r][v]>> : v \in DOMAIN Ship[r]}

Versions(rows) == {row[1] : row \in rows}

Contiguous(r) ==
    \A v, w \in DOMAIN Ship[r] : v < w => v + 1 \in DOMAIN Ship[r]

\* A process: where it is, its image, the versions it still has to apply, the
\* one it is applying, and whether main() returned rather than threw.
Process(pc, r, dry, todo, at, ok) ==
    [pc |-> pc, release |-> r, dry |-> dry, todo |-> todo, at |-> at, ok |-> ok]

Down == {"down", "dead"}

At(x, pc) == run[x].pc = pc

Goes(x, pc) == run' = [run EXCEPT ![x].pc = pc]

\* An exception reaches the finally block of main.
Throws(x) == run' = [run EXCEPT ![x].pc = "closing", ![x].ok = FALSE]

Init ==
    /\ schema = <<>> /\ created = FALSE /\ ledger = {}
    /\ lock = NoOne
    /\ \E r \in Releases :
           run = [x \in Runners |-> Process("down", r, FALSE, {}, 0, FALSE)]
    /\ starts = 0 /\ kills = 0

\* loadMigrations: a gap in the numbering stops the command before it connects.
Start(x, r, dry) ==
    /\ At(x, "down") /\ starts < MaxStarts
    /\ starts' = starts + 1
    /\ run' = [run EXCEPT ![x] =
           Process(IF Contiguous(r) THEN "connected" ELSE "down", r, dry, {}, 0, FALSE)]
    /\ UNCHANGED <<database, lock, kills>>

\* CREATE TABLE IF NOT EXISTS looks first and creates after; a session that
\* finds that another one created the table in between gets an error.
LooksForLedger(x) ==
    /\ At(x, "connected")
    /\ Goes(x, IF created THEN "waiting" ELSE "creating")
    /\ UNCHANGED <<database, lock, starts, kills>>

CreatesLedger(x) ==
    /\ At(x, "creating")
    /\ IF created THEN Throws(x) ELSE Goes(x, "waiting")
    /\ created' = TRUE
    /\ UNCHANGED <<schema, ledger, lock, starts, kills>>

\* Mutant: pg_advisory_lock is not called.
LockIgnored == TRUE

LockFree == lock = NoOne

TakesLock(x) ==
    /\ At(x, "waiting") /\ LockFree
    /\ lock' = x
    /\ Goes(x, "locked")
    /\ UNCHANGED <<database, starts, kills>>

\* Mutant: the applied files are not compared with the release's.
Unverified(x) == TRUE

\* verifyApplied: every row of the ledger is a file of this release.
Verified(x) == ledger \subseteq Rows(run[x].release)

Pending(x) == DOMAIN Ship[run[x].release] \ Versions(ledger)

StopsAfterReading(x) == run[x].dry

ReadsLedger(x) ==
    /\ At(x, "locked")
    /\ IF ~Verified(x) THEN Throws(x)
       ELSE IF StopsAfterReading(x)
       THEN run' = [run EXCEPT ![x].pc = "closing", ![x].ok = TRUE]
       ELSE run' = [run EXCEPT ![x].pc = "migrating", ![x].todo = Pending(x)]
    /\ UNCHANGED <<database, lock, starts, kills>>

\* BEGIN and the file's statements, in the order of the versions.
RunsFile(x) ==
    /\ At(x, "migrating")
    /\ \E v \in run[x].todo :
           /\ \A w \in run[x].todo : v <= w
           /\ run' = [run EXCEPT ![x].pc = "ran", ![x].at = v]
    /\ UNCHANGED <<database, lock, starts, kills>>

\* A statement fails, or the connection: ROLLBACK and throw.
FileFails(x) ==
    /\ At(x, "migrating") /\ run[x].todo # {}
    /\ Throws(x)
    /\ UNCHANGED <<database, lock, starts, kills>>

\* The version is the ledger's primary key.
Records(x) ==
    /\ At(x, "ran")
    /\ IF run[x].at \in Versions(ledger) THEN Throws(x) ELSE Goes(x, "recorded")
    /\ UNCHANGED <<database, lock, starts, kills>>

\* Mutant: the columns of the INSERT are swapped.
SwappedEffect(x) ==
    LET file == Ship[run[x].release][run[x].at] IN
    /\ schema' = Append(schema, file)
    /\ ledger' = ledger \cup {<<file, run[x].at>>}

\* Mutant: no BEGIN, and the connection may break between the two statements.
HalfEffect(x) ==
    LET file == Ship[run[x].release][run[x].at] IN
    /\ schema' = Append(schema, file)
    /\ ledger' \in {ledger, ledger \cup {<<run[x].at, file>>}}

\* What COMMIT makes visible, all of it or nothing.
Effect(x) ==
    LET file == Ship[run[x].release][run[x].at] IN
    /\ schema' = Append(schema, file)
    /\ ledger' = ledger \cup {<<run[x].at, file>>}

\* The answer to COMMIT may be lost with the connection.
Commits(x) ==
    /\ At(x, "recorded")
    /\ Effect(x)
    /\ \/ run' = [run EXCEPT ![x].pc = "migrating", ![x].todo = @ \ {run[x].at}]
       \/ Throws(x)
    /\ UNCHANGED <<created, lock, starts, kills>>

Finishes(x) ==
    /\ At(x, "migrating") /\ run[x].todo = {}
    /\ run' = [run EXCEPT ![x].pc = "closing", ![x].ok = TRUE]
    /\ UNCHANGED <<database, lock, starts, kills>>

\* The container's command: the server starts only after a runner that returned.
StartsServer(x) == run[x].ok /\ ~run[x].dry

\* Mutant: neither unlock nor the end of the session frees the lock.
NotReleased(x) == lock

\* The session lets go of what it holds.
Released(x) == IF lock = x THEN NoOne ELSE lock

\* finally: unlock, end the pool and exit.
Closes(x) ==
    /\ At(x, "closing")
    /\ lock' = Released(x)
    /\ Goes(x, IF StartsServer(x) THEN "serving" ELSE "down")
    /\ UNCHANGED <<database, starts, kills>>

Killed(x) ==
    /\ run[x].pc \notin Down /\ kills < MaxKills
    /\ kills' = kills + 1
    /\ Goes(x, "dead")
    /\ UNCHANGED <<database, lock, starts>>

\* The database notices that the client is gone and rolls back.
SessionEnds(x) ==
    /\ At(x, "dead")
    /\ lock' = Released(x)
    /\ Goes(x, "down")
    /\ UNCHANGED <<database, starts, kills>>

Steps(x) ==
    \/ LooksForLedger(x) \/ CreatesLedger(x) \/ TakesLock(x) \/ ReadsLedger(x)
    \/ RunsFile(x) \/ FileFails(x) \/ Records(x) \/ Commits(x)
    \/ Finishes(x) \/ Closes(x) \/ SessionEnds(x)

Next ==
    \E x \in Runners :
        \/ \E r \in Releases, dry \in BOOLEAN : Start(x, r, dry)
        \/ Steps(x)
        \/ Killed(x)

\* A process runs on, and the database notices a dead client.
Fairness == \A x \in Runners : WF_vars(Steps(x))

Spec == Init /\ [][Next]_vars /\ Fairness
-----------------------------------------------------------------------------
Working == {"connected", "creating", "waiting", "locked", "migrating", "ran",
            "recorded", "closing"}

Holding == {"locked", "migrating", "ran", "recorded"}

\* The shapes of the database and of the processes, and who can hold the lock.
TypeOK ==
    /\ schema \in Seq(Files)
    /\ created \in BOOLEAN
    /\ ledger \subseteq (Nat \ {0}) \X Files
    /\ lock \in Runners \cup {NoOne}
    /\ run \in [Runners -> [pc : Working \cup Down \cup {"serving"},
                            release : Releases, dry : BOOLEAN,
                            todo : SUBSET Nat, at : Nat, ok : BOOLEAN]]
    /\ starts \in Nat /\ kills \in Nat

\* The ledger says what took effect, file by file and in order, whatever was
\* killed or failed half-way (migrate.ts 93-107: one transaction per file).
LedgerMatchesSchema ==
    ledger = {<<v, schema[v]>> : v \in DOMAIN schema}

\* A runner that runs a file runs it on the schema its own release builds up to
\* that version, and no other session has recorded the version meanwhile: what
\* the advisory lock of migrate.ts:73 is for.
BuildsOnItsRelease ==
    \A x \in Runners : run[x].pc \in {"ran", "recorded"} =>
        /\ run[x].at = Len(schema) + 1
        /\ \A v \in DOMAIN schema : <<v, schema[v]>> \in Rows(run[x].release)

\* A server that serves has every migration of its own image applied, whatever
\* other releases ran before or after it (Dockerfile:18).
ServesItsSchema ==
    \A x \in Runners : At(x, "serving") =>
        \A v \in DOMAIN Ship[run[x].release] :
            v \in DOMAIN schema /\ schema[v] = Ship[run[x].release][v]

History == INSTANCE SchemaHistory WITH history <- schema

\* The runners together do what docs/DATABASE_MIGRATIONS.md asks: no migration
\* twice, none out of order, none on top of another release's different file.
ImplementsHistory == History!Spec

\* Every command ends, whoever was killed with the lock in hand: the container
\* serves or is down to be started again.
EveryRunEnds ==
    \A x \in Runners : run[x].pc \in Working ~> run[x].pc \notin Working
=============================================================================
