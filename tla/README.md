# A verification project for KuKLA

KuKLA coordinates search-and-rescue operations: a Node/PostgreSQL server, a
Flutter field client that works offline, a Tauri desktop client, and a local
Go engine with a GTK client that is to replace the desktop client. This
directory holds TLA+ modules translated from that code, TLC configurations that
check them on small instances, and proofs that TLAPS checks for every value of
the constants. `PROJECT.json` ties every definition to the lines it models.

    tlc -config MCAccounts.cfg MCAccounts.tla        # likewise the other .cfg files
    tlapm AccountsProofs.tla                         # likewise the other *Proofs

## 1. Inventory

| Component | Where | State | Operations | What is hard |
|---|---|---|---|---|
| Role policy | `server/src/rbac.ts`, `rebuild/internal/domain/rbac.go`, `desktop/src/main.tsx` | none | who manages whom, who assigns what | three hand-kept copies |
| Accounts and invitations | `server/src/routes/users.ts`, `auth.ts`, `sql/005`, `006`, `009` | `users`, `user_invitations`, `sessions`, `system_bootstrap`, `events` | invite, revoke, accept, patch, register, bootstrap, login, logout | concurrent transactions, stale claims, lock cycles, check-then-insert |
| Search operations | `server/src/routes/searches.ts`, `tasks.ts`, `events.ts` | `searches`, `search_members`, `tasks`, `events` | create, patch, add and remove members, create and patch tasks, note | access decided before BEGIN, unlocked checks, row waits, event order |
| Offline snapshot, GPS | `server/src/routes/gps.ts` | reads the above; `gps_points` | snapshot, upload points | several queries, one moment |
| Field client | `mobile/lib` | `cache`, `queue` tables, running futures | send or queue, flush, remove | lost answers, overlapping flushes, kills, refusals, expired tokens |
| Server migrations | `server/src/migrate.ts`, `server/sql` | `schema_migrations` | load, verify, apply | several replicas, crash between migrations |
| Local engine, data | `rebuild/internal` | SQLite file | questionnaire, searches, audit, migrate | two processes on one file, one connection, errors in a unit of work |
| Local engine, process | `rebuild/cmd`, `rebuild/internal/ipc` | process, Unix socket file | open, listen, serve, shut down | socket take-over, stale sockets, slow starts |
| GTK client | `rebuild/ui/gtk` | child process, endpoint, `owns_process` | start, probe, request, stop the engine | time-outs against late answers |
| Desktop client | `desktop/src/main.tsx` | token, user, list, selected search, what was loaded of it | sign in, sign out, select, change, create, reload | answers that overtake each other, a late refusal of an old token |
| Server configuration | `server/src/config.ts`, `http.ts` | the pool of connections | take and give back a connection | no time-out: a request that waits for a connection waits for ever |
| Infrastructure | `infrastructure`, `.github` | - | deploy, back up | - |

How they interact: the clients call the server (or the local engine) over HTTP;
every server handler is one request, which holds at most one pooled connection,
and handlers of different requests meet only in the pool and in PostgreSQL,
through committed rows, row locks, advisory locks and UNIQUE constraints. `auth`
reads the caller's role from the
database when the request arrives; what a handler does later runs on that copy
unless it reads the row again under a lock. Account changes (Accounts) reach
Operations as changes of role and activity; membership (Operations) reaches the
field client as refusals. A login makes a row of `sessions`; each client keeps a
token, and learns only from a refusal that its row is gone or expired.

What makes each component correct:

* *Role policy*: the copies agree; appointments never climb.
* *Accounts*: one owner, made once and never unmade; no administrator without
  an owner; an invitation is used at most once and never after it was revoked;
  a contact has one good invitation and no two accounts; whoever changes an account or issues,
  redeems or revokes an invitation has the authority at the moment of the
  commit; requests end although locks can form cycles.
* *Operations*: the timeline is complete and in an order that restores the
  tables; a searcher changes only tasks that are theirs when the change takes
  effect; nobody inactive is added; a snapshot is of one moment and is given
  only to somebody who may see that moment.
* *Server configuration*: when the pool is empty, a connection comes back.
* *Server migrations*: one history of the schema whatever images are started on
  it; a ledger that is true; a server that serves only a schema with all its
  migrations; a runner that ends.
* *Local engine*: a search with its membership and audit event or none of them;
  answers that tell what was stored; a list that can be paged through; a request
  that does not wait for itself.
* *Engine process and window*: a window talks to its own engine; nobody takes
  that engine's socket; a stale socket is in nobody's way; no engine
  outlives its window.
* *Field client*: a queued command is not lost and not overtaken in the queue;
  the queue empties once the server admits its requests again; an old command
  does not undo a new one.
* *Desktop client*: what is displayed belongs to the search in the title; the
  screens have a token to ask with; one device's signing out leaves the others
  signed in.

The hazards this code is exposed to are listed, line by line, in
`PROJECT.json`, with the properties that would catch them.

## 2. Modules

| Module | Models | Proved about in |
|---|---|---|
| `Rbac` | the role policy and its two copies | `RbacProofs` |
| `Accounts` (extends `Rbac`) | accounts, invitations, bootstrap over PostgreSQL | `AccountsProofs` |
| `MCAccounts` | instances, the state in which `accounts_drain` starts | |
| `SearchBoard` | what the routes of searches, tasks and events promise together: the abstract specification | |
| `Operations` (extends `Rbac`, implements `SearchBoard`) | searches, members, tasks, timeline, snapshot, the pool | `OperationsProofs` |
| `MCOperations` | the requests of each instance, its symmetry and view | |
| `SchemaHistory` | what a runner of migrations promises: the abstract specification | |
| `Migrations` (implements `SchemaHistory`) | the server's migration runner, in several containers of several releases | `MigrationsProofs` |
| `MCMigrations` | four releases and what they ship | |
| `LocalStore` | the Go engine's data: start-up, units of work, list, on one SQLite file | `LocalStoreProofs` |
| `MCLocalStore` | its instance | |
| `EngineLifecycle` | windows, engine processes and socket files | `EngineLifecycleProofs` |
| `MCEngineLifecycle` | its instances | |
| `FieldClient` | the phone's outbox, the network, the part of the server it talks to | `FieldClientProofs` |
| `MCFieldClient` | its instance | |
| `Desktop` | the desktop client, another device of the same account, the server's sessions | `DesktopProofs` |
| `MCDesktop` | its instance, its symmetry | |

### Reading the server modules

PostgreSQL is external, modelled from how the handlers use it at READ
COMMITTED. Table variables hold *committed* rows. A handler is a state machine
in `tx[s]`, where `s` is a request under way; it makes a step where it may wait or be
overtaken: a lock it takes, a statement that decides something, the commit.
Statements between two such points that only touch rows the transaction has
locked are one step, because nobody can see or change those rows in between.
What the transaction writes appears when it commits, with its audit row; a
refusal and an error are a ROLLBACK.

`Accounts` keeps a set of locks (`locks`): row locks FOR SHARE and FOR UPDATE
and the advisory lock per contact. `Wanted` says which lock a session waits
for, `Grantable` whether it gets it, `Deadlocked` and `DeadlockVictim` are
PostgreSQL's deadlock detector. One step per lock gives every order in which
requests can be granted; share lockers may overtake a waiting writer, which is
more behaviour than PostgreSQL's queue has and never less. `now()` is frozen at
BEGIN: an invitation records which others had expired then (`dead`). Accounts
are inserted by three handlers, of which only acceptance looks for the contact
first; `UniqueContact` is the UNIQUE index that refuses the INSERT in every case.

| Code | Steps |
|---|---|
| `POST users/invitations` | `StartInvite`, `InviteLocksActor`, `InviteLocksContact`, `InviteChecksContact`, `InsertInvitation` |
| `DELETE users/invitations/:id` | `StartRevoke`, `RevokeLocksActor`, `RevokeInvitation` |
| `POST auth/accept-invitation` | `StartAccept`, `AcceptLocksInvitation`, `AcceptLocksContact`, `AcceptLocksInviter`, `AcceptChecksContact`, `CreateAccount` |
| `PATCH users/:id` | `StartPatch`, `PatchLocksFirst`, `PatchLocksSecond`, `ApplyPatch` |
| `POST auth/register` | `Register` |
| `kukla_bootstrap_system_owner` | `StartBootstrap`, `InsertOwner` |

`Operations` needs no lock table: a session holds at most one row
exclusively, so `Row`, `HoldsRow` and `RowFree` derive the waits from `tx`;
`Shares` is the FOR SHARE of `POST members`, and `Referenced` adds the key-share
locks that foreign keys leave on accounts, which a PATCH of the account waits
for (`ChangeUser`). A row of `members` carries a version, because a DELETE that
had to wait removes only the row its snapshot showed and not one inserted
since. A connection is taken at `Begin` (a snapshot: at `Connect`, before its access
check) and given back when the handler ends: `Holders` has one and
`FreeConnection` says whether `PoolSize` leaves another. An event's id is drawn
when the event is inserted and the event appears at the commit; `created_at` is the time of BEGIN. Time is measured in ids drawn,
which is coarse but never orders two events wrongly. The snapshot's timeline is
the newest `SnapshotLimit` events by `created_at` (200 in gps.ts 83), any of them
where times are equal (`Newest`, `Returned`).

| Code | Steps |
|---|---|
| every handler | `Arrive` (auth), `Begin` (access check, BEGIN), `Log` (its event), `Commit`, `Fail` |
| `POST searches`, `POST searches/:id/tasks` | `InsertNew` |
| `PATCH searches/:id` | `UpdateSearch` |
| `POST`, `DELETE searches/:id/members` | `ShareAccount`, `InsertMember`; `FindMember`, `DeleteMember` |
| `PATCH tasks/:id` | `FindTask`, `LockTask`, `UpdateTask` |
| `POST searches/:id/events` | `Note` |
| `GET searches/:id/snapshot` | `Connect`, `OpenSnapshot`, `ReadSection` four times, `Answer` |

`POST searches/:id/join` always refuses and is left out.

`SearchBoard` has neither requests nor transactions: a step enters one entry in
the timeline and makes the change it tells of (`Create`, `Change`, `Join`, `Leave`,
`AddTask`, `UpdateTask`, or `Note`, which changes nothing), if that is legal at
that moment, and the entry's id is later than those of the same row and than the
creation of the search; or it switches an account on or off (`Switch`).
`ImplementsBoard` reads the board off the tables: which accounts are active, the
statuses, the pairs in `members`, the tasks, the events. `Commit` is one change,
`Note` an entry, `ChangeUser` a switch or nothing, and every other step nothing.

### Reading the field client

A command is known by its number in `made`. `call` holds, for each first
attempt and each run of `syncQueue`, the request it awaits; `Break` ends the
wait without telling whether the server got the request, which may still arrive
later (`late`, `ServeLate`); `Kill` does so for every caller at once and keeps
only the `queue` table. `Serve` applies a request of somebody `Admitted` and
refuses it otherwise; to the app a refusal and a broken connection are the same
exception. A user is admitted as a member of the search (`welcome`, which
`ChangeAccess` takes and gives, a member removed or added in `Operations`) with
a token that is live (`session`). The app asks for a password when it starts and
at no other time, so that after `TokenExpires` only a new start helps.

| Code | Steps |
|---|---|
| position listener, status menu | `Make`, `TryDone`, `Fails` (enqueue) |
| `POST auth/login`, twelve hours later | `SignsIn`, `TokenExpires` |
| the server's handlers | `Serve`, `ServeLate` |
| `syncQueue` | `Flush` (the timer or a refresh), `SendNext`, `FlushDone` (remove), `Fails` (break) |

### Reading the desktop client

`Desktop` is one account with two devices: the window, and an API client that
also calls `POST auth/logout`. A token is known by the second in which it was
signed (`iat` counts seconds and the rest of the token is the account), so two
logins within a second get equal tokens; `session[t]` is the token's row.
`calls` are the window's requests under way with the selection that the awaiting
code captured when React rendered it; they are answered in any order, and an
answer acts on the state as it is then. What is displayed of a search is reduced to
`shown`, the search it is of. A login that
is under way when the page is loaded anew is awaited by nobody, but the server may
still sign and insert its token at any time (`unawaited`).

Two history variables name what the code does not guard against. `disturbed`
says that since the page was loaded a load of a search failed or overtook another;
only `ShowsTheSelected` excepts it. `raced` says that a login was answered while
`GET me` about the token before was not, until a `GET me` finds the account; only
`SignedInHasToken` excepts it (a late refusal removes the new token, main.tsx
164). The properties say that nothing else goes wrong: a failed or overtaken load
takes no token, and a race of logins confuses no selection.

| Code | Steps |
|---|---|
| `POST auth/login`, `Login` | `Submit`, `SignsToken`, `InsertsSession`, `LoginFails`, `WindowSignedIn`, `OtherSignedIn`; `SignsUnawaited`, `InsertsUnawaited`, `UnawaitedFails` |
| `GET auth/me`, the effect on load | `AnswersMe`, `Recognised`, `NotRecognised` |
| `POST auth/logout` | `OtherSignsOut`, `DeletesSession` |
| sign-out of the window, which does not tell the server | `SignsOut` |
| a new start of the window | `Reopen` |
| `reload`, the effect on the selection, `onRefresh`, creation | `Select`, `Ask`, `Listed`, `Changed`, `Created`, `Loaded`, `CallFails` |
| the clock, the twelve hours, PATCH `users` | `Tick`, `Expires`, `SwitchAccount` |

### Reading the migration runner

A migration file is a member of `Files` (its name and checksum); a release is the
function from versions to files that its image ships. `schema` is what took
effect, in order, `ledger` the rows of `schema_migrations`; both change only at
COMMIT. A process is a state machine in `run[x]` along `main()`; `lock` is the
advisory lock. A COMMIT may take effect without its answer arriving, a killed
process leaves its session and the lock until PostgreSQL notices. A container
starts its server only when the command before it returned 0.

| Code | Steps |
|---|---|
| `loadMigrations`, `main` up to the ledger | `Start`, `LooksForLedger`, `CreatesLedger` |
| `pg_advisory_lock`, `verifyApplied`, dry run | `TakesLock`, `ReadsLedger` |
| the loop | `RunsFile`, `FileFails`, `Records`, `Commits` |
| return, `finally` | `Finishes`, `Throws`, `Closes` |

`ImplementsHistory` is the refinement: with `history <- schema` every step is a
`Migrate` of some release or leaves the history alone.

### Reading the local engine

`LocalStore`: `connection[e]` is the only connection of engine `e`'s pool
(`SetMaxOpenConns(1)`), `writer` is SQLite's write lock. `schema` counts how often
each migration took effect; nothing in the model makes that once but the code's
look-up and what SQLite refuses: a CREATE TABLE of what exists and a second row of
the ledger (`Refused`). A request walks
through `request[q]`; the tables change at COMMIT. Whoever waits for another
engine's write lock either gets it or, after the busy timeout, an error.

| Code | Steps |
|---|---|
| `Open`, `Migrate`, `applyMigration` | `Open`, `LooksUp`, `Applies`, `CommitsMigration`, `OpenFails` |
| `POST /v1/searches` | `Submit`, `Rejected`, `TakesConnection`, `InsertSearch`, `AddMember`, `AppendAudit`, `CommitsSearch`, `AnswersCreated`, `AnswerLost`, `RequestFails` |
| `PUT /v1/me/profile` | `Submit`, `Rejected`, `TakesConnection`, `SavesProfile`, `ReadsBack` (which may fail), `AnswerLost`, `RequestFails` |
| `GET /v1/searches`, page by page | `StartsReading`, `ReadsPage` |
| end of the process | `Stop`, `Stopped`, `ShutdownTimesOut`, `Kill` |

The order of the list is the order of the searches' numbers, and requests are
served in any order: a new search can appear at any place of the list, as it can
in the code, whose sort key is a text.

`EngineLifecycle`: `engine[p]` is where `run()` of process `p` is; what happens in
the database is one step that takes as long as it likes or fails. `socket[path]`
names the process that bound the file at a path; each system call of
`ipc.Listen` is a step of its own, because other engines act between them.
`call[w]` is the engine the window is connected to; requests of a window block
its only thread.

| Code | Steps |
|---|---|
| `run()` up to `ipc.Listen` | `StartByHand`, `OpensDatabase` |
| `ipc.Listen` | `LooksAtPath`, `Dials`, `RemovesStale`, `Binds`, `RestrictsSocket`; after a failed Chmod `ClosesListener`, `Exits` |
| shutdown | `Signalled`, `ClosesListener`, `Exits` |
| `engine_client_start` | `OpenWindow`, `Requests`, `Answered`, `Broken` |
| `engine_client_request`, `engine_client_stop` | `Uses`, `CloseWindow`, `Requests`, `Answered`, `Broken` |

## 3. Runs

| Run | Instance | Shows |
|---|---|---|
| `accounts` | 3 accounts, 1 invitation, 2 connections, empty database, any requests | `TypeOK`, `SingleOwner`, `AdministratorsNeedOwner`, `ClosedStaysClosed`, `PatchAuthority`, `InvitationAuthority`, `OwnerIsPermanent` |
| `accounts_drain` | 4 accounts, 3 connections with every mix of 7 requests just begun, registrations at any time | `OnePendingPerContact`, `ContactsApart`, `PatchesNeverDeadlock`, `EveryRequestEnds` |
| `operations` | 1 search, 1 task, a manager and a searcher, 2 connections, 5 events | `TypeOK`, `TimelineRestores`, `SearchersUpdateTheirOwn`, `ImplementsBoard` |
| `operations_snapshot` | the same with an account reached through an organization, 3 events of which a snapshot returns 2, a pool of 2 connections | `SnapshotRestores`, `SnapshotAuthorised`, `PoolNeverStarves` |
| `field_client` | 2 commands, 2 overlapping flushes, 2 broken connections, 1 kill, access and token lost at any time | `TypeOK`, `PendingUntilApplied`, `LeavesInOrder`, `QueueDrains` |
| `migrations` | 2 containers, 4 releases (old, new, a branch, one with a gap), 3 starts, 1 kill | `TypeOK`, `LedgerMatchesSchema`, `ServesItsSchema`, `ImplementsHistory`, `EveryRunEnds` |
| `local_store` | 2 engines, 2 migrations, 2 searches, 1 questionnaire, pages of one, 2 starts, 1 kill | `TypeOK`, `AnswersAreTrue`, `ServesMigrated`, `PagesMissNothing`, `EveryRequestEnds` |
| `engine_lifecycle` | 1 window, 2 engines at the default path, 2 probes, 3 kills | `TypeOK`, `OwnEngineAndSocket`, `SoleEngineServes`, `ReadyEngineEnds` |
| `desktop` | 2 searches, 2 requests under way, 2 devices, 2 seconds, logins of earlier days | `TypeOK`, `ShowsTheSelected`, `SignedInHasToken`, `SessionsApart` |
| `orphan_engine` | 1 window | finding 3 |
| `timeline_by_time` | two managers change one search | finding 1 |
| `field_overwrite` | a queued status and a later one | finding 2 |

Each property of a passing run has a mutant in its module (comments marked
`Mutant`): a plausible slip in the mapped code with which TLC finds the property
violated under the same configuration.

**Bounds.** Two connections suffice for the safety of `Accounts` because each
property relates one request to one change made behind its back, and a
connection that is free again serves the next request, so a run holds sequences
of any length; the lock cycles need three, hence `accounts_drain`, whose 7
requests contain every pair and every triple that can wait for each other. Two of
its four rows are free, so that a registration and an acceptance of one contact
can both get to their INSERT.
Three accounts are an owner, an administrator and a third party. In
`operations`, five events are create, assign, reassign, finish and one more;
`users` changes without a bound. One search means that TLC does not look for two
searches being confused; the proofs hold for any number. A pool of two with two
requests is empty whenever both run, which is when a request that held one
connection and wanted another would wait for itself; for any pool and any number
of requests `PoolNeverStarves` is proved. The field client's two commands and two
flushes are the least with an order to get wrong; two broken connections queue
both commands, and the refusals, which have no bound, interrupt the flushes. In
`desktop` two seconds give equal and different tokens, two requests are a
load and one that moves the selection and causes the next load, and two
searches are the least to be confused; the proofs hold for any number. A limit of
two events makes a snapshot drop the oldest of three. In `migrations` two containers are the least that race
for the lock, and a third start follows whatever they left; the releases are
the cases `verifyApplied` and `loadMigrations` tell apart. In `local_store` two
engines race through the migrations and for the write lock, and pages of one row
make every insertion move a page boundary. In `engine_lifecycle` the second
engine at the default path finds the first one's socket fresh, stale or about
to be removed, and the window shows that this does not concern it; that no
number of windows and engines changes this is proved. Two probes stand for
forty: what counts is that an engine may be slower than all of them. Views drop what no guard reads (the audit row of
`Accounts`; `created_at` in `operations`, which has no snapshots); symmetry is over connections, unissued
invitations and emails where none of them is named by the configuration.

**Fairness.** `accounts_drain`: a handler that can go on does (Node schedules every
settled promise, PostgreSQL grants a free lock) and the deadlock detector
runs; nothing is assumed of clients. `field_client`: the timer fires while the
app runs, and a request that is neither lost nor interrupted is answered; breaks
and kills are finitely many by their bounds. No fairness makes a user sign in
again or a manager take them back, so `QueueDrains` states it as its premise:
*if* from some moment on the server admits the user (`<>[]Admitted`), the queue
empties. `migrations`: a process that can go
on does, and PostgreSQL notices a lost client in the end; nobody has to start
anything. `local_store`: engines and requests go on, and a wait for another's
write lock ends one way or the other (the busy timeout). `engine_lifecycle`,
`orphan_engine`: processes run (the operating system schedules them) and an
engine's start ends; users and the session have to do nothing. No fairness is needed elsewhere.

**Findings.** (1) `GET events` and the snapshot sort by `created_at`, the time of
BEGIN: of two overlapping changes the one that took effect last can be listed
first, so the history ends in a status the search does not have; sorted by id
it would restore the search (`TimelineRestores`). (2) A queued task status
replaces a newer one. (3) A window whose engine is slower than its probes posts
the shutdown to a socket on which nobody listens yet, forgets that it owns a
process, and leaves an engine that serves for ever; after a successful start it
does close it (`ReadyEngineEnds`).

## 4. Proofs

`RbacProofs` proves that the Go engine's policy is the server's, that the
desktop client offers exactly the roles the server accepts, and that
appointments never climb.

`AccountsProofs` proves every safety property of `Accounts` for any number of
accounts, invitations and contacts and any finite number of connections. Type
correctness (`TypeCorrect`) comes from a sharper shape invariant, one lemma per
handler. None of the others is inductive: that `PatchAuthority` holds when a PATCH commits depends on what was true when
its rows were locked. The inductive invariant `Isolated` says that

* no two sessions hold conflicting locks on one object (`LocksCompatible`), and
* each session past its k-th lock holds that lock, and what it decided on the
  rows it locked is still true of the committed rows (`InviteGuarded`,
  `RevokeGuarded`, `AcceptGuarded`, `PatchGuarded`).

A step of another session can only falsify the second by writing a row the
first session has locked, which the first part forbids (`Isolation`). The
action properties follow from `Isolated` and the step; the invariants need one
more conjunct each: `Owned` (the owner's row is active as long as it exists) for
`OneOwner`, `OwnerFirst` and `OwnerForGood`, and `Distinct` (whoever passed the
contact check holds the contact, so the check is still true) for
`OneLiveInvitation`. `NoSharedContact` needs no lock and has to do without: a
registration takes none, so that what an acceptance found of the contact may be
false when it inserts, and only the index keeps two accounts apart.

`NoPatchDeadlock` is about circles of any length. `LocksExplained` adds the
converse of `Isolated`: a PATCH holds no lock but those of the steps it has made.
So a PATCH that another PATCH waits for and that waits itself holds exactly its
first row, and waits for its second, which comes later. In a circle everybody is
waited for by somebody; waiting maps the circle to itself, finite and one to one,
hence onto, and the PATCH with the smallest first row would be waited for by one
whose first row is smaller still. That is where the number of connections has to
be finite (`SessionsAssumption`; the pool has a maximum).

The proofs assume only the named ASSUMEs of `Accounts` (that one, keys are
numbers, role sets are roles), which TLC evaluates in every run. TLC checked every
part of the invariants before it was proved.

`MigrationsProofs` proves `TypeCorrect`, `LedgerTrue`, `Builds`, `Serves` and the refinement
`Implements` for any runners, releases and files. The invariant says that the
ledger is the numbered schema, that at most one session is past the lock, and
that a runner past `ReadsLedger` has verified that its release ships what was
applied and still has exactly the rest to do; the last part stays true because
nobody else can commit while the lock is held. Releases are arbitrary: the only
assumption is that each ships a first version and files of `Files`.

`EngineLifecycleProofs` proves `TypeCorrect` and `KeepsItsOwn`, which is isolation
by the endpoint's name: a window's path is its own, and whatever engines do to each
other at the default path does not reach it. The invariant `Own` adds that the endpoint of a window holds no
socket but that of its engine: only a process whose path it is touches it.

`OperationsProofs` proves every property that the runs check of `Operations`, for
any searches, accounts, tasks, requests and sessions and any pool of at least one
connection. It has two invariants. `IInv` is about the requests under way:

* `Shape`: what a session keeps fits how far its handler got;
* `Exclusive`: two sessions that hold a row hold different rows, although the
  lock is derived from `tx` and not stored;
* `Allowed`: a task that a PATCH has locked is still as the searcher rule found
  it, which gives `TheirOwn`;
* `Active`: an account being added is active, since its row is share-locked,
  which gives `OnlyActive`;
* `Ids`: no two events, drawn or committed, have one id;
* `Views`: what a snapshot has read is what its first query fixed, and its caller
  may see that, which gives `Authorised`.

`NeverStarves` follows from `Shape` and `Exclusive`: whoever is waited for holds a row,
hence a connection, and waits for no other row, so waits do not even form
chains. `Story`, the second invariant, is about the timeline: events tell of rows
that exist (`Rooted`, `Begun`), what is being inserted is not there yet
(`Fresh`), and `Latest`, the reason why ids restore the tables where dates do
not: an id is drawn while the row is locked, so that the event about to be
committed is later than all that was told of its row. Then a commit's event is
the last to say what the commit did, and what the events tell stays the rows
(`Tells`, one part per kind of row), also in the views of snapshots (`Seen`, one `Past` moment each);
`Restores` and `SnapshotIsOfOneMoment` are the consequences. The second does not
say that the events a snapshot returns restore its rows, which is false beyond
the limit: it says that one timeline restores all rows of the snapshot and that the
returned events are the newest of it, all of them if they are fewer than the limit. TLC checked these
parts before they were proved.

`Implements` is the refinement of `SearchBoard`. Two facts are left to prove for it:
`Moving`, that who is being added is still no member when the commit comes, and
who is being removed still is one, although both were found several steps earlier;
and `Founded`, that an event is later than the creation of its search, also when
the search is only known by way of a task. With `Active`, `Fresh` and `Begun` every
guard of a change holds at the commit, with `Latest` and `Founded` its entry comes
late enough, and one lemma per kind of request shows that the tables change as the
board does.

`LocalStoreProofs` proves `AnswersTrue`, `ServesAll` and `MissesNothing` for any
engines, requests, versions and page size. `Progress` ties each request's step to
what is stored, `Writing` says who holds the connection and the write lock at
which step, so that nobody else writes between a statement and its COMMIT.
`Migrating` has `Once`, that the ledger tells of each migration how often it took
effect, and that an engine looking up a version has all those before it. A second
engine that found the same migration missing gets the lock only when the first has
ended, and if that has committed, SQLite refuses. `Reading` says that what a client has yet to see is at the place
where it goes on reading or after it. That is preserved because a new search
moves others back and never forward; that a short page is the last one needs the
list to be numbered without gaps (`NoGaps`), a counting argument over the
library's theorems about injections.

`FieldClientProofs` proves `Pending` and `FrontFirst`. Overlapping flushes look
as if a row could be removed from the middle of the queue: each works on a copy it
read at another time. `Overlapping` says what such a copy is: some commands that
have left the queue already, and then a beginning of the queue. So a flush that
gets an answer removes the first row or none. `Calls` says that an answered request
was applied, `TriedApart` that a first attempt is of a command nobody has queued.

`DesktopProofs` proves every property of `Desktop`, for any number of searches, of
requests under way and of seconds. `TypeCorrect` is apart; each of the others has
an invariant of its own.

* `OwnSession`: a row is deleted by the token that a device sent, perhaps long ago.
  `HeldApart` says that every token that a device stores, that a login is being
  answered with or that a logout carries has its row, live or expired, and no two of
  them are equal: two logins within one second sign the same token, and the UNIQUE
  index refuses the second while the row of the first is there. So a logout deletes
  nobody else's row.
* `TokenAtHand`: `TokenKnown` says that an answered login brings a token, that
  `GET /me` is only asked with one stored, and that a window that shows its screens
  awaits no answer to it unless a login raced with it.
* `ShowsSelection`: answers arrive in any order, so that only the order in which
  loads were asked for can help. `LoadsEndWithSelected` says that, undisturbed, the
  last load under way is about the selected search, and with none under way it is
  the one displayed.

Only model-checked is liveness under fairness, which is out of the prover's reach:
`EveryRequestEnds` of `Accounts` and of `LocalStore`, `EveryRunEnds`, `QueueDrains`,
`SoleEngineServes`, `ReadyEngineEnds`. Only proved: `Builds`, that whoever runs
a migration runs it on exactly the schema its release has before it, and
`OnlyActive` (`AddedWhileActive`), which the board's `Join` contains.

## 5. What is abstracted, and what is left out

*Accounts*: `sessions` rows, which are in `Desktop` (every active account is taken
to hold a token; `auth` joins on `active`, so a token of a deactivated account is
void). FOR KEY SHARE locks of foreign keys. Requests that a preHandler, the
rate limiter or a body schema refuses, which change nothing. The audit table is
reduced to its newest row. Emails are already lower case, as the handlers make
them. The database starts empty, which is a fresh installation; the seeded
accounts of `sql/002` are switched off by `sql/007`.

*Operations*: texts, coordinates and priorities (a request only tells whether it
carries a priority, which the searcher rule asks); the LIMIT of `GET events` (the
snapshot's is modelled); the snapshot's GPS section and `POST gps`, one INSERT that nothing decides on. That
a member who is removed keeps their tasks is in the model and stated by no
property, since no text of the repository says otherwise. The table `search_organizations` is written by no
code and is the constant `Partners`. Waits of an operation for a PATCH of an
account that its foreign keys reference.

*FieldClient*: the screens, and the cache of the lists they show offline (the
list of tasks is looked up under a key that no code writes, so it is empty
offline; nothing the outbox does depends on it). At most one task. A late
request may carry a token of any earlier sign-in: it is applied or not.

*Desktop*: the screens of people and invitations, whose requests are those of
`Accounts`; the map; texts and errors displayed; the window of Tauri, which has no
code of its own. A list is either with or without the selected search. One
account: sessions of different accounts have different tokens. The other device
sends its logout once and does not repeat it after an error.

*Migrations*: the SQL of the files (a file works or fails); files are neither
unreadable nor badly named; the connection string.

*LocalStore*: what `Validate` accepts, texts, `GET /v1/searches/:id`, the status
filter. A checksum that differs for an applied version (one build is modelled;
`Migrations` has that case). Whoever fails to get the database open starts
again only within `MaxOpens`.

*EngineLifecycle*: named pipes, which vanish with their process. Errors of
`accept`. `Uses` stands for every request of the screens. That an engine started
by hand can lose its socket to another that starts or ends at the same moment
(listener_unix.go 38, main.go 69) is in the model and stated by no property.

*Not modelled at all*: see the components with status `not_modelled` in
`PROJECT.json`.

## 6. What could come next

1. The points of `POST gps` as a section of the snapshot, with the duplicates a
   repeated batch leaves.
2. `FieldClient` composed with `Operations` instead of with its own small server:
   `welcome` would be the membership and the assignment of the tables.
3. The GPS section once it is modelled: that a snapshot's points are of the moment
   of its other sections is `Views` with one section more.
4. An abstract specification of the outbox (commands applied in the order they
   were made, some more than once) that `FieldClient` implements.
