---------------------------- MODULE FieldClient -----------------------------
(***************************************************************************)
(* The phone's outbox (mobile/lib/main.dart and storage/local_db.dart): a   *)
(* GPS fix or a task status is sent at once, and written to the queue table *)
(* when that fails; a timer flushes the queue in the order of its ids.       *)
(*                                                                         *)
(* A command is known by its number in made, which is also the order of the *)
(* queue's ids where two of them are queued.  A caller is a future waiting   *)
(* for an HTTP response: the first attempt at a command, or one running      *)
(* syncQueue.  Nothing keeps two of those from running at once.  The server  *)
(* (POST gps and PATCH tasks) applies a request whenever it gets it; neither *)
(* handler knows whether it applied the same command before.  The app asks   *)
(* for a password when it starts and at no other time.                     *)
(***************************************************************************)
EXTENDS Naturals, Sequences, SequencesExt

CONSTANTS
    Fixes, Statuses,    \* what a command carries
    Flushes,            \* runs of syncQueue that may overlap
    MaxCommands,        \* bound: commands the user makes
    MaxBreaks,          \* bound: connections that break
    MaxKills            \* bound: times the system kills the app

ASSUME DataAssumption == Fixes \cap Statuses = {}
ASSUME BoundsAssumption == MaxCommands \in Nat /\ MaxBreaks \in Nat /\ MaxKills \in Nat
ASSUME FlushesAssumption == Flushes \cap Nat = {} /\ IsFiniteSet(Flushes)

VARIABLES
    made,       \* the commands the user made, in order
    queue,      \* the queue table: command numbers by id
    run,        \* what each syncQueue has yet to send
    call,       \* each caller's request
    late,       \* requests on their way whose caller is gone
    applied,    \* how often the server applied each command, 2 for twice or more
    task,       \* the last command the server applied to the task
    welcome,    \* the user is a member of the search, with the task assigned
    session,    \* the login screen, or the searches with a live or an ended token
    breaks, kills

phone == <<made, queue, run>>
server == <<applied, task, welcome>>
vars == <<phone, call, late, server, session, breaks, kills>>

Command == 1..MaxCommands
Callers == Command \cup Flushes

\* NoCall, or the command a request carries and how far it got.
NoCall == [cmd |-> 0, at |-> "none"]
Sent(n) == [cmd |-> n, at |-> "sent"]
Answered(n) == [cmd |-> n, at |-> "answered"]

Made(n) == n <= Len(made)

IsFix(n) == made[n] \in Fixes

\* Commands whose first attempt is still under way.
Trying == {n \in Command : call[n] # NoCall}

Init ==
    /\ made = <<>> /\ queue = <<>>
    /\ run = [f \in Flushes |-> <<>>]
    /\ call = [c \in Callers |-> NoCall]
    /\ late = [n \in Command |-> 0]
    /\ applied = [n \in Command |-> 0] /\ task = 0 /\ welcome = TRUE
    /\ session = "none"
    /\ breaks = 0 /\ kills = 0

-----------------------------------------------------------------------------
(* The app.                                                                *)

\* LoginScreen, when POST login was answered; it is replaced by Home.
SignsIn ==
    /\ session = "none"
    /\ session' = "live"
    /\ UNCHANGED <<phone, call, late, server, breaks, kills>>

\* The position listener and the status menu send the command at once.
Make ==
    /\ session # "none" /\ Len(made) < MaxCommands
    /\ \E x \in Fixes \cup Statuses : made' = Append(made, x)
    /\ call' = [call EXCEPT ![Len(made) + 1] = Sent(Len(made) + 1)]
    /\ UNCHANGED <<queue, run, late, server, session, breaks, kills>>

\* syncQueue reads the queue, on the timer or on a refresh.
Flush(f) ==
    /\ session # "none" /\ run[f] = <<>> /\ queue # <<>>
    /\ run' = [run EXCEPT ![f] = queue]
    /\ UNCHANGED <<made, queue, call, late, server, session, breaks, kills>>

SendNext(f) ==
    /\ run[f] # <<>> /\ call[f] = NoCall
    /\ call' = [call EXCEPT ![f] = Sent(Head(run[f]))]
    /\ UNCHANGED <<phone, late, server, session, breaks, kills>>

\* A first attempt that was answered is over.
TryDone(n) ==
    /\ call[n].at = "answered"
    /\ call' = [call EXCEPT ![n] = NoCall]
    /\ UNCHANGED <<phone, late, server, session, breaks, kills>>

\* Mutant: remove() looks for the row by a key the row does not have.
RemoveNothing(n) == queue

RemoveRow(n) == RemoveFirst(queue, n)

\* The answered command leaves the queue table and the loop goes on.
FlushDone(f) ==
    /\ call[f].at = "answered"
    /\ queue' = RemoveRow(call[f].cmd)
    /\ run' = [run EXCEPT ![f] = Tail(@)]
    /\ call' = [call EXCEPT ![f] = NoCall]
    /\ UNCHANGED <<made, late, server, session, breaks, kills>>

\* Mutant: the command is dropped once it was tried.
DroppedOnFailure(c) ==
    IF c \in Flushes THEN <<RemoveRow(call[c].cmd), <<>>>> ELSE <<Append(queue, c), <<>>>>

\* Mutant: continue instead of break.
SkippedOnFailure(c) ==
    IF c \in Flushes THEN <<queue, Tail(run[c])>> ELSE <<Append(queue, c), <<>>>>

\* catch (_): a first attempt enqueues its command, a flush stops.  The new
\* queue, and what the flush has left to send.
OnFailure(c) ==
    IF c \in Flushes THEN <<queue, <<>>>> ELSE <<Append(queue, c), <<>>>>

\* Mutant: a flush enqueues the failed command again.
FailsAgain(c) ==
    /\ queue' = Append(queue, call[c].cmd)
    /\ run' = IF c \in Flushes THEN [run EXCEPT ![c] = <<>>] ELSE run
    /\ call' = [call EXCEPT ![c] = NoCall]

Fails(c) ==
    /\ queue' = OnFailure(c)[1]
    /\ run' = IF c \in Flushes THEN [run EXCEPT ![c] = OnFailure(c)[2]] ELSE run
    /\ call' = [call EXCEPT ![c] = NoCall]

-----------------------------------------------------------------------------
(* The network and the server.                                             *)

\* gps.ts inserts the point, tasks.ts sets the status.
Apply(n) ==
    /\ applied' = [applied EXCEPT ![n] = IF @ = 2 THEN 2 ELSE @ + 1]
    /\ task' = IF IsFix(n) THEN task ELSE n

\* auth, requireSearchAccess and the searcher rule refuse the others; to the
\* app a refusal is a failure like any other.
Admitted == welcome /\ session = "live"

Serve(c) ==
    /\ call[c].at = "sent"
    /\ IF Admitted
         THEN /\ Apply(call[c].cmd)
              /\ call' = [call EXCEPT ![c] = Answered(@.cmd)]
              /\ UNCHANGED <<queue, run>>
         ELSE Fails(c) /\ UNCHANGED <<applied, task>>
    /\ UNCHANGED <<made, welcome, late, session, breaks, kills>>

\* It may carry the token of a session before this one, live or ended.
ServeLate(n) ==
    /\ late[n] > 0
    /\ \/ welcome /\ Apply(n)
       \/ UNCHANGED <<applied, task>>
    /\ late' = [late EXCEPT ![n] = @ - 1]
    /\ UNCHANGED <<phone, welcome, call, session, breaks, kills>>

\* A manager takes the user off the search or back on it (module Operations).
ChangeAccess ==
    /\ welcome' = ~welcome
    /\ UNCHANGED <<phone, call, late, applied, task, session, breaks, kills>>

\* Twelve hours after the login.
TokenExpires ==
    /\ session = "live"
    /\ session' = "ended"
    /\ UNCHANGED <<phone, call, late, server, breaks, kills>>

\* The requests of callers C that were sent and not yet served: the network
\* loses any of them and still delivers the others.
Orphan(C) ==
    \E D \in SUBSET {c \in C : call[c].at = "sent"} :
        late' = [n \in Command |-> late[n] + Cardinality({c \in D : call[c].cmd = n})]

\* The connection breaks, before or after the server got the request.
Break(c) ==
    /\ call[c] # NoCall
    /\ breaks < MaxBreaks
    /\ breaks' = breaks + 1
    /\ Orphan({c})
    /\ Fails(c)
    /\ UNCHANGED <<made, server, session, kills>>

\* The system kills the app; the queue table stays.
Kill ==
    /\ kills < MaxKills
    /\ kills' = kills + 1
    /\ Orphan(Callers)
    /\ call' = [c \in Callers |-> NoCall]
    /\ run' = [f \in Flushes |-> <<>>]
    /\ session' = "none"
    /\ UNCHANGED <<made, queue, server, breaks>>

Step(f) == Flush(f) \/ SendNext(f) \/ FlushDone(f)

Next ==
    \/ SignsIn \/ Make \/ Kill \/ ChangeAccess \/ TokenExpires
    \/ \E f \in Flushes : Step(f)
    \/ \E n \in Command : TryDone(n) \/ ServeLate(n)
    \/ \E c \in Callers : Serve(c) \/ Break(c)

\* The timer keeps firing while the app runs, and what is neither lost nor
\* interrupted is answered.
Fairness ==
    /\ \A f \in Flushes : WF_vars(Step(f))
    /\ \A n \in Command : WF_vars(TryDone(n)) /\ WF_vars(ServeLate(n))
    /\ \A c \in Callers : WF_vars(Serve(c))

Spec == Init /\ [][Next]_vars /\ Fairness

-----------------------------------------------------------------------------
Call == [cmd: 0..MaxCommands, at: {"none", "sent", "answered"}]

\* The types of the variables; a command is queued at most once.
TypeOK ==
    /\ made \in Seq(Fixes \cup Statuses) /\ Len(made) <= MaxCommands
    /\ queue \in Seq(1..Len(made)) /\ IsInjective(queue)
    /\ run \in [Flushes -> Seq(1..Len(made))]
    /\ call \in [Callers -> Call]
    /\ late \in [Command -> Nat]
    /\ applied \in [Command -> 0..2]
    /\ task \in 0..Len(made)
    /\ welcome \in BOOLEAN /\ session \in {"none", "live", "ended"}
    /\ breaks \in 0..MaxBreaks /\ kills \in 0..MaxKills

Queued == Range(queue)

\* A command stays pending, in its first attempt or in the queue, until the
\* server has applied it, whatever breaks and however many flushes overlap.
\* Only a command in its first attempt can die with the app.
PendingUntilApplied ==
    [][\A n \in Trying \cup Queued :
          \/ n \in (Trying \cup Queued)'
          \/ applied[n] > 0
          \/ n \notin Queued /\ kills' > kills]_vars

\* The queue is emptied from its front: no command leaves it before one that
\* was queued earlier, although overlapping flushes send and remove the same
\* rows.
LeavesInOrder ==
    [][IsPrefix(queue, queue') \/ (queue # <<>> /\ queue' = Tail(queue))]_vars

\* The user makes no more commands in the end, and connections break finitely
\* often; then, if at last the server admits the user's requests again, every
\* queued command is sent: the timer is enough, whatever refusals, expired
\* tokens, kills and broken flushes were before (main.dart 17-18).
QueueDrains == <>[]Admitted => <>[](queue = <<>>)

\* docs/DATA_OWNERSHIP.md asks of the queue that "Локальная запись никогда не
\* перезаписывает серверную молча": no queued status is applied over one that
\* the user chose later.
QueueNeverOverwrites ==
    [][\A f \in Flushes : LET n == call[f].cmd IN
          call[f] = Sent(n) /\ call'[f] = Answered(n) /\ ~IsFix(n) => task <= n]_vars
=============================================================================
