--------------------------- MODULE EngineLifecycle ---------------------------
(***************************************************************************)
(* Who starts, finds and stops an engine, and whose socket file it is        *)
(* (rebuild/ui/gtk, rebuild/cmd/kukla-engine, rebuild/internal/ipc; Unix).   *)
(*                                                                         *)
(* A window is one run of the GTK program.  It starts the engine of the same *)
(* name on an endpoint of its own; engines started by hand share the default *)
(* socket.  A socket file names the process that bound it and stays when     *)
(* that process is killed.                                                  *)
(***************************************************************************)
EXTENDS Naturals

CONSTANTS
    Windows,        \* runs of the GTK program, and the engines they start
    ByHand,         \* engines started without -ipc-endpoint
    Default,        \* paths.Socket
    NoOne,
    Attempts,       \* bound: probes of a window (40 in the code)
    MaxKills        \* bound: processes killed

Engines == Windows \cup ByHand

ASSUME NamesAssumption ==
    /\ Windows \cap ByHand = {} /\ Default \notin Engines
    /\ NoOne \notin Engines \cup {Default}
ASSUME BoundsAssumption == Attempts \in Nat \ {0} /\ MaxKills \in Nat

VARIABLES
    window,     \* each window: where it is, its probes, owns_process
    call,       \* the engine a window is connected to, awaiting an answer
    engine,     \* each engine process: where run() is
    socket,     \* the engine whose socket the file at each path is
    kills

vars == <<window, call, engine, socket, kills>>

Init ==
    /\ window = [w \in Windows |-> [pc |-> "none", probes |-> 0, owns |-> FALSE]]
    /\ call = [w \in Windows |-> NoOne]
    /\ engine = [p \in Engines |-> "none"]
    /\ socket = [path \in Windows \cup {Default} |-> NoOne]
    /\ kills = 0

\* Mutant: the endpoint does not have a random part.
FixedEndpoint(w) == Default

\* create_endpoint: engine-<uuid>.sock.
Endpoint(w) == w

\* The path the engine listens at.
PathOf(p) == IF p \in Windows THEN Endpoint(p) ELSE Default

EngineAt(p, pc) == engine[p] = pc

Goes(p, pc) == engine' = [engine EXCEPT ![p] = pc]

SetsSocket(p, whose) == socket' = [socket EXCEPT ![PathOf(p)] = whose]

Gone == {"none", "refused", "failed", "exited", "killed"}

\* The kernel accepts connections from listen(2) to close(2).
Listens(p) == p # NoOne /\ engine[p] \in {"bound", "unrestricted", "serving", "told"}
-----------------------------------------------------------------------------
(***************************************************************************)
(* The engine: run() and ipc.Listen.                                        *)
(***************************************************************************)
StartByHand(p) ==
    /\ p \in ByHand /\ EngineAt(p, "none")
    /\ Goes(p, "opening")
    /\ UNCHANGED <<window, call, socket, kills>>

\* The paths, the database and its migrations: as long as they take, or an error.
OpensDatabase(p) ==
    /\ EngineAt(p, "opening")
    /\ Goes(p, "looking") \/ Goes(p, "failed")
    /\ UNCHANGED <<window, call, socket, kills>>

\* Lstat(path).
LooksAtPath(p) ==
    /\ EngineAt(p, "looking")
    /\ Goes(p, IF socket[PathOf(p)] = NoOne THEN "binding" ELSE "dialling")
    /\ UNCHANGED <<window, call, socket, kills>>

\* DialTimeout(path): somebody accepts, or the socket is stale.
Dials(p) ==
    /\ EngineAt(p, "dialling")
    /\ Goes(p, IF Listens(socket[PathOf(p)]) THEN "refused" ELSE "removing")
    /\ UNCHANGED <<window, call, socket, kills>>

\* Mutant: the stale socket is left where it is.
LeavesStale(p) == UNCHANGED socket

\* Remove(path) removes whatever is at the path by now.
Unlinks(p) == SetsSocket(p, NoOne)

RemovesStale(p) ==
    /\ EngineAt(p, "removing")
    /\ IF socket[PathOf(p)] = NoOne
       THEN Goes(p, "failed") /\ UNCHANGED socket
       ELSE Unlinks(p) /\ Goes(p, "binding")
    /\ UNCHANGED <<window, call, kills>>

\* net.Listen: bind(2) fails when the path exists.
Binds(p) ==
    /\ EngineAt(p, "binding")
    /\ IF socket[PathOf(p)] = NoOne
       THEN SetsSocket(p, p) /\ Goes(p, "bound")
       ELSE Goes(p, "failed") /\ UNCHANGED socket
    /\ UNCHANGED <<window, call, kills>>

\* Chmod(path), whosever socket is there by now, then Serve in a goroutine.
\* Without a file at the path the listener is given up.
RestrictsSocket(p) ==
    /\ EngineAt(p, "bound")
    /\ Goes(p, IF socket[PathOf(p)] = NoOne THEN "unrestricted" ELSE "serving")
    /\ UNCHANGED <<window, call, socket, kills>>

\* SIGTERM or SIGINT from the session.
Signalled(p) ==
    /\ EngineAt(p, "serving")
    /\ Goes(p, "told")
    /\ UNCHANGED <<window, call, socket, kills>>

\* listener.Close(), of server.Shutdown or of Listen after a failed Chmod,
\* unlinks the path.
ClosesListener(p) ==
    /\ \/ EngineAt(p, "told") /\ Goes(p, "draining")
       \/ EngineAt(p, "unrestricted") /\ Goes(p, "withdrawn")
    /\ SetsSocket(p, NoOne)
    /\ UNCHANGED <<window, call, kills>>

\* The path is removed again by its name: by run(), once the connections are
\* idle or five seconds are over, or by Listen.
Exits(p) ==
    /\ \/ EngineAt(p, "draining") /\ Goes(p, "exited")
       \/ EngineAt(p, "withdrawn") /\ Goes(p, "failed")
    /\ SetsSocket(p, NoOne)
    /\ UNCHANGED <<window, call, kills>>

KillEngine(p) ==
    /\ engine[p] \notin Gone /\ kills < MaxKills
    /\ kills' = kills + 1
    /\ Goes(p, "killed")
    /\ UNCHANGED <<window, call, socket>>

EngineSteps(p) ==
    \/ OpensDatabase(p) \/ LooksAtPath(p) \/ Dials(p) \/ RemovesStale(p)
    \/ Binds(p) \/ RestrictsSocket(p) \/ ClosesListener(p) \/ Exits(p)
-----------------------------------------------------------------------------
(***************************************************************************)
(* The window.  Its requests block its only thread: it awaits one at most.   *)
(***************************************************************************)
WindowAt(w, pc) == window[w].pc = pc

Shows(w, pc) == window' = [window EXCEPT ![w].pc = pc]

\* activate, engine_client_start: g_spawn_async, or its error.
OpenWindow(w) ==
    /\ WindowAt(w, "none")
    /\ \/ /\ window' = [window EXCEPT ![w].pc = "probing", ![w].owns = TRUE]
          /\ Goes(w, "opening")
       \/ Shows(w, "failed") /\ UNCHANGED engine
    /\ UNCHANGED <<call, socket, kills>>

Reaches(w) == Listens(socket[Endpoint(w)])

Connects(w) == call' = [call EXCEPT ![w] = socket[Endpoint(w)]]

\* Mutant: the loop runs once more.
OneAttemptMore(w) ==
    window' = [window EXCEPT ![w].probes = @ + 1,
                             ![w].pc = IF window[w].probes < Attempts THEN @ ELSE "giving up"]

\* The next of forty attempts, a tenth of a second later; then engine_client_stop.
NextAttempt(w) ==
    window' = [window EXCEPT ![w].probes = @ + 1,
                             ![w].pc = IF window[w].probes + 1 < Attempts THEN @ ELSE "giving up"]

\* The window is done with its engine: what it then shows.
LetsGo(w) ==
    window' = [window EXCEPT ![w].owns = FALSE,
                             ![w].pc = IF WindowAt(w, "giving up") THEN "failed" ELSE "closed"]

\* GET /v1/health, or POST /v1/shutdown: nobody may be listening.
Requests(w) ==
    /\ window[w].pc \in {"probing", "giving up", "closing"} /\ call[w] = NoOne
    /\ IF Reaches(w) THEN Connects(w) /\ UNCHANGED window
       ELSE /\ IF WindowAt(w, "probing") THEN NextAttempt(w) ELSE LetsGo(w)
            /\ UNCHANGED call
    /\ UNCHANGED <<engine, socket, kills>>

\* Any other request of an open window; without an engine it shows an error.
Uses(w) ==
    /\ WindowAt(w, "ready") /\ call[w] = NoOne
    /\ Reaches(w) /\ Connects(w)
    /\ UNCHANGED <<window, engine, socket, kills>>

\* Mutant: the handler has no shutdown function.
NotTold(w) == UNCHANGED engine

\* POST /v1/shutdown cancels the context that run() waits for.
Tells(w) == IF EngineAt(call[w], "serving") THEN Goes(call[w], "told") ELSE UNCHANGED engine

Answered(w) ==
    /\ call[w] # NoOne /\ engine[call[w]] \in {"serving", "told", "draining"}
    /\ call' = [call EXCEPT ![w] = NoOne]
    /\ CASE WindowAt(w, "probing") -> Shows(w, "ready") /\ UNCHANGED engine
         [] WindowAt(w, "ready") -> UNCHANGED <<window, engine>>
         [] OTHER -> LetsGo(w) /\ Tells(w)
    /\ UNCHANGED <<socket, kills>>

\* The engine closed the connection, or is no more.
Broken(w) ==
    /\ call[w] # NoOne /\ engine[call[w]] \in Gone \cup {"draining", "withdrawn"}
    /\ call' = [call EXCEPT ![w] = NoOne]
    /\ CASE WindowAt(w, "probing") -> NextAttempt(w)
         [] WindowAt(w, "ready") -> UNCHANGED window
         [] OTHER -> LetsGo(w)
    /\ UNCHANGED <<engine, socket, kills>>

\* on_window_close and app_state_free: engine_client_stop acts only for an owner.
CloseWindow(w) ==
    /\ window[w].pc \in {"ready", "failed"} /\ call[w] = NoOne
    /\ Shows(w, IF window[w].owns THEN "closing" ELSE "closed")
    /\ UNCHANGED <<call, engine, socket, kills>>

KillWindow(w) ==
    /\ window[w].pc \notin {"none", "closed", "killed"} /\ kills < MaxKills
    /\ kills' = kills + 1
    /\ Shows(w, "killed")
    /\ call' = [call EXCEPT ![w] = NoOne]
    /\ UNCHANGED <<engine, socket>>

WindowSteps(w) == Requests(w) \/ Answered(w) \/ Broken(w)

Next ==
    \/ \E p \in Engines :
           StartByHand(p) \/ EngineSteps(p) \/ Signalled(p) \/ KillEngine(p)
    \/ \E w \in Windows :
           OpenWindow(w) \/ WindowSteps(w) \/ Uses(w) \/ CloseWindow(w) \/ KillWindow(w)

\* Processes run.  Nobody has to start, use, close, signal or kill anything.
Fairness ==
    /\ \A p \in Engines : WF_vars(EngineSteps(p))
    /\ \A w \in Windows : WF_vars(WindowSteps(w))

Spec == Init /\ [][Next]_vars /\ Fairness
-----------------------------------------------------------------------------
\* The shapes of windows, engines and socket files.
TypeOK ==
    /\ window \in [Windows -> [pc : {"none", "probing", "giving up", "ready", "failed",
                                     "closing", "closed", "killed"},
                               probes : 0..Attempts, owns : BOOLEAN]]
    /\ call \in [Windows -> Engines \cup {NoOne}]
    /\ engine \in [Engines -> Gone \cup {"opening", "looking", "dialling", "removing",
                                         "binding", "bound", "unrestricted", "withdrawn",
                                         "serving", "told", "draining"}]
    /\ socket \in [Windows \cup {Default} -> Engines \cup {NoOne}]
    /\ kills \in Nat

\* A window talks to the engine it started and to no other one, and nobody
\* removes or replaces that engine's socket while it serves: whatever starts,
\* takes over or removes sockets at the default path does not reach a window's
\* (engine_client.c 112, main.go 60-62, listener_unix.go 29-53).
OwnEngineAndSocket ==
    \A w \in Windows :
        /\ call[w] \in {NoOne, w}
        /\ engine[w] \in {"bound", "serving"} => socket[Endpoint(w)] = w

Alone(p) == \A q \in Engines \ {p} : PathOf(q) = PathOf(p) => engine[q] \in Gone

\* An engine that finds itself alone at its path comes to serve, also after the
\* one before it was killed and left its socket (listener_unix.go 33-40).
SoleEngineServes ==
    \A p \in Engines :
        EngineAt(p, "looking") /\ Alone(p)
            ~> EngineAt(p, "serving") \/ EngineAt(p, "killed") \/ ~Alone(p)

\* The engine of a window that was ready ends after the window is closed
\* (engine_client.c 301-312, handler.go 45-50).
ReadyEngineEnds == \A w \in Windows : WindowAt(w, "closing")
    ~> engine[w] \in Gone \/ WindowAt(w, "killed")

\* "The UI starts a per-window Go engine instance and closes it when the window
\* exits" (rebuild/README.md 58).
ClosesItsEngine == \A w \in Windows : WindowAt(w, "closed") ~> engine[w] \in Gone
=============================================================================
