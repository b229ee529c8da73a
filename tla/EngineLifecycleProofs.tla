------------------------ MODULE EngineLifecycleProofs ------------------------
(***************************************************************************)
(* For any windows and engines: a window talks to its own engine only, and   *)
(* nobody takes that engine's socket while it serves.                       *)
(***************************************************************************)
EXTENDS EngineLifecycle, TLAPS

\* A window that probes has attempts left.
Probing ==
    \A w \in Windows :
        /\ WindowAt(w, "none") => window[w].probes = 0
        /\ WindowAt(w, "probing") => window[w].probes < Attempts

Shape == TypeOK /\ Probing

\* A window's endpoint holds no socket but that of its engine.
Endpoints == \A w \in Windows : socket[w] \in {NoOne, w}

Own == Endpoints /\ OwnEngineAndSocket

\* Each engine's path is one of the socket variable's.
LEMMA PathsThere == \A p \in Engines : PathOf(p) \in Windows \cup {Default}
  BY DEF PathOf, Endpoint

\* A window's path is nobody else's.
LEMMA PathsApart == \A w \in Windows, p \in Engines : PathOf(p) = w => p = w
  BY NamesAssumption DEF PathOf, Endpoint, Engines

\* What TypeOK says of one window.
WindowRecords ==
    [pc : {"none", "probing", "giving up", "ready", "failed", "closing", "closed", "killed"},
     probes : 0..Attempts, owns : BOOLEAN]

WindowsShape == window \in [Windows -> WindowRecords] /\ Probing

\* A window may become any record that has attempts left when it probes.
LEMMA RecordShape ==
  ASSUME Shape, NEW w \in Windows, NEW r \in WindowRecords, r.pc # "none",
         r.pc = "probing" => r.probes < Attempts, window' = [window EXCEPT ![w] = r]
  PROVE  WindowsShape'
  BY DEF Shape, TypeOK, Probing, WindowAt, WindowRecords, WindowsShape

\* Counting a failed probe keeps the shape.
LEMMA NextAttemptShape ==
  ASSUME Shape, NEW w \in Windows, WindowAt(w, "probing"), NextAttempt(w)
  PROVE  WindowsShape'
  <1> DEFINE n == window[w].probes
             next == [window[w] EXCEPT !.probes = n + 1,
                                       !.pc = IF n + 1 < Attempts THEN @ ELSE "giving up"]
  <1>1. window[w] \in WindowRecords
    BY DEF Shape, TypeOK, WindowRecords
  <1>2. n \in 0..Attempts /\ n < Attempts /\ window[w].pc = "probing"
    BY <1>1 DEF Shape, Probing, WindowAt, WindowRecords
  <1>3. n + 1 \in 0..Attempts
    BY <1>2, BoundsAssumption
  <1>4. next \in WindowRecords /\ next.pc # "none" /\ (next.pc = "probing" => next.probes < Attempts)
    BY <1>1, <1>2, <1>3 DEF WindowRecords
  <1>5. window' = [window EXCEPT ![w] = next]
    BY <1>1 DEF NextAttempt, Shape, TypeOK
  <1> HIDE DEF next
  <1> QED BY <1>4, <1>5, RecordShape

\* Letting go of the engine keeps the shape.
LEMMA LetsGoShape ==
  ASSUME Shape, NEW w \in Windows, LetsGo(w)
  PROVE  WindowsShape'
  <1> DEFINE next == [window[w] EXCEPT !.owns = FALSE,
                                       !.pc = IF @ = "giving up" THEN "failed" ELSE "closed"]
  <1>1. next \in WindowRecords /\ next.pc \notin {"none", "probing"}
    BY DEF Shape, TypeOK, WindowRecords
  <1>2. window' = [window EXCEPT ![w] = next]
    BY DEF LetsGo, WindowAt, Shape, TypeOK
  <1> HIDE DEF next
  <1> QED BY <1>1, <1>2, RecordShape

\* Showing another state keeps the shape.
LEMMA ShowsShape ==
  ASSUME Shape, NEW w \in Windows, NEW pc \in {"ready", "failed", "closing", "closed", "killed"},
         Shows(w, pc)
  PROVE  WindowsShape'
  <1> DEFINE next == [window[w] EXCEPT !.pc = pc]
  <1>1. next \in WindowRecords /\ next.pc \notin {"none", "probing"}
    BY DEF Shape, TypeOK, WindowRecords
  <1>2. window' = [window EXCEPT ![w] = next]
    BY DEF Shows, Shape, TypeOK
  <1> HIDE DEF next
  <1> QED BY <1>1, <1>2, RecordShape

\* Initially.
LEMMA ShapeInit == Init => Shape
  BY BoundsAssumption DEF Init, Shape, TypeOK, Probing, WindowAt, Gone

\* The engine's steps keep the shape.
LEMMA EngineShape ==
  ASSUME Shape, NEW p \in Engines,
         StartByHand(p) \/ EngineSteps(p) \/ Signalled(p) \/ KillEngine(p)
  PROVE  Shape'
  <1> USE PathsThere DEF Shape, TypeOK, Probing, WindowAt, Goes, SetsSocket, Gone
  <1>1. CASE StartByHand(p) BY <1>1 DEF StartByHand
  <1>2. CASE OpensDatabase(p) BY <1>2 DEF OpensDatabase
  <1>3. CASE LooksAtPath(p) BY <1>3 DEF LooksAtPath
  <1>4. CASE Dials(p) BY <1>4 DEF Dials
  <1>5. CASE RemovesStale(p) BY <1>5 DEF RemovesStale, Unlinks
  <1>6. CASE Binds(p) BY <1>6 DEF Binds
  <1>7. CASE RestrictsSocket(p) BY <1>7 DEF RestrictsSocket
  <1>8. CASE ClosesListener(p) BY <1>8 DEF ClosesListener
  <1>9. CASE Exits(p) BY <1>9 DEF Exits
  <1>10. CASE Signalled(p) BY <1>10 DEF Signalled
  <1>11. CASE KillEngine(p)
    <2>1. kills' \in Nat
      <3>1. kills' = kills + 1 BY <1>11 DEF KillEngine
      <3>2. kills \in Nat OBVIOUS
      <3> HIDE DEF Shape, TypeOK
      <3> QED BY <3>1, <3>2
    <2>2. engine' = [engine EXCEPT ![p] = "killed"] /\ UNCHANGED <<window, call, socket>>
      BY <1>11 DEF KillEngine
    <2> QED BY <2>1, <2>2
  <1> QED BY <1>1, <1>2, <1>3, <1>4, <1>5, <1>6, <1>7, <1>8, <1>9, <1>10, <1>11
          DEF EngineSteps

\* The window's steps keep the shape.
LEMMA WindowShape ==
  ASSUME Shape, NEW w \in Windows,
         OpenWindow(w) \/ WindowSteps(w) \/ Uses(w) \/ CloseWindow(w) \/ KillWindow(w)
  PROVE  Shape'
  <1>0. w \in Engines
    BY DEF Engines
  <1>1. CASE OpenWindow(w)
    <2>1. UNCHANGED <<call, socket, kills>> /\ (engine' = engine \/ Goes(w, "opening"))
      BY <1>1 DEF OpenWindow
    <2>2. WindowsShape'
      <3>1. CASE Shows(w, "failed")
        BY <3>1, ShowsShape
      <3>2. CASE window' = [window EXCEPT ![w].pc = "probing", ![w].owns = TRUE]
        <4> DEFINE next == [window[w] EXCEPT !.pc = "probing", !.owns = TRUE]
        <4>1. /\ next \in WindowRecords /\ next.pc = "probing"
              /\ next.probes = 0 /\ 0 < Attempts
          <5>1. window[w] \in WindowRecords /\ window[w].probes = 0
            BY <1>1 DEF OpenWindow, Shape, TypeOK, Probing, WindowAt, WindowRecords
          <5>2. next \in WindowRecords /\ next.pc = "probing" /\ next.probes = 0
            BY <5>1 DEF WindowRecords
          <5> QED BY <5>2, BoundsAssumption
        <4>2. window' = [window EXCEPT ![w] = next]
          BY <3>2 DEF Shape, TypeOK
        <4> HIDE DEF next
        <4> QED BY <4>1, <4>2, RecordShape
      <3> QED BY <1>1, <3>1, <3>2 DEF OpenWindow
    <2> QED BY <1>0, <2>1, <2>2 DEF Goes, Shape, TypeOK, WindowsShape, WindowRecords
  <1>2. CASE Requests(w)
    <2>1. CASE Reaches(w)
      BY <1>2, <2>1 DEF Requests, Connects, Reaches, Listens, Endpoint, Shape, TypeOK,
                        Probing, WindowAt
    <2>2. CASE ~Reaches(w) /\ WindowAt(w, "probing")
      BY <1>2, <2>2, NextAttemptShape DEF Requests, Shape, TypeOK, WindowsShape, WindowRecords
    <2>3. CASE ~Reaches(w) /\ ~WindowAt(w, "probing")
      BY <1>2, <2>3, LetsGoShape DEF Requests, Shape, TypeOK, WindowsShape, WindowRecords
    <2> QED BY <2>1, <2>2, <2>3
  <1>3. CASE Answered(w)
    <2>1. call' \in [Windows -> Engines \cup {NoOne}] /\ socket' = socket /\ kills' = kills
      BY <1>3 DEF Answered, Shape, TypeOK
    <2>2. CASE WindowAt(w, "probing")
      <3>1. Shows(w, "ready") /\ engine' = engine
        BY <1>3, <2>2 DEF Answered, WindowAt
      <3> QED BY <2>1, <3>1, ShowsShape DEF Shape, TypeOK, WindowsShape, WindowRecords
    <2>3. CASE WindowAt(w, "ready")
      BY <1>3, <2>1, <2>3 DEF Answered, Shape, TypeOK, Probing, WindowAt
    <2>4. CASE ~WindowAt(w, "probing") /\ ~WindowAt(w, "ready")
      <3>1. LetsGo(w) /\ Tells(w)
        BY <1>3, <2>4 DEF Answered
      <3>2. engine' \in [Engines -> Gone \cup {"opening", "looking", "dialling", "removing",
                                         "binding", "bound", "unrestricted", "withdrawn",
                                         "serving", "told", "draining"}]
        BY <3>1 DEF Tells, Goes, Shape, TypeOK
      <3> QED BY <2>1, <3>1, <3>2, LetsGoShape DEF Shape, TypeOK, WindowsShape, WindowRecords
    <2> QED BY <2>2, <2>3, <2>4
  <1>4. CASE Broken(w)
    <2>1. /\ call' \in [Windows -> Engines \cup {NoOne}]
          /\ socket' = socket /\ kills' = kills /\ engine' = engine
      BY <1>4 DEF Broken, Shape, TypeOK
    <2>2. CASE WindowAt(w, "probing")
      <3>1. NextAttempt(w) BY <1>4, <2>2 DEF Broken, WindowAt
      <3> QED BY <2>1, <2>2, <3>1, NextAttemptShape DEF Shape, TypeOK, WindowsShape, WindowRecords
    <2>3. CASE WindowAt(w, "ready")
      BY <1>4, <2>1, <2>3 DEF Broken, Shape, TypeOK, Probing, WindowAt
    <2>4. CASE ~WindowAt(w, "probing") /\ ~WindowAt(w, "ready")
      <3>1. LetsGo(w) BY <1>4, <2>4 DEF Broken
      <3> QED BY <2>1, <3>1, LetsGoShape DEF Shape, TypeOK, WindowsShape, WindowRecords
    <2> QED BY <2>2, <2>3, <2>4
  <1>5. CASE Uses(w)
    BY <1>5 DEF Uses, Connects, Reaches, Listens, Endpoint, Shape, TypeOK, Probing, WindowAt
  <1>6. CASE CloseWindow(w)
    <2>1. Shows(w, "closing") \/ Shows(w, "closed")
      BY <1>6 DEF CloseWindow
    <2> QED BY <1>6, <2>1, ShowsShape
            DEF CloseWindow, Shape, TypeOK, WindowsShape, WindowRecords
  <1>7. CASE KillWindow(w)
    <2>1. WindowsShape' BY <1>7, ShowsShape DEF KillWindow
    <2>2. kills' \in Nat
      <3>1. kills' = kills + 1 BY <1>7 DEF KillWindow
      <3>2. kills \in Nat BY DEF Shape, TypeOK
      <3> QED BY <3>1, <3>2
    <2>3. call' = [call EXCEPT ![w] = NoOne] /\ UNCHANGED <<engine, socket>>
      BY <1>7 DEF KillWindow
    <2> QED BY <2>1, <2>2, <2>3 DEF Shape, TypeOK, WindowsShape, WindowRecords
  <1> QED BY <1>1, <1>2, <1>3, <1>4, <1>5, <1>6, <1>7 DEF WindowSteps

\* Shape is inductive.
LEMMA ShapeAlways == Spec => []Shape
  <1>1. Shape /\ [Next]_vars => Shape'
    <2>1. ASSUME Shape, UNCHANGED vars PROVE Shape'
      BY <2>1 DEF Shape, TypeOK, Probing, WindowAt, vars
    <2> QED BY <2>1, EngineShape, WindowShape DEF Next
  <1> QED BY <1>1, ShapeInit, PTL DEF Spec

\* The variables keep their shapes, and no window probes more often than it may
\* (run engine_lifecycle).
THEOREM TypeCorrect == Spec => []TypeOK
  BY ShapeAlways, PTL DEF Shape

\* Initially.
LEMMA OwnInit == Init => Own
  BY DEF Init, Own, Endpoints, OwnEngineAndSocket, Engines

\* An engine changes nothing at the path of a window that did not start it, and
\* binds its own path before it serves.
LEMMA EngineOwn ==
  ASSUME Shape, Own, NEW p \in Engines,
         StartByHand(p) \/ EngineSteps(p) \/ Signalled(p) \/ KillEngine(p)
  PROVE  Own'
  <1>1. call' = call
    BY DEF StartByHand, EngineSteps, Signalled, KillEngine, OpensDatabase, LooksAtPath, Dials,
           RemovesStale, Binds, RestrictsSocket, ClosesListener, Exits
  <1>2. SUFFICES ASSUME NEW w \in Windows
                 PROVE  /\ socket'[w] \in {NoOne, w}
                        /\ engine'[w] \in {"bound", "serving"} => socket'[w] = w
    BY <1>1 DEF Own, Endpoints, OwnEngineAndSocket, Endpoint
  <1>3. /\ socket[w] \in {NoOne, w}
        /\ engine[w] \in {"bound", "serving"} => socket[w] = w
        /\ w \in Engines /\ PathOf(w) = w
    BY DEF Own, Endpoints, OwnEngineAndSocket, Endpoint, PathOf, Engines
  <1>4. /\ DOMAIN engine = Engines /\ DOMAIN socket = Windows \cup {Default}
        /\ PathOf(p) \in Windows \cup {Default} /\ (PathOf(p) = w => p = w)
    BY PathsThere, PathsApart DEF Shape, TypeOK, Gone
  <1>5. CASE p # w
    <2>1. engine'[w] = engine[w] /\ socket'[w] = socket[w]
      BY <1>3, <1>4, <1>5
         DEF StartByHand, EngineSteps, Signalled, KillEngine, OpensDatabase, LooksAtPath, Dials,
             RemovesStale, Binds, RestrictsSocket, ClosesListener, Exits, Goes, SetsSocket,
             Unlinks
    <2> QED BY <1>3, <2>1
  <1>6. CASE p = w
    <2> USE <1>3, <1>4, <1>6 DEF Goes, SetsSocket, EngineAt
    <2>1. CASE StartByHand(p) BY <2>1 DEF StartByHand
    <2>2. CASE OpensDatabase(p) BY <2>2 DEF OpensDatabase
    <2>3. CASE LooksAtPath(p) BY <2>3 DEF LooksAtPath
    <2>4. CASE Dials(p) BY <2>4 DEF Dials
    <2>5. CASE RemovesStale(p) BY <2>5 DEF RemovesStale, Unlinks
    <2>6. CASE Binds(p) BY <2>6 DEF Binds
    <2>7. CASE RestrictsSocket(p) BY <2>7 DEF RestrictsSocket
    <2>8. CASE ClosesListener(p) BY <2>8 DEF ClosesListener
    <2>9. CASE Exits(p) BY <2>9 DEF Exits
    <2>10. CASE Signalled(p) BY <2>10 DEF Signalled
    <2>11. CASE KillEngine(p) BY <2>11 DEF KillEngine
    <2> QED BY <2>1, <2>2, <2>3, <2>4, <2>5, <2>6, <2>7, <2>8, <2>9, <2>10, <2>11
            DEF EngineSteps
  <1> QED BY <1>5, <1>6

\* A window connects to what listens at its endpoint, which is its own engine.
LEMMA WindowOwn ==
  ASSUME Shape, Own, NEW w \in Windows,
         OpenWindow(w) \/ WindowSteps(w) \/ Uses(w) \/ CloseWindow(w) \/ KillWindow(w)
  PROVE  Own'
  <1>1. socket' = socket
    BY DEF OpenWindow, WindowSteps, Requests, Answered, Broken, Uses, CloseWindow, KillWindow
  <1>2. call \in [Windows -> Engines \cup {NoOne}] /\ \A v \in Windows : call[v] \in {NoOne, v}
    BY DEF Shape, TypeOK, Own, OwnEngineAndSocket
  <1>3. call' \in {call, [call EXCEPT ![w] = NoOne]} \/ (Reaches(w) /\ Connects(w))
    BY DEF OpenWindow, WindowSteps, Requests, Answered, Broken, Uses, CloseWindow, KillWindow
  <1>4. Reaches(w) => socket[w] = w
    BY DEF Reaches, Listens, Endpoint, Own, Endpoints
  <1>5. \A v \in Windows : call'[v] \in {NoOne, v}
    BY <1>2, <1>3, <1>4 DEF Connects, Endpoint
  <1>6. /\ DOMAIN engine = Engines
        /\ \A v \in Windows : engine'[v] \in {engine[v], "opening", "told"}
    <2>1. DOMAIN engine = Engines /\ Windows \subseteq Engines
      BY DEF Shape, TypeOK, Gone, Engines
    <2>2. \/ engine' = engine
          \/ Goes(w, "opening")
          \/ Goes(call[w], "told")
      BY DEF OpenWindow, WindowSteps, Requests, Answered, Broken, Uses, CloseWindow,
             KillWindow, Tells
    <2> QED BY <2>1, <2>2 DEF Goes
  <1>7. \A v \in Windows : engine'[v] \in {"bound", "serving"} => socket'[v] = v
    BY <1>1, <1>6 DEF Own, OwnEngineAndSocket, Endpoint
  <1> QED BY <1>1, <1>5, <1>7 DEF Own, Endpoints, OwnEngineAndSocket, Endpoint

\* Own is inductive relative to the shapes.
LEMMA OwnAlways == Spec => []Own
  <1>1. Shape /\ Own /\ [Next]_vars => Own'
    <2>1. ASSUME Own, UNCHANGED vars PROVE Own'
      BY <2>1 DEF Own, Endpoints, OwnEngineAndSocket, Endpoint, vars
    <2> QED BY <2>1, EngineOwn, WindowOwn DEF Next
  <1> QED BY <1>1, OwnInit, ShapeAlways, PTL DEF Spec

\* A window talks to the engine it started and to no other one, and nobody
\* removes or replaces that engine's socket while it serves, however many windows
\* and engines there are (run engine_lifecycle).
THEOREM KeepsItsOwn == Spec => []OwnEngineAndSocket
  BY OwnAlways, PTL DEF Own
=============================================================================
