-------------------------- MODULE LocalStoreProofs --------------------------
(***************************************************************************)
(* For any engines, requests, migrations and page size: what LocalStore      *)
(* answers is what it stored, an engine that serves has all its migrations,  *)
(* and a client that pages through the list misses nothing.                 *)
(***************************************************************************)
EXTENDS LocalStore, FiniteSetTheorems, TLAPS

\* How far a request got tells what it is, and whether its search is stored.
Progress ==
    \A q \in Requests : LET pc == request[q].pc IN
        /\ pc \in {"search", "member", "event", "committed"} => q \in Creates
        /\ pc = "saved" => q \in Saves
        /\ q \in searches => pc \in {"committed", "done", "lost"}
        /\ q \in Creates /\ pc \in {"committed", "done"} => q \in searches

\* An engine applies the migrations there are.
AtVersion ==
    \A e \in Engines :
       /\ engine[e].version # 0
       /\ engine[e].pc \in {"applying", "applied"} => engine[e].version <= LastVersion

Shape == TypeOK /\ Progress /\ AtVersion

Once == \A v \in Versions : schema[v] = IF v \in ledger THEN 1 ELSE 0

\* Requests run at an engine that serves.  One request at a time has its
\* connection, and one engine the write lock: the one that runs a migration, or
\* the one of a unit of work that has begun to write.
Writing ==
    /\ \A q \in Requests :
          /\ request[q].pc \in Unfinished =>
                /\ request[q].on \in Engines
                /\ engine[request[q].on].pc \in {"serving", "stopping"}
          /\ request[q].pc \in InTransaction => connection[request[q].on] = q
          /\ request[q].pc \in {"search", "member", "event"} => writer = request[q].on
    /\ \A e \in Engines : engine[e].pc = "applied" => writer = e

\* An engine that looks a version up has all those before it; the one that it has
\* run and not committed is new.
Migrating ==
    /\ Once
    /\ \A e \in Engines :
          /\ engine[e].pc \in {"opening", "applying", "applied"} =>
                1..(engine[e].version - 1) \subseteq ledger
          /\ engine[e].pc \in {"serving", "stopping"} => Versions \subseteq ledger
          /\ engine[e].pc = "applied" => engine[e].version \notin ledger

EngineRecord == [pc : EngineStates, version : Nat]

\* Initially.
LEMMA ShapeInit == Init => Shape /\ SearchesWhole /\ Writing /\ Migrating
  BY RequestsAssumption, NoOneAssumption, BoundsAssumption
     DEF Init, Shape, TypeOK, Progress, AtVersion, SearchesWhole, Writing, Migrating, Once, EngineStates,
         RequestStates, Unfinished, InTransaction, NoReader, EngineAt, Versions

\* The steps of an engine keep the shape.
LEMMA ShapeEngine ==
  ASSUME Shape, NEW e \in Engines,
         Open(e) \/ EngineSteps(e) \/ StartsReading(e) \/ Stop(e)
  PROVE  Shape'
  <1> USE BoundsAssumption
      DEF Shape, TypeOK, Progress, AtVersion, EngineStates, EngineAt, GivesUp, file, tables
  <1>1. CASE Open(e) BY <1>1 DEF Open
  <1>2. CASE LooksUp(e)
    <2>1. engine[e].version \in Nat /\ engine[e].version + 1 \in Nat
      OBVIOUS
    <2>2. engine' \in [Engines -> EngineRecord]
      BY <1>2, <2>1 DEF LooksUp, EngineRecord
    <2>3. AtVersion'
      BY <1>2, <2>1 DEF LooksUp, AllLooked
    <2> QED BY <1>2, <2>2, <2>3 DEF LooksUp, EngineRecord
  <1>3. CASE Applies(e) BY <1>3, SMTT(30) DEF Applies
  <1>4. CASE OpenFails(e) BY <1>4 DEF OpenFails
  <1>5. CASE CommitsMigration(e)
    <2>1. engine[e].version \in Nat /\ engine[e].version + 1 \in Nat
      OBVIOUS
    <2>2. schema' \in [Versions -> Nat] /\ ledger' \subseteq Versions
      <3>1. engine[e].version \in Versions /\ schema[engine[e].version] + 1 \in Nat
        BY <1>5, <2>1 DEF CommitsMigration, Versions
      <3> QED BY <1>5, <3>1 DEF CommitsMigration, Migrated
    <2>3. engine' \in [Engines -> EngineRecord]
      BY <1>5, <2>1 DEF CommitsMigration, EngineRecord
    <2> QED BY <1>5, <2>2, <2>3 DEF CommitsMigration, EngineRecord
  <1>6. CASE Stopped(e) BY <1>6 DEF Stopped
  <1>7. CASE StartsReading(e) BY <1>7 DEF StartsReading
  <1>8. CASE Stop(e) BY <1>8 DEF Stop
  <1> QED BY <1>1, <1>2, <1>3, <1>4, <1>5, <1>6, <1>7, <1>8 DEF EngineSteps

\* So do those of a request.
LEMMA ShapeRequest ==
  ASSUME Shape, NEW q \in Requests, RequestSteps(q) \/ RequestFails(q) \/ AnswerLost(q)
  PROVE  Shape'
  <1> USE NoOneAssumption
      DEF Shape, TypeOK, Progress, AtVersion, RequestStates, Unfinished, RequestAt, Home, file, tables
  <1> DEFINE Records == [pc : RequestStates, on : Engines \cup {NoOne}]
             Others == \A r \in Requests \ {q} : request'[r] = request[r]
  <1>a. ASSUME NEW pc \in RequestStates, Step(q, pc) \/ Ends(q, pc)
        PROVE  request' \in [Requests -> Records] /\ request'[q].pc = pc /\ Others
    BY <1>a DEF Step, Ends
  <1>b. ASSUME NEW r \in Requests \cup {NoOne},
               connection' = [connection EXCEPT ![request[q].on] = r]
        PROVE  connection' \in [Engines -> Requests \cup {NoOne}]
    BY <1>b
  <1>c. Creates \subseteq Requests /\ Saves \subseteq Requests
    BY DEF Requests
  <1>1. CASE Rejected(q) BY <1>1, <1>a, <1>c, SMTT(30) DEF Rejected
  <1>2. CASE TakesConnection(q)
    <2>1. Step(q, "begun") /\ connection' = [connection EXCEPT ![request[q].on] = q]
      BY <1>2 DEF TakesConnection
    <2>2. request' \in [Requests -> Records] /\ request'[q].pc = "begun" /\ Others
      BY <2>1, <1>a
    <2>3. connection' \in [Engines -> Requests \cup {NoOne}]
      BY <2>1, <1>b
    <2> HIDE DEF Records
    <2>4. TypeOK'
      BY <1>2, <2>2, <2>3, <1>c DEF TakesConnection, Records
    <2> QED BY <1>2, <2>2, <2>4, <1>c DEF TakesConnection
  <1>3. CASE InsertSearch(q) BY <1>3, <1>a, <1>c DEF InsertSearch
  <1>4. CASE AddMember(q) BY <1>4, <1>a, <1>c DEF AddMember
  <1>5. CASE AppendAudit(q) BY <1>5, <1>a, <1>c DEF AppendAudit
  <1>6. CASE CommitsSearch(q)
    <2>1. Step(q, "committed") /\ connection' = [connection EXCEPT ![request[q].on] = NoOne]
      BY <1>6 DEF CommitsSearch, UnitOfWork
    <2>2. request' \in [Requests -> Records] /\ request'[q].pc = "committed" /\ Others
      BY <2>1, <1>a
    <2>3. connection' \in [Engines -> Requests \cup {NoOne}]
      BY <2>1, <1>b
    <2> HIDE DEF Records
    <2>4. TypeOK'
      BY <1>6, <2>2, <2>3, <1>c DEF CommitsSearch, UnitOfWork, Records
    <2> QED BY <1>6, <2>2, <2>4, <1>c DEF CommitsSearch, UnitOfWork
  <1>7. CASE AnswersCreated(q) BY <1>7, <1>a, <1>c DEF AnswersCreated
  <1>8. CASE SavesProfile(q)
    <2>1. Step(q, "saved") /\ connection' = [connection EXCEPT ![request[q].on] = NoOne]
      BY <1>8 DEF SavesProfile
    <2>2. request' \in [Requests -> Records] /\ request'[q].pc = "saved" /\ Others
      BY <2>1, <1>a
    <2>3. connection' \in [Engines -> Requests \cup {NoOne}]
      BY <2>1, <1>b
    <2> HIDE DEF Records
    <2>4. TypeOK'
      BY <1>8, <2>2, <2>3, <1>c, RequestsAssumption DEF SavesProfile, Records
    <2> QED BY <1>8, <2>2, <2>4, <1>c, RequestsAssumption DEF SavesProfile
  <1>9. CASE ReadsBack(q) BY <1>9, <1>a, <1>c, RequestsAssumption DEF ReadsBack
  <1>10. CASE RequestFails(q)
    <2>1. Ends(q, "failed") /\ connection' = [connection EXCEPT ![request[q].on] = NoOne]
      BY <1>10 DEF RequestFails, Rollback, AfterError, InTransaction
    <2>2. request' \in [Requests -> Records] /\ request'[q].pc = "failed" /\ Others
      BY <2>1, <1>a
    <2>3. connection' \in [Engines -> Requests \cup {NoOne}]
      BY <2>1, <1>b
    <2> HIDE DEF Records
    <2>4. TypeOK'
      BY <1>10, <2>2, <2>3, <1>c DEF RequestFails, Rollback, AfterError, InTransaction, Records
    <2> QED BY <1>10, <2>2, <2>4, <1>c DEF RequestFails, Rollback, AfterError, InTransaction
  <1>11. CASE AnswerLost(q) BY <1>11, <1>a, <1>c, RequestsAssumption, SMTT(30) DEF AnswerLost
  <1> QED BY <1>1, <1>2, <1>3, <1>4, <1>5, <1>6, <1>7, <1>8, <1>9, <1>10, <1>11
          DEF RequestSteps

\* And its arrival, and the end of its engine.
LEMMA ShapeEnds ==
  ASSUME Shape, NEW e \in Engines,
         (\E q \in Requests : Submit(q, e)) \/ ShutdownTimesOut(e) \/ Kill(e)
  PROVE  Shape'
  <1> USE NoOneAssumption
      DEF Shape, TypeOK, Progress, AtVersion, RequestStates, Unfinished, RequestAt, EngineAt, Home, file,
          tables, EngineStates
  <1>1. CASE \E q \in Requests : Submit(q, e)
    BY <1>1 DEF Submit, Requests
  <1>2. ASSUME Dies(e) PROVE
          /\ Progress' /\ AtVersion'
          /\ writer' \in Engines \cup {NoOne}
          /\ engine' \in [Engines -> [pc : EngineStates, version : Nat]]
          /\ connection' \in [Engines -> Requests \cup {NoOne}]
          /\ request' \in [Requests -> [pc : RequestStates, on : Engines \cup {NoOne}]]
    BY <1>2 DEF Dies, GivesUp, OpenRequests, Requests
  <1>3. CASE ShutdownTimesOut(e)
    BY <1>2, <1>3 DEF ShutdownTimesOut, Dies
  <1>4. CASE Kill(e)
    BY <1>2, <1>4 DEF Kill, Dies
  <1> QED BY <1>1, <1>3, <1>4

\* And the pages a client reads.
LEMMA ShapeReads ==
  ASSUME Shape, ReadsPage
  PROVE  Shape'
  <1>1. /\ reader.offset \in Nat /\ reader.offset + Limit \in Nat
        /\ reader.due \ Page(reader.offset) \in SUBSET Creates
        /\ reader.at \in {"idle", "reading", "done"} /\ reader.on \in Engines \cup {NoOne}
    BY BoundsAssumption DEF Shape, TypeOK
  <1>2. reader' \in [at : {"idle", "reading", "done"}, on : Engines \cup {NoOne},
                     offset : Nat, due : SUBSET Creates]
    <2>1. CASE Cardinality(Page(reader.offset)) < Limit
      BY <1>1, <2>1 DEF ReadsPage, NoReader
    <2>2. CASE ~(Cardinality(Page(reader.offset)) < Limit)
      BY <1>1, <2>2 DEF ReadsPage, Shape, TypeOK
    <2> QED BY <2>1, <2>2
  <1> QED BY <1>2 DEF Shape, TypeOK, Progress, AtVersion, ReadsPage, file, tables

LEMMA ShapeNext ==
  ASSUME Shape, [Next]_vars
  PROVE  Shape'
  <1>1. CASE UNCHANGED vars
    BY <1>1 DEF Shape, TypeOK, Progress, AtVersion, vars, file
  <1>2. CASE ReadsPage BY <1>2, ShapeReads
  <1>3. CASE \E e \in Engines :
               \/ Open(e) \/ EngineSteps(e) \/ StartsReading(e)
               \/ Stop(e) \/ ShutdownTimesOut(e) \/ Kill(e)
    BY <1>3, ShapeEngine, ShapeEnds
  <1>4. CASE \E q \in Requests : RequestSteps(q) \/ RequestFails(q) \/ AnswerLost(q)
    BY <1>4, ShapeRequest
  <1>5. CASE \E q \in Requests, e \in Engines : Submit(q, e)
    BY <1>5, ShapeEnds
  <1> QED BY <1>1, <1>2, <1>3, <1>4, <1>5 DEF Next

\* What COMMIT makes visible is a search with its membership and its event.
LEMMA WholeNext ==
  ASSUME SearchesWhole, [Next]_vars
  PROVE  SearchesWhole'
  <1> USE DEF SearchesWhole, file, tables
  <1>1. CASE UNCHANGED vars BY <1>1 DEF vars
  <1>2. CASE ReadsPage BY <1>2 DEF ReadsPage
  <1>3. ASSUME NEW e \in Engines,
               \/ Open(e) \/ EngineSteps(e) \/ StartsReading(e)
               \/ Stop(e) \/ ShutdownTimesOut(e) \/ Kill(e)
        PROVE  SearchesWhole'
    BY <1>3 DEF Open, EngineSteps, LooksUp, Applies, OpenFails, CommitsMigration, Stopped,
       StartsReading, Stop, ShutdownTimesOut, Kill, Dies
  <1>4. ASSUME NEW q \in Requests,
               RequestSteps(q) \/ RequestFails(q) \/ AnswerLost(q)
        PROVE  SearchesWhole'
    BY <1>4 DEF RequestSteps, Rejected, TakesConnection, InsertSearch, AddMember, AppendAudit,
       CommitsSearch, UnitOfWork, AnswersCreated, SavesProfile, ReadsBack, RequestFails, Rollback,
       AnswerLost
  <1>5. CASE \E q \in Requests, e \in Engines : Submit(q, e) BY <1>5 DEF Submit
  <1> QED BY <1>1, <1>2, <1>3, <1>4, <1>5 DEF Next

\* The write lock and the connections: an engine's steps,
LEMMA WritingEngine ==
  ASSUME Shape, Writing, NEW e \in Engines,
         \/ Open(e) \/ EngineSteps(e) \/ StartsReading(e)
         \/ Stop(e) \/ ShutdownTimesOut(e) \/ Kill(e)
  PROVE  Writing'
  <1> USE NoOneAssumption
      DEF Shape, TypeOK, Writing, InTransaction, Unfinished, EngineAt, GivesUp, file, tables
  <1>1. CASE Open(e) BY <1>1 DEF Open
  <1>2. CASE LooksUp(e) BY <1>2 DEF LooksUp
  <1>3. CASE Applies(e)
    <2>1. CASE Refused(e)
      <3>1. /\ engine' = [engine EXCEPT ![e] = [pc |-> "down", version |-> 1]]
            /\ UNCHANGED <<writer, connection, request>> /\ engine[e].pc = "applying"
        BY <1>3, <2>1 DEF Applies
      <3> QED BY <3>1
    <2>2. CASE ~Refused(e) BY <1>3, <2>2 DEF Applies
    <2> QED BY <2>1, <2>2
  <1>4. CASE OpenFails(e) BY <1>4 DEF OpenFails
  <1>5. CASE CommitsMigration(e) BY <1>5 DEF CommitsMigration
  <1>6. CASE Stopped(e) BY <1>6 DEF Stopped, OpenRequests, Home
  <1>7. CASE StartsReading(e) BY <1>7 DEF StartsReading
  <1>8. CASE Stop(e) BY <1>8 DEF Stop
  <1>9. CASE ShutdownTimesOut(e) \/ Kill(e)
    <2>1. Dies(e)
      BY <1>9 DEF ShutdownTimesOut, Kill
    <2> QED BY <2>1 DEF Dies, OpenRequests, Home
  <1> QED BY <1>1, <1>2, <1>3, <1>4, <1>5, <1>6, <1>7, <1>8, <1>9 DEF EngineSteps

\* and a request's.
LEMMA WritingRequest ==
  ASSUME Shape, Writing, NEW q \in Requests,
         \/ RequestSteps(q) \/ RequestFails(q) \/ AnswerLost(q)
         \/ \E e \in Engines : Submit(q, e)
  PROVE  Writing'
  <1> USE NoOneAssumption
      DEF Shape, TypeOK, Writing, InTransaction, Unfinished, RequestAt, EngineAt, Home, Step, Ends,
          file, tables
  <1>1. CASE Rejected(q) BY <1>1 DEF Rejected
  <1>2. CASE TakesConnection(q) BY <1>2 DEF TakesConnection
  <1>3. CASE InsertSearch(q) BY <1>3 DEF InsertSearch
  <1>4. CASE AddMember(q) BY <1>4 DEF AddMember
  <1>5. CASE AppendAudit(q) BY <1>5 DEF AppendAudit
  <1>6. CASE CommitsSearch(q) BY <1>6 DEF CommitsSearch
  <1>7. CASE AnswersCreated(q) BY <1>7 DEF AnswersCreated
  <1>8. CASE SavesProfile(q) BY <1>8 DEF SavesProfile
  <1>9. CASE ReadsBack(q) BY <1>9 DEF ReadsBack
  <1>10. CASE RequestFails(q) BY <1>10 DEF RequestFails, AfterError
  <1>11. CASE AnswerLost(q) BY <1>11 DEF AnswerLost
  <1>12. CASE \E e \in Engines : Submit(q, e) BY <1>12 DEF Submit
  <1> QED BY <1>1, <1>2, <1>3, <1>4, <1>5, <1>6, <1>7, <1>8, <1>9, <1>10, <1>11, <1>12
          DEF RequestSteps

LEMMA WritingNext ==
  ASSUME Shape, Writing, [Next]_vars
  PROVE  Writing'
  <1>1. CASE UNCHANGED vars BY <1>1 DEF Writing, vars
  <1>2. CASE ReadsPage BY <1>2 DEF Writing, ReadsPage
  <1> QED BY <1>1, <1>2, WritingEngine, WritingRequest DEF Next

\* A migration and its ledger row are one commit.
LEMMA OneMore ==
  ASSUME NEW v \in Nat, NEW S, 1..(v - 1) \subseteq S, v \in S
  PROVE  1..((v + 1) - 1) \subseteq S
  OBVIOUS

LEMMA AllOfThem ==
  ASSUME NEW v \in Nat, NEW n \in Nat, v > n, NEW S, 1..(v - 1) \subseteq S
  PROVE  1..n \subseteq S
  OBVIOUS

LEMMA MigratingEngine ==
  ASSUME Shape, Writing, Migrating, NEW e \in Engines, EngineSteps(e) \/ Open(e) \/ Stop(e)
  PROVE  Migrating'
  <1> USE BoundsAssumption
      DEF Shape, TypeOK, AtVersion, Migrating, EngineStates, EngineAt, GivesUp, file, tables
  <1>0. /\ engine[e].version \in Nat /\ engine[e].version + 1 \in Nat
        /\ \A f \in Engines : engine[f].version \in Nat
    OBVIOUS
  <1>1. CASE Open(e) BY <1>1 DEF Open, Once
  <1>2. CASE LooksUp(e)
    <2>0. Once'
      BY <1>2 DEF LooksUp, Once
    <2>1. CASE AllLooked(e)
      <3>1. Versions \subseteq ledger
        <4>1. 1..(engine[e].version - 1) \subseteq ledger /\ engine[e].version > LastVersion
          BY <1>2, <2>1 DEF LooksUp, AllLooked
        <4> QED BY <1>0, <4>1, AllOfThem DEF Versions
      <3> QED BY <1>0, <1>2, <2>0, <2>1, <3>1 DEF LooksUp
    <2>2. CASE ~AllLooked(e) /\ engine[e].version \in ledger
      <3>1. 1..((engine[e].version + 1) - 1) \subseteq ledger
        BY <1>0, <1>2, <2>2, OneMore DEF LooksUp
      <3> QED BY <1>0, <1>2, <2>0, <2>2, <3>1 DEF LooksUp
    <2>3. CASE ~AllLooked(e) /\ engine[e].version \notin ledger
      BY <1>0, <1>2, <2>0, <2>3 DEF LooksUp
    <2> QED BY <2>1, <2>2, <2>3
  <1>3. CASE Applies(e)
    <2>0. Once'
      BY <1>3 DEF Applies, Once
    <2>1. CASE Refused(e) BY <1>0, <1>3, <2>0, <2>1 DEF Applies
    <2>2. CASE ~Refused(e)
      <3>1. engine[e].version \notin ledger /\ engine[e].pc = "applying"
        BY <1>3, <2>2 DEF Applies, Refused
      <3>2. engine' = [engine EXCEPT ![e].pc = "applied"] /\ ledger' = ledger
        BY <1>3, <2>2 DEF Applies
      <3> QED BY <1>0, <2>0, <3>1, <3>2
    <2> QED BY <2>1, <2>2
  <1>4. CASE OpenFails(e) BY <1>0, <1>4 DEF OpenFails, Once
  <1>5. CASE CommitsMigration(e)
    <2> DEFINE v == engine[e].version
    <2>1. /\ schema' = [schema EXCEPT ![v] = schema[v] + 1] /\ ledger' = ledger \cup {v}
          /\ v \in Versions /\ v \notin ledger
      BY <1>0, <1>5 DEF CommitsMigration, Migrated, Versions
    <2>2. Once'
      BY <2>1 DEF Once
    <2>3. 1..((v + 1) - 1) \subseteq ledger'
      <3>1. 1..(v - 1) \subseteq ledger' /\ v \in ledger'
        BY <1>5, <2>1 DEF CommitsMigration
      <3> QED BY <1>0, <3>1, OneMore
    <2>4. \A f \in Engines \ {e} : engine'[f] = engine[f] /\ engine[f].pc # "applied"
      BY <1>5 DEF CommitsMigration, Writing
    <2>5. engine'[e] = [pc |-> "opening", version |-> v + 1]
      BY <1>5 DEF CommitsMigration
    <2>6. ledger \subseteq ledger' /\ Versions' = Versions
      BY <2>1 DEF Versions
    <2> HIDE DEF v
    <2>7. ASSUME NEW f \in Engines \ {e}
          PROVE  /\ engine[f].pc \in {"opening", "applying", "applied"} =>
                       1..(engine[f].version - 1) \subseteq ledger'
                 /\ engine[f].pc \in {"serving", "stopping"} => Versions \subseteq ledger'
      BY <2>6
    <2>8. ASSUME NEW f \in Engines
          PROVE
             /\ engine'[f].pc \in {"opening", "applying", "applied"} =>
                   1..(engine'[f].version - 1) \subseteq ledger'
             /\ engine'[f].pc \in {"serving", "stopping"} => Versions' \subseteq ledger'
             /\ engine'[f].pc # "applied"
      <3>1. CASE f = e
        <4>1. engine'[f].pc = "opening" /\ engine'[f].version = v + 1
          BY <2>5, <3>1
        <4>2. 1..(engine'[f].version - 1) \subseteq ledger'
          BY <2>3, <4>1, Zenon
        <4> QED BY <4>1, <4>2
      <3>2. CASE f # e
        <4>1. engine'[f] = engine[f] /\ engine[f].pc # "applied" /\ f \in Engines \ {e}
          BY <2>4, <3>2
        <4> QED BY <2>6, <2>7, <4>1
      <3> QED BY <3>1, <3>2
    <2> QED BY <2>2, <2>8
  <1>6. CASE Stopped(e) BY <1>6 DEF Stopped, Once
  <1>7. CASE Stop(e) BY <1>7 DEF Stop, Once
  <1> QED BY <1>1, <1>2, <1>3, <1>4, <1>5, <1>6, <1>7 DEF EngineSteps

LEMMA MigratingNext ==
  ASSUME Shape, Writing, Migrating, [Next]_vars
  PROVE  Migrating'
  <1> USE DEF file, tables
  <1>0. ASSUME UNCHANGED <<schema, ledger, engine>>
        PROVE  Migrating'
    BY <1>0 DEF Migrating, Once
  <1>1. CASE UNCHANGED vars BY <1>0, <1>1 DEF vars
  <1>2. CASE ReadsPage BY <1>0, <1>2 DEF ReadsPage
  <1>3. ASSUME NEW e \in Engines,
               Open(e) \/ EngineSteps(e) \/ Stop(e)
        PROVE  Migrating'
    BY <1>3, MigratingEngine
  <1>4. ASSUME NEW e \in Engines, StartsReading(e) \/ ShutdownTimesOut(e) \/ Kill(e)
        PROVE  Migrating'
    <2>1. CASE StartsReading(e) BY <1>0, <2>1 DEF StartsReading
    <2>2. CASE ShutdownTimesOut(e) \/ Kill(e)
      <3>1. schema' = schema /\ ledger' = ledger
        BY <2>2 DEF ShutdownTimesOut, Kill, Dies
      <3>2. engine' = [engine EXCEPT ![e] = [pc |-> "down", version |-> 1]]
        BY <2>2 DEF ShutdownTimesOut, Kill, Dies, GivesUp
      <3> QED BY <3>1, <3>2 DEF Migrating, Once, Shape, TypeOK
    <2> QED BY <1>4, <2>1, <2>2
  <1>5. ASSUME NEW q \in Requests,
               RequestSteps(q) \/ RequestFails(q) \/ AnswerLost(q)
        PROVE  Migrating'
    <2>1. UNCHANGED <<schema, ledger, engine>>
      BY <1>5 DEF RequestSteps, Rejected, TakesConnection, InsertSearch, AddMember, AppendAudit,
         CommitsSearch, UnitOfWork, AnswersCreated, SavesProfile, ReadsBack, RequestFails,
         Rollback, AnswerLost
    <2> QED BY <1>0, <2>1
  <1>6. CASE \E q \in Requests, e \in Engines : Submit(q, e) BY <1>0, <1>6 DEF Submit
  <1> QED BY <1>1, <1>2, <1>3, <1>4, <1>5, <1>6 DEF Next
-----------------------------------------------------------------------------
\* The list is numbered without gaps: before s there is a search at each place.
LEMMA NoGaps ==
  ASSUME IsFiniteSet(searches), searches \subseteq Nat,
         NEW s \in searches, NEW k \in 0..Before(s)
  PROVE  \E t \in searches : Before(t) = k
  <1> DEFINE n == Cardinality(searches)
             Later(t) == {u \in searches : u > t}
             rank == [t \in searches |-> Before(t)]
  <1>0. \A t \in searches : t \in Nat
    OBVIOUS
  <1>1. n \in Nat
    BY FS_CardinalityType
  <1>2. ASSUME NEW t \in searches
        PROVE  IsFiniteSet(Later(t)) /\ Before(t) \in 0..(n - 1)
    <2>1. IsFiniteSet(Later(t)) /\ Before(t) <= n
      BY FS_Subset DEF Before
    <2>2. Before(t) \in Nat
      BY <2>1, FS_CardinalityType DEF Before
    <2>3. Before(t) # n
      <3>1. t \notin Later(t)
        OBVIOUS
      <3>2. Later(t) # searches
        BY <3>1
      <3> QED BY <3>2, FS_Subset DEF Before
    <2> QED BY <1>1, <2>1, <2>2, <2>3
  <1>2a. \A t \in searches : Before(t) \in 0..(n - 1) /\ Before(t) \in Nat
    <2>1. \A t \in searches : Before(t) \in 0..(n - 1)
      BY <1>2
    <2> HIDE DEF n
    <2> QED BY <1>1, <2>1
  <1> HIDE DEF n
  <1>3. ASSUME NEW t \in searches, NEW u \in searches, t < u
        PROVE  Before(u) < Before(t)
    <2>1. t \in Nat /\ u \in Nat
      BY <1>0
    <2>2. Later(u) \in SUBSET Later(t)
      <3>1. \A w \in searches : w > u => w > t
        BY <1>0, <1>3, <2>1
      <3> QED BY <3>1, Zenon
    <2>3. Later(u) # Later(t)
      <3>1. u \in Later(t) /\ u \notin Later(u)
        BY <1>3, <2>1
      <3> QED BY <3>1
    <2>4. Cardinality(Later(u)) <= Cardinality(Later(t)) /\ Cardinality(Later(u)) # Cardinality(Later(t))
      BY <1>2, <2>2, <2>3, FS_Subset
    <2>5. Before(u) \in Nat /\ Before(t) \in Nat
      BY <1>2a
    <2> QED BY <2>4, <2>5 DEF Before
  <1>4. rank \in Injection(searches, 0..(n - 1))
    <2>1. rank \in [searches -> 0..(n - 1)]
      BY <1>2
    <2>2. ASSUME NEW t \in searches, NEW u \in searches, rank[t] = rank[u]
          PROVE  t = u
      <3>1. ~(t < u) /\ ~(u < t)
        <4>1. Before(t) = Before(u) /\ Before(t) \in Nat
          BY <1>2a, <2>2
        <4> QED BY <1>3, <4>1
      <3> QED BY <1>0, <3>1
    <2> QED BY <2>1, <2>2 DEF Injection, IsInjective
  <1>5. Cardinality(0..(n - 1)) = n /\ IsFiniteSet(0..(n - 1))
    <2>1. 0 \in Int /\ n - 1 \in Int /\ (n - 1) - 0 + 1 = n /\ (0 > n - 1 <=> n = 0)
      BY <1>1
    <2> QED BY <2>1, FS_Interval
  <1>6. rank \in Surjection(searches, 0..(n - 1))
    BY <1>4, <1>5, FS_Injection DEF n
  <1>7. k \in 0..(n - 1)
    <2>1. Before(s) \in 0..(n - 1)
      BY <1>2a
    <2> QED BY <1>1, <2>1
  <1>8. PICK t \in searches : rank[t] = k
    BY <1>6, <1>7 DEF Surjection
  <1> QED BY <1>8

\* So a page with less than Limit searches has none after it.
LEMMA FullPage ==
  ASSUME IsFiniteSet(searches), searches \subseteq Nat, NEW offset \in Nat,
         NEW s \in searches, Before(s) \in Nat, Before(s) >= offset + Limit
  PROVE  ~(Cardinality(Page(offset)) < Limit)
  <1> DEFINE places == offset..(offset + Limit - 1)
             at == [k \in places |-> CHOOSE t \in searches : Before(t) = k]
  <1>0. Limit \in Nat \ {0}
    BY BoundsAssumption
  <1>1. ASSUME NEW k \in places
        PROVE  at[k] \in searches /\ Before(at[k]) = k
    <2>1. k \in 0..Before(s)
      BY <1>0
    <2>2. \E t \in searches : Before(t) = k
      BY <2>1, NoGaps
    <2> QED BY <2>2
  <1> HIDE DEF at
  <1>2. \A k \in places : at[k] \in Page(offset)
    BY <1>1 DEF Page
  <1>3. \A k, l \in places : at[k] = at[l] => k = l
    BY <1>1
  <1>4. at \in Injection(places, Page(offset))
    BY <1>2, <1>3 DEF at, Injection, IsInjective
  <1>5. IsFiniteSet(Page(offset))
    BY FS_Subset DEF Page
  <1>6. Cardinality(places) <= Cardinality(Page(offset))
    BY <1>4, <1>5, FS_Injection
  <1>7. Cardinality(places) = Limit
    BY <1>0, FS_Interval
  <1>8. Cardinality(Page(offset)) \in Nat
    BY <1>5, FS_CardinalityType
  <1> QED BY <1>0, <1>6, <1>7, <1>8

\* What a client has yet to see is at the place it goes on reading, or after it.
Reading ==
    /\ IsFiniteSet(searches)
    /\ \A s \in searches : Before(s) \in Nat
    /\ reader.at = "reading" =>
          \A s \in reader.due : s \in searches /\ Before(s) >= reader.offset
    /\ PagesMissNothing

\* A search that is created moves the others back, never forward.
LEMMA OthersMoveBack ==
  ASSUME IsFiniteSet(searches), NEW q, searches' = searches \cup {q}
  PROVE  /\ IsFiniteSet(searches')
         /\ \A s \in searches' : Before(s)' \in Nat
         /\ \A s \in searches : Before(s)' >= Before(s)
  <1>1. IsFiniteSet(searches')
    BY FS_AddElement
  <1>2. ASSUME NEW s, NEW T \in SUBSET searches', T = {t \in searches : t > s}
        PROVE  /\ Before(s) \in Nat /\ Before(s)' \in Nat
               /\ Before(s)' >= Before(s)
    <2> DEFINE U == {t \in searches' : t > s}
    <2>1. IsFiniteSet(U)
      BY <1>1, FS_Subset
    <2>2. T \in SUBSET U
      BY <1>2
    <2>3. IsFiniteSet(T) /\ Cardinality(T) <= Cardinality(U)
      BY <2>1, <2>2, FS_Subset
    <2>4. Cardinality(T) \in Nat /\ Cardinality(U) \in Nat
      BY <2>1, <2>3, FS_CardinalityType
    <2>5. Before(s) = Cardinality(T) /\ Before(s)' = Cardinality(U)
      BY <1>2 DEF Before
    <2> QED BY <2>3, <2>4, <2>5
  <1> QED BY <1>1, <1>2

\* The steps of the client.
LEMMA ReadingReads ==
  ASSUME Shape, Reading, ReadsPage
  PROVE  Reading'
  <1> DEFINE due == reader.due \ Page(reader.offset)
  <1> USE DEF Reading, PagesMissNothing
  <1>0. reader.offset \in Nat /\ Limit \in Nat \ {0} /\ searches \subseteq Nat
    BY BoundsAssumption, RequestsAssumption DEF Shape, TypeOK
  <1>1. searches' = searches /\ reader.at = "reading" /\ \A s \in searches : Before(s)' = Before(s)
    BY DEF ReadsPage, file, tables, Before
  <1>2. ASSUME NEW s \in due
        PROVE  s \in searches /\ Before(s) \in Nat /\ Before(s) >= reader.offset + Limit
    <2>1. s \in searches /\ Before(s) \in Nat /\ Before(s) >= reader.offset /\ s \notin Page(reader.offset)
      BY <1>1
    <2> QED BY <1>0, <2>1 DEF Page
  <1>3. CASE Cardinality(Page(reader.offset)) < Limit
    <2>1. due = {}
      BY <1>0, <1>2, <1>3, FullPage
    <2>2. reader' = [NoReader EXCEPT !.at = "done", !.due = due]
      BY <1>3 DEF ReadsPage
    <2> QED BY <1>1, <2>1, <2>2 DEF NoReader
  <1>4. CASE ~(Cardinality(Page(reader.offset)) < Limit)
    <2>1. reader' = [reader EXCEPT !.due = due, !.offset = reader.offset + Limit]
      BY <1>4 DEF ReadsPage
    <2>2. /\ reader'.due = due /\ reader'.offset = reader.offset + Limit
          /\ reader'.at = "reading"
      BY <1>1, <2>1 DEF Shape, TypeOK
    <2> QED BY <1>1, <1>2, <2>2
  <1> QED BY <1>3, <1>4

LEMMA ReadingNext ==
  ASSUME Shape, Reading, [Next]_vars
  PROVE  Reading'
  <1> USE DEF Reading, PagesMissNothing, file, tables
  <1>1. ASSUME UNCHANGED <<searches, reader>>
        PROVE  Reading'
    BY <1>1 DEF Before
  <1>2. CASE UNCHANGED vars BY <1>1, <1>2 DEF vars
  <1>3. CASE ReadsPage BY <1>3, ReadingReads
  <1>4. ASSUME NEW e \in Engines,
               Open(e) \/ EngineSteps(e) \/ Stop(e) \/ ShutdownTimesOut(e) \/ Kill(e)
        PROVE  Reading'
    BY <1>1, <1>4 DEF Open, EngineSteps, LooksUp, Applies, OpenFails, CommitsMigration, Stopped,
       Stop, ShutdownTimesOut, Kill, Dies
  <1>5. ASSUME NEW e \in Engines, StartsReading(e)
        PROVE  Reading'
    <2>1. reader' = [at |-> "reading", on |-> e, offset |-> 0, due |-> searches]
      BY <1>5 DEF StartsReading
    <2>2. searches' = searches /\ \A s : Before(s)' = Before(s)
      BY <1>5 DEF StartsReading, Before
    <2>3. \A s \in searches : Before(s) >= 0
      OBVIOUS
    <2> QED BY <2>1, <2>2, <2>3
  <1>6. ASSUME NEW q \in Requests,
               RequestSteps(q) \/ RequestFails(q) \/ AnswerLost(q)
        PROVE  Reading'
    <2>1. CASE CommitsSearch(q)
      <3>1. searches' = searches \cup {q} /\ reader' = reader
        BY <2>1 DEF CommitsSearch, UnitOfWork
      <3>2. /\ IsFiniteSet(searches') /\ \A s \in searches' : Before(s)' \in Nat
            /\ \A s \in searches : Before(s)' >= Before(s)
        BY <3>1, OthersMoveBack
      <3>3. ASSUME reader.at = "reading", NEW s \in reader.due
            PROVE  Before(s)' >= reader.offset
        <4>1. s \in searches /\ Before(s) >= reader.offset /\ Before(s) \in Nat
              /\ Before(s)' \in Nat /\ reader.offset \in Nat
          BY <3>1, <3>2, <3>3 DEF Shape, TypeOK
        <4> QED BY <3>2, <4>1
      <3> QED BY <3>1, <3>2, <3>3
    <2>2. CASE ~CommitsSearch(q)
      BY <1>1, <1>6, <2>2 DEF RequestSteps, Rejected, TakesConnection, InsertSearch, AddMember,
         AppendAudit, AnswersCreated, SavesProfile, ReadsBack, RequestFails, Rollback,
       AnswerLost
    <2> QED BY <2>1, <2>2
  <1>7. ASSUME NEW q \in Requests, NEW e \in Engines, Submit(q, e)
        PROVE  Reading'
    BY <1>1, <1>7 DEF Submit
  <1> QED BY <1>2, <1>3, <1>4, <1>5, <1>6, <1>7 DEF Next
-----------------------------------------------------------------------------
(***************************************************************************)
(* The theorems.                                                            *)
(***************************************************************************)
IInv == Shape /\ SearchesWhole /\ Writing /\ Migrating /\ Reading

LEMMA ReadingInit == Init => Reading
  <1> SUFFICES ASSUME Init PROVE Reading
    OBVIOUS
  <1>1. IsFiniteSet(searches)
    BY FS_EmptySet DEF Init
  <1> QED BY <1>1 DEF Init, Reading, PagesMissNothing, NoReader

\* The inductive invariant holds from the first state on.
THEOREM Invariant == Spec => []IInv
  <1>1. Init => IInv
    BY ShapeInit, ReadingInit DEF IInv
  <1>2. IInv /\ [Next]_vars => IInv'
    BY ShapeNext, WholeNext, WritingNext, MigratingNext, ReadingNext DEF IInv
  <1> QED BY <1>1, <1>2, PTL DEF Spec

\* The shapes of the file and of the processes.
THEOREM TypeCorrect == Spec => []TypeOK
  <1>1. IInv => TypeOK BY DEF IInv, Shape
  <1> QED BY <1>1, Invariant, PTL

\* A search is stored whole; it is when the answer was 201, and not when the
\* answer was an error, whichever engine is killed and whichever statement
\* fails (store.go 155-173).
THEOREM AnswersTrue == Spec => []AnswersAreTrue
  <1>1. IInv => AnswersAreTrue
    BY DEF IInv, Shape, Progress, AnswersAreTrue, AnsweredIsStored, FailedIsNotStored, RequestAt,
       Requests
  <1> QED BY <1>1, Invariant, PTL

\* Each engine that serves has every migration, each with its row, however many
\* of them open the file together (store.go 85-153).
THEOREM ServesAll == Spec => []ServesMigrated
  <1>1. IInv => ServesMigrated
    BY DEF IInv, Shape, TypeOK, Migrating, Once, ServesMigrated
  <1> QED BY <1>1, Invariant, PTL

\* Whatever the size of the pages and wherever searches are created, a client
\* sees every search there was when it began (store.go 269-308).
THEOREM MissesNothing == Spec => []PagesMissNothing
  <1>1. IInv => PagesMissNothing BY DEF IInv, Reading
  <1> QED BY <1>1, Invariant, PTL
=============================================================================
