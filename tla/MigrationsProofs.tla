-------------------------- MODULE MigrationsProofs --------------------------
(***************************************************************************)
(* For every set of containers and of releases that begin with version 1:   *)
(* the ledger and the schema agree, a server that serves has its own         *)
(* image's migrations, and the runners implement SchemaHistory.             *)
(*                                                                         *)
(* The argument: only the holder of the lock is between reading the ledger   *)
(* and its last COMMIT (Owns), so what it read stays true (Informed); the    *)
(* ledger it read is a part of its own release, whose versions have no gap,  *)
(* so the least version missing is the one after the schema's last.          *)
(***************************************************************************)
EXTENDS Migrations, TLAPS

Owns(x) == run[x].pc \in Holding => lock = x

Ordered(x) == run[x].pc \notin Down => Contiguous(run[x].release)

Informed(x) ==
    run[x].pc \in {"migrating", "ran", "recorded"} =>
        /\ ~run[x].dry
        /\ ledger \subseteq Rows(run[x].release)
        /\ run[x].todo = DOMAIN Ship[run[x].release] \ Versions(ledger)

Chosen(x) ==
    run[x].pc \in {"ran", "recorded"} =>
        run[x].at \in run[x].todo /\ \A w \in run[x].todo : run[x].at <= w

Complete(x) ==
    At(x, "serving") \/ (At(x, "closing") /\ StartsServer(x)) =>
        Rows(run[x].release) \subseteq ledger

Sound(x) == Owns(x) /\ Ordered(x) /\ Informed(x) /\ Chosen(x) /\ Complete(x)

IInv == TypeOK /\ LedgerMatchesSchema /\ \A x \in Runners : Sound(x)

ProcessType ==
    [pc : Working \cup Down \cup {"serving"}, release : Releases, dry : BOOLEAN,
     todo : SUBSET Nat, at : Nat, ok : BOOLEAN]

LEMMA ProcessTyped ==
    ASSUME NEW pc \in Working \cup Down \cup {"serving"}, NEW r \in Releases,
           NEW dry \in BOOLEAN, NEW todo \in SUBSET Nat, NEW at \in Nat,
           NEW ok \in BOOLEAN
    PROVE  Process(pc, r, dry, todo, at, ok) \in ProcessType
  BY DEF Process, ProcessType

LEMMA InitTyped == Init => TypeOK
  <1> SUFFICES ASSUME Init PROVE TypeOK
    OBVIOUS
  <1>1. PICK r \in Releases :
            run = [x \in Runners |-> Process("down", r, FALSE, {}, 0, FALSE)]
    BY DEF Init
  <1>2. Process("down", r, FALSE, {}, 0, FALSE) \in ProcessType
    BY ProcessTyped DEF Down
  <1>3. run \in [Runners -> ProcessType]
    BY <1>1, <1>2
  <1>4. /\ schema = <<>> /\ created = FALSE /\ ledger = {}
        /\ lock = NoOne /\ starts = 0 /\ kills = 0
    BY DEF Init
  <1>5. schema \in Seq(Files)
    BY <1>4
  <1> QED BY <1>3, <1>4, <1>5 DEF TypeOK, ProcessType

LEMMA VersionIsRecorded ==
    ASSUME TypeOK, NEW v, NEW f, <<v, f>> \in ledger
    PROVE  v \in Versions(ledger)
  <1>1. <<v, f>>[1] = v
    OBVIOUS
  <1> QED BY <1>1 DEF Versions

LEMMA VersionsOfSchema ==
    ASSUME TypeOK, LedgerMatchesSchema
    PROVE  Versions(ledger) = DOMAIN schema
  <1>1. ASSUME NEW v \in DOMAIN schema PROVE v \in Versions(ledger)
    BY VersionIsRecorded DEF LedgerMatchesSchema
  <1>2. ASSUME NEW v \in Versions(ledger) PROVE v \in DOMAIN schema
    <2>1. PICK row \in ledger : v = row[1]
      BY DEF Versions
    <2>2. PICK u \in DOMAIN schema : row = <<u, schema[u]>>
      BY DEF LedgerMatchesSchema
    <2> QED BY <2>1, <2>2
  <1> QED BY <1>1, <1>2

LEMMA RowShipped ==
    ASSUME NEW r \in Releases, NEW v, NEW f, <<v, f>> \in Rows(r)
    PROVE  v \in DOMAIN Ship[r] /\ f = Ship[r][v]
  BY DEF Rows

\* A step of one process that leaves a process behind.
LEMMA Moved ==
    ASSUME TypeOK, NEW x \in Runners, NEW p \in ProcessType,
           run' = [run EXCEPT ![x] = p]
    PROVE  /\ run' \in [Runners -> ProcessType]
           /\ run'[x] = p
           /\ \A y \in Runners : y # x => run'[y] = run[y]
  BY DEF TypeOK, ProcessType

\* The version a runner works on is the one after the schema's last.
LEMMA NextVersion ==
    ASSUME TypeOK, LedgerMatchesSchema, NEW x \in Runners, Sound(x),
           run[x].pc \in {"ran", "recorded"}
    PROVE  /\ run[x].at = Len(schema) + 1
           /\ \A v \in DOMAIN schema : <<v, schema[v]>> \in Rows(run[x].release)
           /\ run[x].at \in DOMAIN Ship[run[x].release]
  <1> DEFINE r == run[x].release
             n == Len(schema)
             a == run[x].at
  <1>1. r \in Releases /\ a \in Nat /\ n \in Nat /\ DOMAIN schema = 1..n
    BY DEF TypeOK
  <1>2. Contiguous(r)
    BY DEF Sound, Ordered, Down
  <1>3. /\ ledger \subseteq Rows(r)
        /\ a \in DOMAIN Ship[r] \ Versions(ledger)
        /\ \A w \in DOMAIN Ship[r] \ Versions(ledger) : a <= w
    BY DEF Sound, Informed, Chosen
  <1>4. Versions(ledger) = 1..n
    BY <1>1, VersionsOfSchema
  <1>5. \A v \in 1..n : <<v, schema[v]>> \in Rows(r) /\ v \in DOMAIN Ship[r]
    BY <1>1, <1>3, RowShipped DEF LedgerMatchesSchema
  <1>6. a \in Nat \ {0} /\ a > n
    BY <1>1, <1>3, <1>4, ShipAssumption
  <1>7. n + 1 \in DOMAIN Ship[r]
    <2>1. CASE n = 0
      BY <2>1, <1>1, ShipAssumption
    <2>2. CASE n > 0
      <3>1. n \in DOMAIN Ship[r] /\ a \in DOMAIN Ship[r] /\ n < a
        <4>1. n \in 1..n
          BY <2>2, <1>1
        <4> QED BY <4>1, <1>1, <1>3, <1>5, <1>6
      <3> QED BY <3>1, <1>2 DEF Contiguous
    <2> QED BY <2>1, <2>2, <1>1
  <1>8. a <= n + 1
    BY <1>3, <1>4, <1>7, <1>1
  <1> QED BY <1>1, <1>3, <1>5, <1>6, <1>8

LEMMA NextBuilds == IInv => BuildsOnItsRelease
  BY NextVersion DEF IInv, BuildsOnItsRelease

LEMMA CompleteServes == IInv => ServesItsSchema
  <1> SUFFICES ASSUME IInv, NEW x \in Runners, At(x, "serving"),
                      NEW v \in DOMAIN Ship[run[x].release]
               PROVE  v \in DOMAIN schema /\ schema[v] = Ship[run[x].release][v]
    BY DEF ServesItsSchema
  <1>1. <<v, Ship[run[x].release][v]>> \in ledger
    BY DEF IInv, Sound, Complete, Rows
  <1> QED BY <1>1 DEF IInv, LedgerMatchesSchema
-----------------------------------------------------------------------------
\* A step of x does not disturb what is true of the others: while x may write
\* the ledger or take the lock, none of them holds it.
LEMMA OthersSound ==
    ASSUME IInv, NEW x \in Runners, NEW p \in ProcessType,
           run' = [run EXCEPT ![x] = p],
           ledger \subseteq ledger',
           ledger' = ledger \/ lock = x,
           lock' = lock \/ lock \in {NoOne, x}
    PROVE  \A y \in Runners : y # x => Sound(y)'
  <1> SUFFICES ASSUME NEW y \in Runners, y # x
               PROVE  Sound(y)'
    OBVIOUS
  <1>1. run'[y] = run[y]
    BY Moved DEF IInv
  <1>2. Sound(y)
    BY DEF IInv
  <1>3. run[y].pc \in Holding => lock = y /\ lock' = lock /\ ledger' = ledger
    BY <1>2, NoOneAssumption DEF Sound, Owns
  <1>4. Owns(y)'
    BY <1>1, <1>3 DEF Owns
  <1>5. Ordered(y)'
    BY <1>1, <1>2 DEF Sound, Ordered, Contiguous
  <1>6. Informed(y)'
    <2> SUFFICES ASSUME run[y].pc \in {"migrating", "ran", "recorded"}
                 PROVE  /\ ~run[y].dry
                        /\ ledger' \subseteq Rows(run[y].release)
                        /\ run[y].todo = DOMAIN Ship[run[y].release] \ Versions(ledger')
      BY <1>1 DEF Informed, Rows, Versions
    <2> QED BY <1>2, <1>3 DEF Sound, Informed, Holding
  <1>7. Chosen(y)'
    BY <1>1, <1>2 DEF Sound, Chosen
  <1>8. Complete(y)'
    BY <1>1, <1>2 DEF Sound, Complete, At, StartsServer, Rows
  <1> QED BY <1>4, <1>5, <1>6, <1>7, <1>8 DEF Sound

\* So a step that leaves the tables alone keeps the invariant if it keeps it for
\* the process that takes it.
LEMMA QuietStep ==
    ASSUME IInv, NEW x \in Runners, NEW p \in ProcessType,
           run' = [run EXCEPT ![x] = p],
           created' \in BOOLEAN, starts' \in Nat, kills' \in Nat,
           schema' = schema, ledger' = ledger,
           lock' = lock \/ (lock \in {NoOne, x} /\ lock' \in {NoOne, x}),
           Sound(x)'
    PROVE  IInv'
  <1>1. \A y \in Runners : Sound(y)'
    BY OthersSound
  <1>2. run' \in [Runners -> ProcessType]
    BY Moved DEF IInv
  <1>3. TypeOK'
    BY <1>2 DEF IInv, TypeOK, ProcessType
  <1>4. LedgerMatchesSchema'
    BY DEF IInv, LedgerMatchesSchema
  <1> QED BY <1>1, <1>3, <1>4 DEF IInv

\* What the process is before and after a step that only sets pc and ok.
LEMMA SetPc ==
    ASSUME TypeOK, NEW x \in Runners, NEW pc \in Working \cup Down \cup {"serving"},
           Goes(x, pc)
    PROVE  \E p \in ProcessType :
               /\ run' = [run EXCEPT ![x] = p] /\ run'[x] = p
               /\ p.pc = pc /\ p.release = run[x].release /\ p.dry = run[x].dry
               /\ p.todo = run[x].todo /\ p.at = run[x].at /\ p.ok = run[x].ok
  <1> DEFINE p == [run[x] EXCEPT !.pc = pc]
  <1>1. run[x] \in ProcessType
    BY DEF TypeOK, ProcessType
  <1>2. p \in ProcessType
    BY <1>1 DEF ProcessType
  <1>3. run' = [run EXCEPT ![x] = p]
    BY DEF Goes
  <1>4. run'[x] = p
    BY <1>2, <1>3, Moved
  <1> QED BY <1>1, <1>2, <1>3, <1>4 DEF ProcessType

LEMMA ThrowsSound ==
    ASSUME IInv, NEW x \in Runners, Throws(x), run[x].pc \in Working
    PROVE  \E p \in ProcessType :
               run' = [run EXCEPT ![x] = p] /\ run'[x] = p /\ Sound(x)'
  <1> DEFINE p == [run[x] EXCEPT !.pc = "closing", !.ok = FALSE]
  <1>1. run[x] \in ProcessType
    BY DEF IInv, TypeOK, ProcessType
  <1>2. p \in ProcessType
    BY <1>1 DEF ProcessType, Working
  <1>3. run' = [run EXCEPT ![x] = p]
    BY DEF Throws
  <1>4. run'[x] = p
    BY <1>2, <1>3, Moved DEF IInv
  <1>5. p.pc = "closing" /\ p.ok = FALSE /\ p.release = run[x].release
    BY <1>1 DEF ProcessType
  <1>6. Contiguous(run[x].release)
    BY DEF IInv, Sound, Ordered, Working, Down
  <1>7. Sound(x)'
    BY <1>4, <1>5, <1>6
       DEF Sound, Owns, Ordered, Informed, Chosen, Complete, At, StartsServer,
           Holding, Contiguous
  <1> QED BY <1>2, <1>3, <1>4, <1>7
-----------------------------------------------------------------------------
LEMMA StartKeeps ==
    ASSUME IInv, NEW x \in Runners, NEW r \in Releases, NEW dry \in BOOLEAN,
           Start(x, r, dry)
    PROVE  IInv'
  <1> DEFINE p == Process(IF Contiguous(r) THEN "connected" ELSE "down",
                          r, dry, {}, 0, FALSE)
  <1>1. p \in ProcessType
    BY ProcessTyped DEF Working, Down
  <1>2. run' = [run EXCEPT ![x] = p]
    BY DEF Start
  <1>3. run'[x] = p
    BY <1>1, <1>2, Moved DEF IInv
  <1>4. Sound(x)'
    BY <1>3 DEF Process, Down, Sound, Owns, Ordered, Informed, Chosen, Complete,
                At, StartsServer, Holding, Contiguous
  <1>5. starts' \in Nat /\ UNCHANGED <<database, lock, kills>>
    BY DEF Start, IInv, TypeOK
  <1>6. created' \in BOOLEAN /\ kills' \in Nat /\ schema' = schema /\ ledger' = ledger
    BY <1>5 DEF database, IInv, TypeOK
  <1> QED BY <1>1, <1>2, <1>4, <1>5, <1>6, QuietStep

\* The steps that only go somewhere where nothing is claimed of the process.
LEMMA GoesKeeps ==
    ASSUME IInv, NEW x \in Runners, NEW pc \in {"connected", "creating", "waiting", "dead", "down"},
           Goes(x, pc), run[x].pc # "down", pc \in Down \/ run[x].pc # "dead",
           created' \in BOOLEAN, starts' \in Nat, kills' \in Nat,
           schema' = schema, ledger' = ledger, lock' = lock \/ lock' = Released(x)
    PROVE  IInv'
  <1>1. PICK p \in ProcessType :
            /\ run' = [run EXCEPT ![x] = p] /\ run'[x] = p
            /\ p.pc = pc /\ p.release = run[x].release
    BY SetPc DEF IInv, Working, Down
  <1>2. pc \in Down \/ Contiguous(run[x].release)
    BY DEF IInv, Sound, Ordered, Down
  <1>3. Sound(x)'
    BY <1>1, <1>2
       DEF Sound, Owns, Ordered, Informed, Chosen, Complete, At, Holding,
           Contiguous, Down
  <1>4. lock' = lock \/ (lock \in {NoOne, x} /\ lock' \in {NoOne, x})
    BY DEF Released
  <1> QED BY <1>1, <1>3, <1>4, QuietStep

LEMMA ThrowsKeeps ==
    ASSUME IInv, NEW x \in Runners, Throws(x), run[x].pc \in Working,
           created' \in BOOLEAN, UNCHANGED <<schema, ledger, lock, starts, kills>>
    PROVE  IInv'
  <1>1. PICK p \in ProcessType :
            run' = [run EXCEPT ![x] = p] /\ run'[x] = p /\ Sound(x)'
    BY ThrowsSound
  <1>2. starts' \in Nat /\ kills' \in Nat
    BY DEF IInv, TypeOK
  <1> QED BY <1>1, <1>2, QuietStep

LEMMA LooksForLedgerKeeps ==
    ASSUME IInv, NEW x \in Runners, LooksForLedger(x)
    PROVE  IInv'
  <1> DEFINE pc == IF created THEN "waiting" ELSE "creating"
  <1>1. Goes(x, pc) /\ run[x].pc = "connected"
        /\ UNCHANGED <<schema, created, ledger, lock, starts, kills>>
    BY DEF LooksForLedger, At, database
  <1>2. created' \in BOOLEAN /\ starts' \in Nat /\ kills' \in Nat
    BY <1>1 DEF IInv, TypeOK
  <1> QED BY <1>1, <1>2, GoesKeeps

LEMMA CreatesLedgerKeeps ==
    ASSUME IInv, NEW x \in Runners, CreatesLedger(x)
    PROVE  IInv'
  <1>1. run[x].pc = "creating" /\ created' \in BOOLEAN
        /\ UNCHANGED <<schema, ledger, lock, starts, kills>>
    BY DEF CreatesLedger, At
  <1>2. starts' \in Nat /\ kills' \in Nat
    BY <1>1 DEF IInv, TypeOK
  <1>3. CASE created
    BY <1>1, <1>3, ThrowsKeeps DEF CreatesLedger, Working
  <1>4. CASE ~created
    <2>1. Goes(x, "waiting")
      BY <1>4 DEF CreatesLedger
    <2> QED BY <1>1, <1>2, <2>1, GoesKeeps
  <1> QED BY <1>3, <1>4

LEMMA TakesLockKeeps ==
    ASSUME IInv, NEW x \in Runners, TakesLock(x)
    PROVE  IInv'
  <1>1. /\ run[x].pc = "waiting" /\ lock = NoOne /\ lock' = x /\ Goes(x, "locked")
        /\ UNCHANGED <<schema, created, ledger, starts, kills>>
    BY DEF TakesLock, At, LockFree, database
  <1>2. PICK p \in ProcessType :
            /\ run' = [run EXCEPT ![x] = p] /\ run'[x] = p
            /\ p.pc = "locked" /\ p.release = run[x].release
    BY <1>1, SetPc DEF IInv, Working
  <1>3. Contiguous(run[x].release)
    BY <1>1 DEF IInv, Sound, Ordered, Down
  <1>4. Sound(x)'
    BY <1>1, <1>2, <1>3
       DEF Sound, Owns, Ordered, Informed, Chosen, Complete, At, Contiguous
  <1>5. created' \in BOOLEAN /\ starts' \in Nat /\ kills' \in Nat
    BY <1>1 DEF IInv, TypeOK
  <1> QED BY <1>1, <1>2, <1>4, <1>5, QuietStep

LEMMA ReadsLedgerKeeps ==
    ASSUME IInv, NEW x \in Runners, ReadsLedger(x)
    PROVE  IInv'
  <1> DEFINE r == run[x].release
  <1>1. /\ run[x].pc = "locked"
        /\ UNCHANGED <<schema, created, ledger, lock, starts, kills>>
    BY DEF ReadsLedger, At, database
  <1>2. created' \in BOOLEAN /\ starts' \in Nat /\ kills' \in Nat
    BY <1>1 DEF IInv, TypeOK
  <1>3. run[x] \in ProcessType /\ Contiguous(r) /\ lock = x
    BY <1>1 DEF IInv, TypeOK, ProcessType, Sound, Ordered, Owns, Holding, Down
  <1>4. CASE ~Verified(x)
    BY <1>1, <1>2, <1>4, ThrowsKeeps DEF ReadsLedger, Working
  <1>5. CASE Verified(x) /\ run[x].dry
    <2> DEFINE p == [run[x] EXCEPT !.pc = "closing", !.ok = TRUE]
    <2>1. p \in ProcessType
      BY <1>3 DEF ProcessType, Working
    <2>2. run' = [run EXCEPT ![x] = p]
      BY <1>5 DEF ReadsLedger, StopsAfterReading
    <2>3. run'[x] = p
      BY <2>1, <2>2, Moved DEF IInv
    <2>4. p.pc = "closing" /\ p.dry /\ p.release = r
      BY <1>3, <1>5 DEF ProcessType
    <2>5. Sound(x)'
      BY <2>3, <2>4, <1>3
         DEF Sound, Owns, Ordered, Informed, Chosen, Complete, At, StartsServer,
             Holding, Contiguous
    <2> QED BY <1>1, <1>2, <2>1, <2>2, <2>5, QuietStep
  <1>6. CASE Verified(x) /\ ~run[x].dry
    <2> DEFINE p == [run[x] EXCEPT !.pc = "migrating", !.todo = Pending(x)]
    <2>1. Pending(x) \in SUBSET Nat
      BY <1>3, ShipAssumption DEF Pending, ProcessType
    <2>2. p \in ProcessType
      BY <1>3, <2>1 DEF ProcessType, Working
    <2>3. run' = [run EXCEPT ![x] = p]
      BY <1>6 DEF ReadsLedger, StopsAfterReading
    <2>4. run'[x] = p
      BY <2>2, <2>3, Moved DEF IInv
    <2>5. p.pc = "migrating" /\ ~p.dry /\ p.release = r /\ p.todo = Pending(x)
      BY <1>3, <1>6 DEF ProcessType
    <2>6. Informed(x)'
      BY <2>4, <2>5, <1>1, <1>6 DEF Informed, Verified, Pending, Rows, Versions
    <2>7. Sound(x)'
      BY <2>4, <2>5, <2>6, <1>1, <1>3
         DEF Sound, Owns, Ordered, Chosen, Complete, At, Contiguous
    <2> QED BY <1>1, <1>2, <2>2, <2>3, <2>7, QuietStep
  <1> QED BY <1>4, <1>5, <1>6

LEMMA RunsFileKeeps ==
    ASSUME IInv, NEW x \in Runners, RunsFile(x)
    PROVE  IInv'
  <1>1. /\ run[x].pc = "migrating"
        /\ UNCHANGED <<schema, created, ledger, lock, starts, kills>>
    BY DEF RunsFile, At, database
  <1>2. PICK v \in run[x].todo :
            /\ \A w \in run[x].todo : v <= w
            /\ run' = [run EXCEPT ![x].pc = "ran", ![x].at = v]
    BY DEF RunsFile
  <1> DEFINE p == [run[x] EXCEPT !.pc = "ran", !.at = v]
  <1>3. run[x] \in ProcessType /\ Sound(x)
    BY DEF IInv, TypeOK, ProcessType
  <1>4. p \in ProcessType
    BY <1>3 DEF ProcessType, Working
  <1>5. run' = [run EXCEPT ![x] = p]
    BY <1>2
  <1>6. run'[x] = p
    BY <1>4, <1>5, Moved DEF IInv
  <1>7. /\ p.pc = "ran" /\ p.at = v /\ p.release = run[x].release
        /\ p.todo = run[x].todo /\ p.dry = run[x].dry
    BY <1>3 DEF ProcessType
  <1>8. Sound(x)'
    <2>1. Owns(x)' /\ Ordered(x)'
      BY <1>1, <1>3, <1>6, <1>7 DEF Sound, Owns, Ordered, Holding, Contiguous, Down
    <2>2. Informed(x)'
      BY <1>1, <1>3, <1>6, <1>7 DEF Sound, Informed, Rows, Versions
    <2>3. Chosen(x)' /\ Complete(x)'
      BY <1>2, <1>6, <1>7, ZenonT(30) DEF Chosen, Complete, At
    <2> QED BY <2>1, <2>2, <2>3 DEF Sound
  <1>9. created' \in BOOLEAN /\ starts' \in Nat /\ kills' \in Nat
    BY <1>1 DEF IInv, TypeOK
  <1> QED BY <1>1, <1>4, <1>5, <1>8, <1>9, QuietStep

LEMMA RecordsKeeps ==
    ASSUME IInv, NEW x \in Runners, Records(x)
    PROVE  IInv'
  <1>1. /\ run[x].pc = "ran"
        /\ UNCHANGED <<schema, created, ledger, lock, starts, kills>>
    BY DEF Records, At, database
  <1>2. created' \in BOOLEAN /\ starts' \in Nat /\ kills' \in Nat
    BY <1>1 DEF IInv, TypeOK
  <1>3. CASE run[x].at \in Versions(ledger)
    BY <1>1, <1>2, <1>3, ThrowsKeeps DEF Records, Working
  <1>4. CASE run[x].at \notin Versions(ledger)
    <2>1. Goes(x, "recorded")
      BY <1>4 DEF Records
    <2>2. PICK p \in ProcessType :
              /\ run' = [run EXCEPT ![x] = p] /\ run'[x] = p
              /\ p.pc = "recorded" /\ p.release = run[x].release /\ p.dry = run[x].dry
              /\ p.todo = run[x].todo /\ p.at = run[x].at
      BY <2>1, SetPc DEF IInv, Working
    <2>3. Sound(x)
      BY DEF IInv
    <2>4. Owns(x)' /\ Ordered(x)' /\ Chosen(x)' /\ Complete(x)'
      BY <1>1, <2>2, <2>3
         DEF Sound, Owns, Ordered, Chosen, Complete, At, Holding, Contiguous, Down
    <2>5. Informed(x)'
      BY <1>1, <2>2, <2>3 DEF Sound, Informed, Rows, Versions
    <2>6. Sound(x)'
      BY <2>4, <2>5 DEF Sound
    <2> QED BY <1>1, <1>2, <2>2, <2>6, QuietStep
  <1> QED BY <1>3, <1>4

\* The row that COMMIT makes visible is that of the file it makes visible.
LEMMA EffectMatches ==
    ASSUME IInv, NEW x \in Runners, run[x].pc = "recorded", Effect(x)
    PROVE  /\ schema' \in Seq(Files)
           /\ ledger' \subseteq (Nat \ {0}) \X Files
           /\ LedgerMatchesSchema'
           /\ ledger' \subseteq ledger \cup Rows(run[x].release)
           /\ ledger \subseteq ledger'
           /\ DOMAIN schema' = DOMAIN schema \cup {run[x].at}
  <1> DEFINE r == run[x].release
             a == run[x].at
             n == Len(schema)
  <1>1. /\ schema \in Seq(Files) /\ n \in Nat /\ DOMAIN schema = 1..n
        /\ ledger = {<<v, schema[v]>> : v \in DOMAIN schema}
        /\ r \in Releases
    BY DEF IInv, TypeOK, LedgerMatchesSchema
  <1>2. a = n + 1 /\ a \in DOMAIN Ship[r]
    BY NextVersion DEF IInv
  <1>3. Ship[r][a] \in Files /\ a \in Nat \ {0}
    BY <1>1, <1>2, ShipAssumption
  <1>4. schema' = Append(schema, Ship[r][a]) /\ ledger' = ledger \cup {<<a, Ship[r][a]>>}
    BY DEF Effect
  <1>5. schema' \in Seq(Files) /\ DOMAIN schema' = 1..(n + 1)
    BY <1>1, <1>3, <1>4
  <1>6. DOMAIN schema' = DOMAIN schema \cup {a}
    BY <1>1, <1>2, <1>5
  <1>7. schema'[a] = Ship[r][a] /\ \A v \in DOMAIN schema : schema'[v] = schema[v]
    BY <1>1, <1>2, <1>3, <1>4
  <1>8. LedgerMatchesSchema'
    BY <1>1, <1>4, <1>6, <1>7 DEF LedgerMatchesSchema
  <1>9. <<a, Ship[r][a]>> \in Rows(r)
    BY <1>2 DEF Rows
  <1>10. ledger' \subseteq (Nat \ {0}) \X Files
    BY <1>3, <1>4 DEF IInv, TypeOK
  <1> QED BY <1>4, <1>5, <1>6, <1>8, <1>9, <1>10

LEMMA CommitsKeeps ==
    ASSUME IInv, NEW x \in Runners, Commits(x)
    PROVE  IInv'
  <1> DEFINE r == run[x].release
  <1>1. /\ run[x].pc = "recorded" /\ Effect(x)
        /\ UNCHANGED <<created, lock, starts, kills>>
    BY DEF Commits, At
  <1>2. /\ schema' \in Seq(Files)
        /\ ledger' \subseteq (Nat \ {0}) \X Files
        /\ LedgerMatchesSchema'
        /\ ledger' \subseteq ledger \cup Rows(r)
        /\ ledger \subseteq ledger'
        /\ DOMAIN schema' = DOMAIN schema \cup {run[x].at}
    BY <1>1, EffectMatches
  <1>3. run[x] \in ProcessType /\ Sound(x) /\ lock = x
    BY <1>1 DEF IInv, TypeOK, ProcessType, Sound, Owns, Holding
  <1>4. ASSUME NEW p \in ProcessType, run' = [run EXCEPT ![x] = p], Sound(x)'
        PROVE  IInv'
    <2>1. \A y \in Runners : Sound(y)'
      BY <1>1, <1>2, <1>3, <1>4, OthersSound
    <2>2. run' \in [Runners -> ProcessType]
      BY <1>4, Moved DEF IInv
    <2>3. TypeOK'
      BY <1>1, <1>2, <2>2 DEF IInv, TypeOK, ProcessType
    <2> QED BY <1>2, <2>1, <2>3 DEF IInv
  <1>5. CASE Throws(x)
    <2>1. PICK p \in ProcessType :
              run' = [run EXCEPT ![x] = p] /\ run'[x] = p /\ Sound(x)'
      BY <1>1, <1>5, ThrowsSound DEF Working
    <2> QED BY <1>4, <2>1
  <1>6. CASE run' = [run EXCEPT ![x].pc = "migrating", ![x].todo = @ \ {run[x].at}]
    <2> DEFINE p == [run[x] EXCEPT !.pc = "migrating", !.todo = @ \ {run[x].at}]
    <2>1. p \in ProcessType
      BY <1>3 DEF ProcessType, Working
    <2>2. run' = [run EXCEPT ![x] = p]
      BY <1>6
    <2>3. run'[x] = p
      BY <2>1, <2>2, Moved DEF IInv
    <2>4. /\ p.pc = "migrating" /\ p.dry = run[x].dry /\ p.release = r
          /\ p.todo = run[x].todo \ {run[x].at}
      BY <1>3 DEF ProcessType
    <2>5. Versions(ledger) = DOMAIN schema
      BY VersionsOfSchema DEF IInv
    <2>6. Versions(ledger)' = DOMAIN schema'
      <3>1. ASSUME NEW v \in DOMAIN schema' PROVE v \in Versions(ledger')
        <4>1. <<v, schema'[v]>> \in ledger'
          BY <1>2 DEF LedgerMatchesSchema
        <4>2. <<v, schema'[v]>>[1] = v
          OBVIOUS
        <4> QED BY <4>1, <4>2 DEF Versions
      <3>2. ASSUME NEW v \in Versions(ledger') PROVE v \in DOMAIN schema'
        <4>1. PICK row \in ledger' : v = row[1]
          BY DEF Versions
        <4>2. PICK u \in DOMAIN schema' : row = <<u, schema'[u]>>
          BY <1>2 DEF LedgerMatchesSchema
        <4> QED BY <4>1, <4>2
      <3>3. Versions(ledger') = DOMAIN schema'
        BY <3>1, <3>2
      <3> QED BY <3>3 DEF Versions
    <2>7. Informed(x)'
      <3>1. /\ ~run[x].dry /\ ledger \subseteq Rows(r)
            /\ run[x].todo = DOMAIN Ship[r] \ Versions(ledger)
        BY <1>1, <1>3 DEF Sound, Informed
      <3>2. ledger' \subseteq Rows(r)
        BY <1>2, <3>1
      <3>3. p.todo = DOMAIN Ship[r] \ Versions(ledger')
        BY <1>2, <2>4, <2>5, <2>6, <3>1 DEF Versions
      <3> QED BY <2>3, <2>4, <3>1, <3>2, <3>3 DEF Informed, Rows, Versions
    <2>8. Sound(x)'
      BY <1>1, <1>3, <2>3, <2>4, <2>7
         DEF Sound, Owns, Ordered, Chosen, Complete, At, Contiguous, Down
    <2> QED BY <1>4, <2>1, <2>2, <2>8
  <1> QED BY <1>5, <1>6 DEF Commits

LEMMA FinishesKeeps ==
    ASSUME IInv, NEW x \in Runners, Finishes(x)
    PROVE  IInv'
  <1> DEFINE r == run[x].release
             p == [run[x] EXCEPT !.pc = "closing", !.ok = TRUE]
  <1>1. /\ run[x].pc = "migrating" /\ run[x].todo = {}
        /\ run' = [run EXCEPT ![x] = p]
        /\ UNCHANGED <<schema, created, ledger, lock, starts, kills>>
    BY DEF Finishes, At, database
  <1>2. run[x] \in ProcessType /\ Sound(x) /\ r \in Releases
    BY DEF IInv, TypeOK, ProcessType
  <1>3. p \in ProcessType
    BY <1>2 DEF ProcessType, Working
  <1>4. run'[x] = p
    BY <1>1, <1>3, Moved DEF IInv
  <1>5. p.pc = "closing" /\ p.ok /\ p.release = r /\ p.dry = run[x].dry
    BY <1>2 DEF ProcessType
  <1>6. Rows(r) \subseteq ledger
    <2> SUFFICES ASSUME NEW v \in DOMAIN Ship[r]
                 PROVE  <<v, Ship[r][v]>> \in ledger
      BY DEF Rows
    <2>1. ledger \subseteq Rows(r) /\ v \in Versions(ledger)
      BY <1>1, <1>2 DEF Sound, Informed
    <2>2. v \in DOMAIN schema /\ <<v, schema[v]>> \in ledger
      BY <2>1, VersionsOfSchema DEF IInv, LedgerMatchesSchema
    <2>3. schema[v] = Ship[r][v]
      BY <2>1, <2>2, <1>2, RowShipped
    <2> QED BY <2>2, <2>3
  <1>7. Sound(x)'
    <2>1. Owns(x)' /\ Informed(x)' /\ Chosen(x)'
      BY <1>4, <1>5 DEF Owns, Informed, Chosen, Holding
    <2>2. Ordered(x)'
      BY <1>1, <1>2, <1>4, <1>5 DEF Sound, Ordered, Contiguous, Down
    <2>3. Complete(x)'
      BY <1>1, <1>4, <1>5, <1>6 DEF Complete, Rows
    <2> QED BY <2>1, <2>2, <2>3 DEF Sound
  <1>8. created' \in BOOLEAN /\ starts' \in Nat /\ kills' \in Nat
    BY <1>1 DEF IInv, TypeOK
  <1> QED BY <1>1, <1>3, <1>7, <1>8, QuietStep

LEMMA ClosesKeeps ==
    ASSUME IInv, NEW x \in Runners, Closes(x)
    PROVE  IInv'
  <1>1. /\ run[x].pc = "closing" /\ lock' = Released(x)
        /\ Goes(x, IF StartsServer(x) THEN "serving" ELSE "down")
        /\ UNCHANGED <<schema, created, ledger, starts, kills>>
    BY DEF Closes, At, database
  <1>2. created' \in BOOLEAN /\ starts' \in Nat /\ kills' \in Nat
    BY <1>1 DEF IInv, TypeOK
  <1>3. CASE ~StartsServer(x)
    <2>1. Goes(x, "down")
      BY <1>1, <1>3
    <2> QED BY <1>1, <1>2, <2>1, GoesKeeps DEF Down
  <1>4. CASE StartsServer(x)
    <2>1. Goes(x, "serving")
      BY <1>1, <1>4
    <2>2. PICK p \in ProcessType :
              /\ run' = [run EXCEPT ![x] = p] /\ run'[x] = p
              /\ p.pc = "serving" /\ p.release = run[x].release
      BY <2>1, SetPc DEF IInv
    <2>3. Contiguous(run[x].release) /\ Rows(run[x].release) \subseteq ledger
      BY <1>1, <1>4 DEF IInv, Sound, Ordered, Complete, At, Down
    <2>4. Sound(x)'
      BY <1>1, <2>2, <2>3
         DEF Sound, Owns, Ordered, Informed, Chosen, Complete, At, Holding,
             Contiguous, Rows
    <2>5. lock' = lock \/ (lock \in {NoOne, x} /\ lock' \in {NoOne, x})
      BY <1>1 DEF Released
    <2> QED BY <1>1, <1>2, <2>2, <2>4, <2>5, QuietStep
  <1> QED BY <1>3, <1>4

LEMMA FileFailsKeeps ==
    ASSUME IInv, NEW x \in Runners, FileFails(x)
    PROVE  IInv'
  <1>1. /\ run[x].pc = "migrating" /\ Throws(x)
        /\ UNCHANGED <<schema, created, ledger, lock, starts, kills>>
    BY DEF FileFails, At, database
  <1>2. created' \in BOOLEAN
    BY <1>1 DEF IInv, TypeOK
  <1> QED BY <1>1, <1>2, ThrowsKeeps DEF Working

LEMMA KilledKeeps ==
    ASSUME IInv, NEW x \in Runners, Killed(x)
    PROVE  IInv'
  <1>1. /\ run[x].pc \notin Down /\ Goes(x, "dead") /\ kills' = kills + 1
        /\ UNCHANGED <<schema, created, ledger, lock, starts>>
    BY DEF Killed, database
  <1>2. created' \in BOOLEAN /\ starts' \in Nat /\ kills' \in Nat
    BY <1>1 DEF IInv, TypeOK
  <1> QED BY <1>1, <1>2, GoesKeeps DEF Down

LEMMA SessionEndsKeeps ==
    ASSUME IInv, NEW x \in Runners, SessionEnds(x)
    PROVE  IInv'
  <1>1. /\ run[x].pc = "dead" /\ Goes(x, "down") /\ lock' = Released(x)
        /\ UNCHANGED <<schema, created, ledger, starts, kills>>
    BY DEF SessionEnds, At, database
  <1>2. created' \in BOOLEAN /\ starts' \in Nat /\ kills' \in Nat
    BY <1>1 DEF IInv, TypeOK
  <1> QED BY <1>1, <1>2, GoesKeeps DEF Down
-----------------------------------------------------------------------------
LEMMA InitInv == Init => IInv
  <1> SUFFICES ASSUME Init PROVE IInv
    OBVIOUS
  <1>1. TypeOK
    BY InitTyped
  <1>2. LedgerMatchesSchema
    BY DEF Init, LedgerMatchesSchema
  <1>3. \A x \in Runners : Sound(x)
    <2>1. PICK r \in Releases :
              run = [x \in Runners |-> Process("down", r, FALSE, {}, 0, FALSE)]
      BY DEF Init
    <2>2. Process("down", r, FALSE, {}, 0, FALSE).pc = "down"
      BY DEF Process
    <2>3. \A x \in Runners : run[x].pc = "down"
      BY <2>1, <2>2
    <2> QED BY <2>3 DEF Sound, Owns, Ordered, Informed, Chosen, Complete, At,
                        Holding, Down
  <1> QED BY <1>1, <1>2, <1>3 DEF IInv

LEMMA NextInv == IInv /\ [Next]_vars => IInv'
  <1> SUFFICES ASSUME IInv, [Next]_vars PROVE IInv'
    OBVIOUS
  <1>1. ASSUME NEW x \in Runners, Steps(x) PROVE IInv'
    BY <1>1, LooksForLedgerKeeps, CreatesLedgerKeeps, TakesLockKeeps,
       ReadsLedgerKeeps, RunsFileKeeps, FileFailsKeeps, RecordsKeeps,
       CommitsKeeps, FinishesKeeps, ClosesKeeps, SessionEndsKeeps DEF Steps
  <1>2. ASSUME NEW x \in Runners, NEW r \in Releases, NEW dry \in BOOLEAN,
               Start(x, r, dry)
        PROVE  IInv'
    BY <1>2, StartKeeps
  <1>3. ASSUME NEW x \in Runners, Killed(x) PROVE IInv'
    BY <1>3, KilledKeeps
  <1>4. CASE UNCHANGED vars
    BY <1>4
       DEF vars, database, IInv, TypeOK, LedgerMatchesSchema, Sound, Owns, Ordered,
           Informed, Chosen, Complete, At, StartsServer, Contiguous, Rows, Versions
  <1> QED BY <1>1, <1>2, <1>3, <1>4 DEF Next

LEMMA Invariant == Spec => []IInv
  BY InitInv, NextInv, PTL DEF Spec

\* The tables, the lock and the processes keep their types.
THEOREM TypeCorrect == Spec => []TypeOK
  <1>1. IInv => TypeOK
    BY DEF IInv
  <1> QED BY <1>1, Invariant, PTL

\* The ledger is the schema's history in every reachable state.
THEOREM LedgerTrue == Spec => []LedgerMatchesSchema
  <1>1. IInv => LedgerMatchesSchema
    BY DEF IInv
  <1> QED BY <1>1, Invariant, PTL

\* A file is run on exactly the schema its release builds before it.
THEOREM Builds == Spec => []BuildsOnItsRelease
  BY NextBuilds, Invariant, PTL

\* A server runs on a schema that has all of its image's migrations.
THEOREM Serves == Spec => []ServesItsSchema
  BY CompleteServes, Invariant, PTL

\* The runners implement SchemaHistory: a COMMIT is a migration of the release
\* that ran it, and no other step changes the schema.
THEOREM Implements == Spec => ImplementsHistory
  <1>1. Init => History!Init
    BY DEF Init, History!Init
  <1>2. IInv /\ [Next]_vars => [History!Next]_schema
    <2> SUFFICES ASSUME IInv, [Next]_vars, schema' # schema
                 PROVE  History!Next
      OBVIOUS
    <2>1. PICK x \in Runners : Commits(x)
      BY DEF Next, vars, database, Start, Steps, Killed, LooksForLedger,
             CreatesLedger, TakesLock, ReadsLedger, RunsFile, FileFails, Records,
             Finishes, Closes, SessionEnds
    <2> DEFINE r == run[x].release
    <2>2. /\ run[x].at = Len(schema) + 1 /\ run[x].at \in DOMAIN Ship[r]
          /\ \A v \in DOMAIN schema : <<v, schema[v]>> \in Rows(r)
      BY <2>1, NextVersion DEF IInv, Commits, At
    <2>3. r \in Releases
      BY DEF IInv, TypeOK
    <2>4. History!Follows(r)
      BY <2>2, <2>3, RowShipped DEF History!Follows
    <2>5. History!Migrate(r)
      BY <2>1, <2>2, <2>4 DEF History!Migrate, Commits, Effect
    <2> QED BY <2>3, <2>5 DEF History!Next
  <1> QED BY <1>1, <1>2, Invariant, PTL DEF Spec, ImplementsHistory, History!Spec
=============================================================================
