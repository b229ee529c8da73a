------------------------- MODULE FieldClientProofs -------------------------
(***************************************************************************)
(* For any number of commands, overlapping flushes, broken connections and   *)
(* kills: a command stays pending until the server has applied it, and the   *)
(* queue is emptied from its front.                                         *)
(***************************************************************************)
EXTENDS FieldClient, FiniteSetTheorems, SequenceTheorems, TLAPS

\* DELETE ... WHERE id = ? of a row that is not there, and of the first one.
LEMMA RemoveAbsent ==
  ASSUME NEW T, NEW q \in Seq(T), NEW n, \A i \in 1..Len(q) : q[i] # n
  PROVE  RemoveFirst(q, n) = q
  BY DEF RemoveFirst

LEMMA RemoveHead ==
  ASSUME NEW T, NEW q \in Seq(T), q # <<>>
  PROVE  RemoveFirst(q, q[1]) = Tail(q)
  <1> DEFINE I == {i \in 1..Len(q) : q[i] = q[1]}
  <1>1. Len(q) \in Nat /\ Len(q) >= 1 /\ 1 \in I
    OBVIOUS
  <1>2. SelectInSeq(q, LAMBDA v : v = q[1]) = 1
    BY <1>1 DEF SelectInSeq, Min
  <1>3. RemoveFirst(q, q[1]) = RemoveAt(q, 1)
    BY <1>1, <1>2 DEF RemoveFirst
  <1>4. RemoveAt(q, 1) = SubSeq(q, 1, 0) \o SubSeq(q, 2, Len(q))
    BY DEF RemoveAt
  <1>5. SubSeq(q, 2, Len(q)) = Tail(q)
    BY <1>1, TailIsSubSeq
  <1>6. SubSeq(q, 1, 0) = <<>> /\ Tail(q) \in Seq(T)
    BY <1>1
  <1> QED BY <1>3, <1>4, <1>5, <1>6, ConcatEmptySeq

LEMMA TailIs ==
  ASSUME NEW T, NEW q \in Seq(T), q # <<>>
  PROVE  /\ Tail(q) \in Seq(T) /\ Len(q) \in Nat /\ Len(q) >= 1 /\ Len(Tail(q)) = Len(q) - 1
         /\ \A i \in 1..(Len(q) - 1) : Tail(q)[i] = q[i + 1]
  BY HeadTailProperties

LEMMA TailInjective ==
  ASSUME NEW T, NEW q \in Seq(T), q # <<>>, IsInjective(q)
  PROVE  IsInjective(Tail(q)) /\ \A i \in 1..Len(Tail(q)) : Tail(q)[i] # q[1]
  <1> DEFINE t == Tail(q)
  <1>1. /\ Len(q) \in Nat /\ Len(q) >= 1 /\ Len(t) = Len(q) - 1 /\ t \in Seq(T)
        /\ \A i \in 1..(Len(q) - 1) : t[i] = q[i + 1]
    BY TailIs
  <1>2. DOMAIN q = 1..Len(q) /\ DOMAIN t = 1..Len(t)
    BY <1>1
  <1> HIDE DEF t
  <1>3. ASSUME NEW i \in 1..Len(t), NEW j \in 1..Len(t), t[i] = t[j]
        PROVE  i = j
    <2>1. i + 1 \in DOMAIN q /\ j + 1 \in DOMAIN q /\ q[i + 1] = q[j + 1]
      BY <1>1, <1>2, <1>3
    <2>2. i + 1 = j + 1
      BY <2>1 DEF IsInjective
    <2> QED BY <2>2
  <1>4. ASSUME NEW i \in 1..Len(t), t[i] = q[1]
        PROVE  FALSE
    <2>1. i + 1 \in DOMAIN q /\ 1 \in DOMAIN q /\ q[i + 1] = q[1]
      BY <1>1, <1>2, <1>4
    <2>2. i + 1 = 1
      BY <2>1 DEF IsInjective
    <2> QED BY <2>2
  <1> QED BY <1>2, <1>3, <1>4 DEF t, IsInjective
-----------------------------------------------------------------------------
(***************************************************************************)
(* The invariant.                                                           *)
(***************************************************************************)
Busy(c) == call[c] # NoCall

\* What each caller's request is.
Calls ==
    /\ \A c \in Callers : Busy(c) =>
          /\ call[c].cmd \in 1..Len(made) /\ call[c].at # "none"
          /\ call[c].at = "answered" => applied[call[c].cmd] > 0
    /\ \A n \in Command : Busy(n) => call[n].cmd = n
    /\ \A f \in Flushes : Busy(f) => run[f] # <<>> /\ call[f].cmd = run[f][1]

\* A late request carries a command that was made.
LateMade == \A n \in Command : late[n] > 0 => n \in 1..Len(made)

\* A command under its first attempt is not queued, nor in what a flush read.
TriedApart ==
    \A n \in Command : Busy(n) =>
        /\ \A i \in 1..Len(queue) : queue[i] # n
        /\ \A f \in Flushes : \A i \in 1..Len(run[f]) : run[f][i] # n

\* What a flush has yet to send: commands that have left the queue, the first
\* skip of them, and then a beginning of the queue.
SplitsAt(r, q, skip) ==
    /\ skip <= Len(r) /\ Len(r) - skip <= Len(q)
    /\ \A i \in 1..Len(r) :
          IF i <= skip THEN \A j \in 1..Len(q) : q[j] # r[i] ELSE r[i] = q[i - skip]

Splits(f, skip) == SplitsAt(run[f], queue, skip)

Overlapping == \A f \in Flushes : \E skip \in Nat : Splits(f, skip)

IInv == TypeOK /\ Calls /\ LateMade /\ TriedApart /\ Overlapping

\* Initially.
LEMMA InvInit == Init => IInv
  <1> SUFFICES ASSUME Init PROVE IInv
    OBVIOUS
  <1> USE BoundsAssumption DEF Init
  <1>1. Len(made) = 0 /\ Len(queue) = 0 /\ \A f \in Flushes : run[f] = <<>> /\ Len(run[f]) = 0
    OBVIOUS
  <1>2. \A c \in Callers : ~Busy(c)
    BY DEF Busy
  <1>3. TypeOK
    BY <1>1 DEF TypeOK, Call, NoCall, IsInjective
  <1>4. Overlapping
    <2>1. \A f \in Flushes : Splits(f, 0)
      BY <1>1 DEF Splits, SplitsAt
    <2> QED BY <2>1 DEF Overlapping
  <1>5. LateMade
    BY DEF LateMade
  <1>6. Calls /\ TriedApart
    <2>1. \A n \in Command : n \in Callers
      BY DEF Callers
    <2>2. \A f \in Flushes : f \in Callers
      BY DEF Callers
    <2> QED BY <1>2, <2>1, <2>2 DEF Calls, TriedApart
  <1> QED BY <1>3, <1>4, <1>5, <1>6 DEF IInv

\* The callers are commands and flushes, and no command is a flush.
LEMMA CallersAre ==
  /\ Callers = Command \cup Flushes /\ Command \cap Flushes = {}
  /\ IsFiniteSet(Callers) /\ Command \subseteq Nat /\ 0 \notin Command
  <1>1. IsFiniteSet(Command)
    BY BoundsAssumption, FS_Interval DEF Command
  <1>2. IsFiniteSet(Callers)
    BY <1>1, FlushesAssumption, FS_Union DEF Callers
  <1>3. Command \subseteq Nat /\ 0 \notin Command
    BY BoundsAssumption DEF Command
  <1> QED BY <1>2, <1>3, FlushesAssumption DEF Callers

\* Requests that lose their caller carry commands that were made.
LEMMA Orphans ==
  ASSUME IInv, NEW C \in SUBSET Callers, Orphan(C)
  PROVE  /\ late' \in [Command -> Nat]
         /\ \A n \in Command : late'[n] > 0 => n \in 1..Len(made)
  <1> DEFINE Open == {c \in C : call[c].at = "sent"}
  <1>1. PICK D \in SUBSET Open :
           late' = [n \in Command |-> late[n] + Cardinality({c \in D : call[c].cmd = n})]
    BY DEF Orphan
  <1>2. ASSUME NEW n \in Command
        PROVE  /\ Cardinality({c \in D : call[c].cmd = n}) \in Nat /\ late[n] \in Nat
               /\ late'[n] = late[n] + Cardinality({c \in D : call[c].cmd = n})
               /\ n \notin 1..Len(made) => Cardinality({c \in D : call[c].cmd = n}) = 0
    <2> DEFINE Of == {c \in D : call[c].cmd = n}
    <2>1. IsFiniteSet(Of)
      <3>1. Of \in SUBSET Callers
        OBVIOUS
      <3> QED BY <3>1, CallersAre, FS_Subset
    <2>2. ASSUME n \notin 1..Len(made)
          PROVE  Of = {}
      <3>1. \A c \in D : call[c].cmd \in 1..Len(made)
        BY DEF IInv, Calls, Busy, NoCall
      <3> QED BY <2>2, <3>1
    <2>3. Cardinality(Of) \in Nat
      BY <2>1, FS_CardinalityType
    <2>4. n \notin 1..Len(made) => Cardinality(Of) = 0
      BY <2>2, FS_EmptySet
    <2>5. late[n] \in Nat /\ late'[n] = late[n] + Cardinality(Of)
      BY <1>1 DEF IInv, TypeOK
    <2> QED BY <2>3, <2>4, <2>5
  <1>3. late' \in [Command -> Nat]
    <2>1. \A n \in Command : late[n] + Cardinality({c \in D : call[c].cmd = n}) \in Nat
      BY <1>2
    <2> QED BY <1>1, <2>1
  <1>4. \A n \in Command : late'[n] > 0 => n \in 1..Len(made)
    <2> SUFFICES ASSUME NEW n \in Command, late'[n] > 0, n \notin 1..Len(made)
                 PROVE  FALSE
      OBVIOUS
    <2>1. late'[n] = late[n] + 0 /\ late[n] \in Nat
      BY <1>2
    <2>2. late[n] > 0
      BY <2>1
    <2> QED BY <2>2 DEF IInv, LateMade
  <1> QED BY <1>3, <1>4

\* The part of the invariant that is about what waits to be sent.
Waiting ==
    /\ queue \in Seq(1..Len(made)) /\ IsInjective(queue)
    /\ run \in [Flushes -> Seq(1..Len(made))]
    /\ call \in [Callers -> Call]
    /\ Calls /\ TriedApart /\ Overlapping

Monotone == \A n \in Command : applied[n] > 0 => applied'[n] > 0

\* A caller whose request is over leaves the others as they are.
LEMMA CallEnds ==
  ASSUME IInv, NEW c \in Callers, call' = [call EXCEPT ![c] = NoCall], made' = made, Monotone,
         \A f \in Flushes \ {c} : run'[f] = run[f]
  PROVE  Calls'
  <1>1. ASSUME NEW d \in Callers, Busy(d)'
        PROVE  d # c /\ call'[d] = call[d] /\ Busy(d)
    BY <1>1 DEF Busy, IInv, TypeOK
  <1>2. \A n : n \in 1..Len(made) => n \in Command
    BY BoundsAssumption DEF Command, IInv, TypeOK
  <1>3. Command \subseteq Callers /\ Flushes \subseteq Callers
    BY CallersAre
  <1>4. \A d \in Callers : Busy(d)' =>
          /\ call'[d].cmd \in 1..Len(made') /\ call'[d].at # "none"
          /\ call'[d].at = "answered" => applied'[call'[d].cmd] > 0
    BY <1>1, <1>2 DEF IInv, Calls, Monotone
  <1>5. \A n \in Command : Busy(n)' => call'[n].cmd = n
    BY <1>1, <1>3 DEF IInv, Calls
  <1>6. \A f \in Flushes : Busy(f)' => run'[f] # <<>> /\ call'[f].cmd = run'[f][1]
    BY <1>1, <1>3 DEF IInv, Calls
  <1> QED BY <1>4, <1>5, <1>6 DEF Calls

\* A failure: the command of a first attempt joins the queue at its end, a
\* flush stops.
LEMMA FailsWaiting ==
  ASSUME IInv, NEW c \in Callers, Busy(c), Fails(c), made' = made, Monotone
  PROVE  Waiting'
  <1> USE CallersAre DEF Fails, OnFailure
  <1>0. /\ queue \in Seq(1..Len(made)) /\ IsInjective(queue)
        /\ run \in [Flushes -> Seq(1..Len(made))] /\ call \in [Callers -> Call]
        /\ Len(queue) \in Nat /\ \A f \in Flushes : Len(run[f]) \in Nat
    BY DEF IInv, TypeOK
  <1>1. call' = [call EXCEPT ![c] = NoCall] /\ NoCall \in Call
    BY BoundsAssumption DEF Call, NoCall
  <1>2. call' \in [Callers -> Call] /\ call'[c] = NoCall /\ \A d \in Callers \ {c} : call'[d] = call[d]
    BY <1>0, <1>1
  <1>3. CASE c \in Command
    <2>1. queue' = Append(queue, c) /\ run' = run /\ c \in 1..Len(made)
      BY <1>3 DEF IInv, Calls
    <2>2. /\ queue' \in Seq(1..Len(made)) /\ Len(queue') = Len(queue) + 1
          /\ \A i \in 1..Len(queue) : queue'[i] = queue[i]
          /\ queue'[Len(queue) + 1] = c
      <3> DEFINE T == 1..Len(made)
      <3>1. queue \in Seq(T) /\ c \in T
        BY <1>0, <2>1
      <3> HIDE DEF T
      <3>2. /\ Append(queue, c) \in Seq(T) /\ Len(Append(queue, c)) = Len(queue) + 1
            /\ \A i \in 1..Len(queue) : Append(queue, c)[i] = queue[i]
            /\ Append(queue, c)[Len(queue) + 1] = c
        BY <3>1, AppendProperties
      <3> QED BY <2>1, <3>2 DEF T
    <2>3. \A i \in 1..Len(queue) : queue[i] # c
      BY <1>3 DEF IInv, TriedApart
    <2>4. IsInjective(queue')
      BY <1>0, <2>2, <2>3 DEF IsInjective
    <2>5. Calls'
      BY <1>1, <2>1, CallEnds
    <2>6. TriedApart'
      <3>1. ASSUME NEW n \in Command, Busy(n)'
            PROVE  Busy(n) /\ n # c
        BY <1>2, <3>1 DEF Busy, NoCall
      <3>2. ASSUME NEW n \in Command, Busy(n)', NEW i \in 1..Len(queue')
            PROVE  queue'[i] # n
        BY <1>0, <2>2, <3>1, <3>2 DEF IInv, TriedApart
      <3> QED BY <2>1, <3>1, <3>2 DEF IInv, TriedApart
    <2>7. Overlapping'
      <3> SUFFICES ASSUME NEW f \in Flushes PROVE \E skip \in Nat : Splits(f, skip)'
        BY DEF Overlapping
      <3>1. PICK skip \in Nat : Splits(f, skip)
        BY DEF IInv, Overlapping
      <3>2. \A i \in 1..Len(run[f]) : run[f][i] # c
        BY <1>3 DEF IInv, TriedApart
      <3>3. Splits(f, skip)'
        <4>1. skip <= Len(run[f]) /\ Len(run[f]) - skip <= Len(queue')
          BY <1>0, <2>2, <3>1 DEF Splits, SplitsAt
        <4>2. ASSUME NEW i \in 1..Len(run[f]), i <= skip, NEW j \in 1..Len(queue')
              PROVE  queue'[j] # run[f][i]
          BY <1>0, <2>2, <3>1, <3>2, <4>2, SMTT(30) DEF Splits, SplitsAt
        <4>3. ASSUME NEW i \in 1..Len(run[f]), ~(i <= skip)
              PROVE  run[f][i] = queue'[i - skip]
          BY <1>0, <2>2, <3>1, <4>3 DEF Splits, SplitsAt
        <4> QED BY <2>1, <4>1, <4>2, <4>3 DEF Splits, SplitsAt
      <3> QED BY <3>3
    <2> QED BY <1>2, <2>1, <2>2, <2>4, <2>5, <2>6, <2>7, <1>0 DEF Waiting
  <1>4. CASE c \in Flushes
    <2>1. queue' = queue /\ run' = [run EXCEPT ![c] = <<>>]
      BY <1>4
    <2>2. /\ run' \in [Flushes -> Seq(1..Len(made))] /\ run'[c] = <<>> /\ Len(run'[c]) = 0
          /\ \A f \in Flushes \ {c} : run'[f] = run[f]
      BY <1>0, <2>1, <1>4
    <2>3. Calls'
      BY <1>1, <2>2, CallEnds
    <2>4. TriedApart'
      <3>1. \A n \in Command : Busy(n)' => Busy(n)
        BY <1>2 DEF Busy, NoCall
      <3>2. \A f \in Flushes : run'[f] = run[f] \/ Len(run'[f]) = 0
        BY <2>2
      <3> QED BY <2>1, <3>1, <3>2 DEF IInv, TriedApart
    <2>5. Overlapping'
      <3>1. Splits(c, 0)'
        BY <1>0, <2>1, <2>2 DEF Splits, SplitsAt
      <3>2. ASSUME NEW f \in Flushes \ {c}, NEW skip \in Nat, Splits(f, skip)
            PROVE  Splits(f, skip)'
        BY <2>1, <2>2, <3>2 DEF Splits, SplitsAt
      <3> QED BY <3>1, <3>2 DEF IInv, Overlapping
    <2> QED BY <1>0, <1>2, <2>1, <2>2, <2>3, <2>4, <2>5 DEF Waiting
  <1> QED BY <1>3, <1>4

\* What the server applies is applied from then on.
LEMMA Applied ==
  ASSUME IInv, NEW n \in 1..Len(made), Apply(n)
  PROVE  /\ applied' \in [Command -> 0..2] /\ task' \in 0..Len(made)
         /\ Monotone /\ applied'[n] > 0
  <1>1. n \in Command /\ \A m \in Command : applied[m] \in 0..2
    BY BoundsAssumption DEF Command, IInv, TypeOK
  <1>2. applied' = [applied EXCEPT ![n] = IF applied[n] = 2 THEN 2 ELSE applied[n] + 1]
    BY DEF Apply
  <1>3. (IF applied[n] = 2 THEN 2 ELSE applied[n] + 1) \in 1..2
    BY <1>1
  <1>4. applied' \in [Command -> 0..2] /\ applied'[n] \in 1..2
        /\ \A m \in Command \ {n} : applied'[m] = applied[m]
    BY <1>1, <1>2, <1>3 DEF IInv, TypeOK
  <1>5. task' \in 0..Len(made)
    BY DEF Apply, IInv, TypeOK
  <1> QED BY <1>1, <1>4, <1>5 DEF Monotone

\* The steps that leave what waits alone: logins, accesses, late requests.
LEMMA InvElsewhere ==
  ASSUME IInv, SignsIn \/ TokenExpires \/ ChangeAccess \/ \E n \in Command : ServeLate(n)
  PROVE  IInv'
  <1> USE DEF phone
  <1>1. ASSUME UNCHANGED <<phone, call, late, applied, task, breaks, kills>>,
               welcome' \in BOOLEAN, session' \in {"none", "live", "ended"}
        PROVE  IInv'
    BY <1>1 DEF IInv, TypeOK, Calls, Busy, LateMade, TriedApart, Overlapping, Splits, SplitsAt
  <1>2. CASE SignsIn \/ TokenExpires \/ ChangeAccess
    BY <1>1, <1>2 DEF SignsIn, TokenExpires, ChangeAccess, server, IInv, TypeOK
  <1>3. ASSUME NEW n \in Command, ServeLate(n)
        PROVE  IInv'
    <2>1. n \in 1..Len(made) /\ late[n] \in Nat /\ late[n] - 1 \in Nat
      BY <1>3 DEF ServeLate, IInv, LateMade, TypeOK
    <2>2. late' \in [Command -> Nat] /\ \A m \in Command : late'[m] > 0 => late[m] > 0
      BY <1>3, <2>1 DEF ServeLate, IInv, TypeOK
    <2>3. applied' \in [Command -> 0..2] /\ task' \in 0..Len(made) /\ Monotone
      <3>1. CASE Apply(n) BY <2>1, <3>1, Applied
      <3>2. CASE UNCHANGED <<applied, task>> BY <3>2 DEF IInv, TypeOK, Monotone
      <3> QED BY <1>3, <3>1, <3>2 DEF ServeLate
    <2>4. UNCHANGED <<phone, welcome, call, session, breaks, kills>>
      BY <1>3 DEF ServeLate
    <2>5. TypeOK'
      BY <2>2, <2>3, <2>4 DEF IInv, TypeOK
    <2>6. LateMade' /\ TriedApart' /\ Overlapping'
      BY <2>2, <2>4 DEF IInv, LateMade, TriedApart, Overlapping, Splits, SplitsAt, Busy
    <2>7. Calls'
      <3>1. \A m : m \in 1..Len(made) => m \in Command
        BY BoundsAssumption DEF Command, IInv, TypeOK
      <3> QED BY <2>3, <2>4, <3>1 DEF IInv, Calls, Monotone, Busy
    <2> QED BY <2>5, <2>6, <2>7 DEF IInv
  <1> QED BY <1>2, <1>3

LEMMA InvMake ==
  ASSUME IInv, Make
  PROVE  IInv'
  <1> DEFINE n == Len(made) + 1
  <1> USE DEF Make, phone, server
  <1>0. /\ made \in Seq(Fixes \cup Statuses) /\ Len(made) \in Nat /\ n \in Nat
        /\ n <= MaxCommands /\ n \in Command /\ n \in Callers /\ n \notin Flushes
    BY BoundsAssumption, FlushesAssumption DEF IInv, TypeOK, Command, Callers
  <1>1. made' \in Seq(Fixes \cup Statuses) /\ Len(made') = n
    BY <1>0, AppendProperties
  <1>2. 1..Len(made) \subseteq 1..Len(made') /\ n \in 1..Len(made') /\ n \notin 1..Len(made)
    BY <1>0, <1>1
  <1>3. queue' \in Seq(1..Len(made')) /\ run' \in [Flushes -> Seq(1..Len(made'))]
    <2>1. Seq(1..Len(made)) \subseteq Seq(1..Len(made'))
      BY <1>2, SeqMonotonic
    <2> QED BY <2>1 DEF IInv, TypeOK
  <1>4. /\ call' = [call EXCEPT ![n] = [cmd |-> n, at |-> "sent"]] /\ call' \in [Callers -> Call]
        /\ call'[n] = [cmd |-> n, at |-> "sent"]
        /\ \A c \in Callers \ {n} : call'[c] = call[c]
    BY <1>0, BoundsAssumption DEF Sent, Call, IInv, TypeOK
  <1>5. TypeOK'
    BY <1>0, <1>1, <1>2, <1>3, <1>4 DEF IInv, TypeOK
  <1>6. Calls'
    BY <1>0, <1>2, <1>4, CallersAre DEF IInv, Calls, Busy
  <1>7. TriedApart'
    <2>1. /\ \A i \in 1..Len(queue) : queue[i] # n
          /\ \A f \in Flushes : \A i \in 1..Len(run[f]) : run[f][i] # n
      BY <1>2, SMTT(30) DEF IInv, TypeOK
    <2>2. \A m \in Command : Busy(m)' => m = n \/ Busy(m)
      BY <1>4, CallersAre DEF Busy
    <2> QED BY <2>1, <2>2 DEF IInv, TriedApart
  <1>8. LateMade' /\ Overlapping'
    BY <1>2 DEF IInv, LateMade, Overlapping, Splits, SplitsAt
  <1> QED BY <1>5, <1>6, <1>7, <1>8 DEF IInv

LEMMA InvFlush ==
  ASSUME IInv, NEW f \in Flushes, Flush(f) \/ SendNext(f)
  PROVE  IInv'
  <1> USE CallersAre
  <1>0. /\ queue \in Seq(1..Len(made)) /\ run \in [Flushes -> Seq(1..Len(made))]
        /\ call \in [Callers -> Call] /\ Len(queue) \in Nat /\ f \in Callers
        /\ \A g \in Flushes : Len(run[g]) \in Nat
    BY DEF IInv, TypeOK
  <1>1. CASE Flush(f)
    <2> USE <1>1 DEF Flush, server
    <2>1. run' = [run EXCEPT ![f] = queue] /\ ~Busy(f) /\ queue' = queue /\ call' = call
          /\ made' = made
      BY DEF IInv, Calls
    <2>2. run' \in [Flushes -> Seq(1..Len(made))] /\ run'[f] = queue
          /\ \A g \in Flushes \ {f} : run'[g] = run[g]
      BY <1>0, <2>1
    <2>3. TypeOK' /\ LateMade'
      BY <2>1, <2>2 DEF IInv, TypeOK, LateMade
    <2>4. Calls'
      BY <2>1, <2>2 DEF IInv, Calls, Busy
    <2>5. TriedApart'
      BY <2>1, <2>2 DEF IInv, TriedApart, Busy
    <2>6. Overlapping'
      <3>1. Splits(f, 0)'
        BY <1>0, <2>1, <2>2 DEF Splits, SplitsAt
      <3>2. ASSUME NEW g \in Flushes \ {f}, NEW skip \in Nat, Splits(g, skip)
            PROVE  Splits(g, skip)'
        BY <2>1, <2>2, <3>2 DEF Splits, SplitsAt
      <3> QED BY <3>1, <3>2 DEF IInv, Overlapping
    <2> QED BY <2>3, <2>4, <2>5, <2>6 DEF IInv
  <1>2. CASE SendNext(f)
    <2> USE <1>2 DEF SendNext, phone, server
    <2> DEFINE n == run[f][1]
    <2>1. n \in 1..Len(made) /\ n \in 0..MaxCommands /\ call' = [call EXCEPT ![f] = Sent(n)]
      BY <1>0, BoundsAssumption DEF IInv, TypeOK
    <2>2. /\ call' \in [Callers -> Call] /\ call'[f] = [cmd |-> n, at |-> "sent"]
          /\ \A c \in Callers \ {f} : call'[c] = call[c]
      BY <1>0, <2>1 DEF Call, Sent
    <2>u. UNCHANGED <<made, queue, run, late, applied, task, welcome, session, breaks, kills>>
      OBVIOUS
    <2>3. TypeOK'
      BY ONLY IInv, <2>2, <2>u DEF IInv, TypeOK
    <2>l. LateMade' /\ Overlapping'
      BY ONLY IInv, <2>u DEF IInv, LateMade, Overlapping, Splits, SplitsAt
    <2>4. Calls'
      BY <2>1, <2>2 DEF IInv, Calls, Busy
    <2>5. TriedApart'
      <3>1. \A m \in Command : Busy(m)' => Busy(m)
        BY ONLY <2>2, CallersAre, f \in Flushes DEF Busy
      <3> QED BY ONLY IInv, <2>u, <3>1 DEF IInv, TriedApart
    <2> QED BY <2>3, <2>l, <2>4, <2>5 DEF IInv
  <1> QED BY <1>1, <1>2

LEMMA InvTryDone ==
  ASSUME IInv, NEW n \in Command, TryDone(n)
  PROVE  IInv'
  <1> USE CallersAre DEF TryDone
  <1>1. call' = [call EXCEPT ![n] = NoCall] /\ NoCall \in Call
    BY BoundsAssumption DEF Call, NoCall
  <1>2. UNCHANGED <<made, queue, run, late, applied, task, welcome, session, breaks, kills>>
    BY DEF phone, server
  <1>3. TypeOK'
    BY <1>1, <1>2 DEF IInv, TypeOK
  <1>4. Calls'
    BY <1>1, <1>2, CallEnds DEF Monotone
  <1>5. LateMade' /\ Overlapping'
    BY <1>2 DEF IInv, LateMade, Overlapping, Splits, SplitsAt
  <1>6. TriedApart'
    <2>1. \A m \in Command : Busy(m)' => Busy(m)
      BY <1>1 DEF Busy, IInv, TypeOK
    <2> QED BY <1>2, <2>1 DEF IInv, TriedApart
  <1> QED BY <1>3, <1>4, <1>5, <1>6 DEF IInv

\* The request a flush is answered carries a command that left the queue, or
\* the one at its front: what is removed is the front or nothing.
LEMMA Removed ==
  ASSUME IInv, NEW f \in Flushes, call[f].at = "answered"
  PROVE  /\ Busy(f) /\ run[f] # <<>> /\ call[f].cmd = run[f][1]
         /\ \/ /\ RemoveRow(call[f].cmd) = queue
               /\ \A i \in 1..Len(queue) : queue[i] # run[f][1]
            \/ /\ RemoveRow(call[f].cmd) = Tail(queue)
               /\ queue # <<>> /\ queue[1] = run[f][1]
  <1>1. Busy(f) /\ f \in Callers
    BY CallersAre DEF Busy, NoCall
  <1>2. run[f] # <<>> /\ call[f].cmd = run[f][1]
    BY <1>1 DEF IInv, Calls
  <1>3. queue \in Seq(1..Len(made)) /\ run[f] \in Seq(1..Len(made))
    BY DEF IInv, TypeOK
  <1>4. Len(queue) \in Nat /\ Len(run[f]) \in Nat /\ Len(run[f]) >= 1
    BY <1>2, <1>3
  <1>5. PICK skip \in Nat : Splits(f, skip)
    BY DEF IInv, Overlapping
  <1>6. CASE skip >= 1
    <2>1. \A i \in 1..Len(queue) : queue[i] # run[f][1]
      BY <1>4, <1>5, <1>6 DEF Splits, SplitsAt
    <2>2. RemoveRow(run[f][1]) = queue
      BY <1>3, <2>1, RemoveAbsent DEF RemoveRow
    <2> QED BY <1>1, <1>2, <2>1, <2>2
  <1>7. CASE skip = 0
    <2>1. queue # <<>> /\ queue[1] = run[f][1]
      BY <1>3, <1>4, <1>5, <1>7 DEF Splits, SplitsAt
    <2>2. RemoveRow(queue[1]) = Tail(queue)
      BY <1>3, <2>1, RemoveHead DEF RemoveRow
    <2> QED BY <1>1, <1>2, <2>1, <2>2
  <1> QED BY <1>5, <1>6, <1>7

\* What a flush goes on with when its command was gone, and when it was the
\* front; what another flush still has to send when the front is removed.
LEMMA SplitsWithout ==
  ASSUME NEW T, NEW r \in Seq(T), NEW q \in Seq(T), r # <<>>, NEW skip \in Nat,
         SplitsAt(r, q, skip), \A i \in 1..Len(q) : q[i] # r[1]
  PROVE  skip - 1 \in Nat /\ SplitsAt(Tail(r), q, skip - 1)
  <1> DEFINE t == Tail(r)
  <1>1. /\ Len(r) \in Nat /\ Len(r) >= 1 /\ Len(t) = Len(r) - 1 /\ Len(q) \in Nat
        /\ \A i \in 1..(Len(r) - 1) : t[i] = r[i + 1]
    BY TailIs
  <1> HIDE DEF t
  <1>2. skip >= 1
    BY <1>1 DEF SplitsAt
  <1>3. ASSUME NEW i \in 1..Len(t)
        PROVE  IF i <= skip - 1 THEN \A j \in 1..Len(q) : q[j] # t[i]
                                ELSE t[i] = q[i - (skip - 1)]
    <2>1. i + 1 \in 1..Len(r) /\ t[i] = r[i + 1] /\ i \in Nat
      BY <1>1
    <2>2. CASE i <= skip - 1
      BY <2>1, <2>2 DEF SplitsAt
    <2>3. CASE ~(i <= skip - 1)
      <3>1. r[i + 1] = q[i + 1 - skip] /\ i + 1 - skip = i - (skip - 1)
        BY <2>1, <2>3 DEF SplitsAt
      <3> QED BY <2>1, <2>3, <3>1
    <2> QED BY <2>2, <2>3
  <1>4. skip - 1 <= Len(t) /\ Len(t) - (skip - 1) <= Len(q)
    BY <1>1, <1>2 DEF SplitsAt
  <1> QED BY <1>2, <1>3, <1>4 DEF SplitsAt, t

LEMMA SplitsFront ==
  ASSUME NEW T, NEW r \in Seq(T), NEW q \in Seq(T), r # <<>>, q # <<>>, NEW skip \in Nat,
         SplitsAt(r, q, skip), q[1] = r[1]
  PROVE  SplitsAt(Tail(r), Tail(q), 0)
  <1> DEFINE t == Tail(r)
             p == Tail(q)
  <1>1. /\ Len(r) \in Nat /\ Len(r) >= 1 /\ Len(t) = Len(r) - 1
        /\ Len(q) \in Nat /\ Len(q) >= 1 /\ Len(p) = Len(q) - 1
        /\ \A i \in 1..(Len(r) - 1) : t[i] = r[i + 1]
        /\ \A i \in 1..(Len(q) - 1) : p[i] = q[i + 1]
    BY TailIs
  <1> HIDE DEF t, p
  <1>2. skip = 0
    <2>1. 1 \in 1..Len(r) /\ 1 \in 1..Len(q)
      BY <1>1
    <2>2. ~(1 <= skip)
      BY <2>1 DEF SplitsAt
    <2> QED BY <2>2
  <1>3. ASSUME NEW i \in 1..Len(t)
        PROVE  t[i] = p[i - 0] /\ ~(i <= 0)
    <2>1. /\ i + 1 \in 1..Len(r) /\ i \in 1..(Len(r) - 1) /\ i \in 1..(Len(q) - 1)
          /\ i + 1 - 0 = i + 1 /\ i - 0 = i /\ ~(i + 1 <= 0) /\ ~(i <= 0)
      BY <1>1, <1>2 DEF SplitsAt
    <2>2. r[i + 1] = q[i + 1]
      BY <1>2, <2>1 DEF SplitsAt
    <2> QED BY <1>1, <2>1, <2>2
  <1>4. 0 <= Len(t) /\ Len(t) - 0 <= Len(p)
    BY <1>1, <1>2 DEF SplitsAt
  <1> QED BY <1>3, <1>4 DEF SplitsAt, t, p

LEMMA SplitsOther ==
  ASSUME NEW T, NEW r \in Seq(T), NEW q \in Seq(T), q # <<>>, IsInjective(q), NEW skip \in Nat,
         SplitsAt(r, q, skip)
  PROVE  \E k \in Nat : SplitsAt(r, Tail(q), k)
  <1> DEFINE p == Tail(q)
  <1>1. /\ Len(r) \in Nat /\ Len(q) \in Nat /\ Len(q) >= 1 /\ Len(p) = Len(q) - 1
        /\ \A i \in 1..(Len(q) - 1) : p[i] = q[i + 1]
        /\ \A i \in 1..Len(p) : p[i] # q[1]
    BY TailIs, TailInjective
  <1> HIDE DEF p
  <1>2. ASSUME NEW i \in 1..Len(r), i <= skip, NEW j \in 1..Len(p)
        PROVE  p[j] # r[i]
    <2>1. j + 1 \in 1..Len(q) /\ p[j] = q[j + 1]
      BY <1>1
    <2> QED BY <1>2, <2>1 DEF SplitsAt
  <1>3. CASE Len(r) = skip
    <2>1. Len(r) - skip <= Len(p) /\ \A i \in 1..Len(r) : i <= skip
      BY <1>1, <1>3
    <2>2. SplitsAt(r, p, skip)
      BY <1>2, <1>3, <2>1 DEF SplitsAt
    <2> QED BY <2>2 DEF p
  <1>4. CASE Len(r) # skip
    <2>1. skip + 1 \in 1..Len(r) /\ ~(skip + 1 <= skip) /\ skip + 1 - skip = 1
      BY <1>1, <1>4 DEF SplitsAt
    <2>2. r[skip + 1] = q[1]
      BY <2>1 DEF SplitsAt
    <2>3. ASSUME NEW i \in 1..Len(r)
          PROVE  IF i <= skip + 1 THEN \A j \in 1..Len(p) : p[j] # r[i]
                                  ELSE r[i] = p[i - (skip + 1)]
      <3>1. CASE i <= skip
        BY <1>2, <3>1
      <3>2. CASE i = skip + 1
        BY <1>1, <2>2, <3>2
      <3>3. CASE ~(i <= skip + 1)
        <4>1. r[i] = q[i - skip] /\ Len(r) - skip <= Len(q)
          BY <3>3 DEF SplitsAt
        <4>2. i - (skip + 1) \in 1..(Len(q) - 1) /\ i - (skip + 1) + 1 = i - skip
          BY <1>1, <3>3, <4>1
        <4>3. p[i - (skip + 1)] = q[i - skip]
          BY <1>1, <4>2
        <4> QED BY <3>3, <4>1, <4>3
      <3> QED BY <3>1, <3>2, <3>3
    <2>4. skip + 1 <= Len(r) /\ Len(r) - (skip + 1) <= Len(p) /\ skip + 1 \in Nat
      BY <1>1, <2>1 DEF SplitsAt
    <2>5. SplitsAt(r, p, skip + 1)
      BY <2>3, <2>4 DEF SplitsAt
    <2> QED BY <2>4, <2>5 DEF p
  <1> QED BY <1>3, <1>4

LEMMA InvFlushDone ==
  ASSUME IInv, NEW f \in Flushes, FlushDone(f)
  PROVE  IInv'
  <1> USE CallersAre
  <1>1. /\ call[f].at = "answered" /\ queue' = RemoveRow(call[f].cmd)
        /\ run' = [run EXCEPT ![f] = Tail(run[f])] /\ call' = [call EXCEPT ![f] = NoCall]
        /\ UNCHANGED <<made, late, applied, task, welcome, session, breaks, kills>>
    BY DEF FlushDone, server
  <1>2. /\ queue \in Seq(1..Len(made)) /\ IsInjective(queue) /\ Len(queue) \in Nat
        /\ run \in [Flushes -> Seq(1..Len(made))] /\ \A g \in Flushes : Len(run[g]) \in Nat
    BY DEF IInv, TypeOK
  <1>3. Busy(f) /\ run[f] # <<>> /\ call[f].cmd = run[f][1]
    BY <1>1, Removed
  <1>4. /\ Tail(run[f]) \in Seq(1..Len(made)) /\ Len(run[f]) >= 1
        /\ Len(Tail(run[f])) = Len(run[f]) - 1
        /\ \A i \in 1..(Len(run[f]) - 1) : Tail(run[f])[i] = run[f][i + 1]
    BY <1>2, <1>3
  <1>5. /\ run' \in [Flushes -> Seq(1..Len(made))] /\ run'[f] = Tail(run[f])
        /\ \A g \in Flushes \ {f} : run'[g] = run[g]
    BY <1>1, <1>2, <1>4
  <1>6. call' \in [Callers -> Call]
    BY <1>1, BoundsAssumption DEF IInv, TypeOK, Call, NoCall
  <1>7. Calls'
    BY <1>1, <1>5, CallEnds DEF Monotone
  <1>8. LateMade'
    BY <1>1 DEF IInv, LateMade
  <1>9. \A n \in Command : Busy(n)' => Busy(n)
    BY <1>1 DEF Busy, IInv, TypeOK
  <1>10. \A n \in Command : Busy(n)' => \A g \in Flushes : \A i \in 1..Len(run'[g]) : run'[g][i] # n
    <2>1. ASSUME NEW n \in Command, Busy(n)', NEW g \in Flushes, NEW i \in 1..Len(run'[g])
          PROVE  run'[g][i] # n
      <3>1. \A j \in 1..Len(run[g]) : run[g][j] # n
        BY <1>9, <2>1 DEF IInv, TriedApart
      <3>2. CASE g # f BY <1>5, <2>1, <3>1, <3>2
      <3>3. CASE g = f
        <4>1. i + 1 \in 1..Len(run[f]) /\ run'[f][i] = run[f][i + 1]
          BY <1>2, <1>4, <1>5, <2>1, <3>3
        <4> QED BY <3>1, <3>3, <4>1
      <3> QED BY <3>2, <3>3
    <2> QED BY <2>1
  <1>11. CASE queue' = queue /\ \A i \in 1..Len(queue) : queue[i] # run[f][1]
    <2>1. TypeOK'
      BY <1>1, <1>2, <1>5, <1>6, <1>11 DEF IInv, TypeOK
    <2>2. TriedApart'
      BY <1>9, <1>10, <1>11 DEF IInv, TriedApart
    <2>3. Overlapping'
      <3>1. PICK skip \in Nat : Splits(f, skip)
        BY DEF IInv, Overlapping
      <3>2. skip - 1 \in Nat /\ SplitsAt(Tail(run[f]), queue, skip - 1)
        BY <1>2, <1>3, <1>11, <3>1, SplitsWithout DEF Splits
      <3>3. Splits(f, skip - 1)'
        BY <1>5, <1>11, <3>2 DEF Splits
      <3>4. ASSUME NEW g \in Flushes \ {f}, NEW k \in Nat, Splits(g, k)
            PROVE  Splits(g, k)'
        BY <1>5, <1>11, <3>4 DEF Splits
      <3> QED BY <3>2, <3>3, <3>4 DEF IInv, Overlapping
    <2> QED BY <1>7, <1>8, <2>1, <2>2, <2>3 DEF IInv
  <1>12. CASE queue' = Tail(queue) /\ queue # <<>> /\ queue[1] = run[f][1]
    <2>1. /\ queue' \in Seq(1..Len(made)) /\ Len(queue) >= 1 /\ Len(queue') = Len(queue) - 1
          /\ \A i \in 1..Len(queue') : queue'[i] = queue[i + 1]
      BY <1>2, <1>12, TailIs
    <2>2. IsInjective(queue')
      BY <1>2, <1>12, TailInjective
    <2>4. TypeOK'
      BY <1>1, <1>5, <1>6, <2>1, <2>2 DEF IInv, TypeOK
    <2>5. TriedApart'
      <3>1. \A n \in Command : Busy(n) => \A i \in 1..Len(queue') : queue'[i] # n
        BY <1>2, <2>1, SMTT(30) DEF IInv, TriedApart
      <3> QED BY <1>9, <1>10, <3>1 DEF TriedApart
    <2>6. Overlapping'
      <3>1. \A g \in Flushes : \E skip \in Nat : SplitsAt(run[g], queue, skip)
        BY DEF IInv, Overlapping, Splits
      <3>2. SplitsAt(Tail(run[f]), Tail(queue), 0)
        BY <1>2, <1>3, <1>12, <3>1, SplitsFront
      <3>3. \A g \in Flushes : \E skip \in Nat : SplitsAt(run[g], Tail(queue), skip)
        BY <1>2, <1>12, <3>1, SplitsOther
      <3>4. ASSUME NEW g \in Flushes
            PROVE  \E skip \in Nat : SplitsAt(run'[g], queue', skip)
        BY <1>5, <1>12, <3>2, <3>3
      <3> QED BY <3>4 DEF Overlapping, Splits
    <2> QED BY <1>7, <1>8, <2>4, <2>5, <2>6 DEF IInv
  <1> QED BY <1>1, <1>11, <1>12, Removed

LEMMA InvServe ==
  ASSUME IInv, NEW c \in Callers, Serve(c)
  PROVE  IInv'
  <1>0. Busy(c) /\ call[c].cmd \in 1..Len(made) /\ call[c] \in Call
    BY DEF Serve, Busy, NoCall, IInv, Calls, TypeOK
  <1>1. CASE Admitted
    <2>1. /\ Apply(call[c].cmd) /\ call' = [call EXCEPT ![c] = Answered(call[c].cmd)]
          /\ UNCHANGED <<made, queue, run, welcome, late, session, breaks, kills>>
      BY <1>1 DEF Serve
    <2>2. /\ applied' \in [Command -> 0..2] /\ task' \in 0..Len(made)
          /\ Monotone /\ applied'[call[c].cmd] > 0
      BY <1>0, <2>1, Applied
    <2>3. /\ call' \in [Callers -> Call] /\ call'[c] = [cmd |-> call[c].cmd, at |-> "answered"]
          /\ \A d \in Callers \ {c} : call'[d] = call[d]
      BY <1>0, <2>1 DEF Answered, Call, IInv, TypeOK
    <2>4. TypeOK'
      BY ONLY IInv, <2>1, <2>2, <2>3 DEF IInv, TypeOK
    <2>5. LateMade' /\ Overlapping'
      BY <2>1 DEF IInv, LateMade, Overlapping, Splits, SplitsAt
    <2>6. \A d \in Callers : Busy(d)' => Busy(d)
      BY <1>0, <2>3 DEF Busy
    <2>7. TriedApart'
      BY <2>1, <2>6, CallersAre DEF IInv, TriedApart
    <2>8. Calls'
      <3>1. \A m : m \in 1..Len(made) => m \in Command
        BY BoundsAssumption DEF Command, IInv, TypeOK
      <3>2. \A d \in Callers : Busy(d)' =>
              /\ call'[d].cmd = call[d].cmd /\ call'[d].cmd \in 1..Len(made)
              /\ call'[d].at # "none"
              /\ call'[d].at = "answered" => applied'[call'[d].cmd] > 0
        BY <1>0, <2>2, <2>3, <2>6, <3>1 DEF IInv, Calls, Monotone
      <3> QED BY <2>1, <2>6, <3>2, CallersAre DEF IInv, Calls
    <2> QED BY <2>4, <2>5, <2>7, <2>8 DEF IInv
  <1>2. CASE ~Admitted
    <2>1. Fails(c) /\ UNCHANGED <<made, applied, task, welcome, late, session, breaks, kills>>
      BY <1>2 DEF Serve
    <2>2. Waiting'
      BY <1>0, <2>1, FailsWaiting DEF Monotone
    <2> QED BY <2>1, <2>2 DEF IInv, Waiting, TypeOK, LateMade
  <1> QED BY <1>1, <1>2

LEMMA InvBreak ==
  ASSUME IInv, NEW c \in Callers, Break(c)
  PROVE  IInv'
  <1>1. /\ Busy(c) /\ Fails(c) /\ Orphan({c}) /\ breaks < MaxBreaks /\ breaks' = breaks + 1
        /\ UNCHANGED <<made, applied, task, welcome, session, kills>>
    BY DEF Break, Busy, server
  <1>2. Waiting'
    BY <1>1, FailsWaiting DEF Monotone
  <1>3. /\ late' \in [Command -> Nat]
        /\ \A n \in Command : late'[n] > 0 => n \in 1..Len(made)
    BY <1>1, Orphans
  <1>4. breaks' \in 0..MaxBreaks
    BY <1>1, BoundsAssumption DEF IInv, TypeOK
  <1> QED BY <1>1, <1>2, <1>3, <1>4 DEF IInv, Waiting, TypeOK, LateMade

LEMMA InvKill ==
  ASSUME IInv, Kill
  PROVE  IInv'
  <1>1. /\ Orphan(Callers) /\ kills < MaxKills /\ kills' = kills + 1 /\ session' = "none"
        /\ call' = [c \in Callers |-> NoCall] /\ run' = [f \in Flushes |-> <<>>]
        /\ UNCHANGED <<made, queue, applied, task, welcome, breaks>>
    BY DEF Kill, server
  <1>2. /\ late' \in [Command -> Nat]
        /\ \A n \in Command : late'[n] > 0 => n \in 1..Len(made)
    BY <1>1, Orphans
  <1>3. kills' \in 0..MaxKills
    BY <1>1, BoundsAssumption DEF IInv, TypeOK
  <1>4. call' \in [Callers -> Call] /\ \A c \in Callers : ~Busy(c)'
    BY <1>1, BoundsAssumption DEF Busy, Call, NoCall
  <1>5. /\ run' \in [Flushes -> Seq(1..Len(made))] /\ \A f \in Flushes : Len(run'[f]) = 0
    BY <1>1
  <1>6. TypeOK'
    BY <1>1, <1>2, <1>3, <1>4, <1>5 DEF IInv, TypeOK
  <1>7. Calls' /\ TriedApart'
    BY <1>4, CallersAre DEF Calls, TriedApart
  <1>8. Overlapping'
    <2>1. \A f \in Flushes : Splits(f, 0)'
      BY <1>1, <1>5 DEF Splits, SplitsAt, IInv, TypeOK
    <2> QED BY <2>1 DEF Overlapping
  <1> QED BY <1>1, <1>2, <1>6, <1>7, <1>8 DEF IInv, LateMade

LEMMA InvNext == IInv /\ [Next]_vars => IInv'
  <1> SUFFICES ASSUME IInv, [Next]_vars PROVE IInv'
    OBVIOUS
  <1>1. CASE UNCHANGED vars
    BY <1>1 DEF IInv, TypeOK, Calls, Busy, LateMade, TriedApart, Overlapping, Splits, SplitsAt, vars, phone,
       server
  <1>2. CASE SignsIn \/ Make \/ Kill \/ ChangeAccess \/ TokenExpires
    BY <1>2, InvElsewhere, InvMake, InvKill
  <1>3. CASE \E f \in Flushes : Step(f)
    BY <1>3, InvFlush, InvFlushDone DEF Step
  <1>4. CASE \E n \in Command : TryDone(n) \/ ServeLate(n)
    BY <1>4, InvTryDone, InvElsewhere
  <1>5. CASE \E c \in Callers : Serve(c) \/ Break(c)
    BY <1>5, InvServe, InvBreak
  <1> QED BY <1>1, <1>2, <1>3, <1>4, <1>5 DEF Next
-----------------------------------------------------------------------------
(***************************************************************************)
(* The theorems.                                                            *)
(***************************************************************************)
\* The inductive invariant holds from the first state on.
THEOREM Invariant == Spec => []IInv
  BY InvInit, InvNext, PTL DEF Spec

\* The types of the variables; the table never holds a command twice.
THEOREM TypeCorrect == Spec => []TypeOK
  <1>1. IInv => TypeOK BY DEF IInv
  <1> QED BY <1>1, Invariant, PTL

\* What a step does to the queue: nothing, a first attempt that failed joins
\* it, or the command of a flush leaves it.
LEMMA QueueSteps ==
  ASSUME IInv, [Next]_vars
  PROVE  \/ queue' = queue
         \/ \E c \in Command : queue' = Append(queue, c)
         \/ \E f \in Flushes : FlushDone(f)
  <1>1. ASSUME NEW c \in Callers, Fails(c)
        PROVE  queue' = queue \/ \E n \in Command : queue' = Append(queue, n)
    BY <1>1, CallersAre DEF Fails, OnFailure
  <1>2. CASE UNCHANGED vars
    BY <1>2 DEF vars, phone
  <1>3. CASE SignsIn \/ Make \/ Kill \/ ChangeAccess \/ TokenExpires
    BY <1>3 DEF SignsIn, Make, Kill, ChangeAccess, TokenExpires, phone
  <1>4. CASE \E f \in Flushes : Step(f)
    BY <1>4 DEF Step, Flush, SendNext, phone
  <1>5. CASE \E n \in Command : TryDone(n) \/ ServeLate(n)
    BY <1>5 DEF TryDone, ServeLate, phone
  <1>6. CASE \E c \in Callers : Serve(c) \/ Break(c)
    BY <1>1, <1>6 DEF Serve, Break
  <1> QED BY <1>2, <1>3, <1>4, <1>5, <1>6 DEF Next

\* Overlapping flushes send and remove the same rows, and yet the queue is
\* emptied from its front (main.dart 18, local_db.dart 8-9).
THEOREM FrontFirst == Spec => LeavesInOrder
  <1>1. ASSUME IInv, [Next]_vars
        PROVE  IsPrefix(queue, queue') \/ (queue # <<>> /\ queue' = Tail(queue))
    <2>1. queue \in Seq(1..Len(made)) /\ queue' \in Seq(1..Len(made'))
      BY <1>1, InvNext DEF IInv, TypeOK
    <2>2. CASE queue' = queue
      BY <2>1, <2>2 DEF IsPrefix
    <2>3. CASE \E c \in Command : queue' = Append(queue, c)
      <3>1. PICK c \in Command : queue' = Append(queue, c)
        BY <2>3
      <3>2. SubSeq(queue', 1, Len(queue)) = queue /\ SubSeq(queue, 1, Len(queue)) = queue
        BY <2>1, <3>1
      <3>3. Len(queue) <= Len(queue')
        BY <2>1, <3>1
      <3> QED BY <3>2, <3>3 DEF IsPrefix
    <2>4. CASE \E f \in Flushes : FlushDone(f)
      <3>1. PICK f \in Flushes : FlushDone(f)
        BY <2>4
      <3>2. queue' = queue \/ (queue # <<>> /\ queue' = Tail(queue))
        BY <1>1, <3>1, Removed DEF FlushDone
      <3> QED BY <2>2, <3>2
    <2> QED BY <1>1, <2>2, <2>3, <2>4, QueueSteps
  <1>2. IInv /\ [Next]_vars =>
           [IsPrefix(queue, queue') \/ (queue # <<>> /\ queue' = Tail(queue))]_vars
    BY <1>1
  <1> QED BY <1>2, Invariant, PTL DEF Spec, LeavesInOrder

\* A command is pending until the server has applied it: whatever breaks, is
\* refused or overlaps, only a first attempt is lost, when the app is killed
\* (main.dart 18-23).
THEOREM Pending == Spec => PendingUntilApplied
  <1> DEFINE Kept(n) == \/ n \in (Trying \cup Queued)'
                        \/ applied[n] > 0
                        \/ n \notin Queued /\ kills' > kills
  <1>1. ASSUME IInv, [Next]_vars, NEW n \in Queued
        PROVE  Kept(n)
    <2>1. queue \in Seq(1..Len(made)) /\ Len(queue) \in Nat
      BY <1>1 DEF IInv, TypeOK
    <2>2. PICK i \in 1..Len(queue) : queue[i] = n
      BY <2>1 DEF Queued, Range
    <2>3. CASE queue' = queue
      BY <1>1, <2>3 DEF Queued
    <2>4. CASE \E c \in Command : queue' = Append(queue, c)
      <3>1. i \in DOMAIN queue' /\ queue'[i] = n
        BY <2>1, <2>2, <2>4
      <3> QED BY <3>1 DEF Queued, Range
    <2>5. CASE \E f \in Flushes : FlushDone(f)
      <3>1. PICK f \in Flushes : FlushDone(f)
        BY <2>5
      <3>2. call[f].at = "answered" /\ queue' = RemoveRow(call[f].cmd)
        BY <3>1 DEF FlushDone
      <3>3. CASE queue' = queue
        BY <2>3, <3>3
      <3>4. CASE queue' = Tail(queue) /\ queue # <<>> /\ queue[1] = call[f].cmd
        <4>1. CASE i = 1
          <5>1. n = call[f].cmd /\ Busy(f) /\ f \in Callers
            BY <1>1, <2>2, <3>2, <3>4, <4>1, Removed, CallersAre
          <5> QED BY <1>1, <3>2, <5>1 DEF IInv, Calls
        <4>2. CASE i # 1
          <5>1. i - 1 \in DOMAIN queue' /\ queue'[i - 1] = n
            <6>1. /\ Tail(queue) \in Seq(1..Len(made)) /\ Len(Tail(queue)) = Len(queue) - 1
                  /\ \A j \in 1..(Len(queue) - 1) : Tail(queue)[j] = queue[j + 1]
              BY <2>1, <3>4, TailIs
            <6>2. i - 1 \in 1..(Len(queue) - 1) /\ i - 1 + 1 = i
              BY <2>1, <2>2, <4>2
            <6> QED BY <2>2, <3>4, <6>1, <6>2
          <5> QED BY <5>1 DEF Queued, Range
        <4> QED BY <4>1, <4>2
      <3> QED BY <1>1, <3>2, <3>3, <3>4, Removed
    <2> QED BY <1>1, <2>3, <2>4, <2>5, QueueSteps
  <1>2. ASSUME IInv, [Next]_vars, NEW n \in Trying, n \notin Queued
        PROVE  Kept(n)
    <2>0. n \in Command /\ n \in Callers /\ n \notin Flushes /\ Busy(n) /\ call[n].cmd = n
      BY <1>2, CallersAre DEF Trying, Busy, IInv, Calls
    <2>1. CASE call'[n] # NoCall
      BY <2>0, <2>1 DEF Trying
    <2>2. ASSUME call'[n] = NoCall, NEW c \in Callers, Fails(c)
          PROVE  Kept(n)
      <3>1. c = n
        BY <2>0, <2>2, <1>2 DEF Fails, Busy, IInv, TypeOK
      <3>2. queue' = Append(queue, n) /\ queue \in Seq(1..Len(made))
        BY <1>2, <2>0, <2>2, <3>1 DEF Fails, OnFailure, IInv, TypeOK
      <3>3. Len(queue) + 1 \in DOMAIN queue' /\ queue'[Len(queue) + 1] = n
        BY <2>0, <3>2
      <3> QED BY <3>3 DEF Queued, Range
    <2>3. CASE call'[n] = NoCall
      <3>1. CASE Kill
        BY <1>2, <3>1, BoundsAssumption DEF Kill, IInv, TypeOK
      <3>2. CASE UNCHANGED call
        BY <2>0, <2>3, <3>2 DEF Busy
      <3>3. CASE SignsIn \/ ChangeAccess \/ TokenExpires \/ \E m \in Command : ServeLate(m)
        BY <3>2, <3>3 DEF SignsIn, ChangeAccess, TokenExpires, ServeLate
      <3>4. CASE Make
        <4>1. Len(made) + 1 # n
          BY <1>2, <2>0 DEF IInv, Calls, TypeOK
        <4> QED BY <1>2, <2>0, <2>3, <3>4, <4>1 DEF Make, IInv, TypeOK, Busy
      <3>5. CASE \E f \in Flushes : Step(f)
        BY <1>2, <2>0, <2>3, <3>5 DEF Step, Flush, SendNext, FlushDone, IInv, TypeOK, Busy
      <3>6. ASSUME NEW m \in Command, TryDone(m)
            PROVE  Kept(n)
        <4>1. m = n
          BY <1>2, <2>0, <2>3, <3>6 DEF TryDone, IInv, TypeOK, Busy
        <4> QED BY <1>2, <2>0, <3>6, <4>1 DEF TryDone, IInv, Calls
      <3>7. ASSUME NEW c \in Callers, Serve(c)
            PROVE  Kept(n)
        <4>1. CASE Fails(c) BY <2>2, <2>3, <4>1
        <4>2. CASE call' = [call EXCEPT ![c] = Answered(call[c].cmd)]
          BY <1>2, <2>0, <2>3, <4>2 DEF Answered, NoCall, IInv, TypeOK, Busy
        <4> QED BY <3>7, <4>1, <4>2 DEF Serve
      <3>8. ASSUME NEW c \in Callers, Break(c)
            PROVE  Kept(n)
        BY <2>2, <2>3, <3>8 DEF Break
      <3> QED BY <1>2, <3>1, <3>2, <3>3, <3>4, <3>5, <3>6, <3>7, <3>8 DEF Next, vars
    <2> QED BY <2>1, <2>3
  <1>3. IInv /\ [Next]_vars => [\A n \in Trying \cup Queued : Kept(n)]_vars
    BY <1>1, <1>2
  <1> QED BY <1>3, Invariant, PTL DEF Spec, PendingUntilApplied
=============================================================================
