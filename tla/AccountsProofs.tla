--------------------------- MODULE AccountsProofs ---------------------------
(***************************************************************************)
(* What holds of Accounts for every set of users, contacts, invitations    *)
(* and connections.                                                        *)
(*                                                                         *)
(* The argument: locks on one object are compatible; a transaction past a  *)
(* lock point holds the lock, and what it decided there is still true,     *)
(* because a row another session has locked does not change under it.      *)
(***************************************************************************)
EXTENDS Accounts, FiniteSetTheorems, WellFoundedInduction, TLAPS

-----------------------------------------------------------------------------
(* Part 1.  Types.                                                         *)

\* The key an INSERT INTO user_invitations will get is nobody else's.
KeysFresh ==
    \A s \in Sessions : tx[s].op = "invite" =>
        /\ ~Issued(tx[s].inv)
        /\ \A t \in Sessions \ {s} : tx[t].op = "invite" => tx[t].inv # tx[s].inv

\* Requests are about rows that exist; an acceptance knows its contact once it
\* has read the row.
RowsKnown ==
    \A s \in Sessions :
        /\ tx[s].op \in {"accept", "revoke"} => Issued(tx[s].inv)
        /\ tx[s].op = "accept" /\ tx[s].at # "invitation" =>
              tx[s].contact = invitations[tx[s].inv].contact
        /\ tx[s].op = "patch" => Exists(tx[s].target)

\* The types are inductive together with these two.
Shape == TypeOK /\ KeysFresh /\ RowsKnown

LEMMA InitShape == Init => Shape
<1> SUFFICES ASSUME Init PROVE Shape
    OBVIOUS
<1>1. users \in [UserIds -> UserRow]
    BY DEF Init, UserRow, NoRow
<1>2. invitations \in [Invitations -> InvitationRow]
    BY DEF Init, InvitationRow
<1>3. lastEvent \in Event
    BY DEF Init, Event, NoEvent
<1>4. tx \in [Sessions -> Transaction]
    BY DEF Init, Transaction
<1>5. \A s \in Sessions : tx[s].op = "idle"
    BY DEF Init, Idle
<1> QED
    BY <1>1, <1>2, <1>3, <1>4, <1>5 DEF Init, Shape, TypeOK, KeysFresh, RowsKnown

\* What a session holds is what its operation says.
LEMMA TransactionCases ==
    ASSUME Shape, NEW s \in Sessions
    PROVE  /\ tx[s] \in Transaction
           /\ tx[s].op = "idle" => tx[s] = Idle
           /\ tx[s].op = "invite" => tx[s] \in Inviting
           /\ tx[s].op = "revoke" => tx[s] \in Revoking
           /\ tx[s].op = "accept" => tx[s] \in Accepting
           /\ tx[s].op = "patch" => tx[s] \in Patching
           /\ tx[s].op = "bootstrap" => tx[s] \in Bootstrapping
<1>1. tx[s] \in Transaction
    BY DEF Shape, TypeOK
<1>2. Idle.op = "idle"
    BY DEF Idle
<1> QED
    BY <1>1, <1>2 DEF Transaction, Inviting, Revoking, Accepting, Patching, Bootstrapping

\* An issued row has the columns of an invitation.
LEMMA IssuedRow ==
    ASSUME Shape, NEW i \in Invitations, Issued(i)
    PROVE  invitations[i] \in [role: InvitationRoles, contact: Contacts, by: UserIds,
              expired: BOOLEAN, accepted: BOOLEAN, revoked: BOOLEAN, user: UserIds \cup {NoUser}]
<1>1. invitations[i] # Unissued
    BY DEF Issued, Unissued
<1> QED
    BY <1>1 DEF Shape, TypeOK, InvitationRow

\* Rows are never deleted, the contact of an invitation never changes, and a
\* transaction issues at most the invitation it reserved.
RowsStay(s) ==
    /\ \A u \in UserIds : Exists(u) => users'[u].role # NoRole
    /\ \A i \in Invitations : Issued(i) =>
          /\ invitations'[i].role # NoRole
          /\ invitations'[i].contact = invitations[i].contact
    /\ \A i \in Invitations : ~Issued(i) /\ ~(tx[s].op = "invite" /\ i = tx[s].inv) =>
          invitations'[i].role = NoRole

\* The end of a transaction keeps the shape when its writes do.
LEMMA EndShape ==
    ASSUME Shape, NEW s \in Sessions, End(s), RowsStay(s),
           users' \in [UserIds -> UserRow],
           invitations' \in [Invitations -> InvitationRow],
           bootstrapped' \in BOOLEAN, lastEvent' \in Event
    PROVE  Shape'
<1>1. tx' \in [Sessions -> Transaction]
    BY DEF Shape, TypeOK, End, Transaction
<1>2. locks' \subseteq Lock
    BY DEF Shape, TypeOK, End
<1>3. \A t \in Sessions : tx'[t].op # "idle" => t # s /\ tx'[t] = tx[t]
    BY DEF Shape, TypeOK, End, Idle
<1>4. KeysFresh'
    <2> SUFFICES ASSUME NEW t \in Sessions, tx'[t].op = "invite"
                 PROVE  /\ invitations'[tx'[t].inv].role = NoRole
                        /\ \A r \in Sessions \ {t} : tx'[r].op = "invite" => tx'[r].inv # tx'[t].inv
        BY DEF KeysFresh, Issued
    <2>1. t # s /\ tx'[t] = tx[t]
        BY <1>3
    <2>2. tx[t].inv \in Invitations
        BY <2>1, TransactionCases DEF Inviting
    <2>3. \A r \in Sessions \ {t} : tx[r].op = "invite" => tx[r].inv # tx[t].inv
        BY <2>1 DEF Shape, KeysFresh
    <2>4. ~Issued(tx[t].inv)
        BY <2>1 DEF Shape, KeysFresh
    <2> QED
        BY <1>3, <2>1, <2>2, <2>3, <2>4 DEF RowsStay
<1>5. RowsKnown'
    <2> SUFFICES ASSUME NEW t \in Sessions
                 PROVE  /\ tx'[t].op \in {"accept", "revoke"} => invitations'[tx'[t].inv].role # NoRole
                        /\ tx'[t].op = "accept" /\ tx'[t].at # "invitation" =>
                              tx'[t].contact = invitations'[tx'[t].inv].contact
                        /\ tx'[t].op = "patch" => users'[tx'[t].target].role # NoRole
        BY DEF RowsKnown, Issued, Exists
    <2>1. CASE tx'[t].op \in {"accept", "revoke"}
        <3>1. tx'[t] = tx[t]
            BY <1>3, <2>1
        <3>2. tx[t].inv \in Invitations
            BY <2>1, <3>1, TransactionCases DEF Accepting, Revoking
        <3> QED
            BY <2>1, <3>1, <3>2 DEF Shape, RowsKnown, RowsStay
    <2>2. CASE tx'[t].op = "patch"
        <3>1. tx'[t] = tx[t]
            BY <1>3, <2>2
        <3>2. tx[t].target \in UserIds
            BY <2>2, <3>1, TransactionCases DEF Patching
        <3> QED
            BY <2>2, <3>1, <3>2 DEF Shape, RowsKnown, RowsStay
    <2> QED
        BY <2>1, <2>2
<1> QED
    BY <1>1, <1>2, <1>4, <1>5 DEF Shape, TypeOK

LEMMA RollbackShape ==
    ASSUME Shape, NEW s \in Sessions, Rollback(s)
    PROVE  Shape'
<1>1. RowsStay(s)
    BY DEF Rollback, RowsStay, db, Issued, Exists
<1> QED
    BY <1>1, EndShape DEF Rollback, db, Shape, TypeOK

\* What a transaction may become without writing to a table.
Continues(s, t) ==
    /\ t \in Transaction
    /\ t.op = "invite" =>
          /\ ~Issued(t.inv)
          /\ \A r \in Sessions \ {s} : tx[r].op = "invite" => tx[r].inv # t.inv
    /\ t.op \in {"accept", "revoke"} => Issued(t.inv)
    /\ t.op = "accept" /\ t.at # "invitation" => t.contact = invitations[t.inv].contact
    /\ t.op = "patch" => Exists(t.target)

LEMMA ContinueShape ==
    ASSUME Shape, NEW s \in Sessions, NEW t, Continues(s, t),
           tx' = [tx EXCEPT ![s] = t], UNCHANGED db, locks' \subseteq Lock
    PROVE  Shape'
<1>1. tx' \in [Sessions -> Transaction]
    BY DEF Shape, TypeOK, Continues
<1>2. TypeOK'
    BY <1>1 DEF Shape, TypeOK, db
<1>3. KeysFresh'
    BY DEF Shape, TypeOK, KeysFresh, Continues, db, Issued
<1>4. RowsKnown'
    BY DEF Shape, TypeOK, RowsKnown, Continues, db, Issued, Exists
<1> QED
    BY <1>2, <1>3, <1>4 DEF Shape

\* Going on with the same request changes only where it is.
LEMMA GotoContinues ==
    ASSUME Shape, NEW s \in Sessions, NEW at, Goto(s, at) \in Transaction,
           tx[s].op = "accept" => tx[s].at # "invitation"
    PROVE  Continues(s, Goto(s, at))
<1>1. \A f \in {"op", "inv", "contact", "target"} : Goto(s, at)[f] = tx[s][f]
    BY TransactionCases DEF Goto, Transaction, Idle, Inviting, Revoking, Accepting, Patching,
       Bootstrapping
<1> QED
    BY <1>1 DEF Continues, Shape, KeysFresh, RowsKnown

\* The places where a transaction asks for a lock.
WaitPoints == {"actor", "inviter", "invitation", "contact", "first row", "second row"}

LEMMA WantedTyped ==
    ASSUME Shape, NEW s \in Sessions, tx[s].at \in WaitPoints
    PROVE  [by |-> s, mode |-> Wanted(s)[1], on |-> Wanted(s)[2]] \in Lock
<1> DEFINE t == tx[s]
<1> SUFFICES Wanted(s)[1] \in {"share", "update"} /\ Wanted(s)[2] \in Lockable
    BY DEF Lock
<1>1. tx[s] \in Inviting \cup Revoking \cup Accepting \cup Patching
    <2>1. tx[s] \in Transaction
        BY TransactionCases
    <2>2. Idle.at = "idle"
        BY DEF Idle
    <2>3. tx[s] \notin Bootstrapping
        BY DEF Bootstrapping, WaitPoints
    <2> QED
        BY <2>1, <2>2, <2>3 DEF Transaction, WaitPoints
<1>2. CASE tx[s] \in Inviting
    BY <1>2 DEF Inviting, Wanted, WaitPoints, Lockable
<1>3. CASE tx[s] \in Revoking
    BY <1>3 DEF Revoking, Wanted, WaitPoints, Lockable
<1>4. CASE tx[s] \in Accepting
    <2>1. t.op = "accept" /\ t.inv \in Invitations /\ t.at \in {"invitation", "contact", "inviter", "check", "create"}
        BY <1>4 DEF Accepting
    <2>2. invitations[t.inv].by \in UserIds /\ invitations[t.inv].contact \in Contacts
        BY <2>1, IssuedRow DEF Shape, RowsKnown
    <2>3. t.at = "contact" => t.contact \in Contacts
        BY <2>1, <2>2 DEF Shape, RowsKnown
    <2> QED
        BY <2>1, <2>2, <2>3 DEF Wanted, WaitPoints, Lockable
<1>5. CASE tx[s] \in Patching
    <2>1. t.at \in {"first row", "second row", "update"} /\ t.actor \in UserIds /\ t.target \in UserIds
        BY <1>5 DEF Patching
    <2>2. RowOrder(t)[1] \in UserIds /\ RowOrder(t)[2] \in UserIds
        BY <2>1 DEF RowOrder
    <2> QED
        BY <2>1, <2>2 DEF Wanted, WaitPoints, Lockable
<1> QED
    BY <1>1, <1>2, <1>3, <1>4, <1>5

LEMMA AcquireShape ==
    ASSUME Shape, NEW s \in Sessions, NEW t, Continues(s, t),
           \/ tx[s].at \in WaitPoints /\ Acquire(s, t)
           \/ Rollback(s)
    PROVE  Shape'
<1>1. CASE tx[s].at \in WaitPoints /\ Acquire(s, t)
    <2>1. locks' \subseteq Lock
        BY <1>1, WantedTyped DEF Acquire, Shape, TypeOK
    <2> QED
        BY <1>1, <2>1, ContinueShape DEF Acquire
<1> QED
    BY <1>1, RollbackShape

LEMMA NewUserTyped ==
    ASSUME NEW r \in Role, NEW c \in Contacts
    PROVE  NewUser(r, c) \in UserRow /\ NewUser(r, c).role = r
BY DEF NewUser, UserRow, Contacts

\* Where a request that begins has nothing to remember from before.
LEMMA BeginShape ==
    ASSUME Shape, NEW s \in Sessions, NEW t, Continues(s, t), Begin(s, t)
    PROVE  Shape'
BY ContinueShape DEF Begin, Shape, TypeOK

LEMMA InviteShape ==
    ASSUME Shape, NEW s \in Sessions,
           \/ StartInvite(s) \/ InviteLocksActor(s) \/ InviteLocksContact(s)
           \/ InviteChecksContact(s) \/ InsertInvitation(s)
    PROVE  Shape'
<1> USE UserIdsAssumption, ContactsAssumption, RolesAssumption
<1>1. CASE StartInvite(s)
    <2>1. PICK a \in UserIds, i \in Invitations, r \in InviteRoles, c \in InviteContacts :
            /\ ~Issued(i)
            /\ \A t \in Sessions : ~(tx[t].op = "invite" /\ tx[t].inv = i)
            /\ Begin(s, [Idle EXCEPT !.op = "invite", !.at = "actor", !.actor = a, !.inv = i,
                                 !.role = r, !.contact = c,
                                 !.dead = {j \in Invitations : invitations[j].expired}])
        BY <1>1 DEF StartInvite
    <2> DEFINE t == [Idle EXCEPT !.op = "invite", !.at = "actor", !.actor = a, !.inv = i,
                                 !.role = r, !.contact = c,
                                 !.dead = {j \in Invitations : invitations[j].expired}]
    <2>2. t \in Inviting /\ t.op = "invite" /\ t.inv = i
        BY DEF Idle, Inviting
    <2>3. Continues(s, t)
        BY <2>1, <2>2 DEF Continues, Transaction
    <2> QED
        BY <2>1, <2>3, BeginShape
<1>2. CASE InviteLocksActor(s)
    <2>1. Continues(s, Goto(s, "contact"))
        BY <1>2, TransactionCases, GotoContinues DEF InviteLocksActor, At, Goto, Inviting, Transaction
    <2>2. \/ tx[s].at \in WaitPoints /\ Acquire(s, Goto(s, "contact"))
          \/ Rollback(s)
        BY <1>2 DEF InviteLocksActor, At, WaitPoints
    <2> QED
        BY <2>1, <2>2, AcquireShape
<1>3. CASE InviteLocksContact(s)
    <2>1. Continues(s, Goto(s, "check"))
        BY <1>3, TransactionCases, GotoContinues DEF InviteLocksContact, At, Goto, Inviting, Transaction
    <2>2. tx[s].at \in WaitPoints /\ Acquire(s, Goto(s, "check"))
        BY <1>3 DEF InviteLocksContact, At, WaitPoints
    <2> QED
        BY <2>1, <2>2, AcquireShape
<1>4. CASE InviteChecksContact(s)
    <2>1. Continues(s, Goto(s, "insert"))
        BY <1>4, TransactionCases, GotoContinues DEF InviteChecksContact, At, Goto, Inviting, Transaction
    <2>2. locks \subseteq Lock
        BY DEF Shape, TypeOK
    <2> QED
        BY <1>4, <2>1, <2>2, ContinueShape, RollbackShape DEF InviteChecksContact
<1>5. CASE InsertInvitation(s)
    <2> DEFINE t == tx[s]
               row == [Unissued EXCEPT !.role = t.role, !.contact = t.contact, !.by = t.actor]
    <2>1. t \in Inviting
        BY <1>5, TransactionCases DEF InsertInvitation, At
    <2>2. t.inv \in Invitations /\ t.actor \in UserIds /\ t.op = "invite" /\ ~Issued(t.inv)
        BY <2>1 DEF Inviting, Shape, KeysFresh
    <2>3. row \in InvitationRow /\ row.role # NoRole
        BY <2>1 DEF Inviting, Unissued, InvitationRow, InvitationRoles, Role, NoRole
    <2>4. invitations' = [invitations EXCEPT ![t.inv] = row] /\ users' = users
            /\ bootstrapped' = bootstrapped /\ End(s)
        BY <1>5 DEF InsertInvitation
    <2>5. lastEvent' \in Event
        BY <1>5, <2>2 DEF InsertInvitation, Record, Event
    <2> HIDE DEF row
    <2>6. invitations' \in [Invitations -> InvitationRow]
        BY <2>2, <2>3, <2>4 DEF Shape, TypeOK
    <2>7. RowsStay(s)
        BY <2>2, <2>3, <2>4 DEF RowsStay, Issued, Exists, Shape, TypeOK
    <2> QED
        BY <2>4, <2>5, <2>6, <2>7, EndShape DEF Shape, TypeOK
<1> QED
    BY <1>1, <1>2, <1>3, <1>4, <1>5

LEMMA RevokeShape ==
    ASSUME Shape, NEW s \in Sessions, StartRevoke(s) \/ RevokeLocksActor(s) \/ RevokeInvitation(s)
    PROVE  Shape'
<1>1. CASE StartRevoke(s)
    <2>1. PICK a \in UserIds, i \in Invitations :
            /\ Issued(i)
            /\ Begin(s, [Idle EXCEPT !.op = "revoke", !.at = "actor", !.actor = a, !.inv = i])
        BY <1>1 DEF StartRevoke
    <2> DEFINE t == [Idle EXCEPT !.op = "revoke", !.at = "actor", !.actor = a, !.inv = i]
    <2>2. t \in Revoking /\ t.op = "revoke" /\ t.inv = i
        BY DEF Idle, Revoking
    <2>3. Continues(s, t)
        BY <2>1, <2>2 DEF Continues, Transaction
    <2> QED
        BY <2>1, <2>3, BeginShape
<1>2. CASE RevokeLocksActor(s)
    <2>1. Continues(s, Goto(s, "invitation"))
        BY <1>2, TransactionCases, GotoContinues DEF RevokeLocksActor, At, Goto, Revoking, Transaction
    <2>2. \/ tx[s].at \in WaitPoints /\ Acquire(s, Goto(s, "invitation"))
          \/ Rollback(s)
        BY <1>2 DEF RevokeLocksActor, At, WaitPoints
    <2> QED
        BY <2>1, <2>2, AcquireShape
<1>3. CASE RevokeInvitation(s)
    <2> DEFINE i == tx[s].inv
    <2>1. tx[s] \in Revoking
        BY <1>3, TransactionCases DEF RevokeInvitation, At
    <2>2. i \in Invitations /\ tx[s].actor \in UserIds /\ tx[s].op = "revoke"
        BY <2>1 DEF Revoking
    <2>3. CASE Pending(i)
        <3>1. invitations' = [invitations EXCEPT ![i].revoked = TRUE] /\ users' = users
                /\ bootstrapped' = bootstrapped /\ End(s)
            BY <1>3, <2>3 DEF RevokeInvitation
        <3>2. lastEvent' \in Event
            BY <1>3, <2>2, <2>3 DEF RevokeInvitation, Record, Event
        <3>3. invitations' \in [Invitations -> InvitationRow]
            <4> DEFINE row == [invitations[i] EXCEPT !.revoked = TRUE]
            <4>1. row \in InvitationRow
                BY <2>2, <2>3, IssuedRow DEF Pending, InvitationRow
            <4>2. invitations' = [invitations EXCEPT ![i] = row]
                BY <2>2, <3>1 DEF Shape, TypeOK
            <4> QED
                BY <2>2, <4>1, <4>2 DEF Shape, TypeOK
        <3>4. RowsStay(s)
            BY <2>2, <2>3, <3>1, IssuedRow DEF Pending, RowsStay, Issued, Exists, Shape, TypeOK
        <3> QED
            BY <3>1, <3>2, <3>3, <3>4, EndShape DEF Shape, TypeOK
    <2>4. CASE ~Pending(i)
        BY <1>3, <2>4, RollbackShape DEF RevokeInvitation
    <2> QED
        BY <2>3, <2>4
<1> QED
    BY <1>1, <1>2, <1>3

LEMMA AcceptShape ==
    ASSUME Shape, NEW s \in Sessions,
           \/ StartAccept(s) \/ AcceptLocksInvitation(s) \/ AcceptLocksContact(s)
           \/ AcceptLocksInviter(s) \/ AcceptChecksContact(s) \/ CreateAccount(s)
    PROVE  Shape'
<1>1. CASE StartAccept(s)
    <2>1. PICK i \in Invitations :
            /\ Pending(i)
            /\ Begin(s, [Idle EXCEPT !.op = "accept", !.at = "invitation", !.inv = i])
        BY <1>1 DEF StartAccept
    <2> DEFINE t == [Idle EXCEPT !.op = "accept", !.at = "invitation", !.inv = i]
    <2>2. t \in Accepting /\ t.op = "accept" /\ t.inv = i /\ t.at = "invitation"
        BY DEF Idle, Accepting
    <2>3. Continues(s, t)
        BY <2>1, <2>2 DEF Continues, Transaction, Pending
    <2> QED
        BY <2>1, <2>3, BeginShape
<1>2. CASE AcceptLocksInvitation(s)
    <2> DEFINE i == tx[s].inv
               t == [tx[s] EXCEPT !.at = "contact", !.contact = invitations[i].contact]
    <2>1. tx[s] \in Accepting /\ i \in Invitations
        BY <1>2, TransactionCases DEF AcceptLocksInvitation, At, Accepting
    <2>2. Issued(i)
        BY <2>1 DEF Accepting, Shape, RowsKnown
    <2>3. invitations[i].contact \in Contacts
        BY <2>1, <2>2, IssuedRow
    <2>4. t \in Accepting /\ t.op = "accept" /\ t.inv = i /\ t.contact = invitations[i].contact
        BY <2>1, <2>3 DEF Accepting
    <2>5. Continues(s, t)
        BY <2>2, <2>4 DEF Continues, Transaction
    <2>6. \/ tx[s].at \in WaitPoints /\ Acquire(s, t)
          \/ Rollback(s)
        BY <1>2 DEF AcceptLocksInvitation, At, WaitPoints
    <2> QED
        BY <2>5, <2>6, AcquireShape
<1>3. CASE AcceptLocksContact(s)
    <2>1. Continues(s, Goto(s, "inviter"))
        BY <1>3, TransactionCases, GotoContinues DEF AcceptLocksContact, At, Goto, Accepting, Transaction
    <2>2. tx[s].at \in WaitPoints /\ Acquire(s, Goto(s, "inviter"))
        BY <1>3 DEF AcceptLocksContact, At, WaitPoints
    <2> QED
        BY <2>1, <2>2, AcquireShape
<1>4. CASE AcceptLocksInviter(s)
    <2>1. Continues(s, Goto(s, "check"))
        BY <1>4, TransactionCases, GotoContinues DEF AcceptLocksInviter, At, Goto, Accepting, Transaction
    <2>2. \/ tx[s].at \in WaitPoints /\ Acquire(s, Goto(s, "check"))
          \/ Rollback(s)
        BY <1>4 DEF AcceptLocksInviter, At, WaitPoints
    <2> QED
        BY <2>1, <2>2, AcquireShape
<1>5. CASE CreateAccount(s)
    <2> DEFINE i == tx[s].inv
               c == tx[s].contact
    <2>1. tx[s] \in Accepting /\ tx[s].at = "create"
        BY <1>5, TransactionCases DEF CreateAccount, At
    <2>2. i \in Invitations /\ tx[s].op = "accept" /\ Issued(i) /\ c = invitations[i].contact
        BY <2>1 DEF Accepting, Shape, RowsKnown
    <2>3. c \in Contacts /\ invitations[i].role \in InvitationRoles
        BY <2>2, IssuedRow
    <2>4. CASE Rollback(s)
        BY <2>4, RollbackShape
    <2>5. CASE ~Rollback(s)
        <3>1. PICK u \in UserIds :
                /\ ~Exists(u)
                /\ users' = [users EXCEPT ![u] = NewUser(invitations[i].role, c)]
                /\ invitations' = [invitations EXCEPT ![i].accepted = TRUE, ![i].user = u]
                /\ Record("USER_INVITATION_ACCEPTED", u, i)
            BY <1>5, <2>5 DEF CreateAccount
        <3>2. End(s) /\ bootstrapped' = bootstrapped
            BY <1>5, <2>5 DEF CreateAccount
        <3>3. NewUser(invitations[i].role, c) \in UserRow
            BY <2>3, NewUserTyped DEF InvitationRoles
        <3>4. lastEvent' \in Event
            BY <2>2, <3>1 DEF Record, Event
        <3>5. users' \in [UserIds -> UserRow]
            BY <3>1, <3>3 DEF Shape, TypeOK
        <3>6. invitations' \in [Invitations -> InvitationRow]
            <4> DEFINE row == [invitations[i] EXCEPT !.accepted = TRUE, !.user = u]
            <4>1. row \in InvitationRow
                BY <2>2, IssuedRow DEF InvitationRow
            <4>2. invitations' = [invitations EXCEPT ![i] = row]
                BY <2>2, <3>1 DEF Shape, TypeOK
            <4> QED
                BY <2>2, <4>1, <4>2 DEF Shape, TypeOK
        <3>7. RowsStay(s)
            BY <2>2, <3>1, IssuedRow DEF RowsStay, Issued, Exists, Shape, TypeOK
        <3> QED
            BY <3>2, <3>4, <3>5, <3>6, <3>7, EndShape DEF Shape, TypeOK
    <2> QED
        BY <2>4, <2>5
<1>6. CASE AcceptChecksContact(s)
    <2>1. Continues(s, Goto(s, "create"))
        BY <1>6, TransactionCases, GotoContinues DEF AcceptChecksContact, At, Goto, Accepting, Transaction
    <2>2. locks \subseteq Lock
        BY DEF Shape, TypeOK
    <2> QED
        BY <1>6, <2>1, <2>2, ContinueShape, RollbackShape DEF AcceptChecksContact
<1> QED
    BY <1>1, <1>2, <1>3, <1>4, <1>5, <1>6

LEMMA PatchShape ==
    ASSUME Shape, NEW s \in Sessions,
           StartPatch(s) \/ PatchLocksFirst(s) \/ PatchLocksSecond(s) \/ ApplyPatch(s)
    PROVE  Shape'
<1> USE ContactsAssumption, RolesAssumption, ActivesAssumption
<1>1. CASE StartPatch(s)
    <2>1. PICK a \in UserIds, u \in UserIds, r \in PatchRoles \cup {Keep},
               on \in PatchActives \cup {Keep}, p \in PatchPhones \cup {NoContact} :
            /\ Exists(u)
            /\ Begin(s, [Idle EXCEPT !.op = "patch", !.at = "first row", !.actor = a,
                                 !.target = u, !.role = r, !.active = on, !.contact = p])
        BY <1>1 DEF StartPatch
    <2> DEFINE t == [Idle EXCEPT !.op = "patch", !.at = "first row", !.actor = a,
                                 !.target = u, !.role = r, !.active = on, !.contact = p]
    <2>2. t \in Patching /\ t.op = "patch" /\ t.target = u
        BY DEF Idle, Patching
    <2>3. Continues(s, t)
        BY <2>1, <2>2 DEF Continues, Transaction
    <2> QED
        BY <2>1, <2>3, BeginShape
<1>2. ASSUME tx[s].op = "patch", NEW at \in {"second row", "update"}
      PROVE  Continues(s, Goto(s, at))
    <2>1. tx[s] \in Patching
        BY <1>2, TransactionCases
    <2>2. Goto(s, at) \in Patching
        BY <2>1 DEF Goto, Patching
    <2> QED
        BY <1>2, <2>2, GotoContinues DEF Transaction
<1>3. CASE PatchLocksFirst(s)
    <2>1. /\ tx[s].op = "patch" /\ tx[s].at \in WaitPoints
          /\ \/ Acquire(s, Goto(s, "second row"))
             \/ Acquire(s, Goto(s, "update"))
             \/ Rollback(s)
        BY <1>3 DEF PatchLocksFirst, LockLastRow, At, WaitPoints
    <2> QED
        BY <1>2, <2>1, AcquireShape
<1>4. CASE PatchLocksSecond(s)
    <2>1. /\ tx[s].op = "patch" /\ tx[s].at \in WaitPoints
          /\ Acquire(s, Goto(s, "update")) \/ Rollback(s)
        BY <1>4 DEF PatchLocksSecond, LockLastRow, At, WaitPoints
    <2> QED
        BY <1>2, <2>1, AcquireShape
<1>5. CASE ApplyPatch(s)
    <2> DEFINE t == tx[s]
    <2>1. t \in Patching
        BY <1>5, TransactionCases DEF ApplyPatch, At
    <2>2. t.target \in UserIds /\ t.actor \in UserIds /\ t.op = "patch" /\ Exists(t.target)
        BY <2>1 DEF Patching, Shape, RowsKnown
    <2>3. users[t.target] \in UserRow /\ users[t.target].role # NoRole
        BY <2>2 DEF Shape, TypeOK, Exists
    <2>4. Patched(t) \in UserRow /\ Patched(t).role # NoRole
        <3> DEFINE r == IF t.role = Keep THEN users[t.target].role ELSE t.role
                   on == IF t.active = Keep THEN users[t.target].active ELSE t.active = "on"
                   p == IF t.contact = NoContact THEN users[t.target].phone ELSE t.contact
        <3>1. r \in Role
            BY <2>1, <2>3 DEF Patching, UserRow
        <3>2. on \in BOOLEAN
            BY <2>3 DEF UserRow
        <3>3. p \in Phones \cup {NoContact}
            BY <2>1, <2>3 DEF Patching, UserRow
        <3>4. Patched(t) = [users[t.target] EXCEPT !.role = r, !.active = on, !.phone = p]
            BY DEF Patched
        <3> HIDE DEF r, on, p
        <3> QED
            BY <2>3, <3>1, <3>2, <3>3, <3>4, ZenonT(30) DEF UserRow, Role, NoRole
    <2>5. CASE PhoneFree(t)
        <3>1. users' = [users EXCEPT ![t.target] = Patched(t)] /\ invitations' = invitations
                /\ bootstrapped' = bootstrapped /\ End(s)
            BY <1>5, <2>5 DEF ApplyPatch
        <3>2. lastEvent' \in Event
            BY <1>5, <2>2, <2>5 DEF ApplyPatch, Record, Event
        <3>3. users' \in [UserIds -> UserRow]
            BY <2>2, <2>4, <3>1 DEF Shape, TypeOK
        <3>4. RowsStay(s)
            BY <2>2, <2>4, <3>1 DEF RowsStay, Issued, Exists, Shape, TypeOK
        <3> QED
            BY <3>1, <3>2, <3>3, <3>4, EndShape DEF Shape, TypeOK
    <2>6. CASE ~PhoneFree(t)
        BY <1>5, <2>6, RollbackShape DEF ApplyPatch
    <2> QED
        BY <2>5, <2>6
<1> QED
    BY <1>1, <1>3, <1>4, <1>5

LEMMA BootstrapShape ==
    ASSUME Shape, NEW s \in Sessions, StartBootstrap(s) \/ InsertOwner(s)
    PROVE  Shape'
<1> USE ContactsAssumption
<1>1. CASE StartBootstrap(s)
    <2>1. PICK e \in OwnerEmails :
            Begin(s, [Idle EXCEPT !.op = "bootstrap", !.at = "insert", !.contact = e])
        BY <1>1 DEF StartBootstrap
    <2> DEFINE t == [Idle EXCEPT !.op = "bootstrap", !.at = "insert", !.contact = e]
    <2>2. t \in Bootstrapping /\ t.op = "bootstrap"
        BY DEF Idle, Bootstrapping
    <2>3. Continues(s, t)
        BY <2>1, <2>2 DEF Continues, Transaction
    <2> QED
        BY <2>1, <2>3, BeginShape
<1>2. CASE InsertOwner(s)
    <2>1. tx[s] \in Bootstrapping
        BY <1>2, TransactionCases DEF InsertOwner, At
    <2>2. tx[s].contact \in Contacts
        BY <2>1 DEF Bootstrapping, Contacts
    <2>3. CASE Rollback(s)
        BY <2>3, RollbackShape
    <2>4. CASE ~Rollback(s)
        <3>1. PICK u \in UserIds :
                /\ ~Exists(u)
                /\ users' = [users EXCEPT ![u] = NewUser("SYSTEM_OWNER", tx[s].contact)]
            BY <1>2, <2>4 DEF InsertOwner
        <3>2. End(s) /\ bootstrapped' = TRUE /\ invitations' = invitations /\ lastEvent' = lastEvent
            BY <1>2, <2>4 DEF InsertOwner
        <3>3. NewUser("SYSTEM_OWNER", tx[s].contact) \in UserRow
            BY <2>2, NewUserTyped DEF Role
        <3>4. users' \in [UserIds -> UserRow]
            BY <3>1, <3>3 DEF Shape, TypeOK
        <3>5. RowsStay(s)
            BY <3>1, <3>2 DEF RowsStay, Issued, Exists, Shape, TypeOK
        <3> QED
            BY <3>2, <3>4, <3>5, EndShape DEF Shape, TypeOK
    <2> QED
        BY <2>3, <2>4
<1> QED
    BY <1>1, <1>2

\* One statement outside any transaction of the model.
LEMMA OutsideShape ==
    ASSUME Shape, Register \/ \E i \in Invitations : Expire(i)
    PROVE  Shape'
<1>1. CASE Register
    <2>1. PICK u \in UserIds, e \in Emails, p \in PatchPhones \cup {NoContact} :
            /\ ~Exists(u)
            /\ users' = [users EXCEPT ![u] =
                  [role |-> "SEARCHER", active |-> TRUE, email |-> e, phone |-> p]]
        BY <1>1 DEF Register
    <2>2. UNCHANGED <<invitations, bootstrapped, lastEvent, tx, locks>>
        BY <1>1 DEF Register
    <2>3. users' \in [UserIds -> UserRow]
        BY <2>1, ContactsAssumption DEF Shape, TypeOK, UserRow, Role
    <2>4. \A v \in UserIds : Exists(v) => users'[v] = users[v]
        BY <2>1 DEF Shape, TypeOK
    <2>5. TypeOK' /\ KeysFresh'
        BY <2>2, <2>3 DEF Shape, TypeOK, KeysFresh, Issued
    <2>6. RowsKnown'
        <3>1. \A s \in Sessions : tx[s].op = "patch" => tx[s].target \in UserIds
            BY TransactionCases DEF Patching
        <3> QED
            BY <2>2, <2>4, <3>1 DEF Shape, RowsKnown, Issued, Exists
    <2> QED
        BY <2>5, <2>6 DEF Shape
<1>2. ASSUME NEW i \in Invitations, Expire(i)
      PROVE  Shape'
    <2>1. Issued(i) /\ invitations' = [invitations EXCEPT ![i].expired = TRUE]
            /\ UNCHANGED <<users, bootstrapped, lastEvent, tx, locks>>
        BY <1>2 DEF Expire, Pending
    <2>2. invitations' \in [Invitations -> InvitationRow]
        BY <2>1, IssuedRow DEF Shape, TypeOK, InvitationRow
    <2>3. \A j \in Invitations :
            /\ invitations'[j].role = invitations[j].role
            /\ invitations'[j].contact = invitations[j].contact
        BY <2>1, IssuedRow DEF Shape, TypeOK
    <2>4. \A s \in Sessions : tx[s].op \in {"invite", "accept", "revoke"} => tx[s].inv \in Invitations
        BY TransactionCases DEF Inviting, Accepting, Revoking
    <2>5. TypeOK'
        BY <2>1, <2>2 DEF Shape, TypeOK
    <2>6. KeysFresh' /\ RowsKnown'
        BY <2>1, <2>3, <2>4 DEF Shape, KeysFresh, RowsKnown, Issued, Exists
    <2> QED
        BY <2>5, <2>6 DEF Shape
<1> QED
    BY <1>1, <1>2

LEMMA NextShape == Shape /\ [Next]_vars => Shape'
<1> SUFFICES ASSUME Shape, [Next]_vars PROVE Shape'
    OBVIOUS
<1>1. CASE UNCHANGED vars
    BY <1>1 DEF vars, Shape, TypeOK, KeysFresh, RowsKnown, Issued, Exists
<1>2. ASSUME NEW s \in Sessions, Start(s) \/ Handle(s) \/ Fail(s) \/ DeadlockVictim(s)
      PROVE  Shape'
    BY <1>2, InviteShape, RevokeShape, AcceptShape, PatchShape, BootstrapShape, RollbackShape
       DEF Start, Handle, Fail, DeadlockVictim
<1> QED
    BY <1>1, <1>2, OutsideShape DEF Next

\* Whatever requests overlap, every table, transaction and lock keeps the
\* shape its columns give it, a reserved key stays unused until the INSERT, and
\* requests are about rows that exist.
THEOREM Typed == Spec => []Shape
<1> QED
    BY InitShape, NextShape, PTL DEF Spec

\* The type invariant the runs check.
THEOREM TypeCorrect == Spec => []TypeOK
<1>1. Shape => TypeOK
    BY DEF Shape
<1> QED
    BY Typed, <1>1, PTL

-----------------------------------------------------------------------------
(* Part 2.  The inductive invariant.                                       *)

Holds(s, mode, obj) == [by |-> s, mode |-> mode, on |-> obj] \in locks

\* Two sessions hold the same object only if both share it.
LocksCompatible ==
    \A l, m \in locks : l.on = m.on /\ l.by # m.by => l.mode = "share" /\ m.mode = "share"

InviteGuarded(s) ==
    At(s, "invite", "contact") \/ At(s, "invite", "check") \/ At(s, "invite", "insert") =>
        /\ Holds(s, "share", <<"user", tx[s].actor>>)
        /\ MayInvite(tx[s].actor, tx[s].role)

RevokeGuarded(s) ==
    At(s, "revoke", "invitation") =>
        /\ Holds(s, "share", <<"user", tx[s].actor>>)
        /\ IsActiveAdmin(tx[s].actor)

AcceptGuarded(s) ==
    /\ tx[s].op = "accept" /\ tx[s].at # "invitation" =>
        /\ Holds(s, "update", <<"invitation", tx[s].inv>>)
        /\ Pending(tx[s].inv)
    /\ At(s, "accept", "check") \/ At(s, "accept", "create") =>
        /\ Holds(s, "share", <<"user", invitations[tx[s].inv].by>>)
        /\ MayInvite(invitations[tx[s].inv].by, invitations[tx[s].inv].role)

PatchGuarded(s) ==
    /\ At(s, "patch", "second row") =>
        /\ tx[s].actor # tx[s].target
        /\ Holds(s, "update", <<"user", RowOrder(tx[s])[1]>>)
    /\ At(s, "patch", "update") =>
        /\ Holds(s, "update", <<"user", tx[s].actor>>)
        /\ Holds(s, "update", <<"user", tx[s].target>>)
        /\ PatchPermitted(tx[s])

\* What each transaction holds and knows.
Guarded(s) == InviteGuarded(s) /\ RevokeGuarded(s) /\ AcceptGuarded(s) /\ PatchGuarded(s)

OwnersActive == \A u \in UserIds : users[u].role = "SYSTEM_OWNER" => users[u].active

Isolated == Shape /\ LocksCompatible /\ \A s \in Sessions : Guarded(s)

Owned == SingleOwner /\ OwnersActive /\ AdministratorsNeedOwner

-----------------------------------------------------------------------------
(* Part 3.  What another session's step leaves alone.                      *)

\* A step that is not r's own leaves r's request, its locks, the rows it has
\* locked, and the columns of an invitation that no handler updates.
Untouched(r) ==
    /\ tx'[r] = tx[r]
    /\ \A l \in locks : l.by = r => l \in locks'
    /\ \A u \in UserIds, mode \in {"share", "update"} :
          Exists(u) /\ Holds(r, mode, <<"user", u>>) => users'[u] = users[u]
    /\ \A i \in Invitations : Issued(i) =>
          /\ invitations'[i].role = invitations[i].role
          /\ invitations'[i].by = invitations[i].by
          /\ Holds(r, "update", <<"invitation", i>>) =>
                /\ invitations'[i].accepted = invitations[i].accepted
                /\ invitations'[i].revoked = invitations[i].revoked

\* Whoever may invite or administrate has a row.
LEMMA Ranked ==
    ASSUME NEW u \in UserIds
    PROVE  /\ IsActiveAdmin(u) => Exists(u)
           /\ \A role : MayInvite(u, role) => IsActiveAdmin(u)
BY DEF IsActiveAdmin, Exists, MayInvite, CanAssignRole, AdminRoles, PrivilegedRoles, NoRole

LEMMA UntouchedGuarded ==
    ASSUME Shape, NEW r \in Sessions, Guarded(r), Untouched(r)
    PROVE  Guarded(r)'
<1> DEFINE t == tx[r]
<1>1. tx'[r] = t
    BY DEF Untouched
<1>2. ASSUME NEW mode, NEW obj, Holds(r, mode, obj)
      PROVE  Holds(r, mode, obj)'
    BY <1>2 DEF Holds, Untouched
<1>3. ASSUME NEW u \in UserIds, NEW mode \in {"share", "update"}, Exists(u),
             Holds(r, mode, <<"user", u>>)
      PROVE  users'[u] = users[u]
    BY <1>3 DEF Untouched
<1>4. InviteGuarded(r)'
    <2> SUFFICES ASSUME t.op = "invite", t.at \in {"contact", "check", "insert"}
                 PROVE  Holds(r, "share", <<"user", t.actor>>)' /\ MayInvite(t.actor, t.role)'
        BY <1>1 DEF InviteGuarded, At
    <2>1. t.actor \in UserIds
        BY TransactionCases DEF Inviting
    <2>2. Holds(r, "share", <<"user", t.actor>>) /\ MayInvite(t.actor, t.role)
        BY DEF Guarded, InviteGuarded, At
    <2>3. users'[t.actor] = users[t.actor]
        BY <1>3, <2>1, <2>2, Ranked
    <2> QED
        BY <1>1, <1>2, <2>2, <2>3 DEF MayInvite
<1>5. RevokeGuarded(r)'
    <2> SUFFICES ASSUME t.op = "revoke", t.at = "invitation"
                 PROVE  Holds(r, "share", <<"user", t.actor>>)' /\ IsActiveAdmin(t.actor)'
        BY <1>1 DEF RevokeGuarded, At
    <2>1. t.actor \in UserIds
        BY TransactionCases DEF Revoking
    <2>2. Holds(r, "share", <<"user", t.actor>>) /\ IsActiveAdmin(t.actor)
        BY DEF Guarded, RevokeGuarded, At
    <2>3. users'[t.actor] = users[t.actor]
        BY <1>3, <2>1, <2>2, Ranked
    <2> QED
        BY <1>1, <1>2, <2>2, <2>3 DEF IsActiveAdmin
<1>6. AcceptGuarded(r)'
    <2> DEFINE i == t.inv
    <2> SUFFICES ASSUME t.op = "accept", t.at # "invitation"
                 PROVE  /\ Holds(r, "update", <<"invitation", i>>)' /\ Pending(i)'
                        /\ t.at \in {"check", "create"} =>
                              /\ Holds(r, "share", <<"user", invitations[i].by>>)'
                              /\ MayInvite(invitations[i].by, invitations[i].role)'
        BY <1>1 DEF AcceptGuarded, At
    <2>1. i \in Invitations
        BY TransactionCases DEF Accepting
    <2>2. Holds(r, "update", <<"invitation", i>>) /\ Pending(i)
        BY DEF Guarded, AcceptGuarded
    <2>3. Holds(r, "update", <<"invitation", i>>)' /\ Pending(i)'
        BY <1>1, <1>2, <2>1, <2>2 DEF Pending, Issued, Untouched
    <2>4. ASSUME t.at \in {"check", "create"}
          PROVE  /\ Holds(r, "share", <<"user", invitations[i].by>>)'
                 /\ MayInvite(invitations[i].by, invitations[i].role)'
        <3> DEFINE by == invitations[i].by
        <3>1. by \in UserIds
            BY <2>1, <2>2, IssuedRow DEF Pending
        <3>2. Holds(r, "share", <<"user", by>>) /\ MayInvite(by, invitations[i].role)
            BY <2>4 DEF Guarded, AcceptGuarded, At
        <3>3. users'[by] = users[by]
            BY <1>3, <3>1, <3>2, Ranked
        <3>4. invitations'[i].by = by /\ invitations'[i].role = invitations[i].role
            BY <2>1, <2>2 DEF Pending, Untouched
        <3> QED
            BY <1>1, <1>2, <3>2, <3>3, <3>4 DEF MayInvite
    <2> QED
        BY <2>3, <2>4
<1>7. PatchGuarded(r)'
    <2>1. CASE t.op = "patch" /\ t.at = "second row"
        BY <1>1, <1>2, <2>1 DEF Guarded, PatchGuarded, At, RowOrder
    <2>2. CASE t.op = "patch" /\ t.at = "update"
        <3>1. t.actor \in UserIds /\ t.target \in UserIds /\ Exists(t.target)
            BY <2>2, TransactionCases DEF Patching, Shape, RowsKnown
        <3>2. /\ Holds(r, "update", <<"user", t.actor>>)
              /\ Holds(r, "update", <<"user", t.target>>)
              /\ PatchPermitted(t)
            BY <2>2 DEF Guarded, PatchGuarded, At
        <3>3. users'[t.actor] = users[t.actor] /\ users'[t.target] = users[t.target]
            BY <1>3, <3>1, <3>2, Ranked DEF PatchPermitted
        <3>4. PatchPermitted(t)'
            BY <1>1, <3>2, <3>3 DEF PatchPermitted, IsActiveAdmin
        <3> QED
            BY <1>1, <1>2, <2>2, <3>2, <3>4 DEF PatchGuarded, At
    <2> QED
        BY <1>1, <2>1, <2>2 DEF PatchGuarded, At
<1> QED
    BY <1>4, <1>5, <1>6, <1>7 DEF Guarded

-----------------------------------------------------------------------------
(* Part 4.  Isolation is inductive.                                        *)

\* A step of s that writes to no table and drops no lock of another session.
LEMMA QuietUntouched ==
    ASSUME Shape, NEW s \in Sessions, NEW r \in Sessions \ {s}, NEW t,
           tx' = [tx EXCEPT ![s] = t], UNCHANGED db,
           \A l \in locks : l.by # s => l \in locks'
    PROVE  Untouched(r)
BY DEF Untouched, db, Shape, TypeOK

LEMMA AcquireIsolated ==
    ASSUME Isolated, Shape', NEW s \in Sessions, NEW t,
           tx[s].at \in WaitPoints, Grantable(s), Acquire(s, t), Guarded(s)'
    PROVE  Isolated'
<1> DEFINE new == [by |-> s, mode |-> Wanted(s)[1], on |-> Wanted(s)[2]]
<1>1. new \in Lock
    BY WantedTyped DEF Isolated
<1>2. locks' = locks \cup {new}
    BY DEF Acquire
<1>3. \A l \in locks : l.on = new.on /\ l.by # s => l.mode = "share" /\ new.mode = "share"
    <2> SUFFICES ASSUME NEW l \in locks, l.on = new.on, l.by # s
                 PROVE  l.mode = "share" /\ new.mode = "share"
        OBVIOUS
    <2>1. l.by \in Sessions /\ l.mode \in {"share", "update"} /\ new.mode \in {"share", "update"}
        BY <1>1 DEF Isolated, Shape, TypeOK, Lock
    <2>2. ~Conflicts(l, s, Wanted(s)[1], Wanted(s)[2])
        BY <2>1 DEF Grantable, WaitsFor
    <2> QED
        BY <2>1, <2>2 DEF Conflicts
<1> HIDE DEF new
<1>4. LocksCompatible'
    <2> SUFFICES ASSUME NEW l \in locks', NEW m \in locks', l.on = m.on, l.by # m.by
                 PROVE  l.mode = "share" /\ m.mode = "share"
        BY DEF LocksCompatible
    <2>1. new.by = s
        BY DEF new
    <2>2. CASE l \in locks /\ m \in locks
        BY <2>2 DEF Isolated, LocksCompatible
    <2>3. CASE l = new \/ m = new
        BY <1>2, <1>3, <2>1, <2>3
    <2> QED
        BY <1>2, <2>2, <2>3
<1>5. \A r \in Sessions \ {s} : Guarded(r)'
    BY <1>2, QuietUntouched, UntouchedGuarded DEF Acquire, Isolated
<1> QED
    BY <1>4, <1>5 DEF Isolated

LEMMA EndIsolated ==
    ASSUME Isolated, Shape', NEW s \in Sessions, End(s),
           \A r \in Sessions \ {s} : Untouched(r)
    PROVE  Isolated'
<1>1. LocksCompatible'
    BY DEF End, Isolated, LocksCompatible
<1>2. tx'[s].op = "idle"
    BY DEF End, Isolated, Shape, TypeOK, Idle
<1>3. Guarded(s)'
    BY <1>2 DEF Guarded, InviteGuarded, RevokeGuarded, AcceptGuarded, PatchGuarded, At
<1>4. \A r \in Sessions \ {s} : Guarded(r)'
    BY UntouchedGuarded DEF Isolated
<1> QED
    BY <1>1, <1>3, <1>4 DEF Isolated

LEMMA RollbackIsolated ==
    ASSUME Isolated, Shape', NEW s \in Sessions, Rollback(s)
    PROVE  Isolated'
<1>1. \A r \in Sessions \ {s} : Untouched(r)
    BY QuietUntouched DEF Rollback, End, Isolated
<1> QED
    BY <1>1, EndIsolated DEF Rollback

\* A step of s that takes no lock and writes nothing.
LEMMA QuietIsolated ==
    ASSUME Isolated, Shape', NEW s \in Sessions, NEW t,
           tx' = [tx EXCEPT ![s] = t], UNCHANGED <<db, locks>>, Guarded(s)'
    PROVE  Isolated'
<1>1. LocksCompatible'
    BY DEF Isolated, LocksCompatible
<1>2. \A r \in Sessions \ {s} : Guarded(r)'
    BY QuietUntouched, UntouchedGuarded DEF Isolated
<1> QED
    BY <1>1, <1>2 DEF Isolated

\* A request that begins has decided nothing.
LEMMA BeginIsolated ==
    ASSUME Isolated, Shape', NEW s \in Sessions, Start(s)
    PROVE  Isolated'
<1> DEFINE t == tx'[s]
<1>1. /\ tx' = [tx EXCEPT ![s] = t] /\ UNCHANGED <<db, locks>>
      /\ \/ t.op \in {"invite", "revoke"} /\ t.at = "actor"
         \/ t.op = "accept" /\ t.at = "invitation"
         \/ t.op = "patch" /\ t.at = "first row"
         \/ t.op = "bootstrap"
    <2> USE DEF Begin, Idle, Isolated, Shape, TypeOK
    <2>1. CASE StartInvite(s)
        BY <2>1 DEF StartInvite
    <2>2. CASE StartRevoke(s)
        BY <2>2 DEF StartRevoke
    <2>3. CASE StartAccept(s)
        BY <2>3 DEF StartAccept
    <2>4. CASE StartPatch(s)
        BY <2>4 DEF StartPatch
    <2>5. CASE StartBootstrap(s)
        BY <2>5 DEF StartBootstrap
    <2> QED
        BY <2>1, <2>2, <2>3, <2>4, <2>5 DEF Start
<1>2. Guarded(s)'
    BY <1>1 DEF Guarded, InviteGuarded, RevokeGuarded, AcceptGuarded, PatchGuarded, At
<1> QED
    BY <1>1, <1>2, QuietIsolated

\* The steps that take a lock or go on without writing.
LEMMA DecideIsolated ==
    ASSUME Isolated, Shape', NEW s \in Sessions,
           \/ InviteLocksActor(s) \/ InviteLocksContact(s) \/ InviteChecksContact(s)
           \/ RevokeLocksActor(s)
           \/ AcceptLocksInvitation(s) \/ AcceptLocksContact(s) \/ AcceptLocksInviter(s)
           \/ AcceptChecksContact(s) \/ PatchLocksFirst(s) \/ PatchLocksSecond(s)
    PROVE  Isolated'
<1> DEFINE t == tx[s]
<1> SUFFICES ASSUME ~Rollback(s) PROVE Isolated'
    BY RollbackIsolated
<1>1. ASSUME NEW n, tx' = [tx EXCEPT ![s] = n]
      PROVE  tx'[s] = n
    BY <1>1 DEF Isolated, Shape, TypeOK
<1>2. t \in Transaction
    BY TransactionCases DEF Isolated
<1>3. CASE InviteLocksActor(s)
    <2>1. t.at \in WaitPoints /\ Grantable(s) /\ Acquire(s, Goto(s, "contact"))
        BY <1>3 DEF InviteLocksActor, At, WaitPoints
    <2>2. t \in Inviting /\ t.at = "actor" /\ MayInvite(t.actor, t.role)
        BY <1>3, TransactionCases DEF InviteLocksActor, At, Isolated
    <2>3. tx'[s] = Goto(s, "contact") /\ Goto(s, "contact") = [t EXCEPT !.at = "contact"]
        BY <1>1, <2>1 DEF Acquire, Goto
    <2>4. tx'[s].op = "invite" /\ tx'[s].actor = t.actor /\ tx'[s].role = t.role
        BY <2>2, <2>3 DEF Inviting
    <2>5. Holds(s, "share", <<"user", t.actor>>)' /\ MayInvite(t.actor, t.role)'
        BY <2>1, <2>2, <2>4 DEF Acquire, Wanted, Holds, MayInvite, db
    <2>6. Guarded(s)'
        BY <2>4, <2>5 DEF Guarded, InviteGuarded, RevokeGuarded, AcceptGuarded, PatchGuarded, At
    <2> QED
        BY <2>1, <2>6, AcquireIsolated
<1>4. CASE InviteLocksContact(s)
    <2>1. t.at \in WaitPoints /\ Grantable(s) /\ Acquire(s, Goto(s, "check"))
        BY <1>4 DEF InviteLocksContact, At, WaitPoints
    <2>2. t \in Inviting /\ t.at = "contact"
        BY <1>4, TransactionCases DEF InviteLocksContact, At, Isolated
    <2>3. tx'[s] = Goto(s, "check") /\ Goto(s, "check") = [t EXCEPT !.at = "check"]
        BY <1>1, <2>1 DEF Acquire, Goto
    <2>4. tx'[s].op = "invite" /\ tx'[s].actor = t.actor /\ tx'[s].role = t.role
        BY <2>2, <2>3 DEF Inviting
    <2>5. Holds(s, "share", <<"user", t.actor>>) /\ MayInvite(t.actor, t.role)
        BY <2>2 DEF Isolated, Guarded, InviteGuarded, At, Inviting
    <2>6. Holds(s, "share", <<"user", t.actor>>)' /\ MayInvite(t.actor, t.role)'
        BY <2>1, <2>4, <2>5 DEF Acquire, Holds, MayInvite, db
    <2>7. Guarded(s)'
        BY <2>4, <2>6 DEF Guarded, InviteGuarded, RevokeGuarded, AcceptGuarded, PatchGuarded, At
    <2> QED
        BY <2>1, <2>7, AcquireIsolated
<1>5. CASE InviteChecksContact(s)
    <2>1. tx' = [tx EXCEPT ![s] = Goto(s, "insert")] /\ UNCHANGED <<db, locks>>
        BY <1>5 DEF InviteChecksContact
    <2>2. t \in Inviting /\ t.at = "check"
        BY <1>5, TransactionCases DEF InviteChecksContact, At, Isolated
    <2>3. tx'[s] = Goto(s, "insert") /\ Goto(s, "insert") = [t EXCEPT !.at = "insert"]
        BY <1>1, <2>1 DEF Goto
    <2>4. tx'[s].op = "invite" /\ tx'[s].actor = t.actor /\ tx'[s].role = t.role
        BY <2>2, <2>3 DEF Inviting
    <2>5. Holds(s, "share", <<"user", t.actor>>) /\ MayInvite(t.actor, t.role)
        BY <2>2 DEF Isolated, Guarded, InviteGuarded, At, Inviting
    <2>6. Holds(s, "share", <<"user", t.actor>>)' /\ MayInvite(t.actor, t.role)'
        BY <2>1, <2>4, <2>5 DEF Holds, MayInvite, db
    <2>7. Guarded(s)'
        BY <2>4, <2>6 DEF Guarded, InviteGuarded, RevokeGuarded, AcceptGuarded, PatchGuarded, At
    <2> QED
        BY <2>1, <2>7, QuietIsolated
<1>6. CASE RevokeLocksActor(s)
    <2>1. t.at \in WaitPoints /\ Grantable(s) /\ Acquire(s, Goto(s, "invitation"))
        BY <1>6 DEF RevokeLocksActor, At, WaitPoints
    <2>2. t \in Revoking /\ t.at = "actor" /\ IsActiveAdmin(t.actor)
        BY <1>6, TransactionCases DEF RevokeLocksActor, At, Isolated
    <2>3. tx'[s] = Goto(s, "invitation") /\ Goto(s, "invitation") = [t EXCEPT !.at = "invitation"]
        BY <1>1, <2>1 DEF Acquire, Goto
    <2>4. tx'[s].op = "revoke" /\ tx'[s].actor = t.actor
        BY <2>2, <2>3 DEF Revoking
    <2>5. Holds(s, "share", <<"user", t.actor>>)' /\ IsActiveAdmin(t.actor)'
        BY <2>1, <2>2, <2>4 DEF Acquire, Wanted, Holds, IsActiveAdmin, db
    <2>6. Guarded(s)'
        BY <2>4, <2>5 DEF Guarded, InviteGuarded, RevokeGuarded, AcceptGuarded, PatchGuarded, At
    <2> QED
        BY <2>1, <2>6, AcquireIsolated
<1>7. CASE AcceptLocksInvitation(s)
    <2> DEFINE n == [t EXCEPT !.at = "contact", !.contact = invitations[t.inv].contact]
    <2>1. t.at \in WaitPoints /\ Grantable(s) /\ Acquire(s, n)
        BY <1>7 DEF AcceptLocksInvitation, At, WaitPoints
    <2>2. t \in Accepting /\ t.at = "invitation" /\ Pending(t.inv)
        BY <1>7, TransactionCases DEF AcceptLocksInvitation, At, Isolated
    <2>3. tx'[s] = n
        BY <1>1, <2>1 DEF Acquire
    <2>4. tx'[s].op = "accept" /\ tx'[s].at = "contact" /\ tx'[s].inv = t.inv
        BY <2>2, <2>3 DEF Accepting
    <2>5. Holds(s, "update", <<"invitation", t.inv>>)' /\ Pending(t.inv)'
        BY <2>1, <2>2, <2>4 DEF Acquire, Wanted, Holds, Pending, Issued, db
    <2>6. Guarded(s)'
        BY <2>4, <2>5 DEF Guarded, InviteGuarded, RevokeGuarded, AcceptGuarded, PatchGuarded, At
    <2> QED
        BY <2>1, <2>6, AcquireIsolated
<1>8. CASE AcceptLocksContact(s)
    <2>1. t.at \in WaitPoints /\ Grantable(s) /\ Acquire(s, Goto(s, "inviter"))
        BY <1>8 DEF AcceptLocksContact, At, WaitPoints
    <2>2. t \in Accepting /\ t.at = "contact"
        BY <1>8, TransactionCases DEF AcceptLocksContact, At, Isolated
    <2>3. tx'[s] = Goto(s, "inviter") /\ Goto(s, "inviter") = [t EXCEPT !.at = "inviter"]
        BY <1>1, <2>1 DEF Acquire, Goto
    <2>4. tx'[s].op = "accept" /\ tx'[s].at = "inviter" /\ tx'[s].inv = t.inv
        BY <2>2, <2>3 DEF Accepting
    <2>5. Holds(s, "update", <<"invitation", t.inv>>) /\ Pending(t.inv)
        BY <2>2 DEF Isolated, Guarded, AcceptGuarded, Accepting
    <2>6. Holds(s, "update", <<"invitation", t.inv>>)' /\ Pending(t.inv)'
        BY <2>1, <2>4, <2>5 DEF Acquire, Holds, Pending, Issued, db
    <2>7. Guarded(s)'
        BY <2>4, <2>6 DEF Guarded, InviteGuarded, RevokeGuarded, AcceptGuarded, PatchGuarded, At
    <2> QED
        BY <2>1, <2>7, AcquireIsolated
<1>9. CASE AcceptLocksInviter(s)
    <2> DEFINE i == t.inv
    <2>1. t.at \in WaitPoints /\ Grantable(s) /\ Acquire(s, Goto(s, "check"))
        BY <1>9 DEF AcceptLocksInviter, At, WaitPoints
    <2>2. t \in Accepting /\ t.at = "inviter" /\ MayInvite(invitations[i].by, invitations[i].role)
        BY <1>9, TransactionCases DEF AcceptLocksInviter, At, Isolated
    <2>3. tx'[s] = Goto(s, "check") /\ Goto(s, "check") = [t EXCEPT !.at = "check"]
        BY <1>1, <2>1 DEF Acquire, Goto
    <2>4. tx'[s].op = "accept" /\ tx'[s].at = "check" /\ tx'[s].inv = i
        BY <2>2, <2>3 DEF Accepting
    <2>5. Holds(s, "update", <<"invitation", i>>) /\ Pending(i)
        BY <2>2 DEF Isolated, Guarded, AcceptGuarded, Accepting
    <2>6. Holds(s, "update", <<"invitation", i>>)' /\ Pending(i)'
        BY <2>1, <2>4, <2>5 DEF Acquire, Holds, Pending, Issued, db
    <2>7. Holds(s, "share", <<"user", invitations[i].by>>)'
            /\ MayInvite(invitations[i].by, invitations[i].role)'
        <3>1. Wanted(s)[1] = "share" /\ Wanted(s)[2] = <<"user", invitations[i].by>>
            BY <2>2 DEF Wanted, Accepting
        <3>2. [by |-> s, mode |-> "share", on |-> <<"user", invitations[i].by>>] \in locks'
            BY <2>1, <3>1 DEF Acquire
        <3>3. UNCHANGED <<users, invitations>>
            BY <2>1 DEF Acquire, db
        <3>4. Holds(s, "share", <<"user", invitations[i].by>>)'
            BY <2>4, <3>2, <3>3 DEF Holds
        <3>5. MayInvite(invitations[i].by, invitations[i].role)'
            BY <2>2, <2>4, <3>3 DEF MayInvite
        <3> QED
            BY <3>4, <3>5
    <2>8. Guarded(s)'
        BY <2>4, <2>6, <2>7 DEF Guarded, InviteGuarded, RevokeGuarded, AcceptGuarded, PatchGuarded, At
    <2> QED
        BY <2>1, <2>8, AcquireIsolated
<1>10. CASE AcceptChecksContact(s)
    <2> DEFINE i == t.inv
    <2>1. tx' = [tx EXCEPT ![s] = Goto(s, "create")] /\ UNCHANGED <<db, locks>>
        BY <1>10 DEF AcceptChecksContact
    <2>2. t \in Accepting /\ t.at = "check"
        BY <1>10, TransactionCases DEF AcceptChecksContact, At, Isolated
    <2>3. tx'[s] = Goto(s, "create") /\ Goto(s, "create") = [t EXCEPT !.at = "create"]
        BY <1>1, <2>1 DEF Goto
    <2>4. tx'[s].op = "accept" /\ tx'[s].at = "create" /\ tx'[s].inv = i
        BY <2>2, <2>3 DEF Accepting
    <2>5. /\ Holds(s, "update", <<"invitation", i>>) /\ Pending(i)
          /\ Holds(s, "share", <<"user", invitations[i].by>>)
          /\ MayInvite(invitations[i].by, invitations[i].role)
        BY <2>2 DEF Isolated, Guarded, AcceptGuarded, At, Accepting
    <2>6. /\ Holds(s, "update", <<"invitation", i>>)' /\ Pending(i)'
          /\ Holds(s, "share", <<"user", invitations[i].by>>)'
          /\ MayInvite(invitations[i].by, invitations[i].role)'
        <3>1. tx'[s].inv = i /\ UNCHANGED <<users, invitations, locks>>
            BY <2>1, <2>4 DEF db
        <3>2. Holds(s, "update", <<"invitation", i>>)' /\ Pending(i)'
            BY <2>5, <3>1 DEF Holds, Pending, Issued
        <3>3. Holds(s, "share", <<"user", invitations[i].by>>)'
            BY <2>5, <3>1 DEF Holds
        <3>4. MayInvite(invitations[i].by, invitations[i].role)'
            BY <2>5, <3>1 DEF MayInvite
        <3> QED
            BY <3>2, <3>3, <3>4
    <2>7. Guarded(s)'
        BY <2>4, <2>6 DEF Guarded, InviteGuarded, RevokeGuarded, AcceptGuarded, PatchGuarded, At
    <2> QED
        BY <2>1, <2>7, QuietIsolated
<1>11. CASE PatchLocksFirst(s) \/ PatchLocksSecond(s)
    <2>1. t \in Patching /\ t.at \in WaitPoints /\ Grantable(s)
        BY <1>11, TransactionCases DEF PatchLocksFirst, PatchLocksSecond, At, Isolated, WaitPoints
    <2>2. t.actor \in UserIds /\ t.target \in UserIds
        BY <2>1 DEF Patching
    <2>3. CASE Acquire(s, Goto(s, "second row")) /\ PatchLocksFirst(s) /\ t.actor # t.target
        <3>1. tx'[s] = Goto(s, "second row") /\ Goto(s, "second row") = [t EXCEPT !.at = "second row"]
            BY <1>1, <2>3 DEF Acquire, Goto
        <3>2. tx'[s].op = "patch" /\ tx'[s].at = "second row"
                /\ tx'[s].actor = t.actor /\ tx'[s].target = t.target
            BY <2>1, <3>1 DEF Patching
        <3>3. [by |-> s, mode |-> "update", on |-> <<"user", RowOrder(t)[1]>>] \in locks'
            BY <2>3 DEF PatchLocksFirst, At, Acquire, Wanted
        <3>4. Guarded(s)'
            BY <2>3, <3>2, <3>3 DEF Guarded, InviteGuarded, RevokeGuarded, AcceptGuarded,
               PatchGuarded, At, Holds, RowOrder
        <3> QED
            BY <2>1, <2>3, <3>4, AcquireIsolated
    <2>4. CASE /\ Acquire(s, Goto(s, "update")) /\ PatchAllowed(t)
               /\ (PatchLocksFirst(s) /\ t.actor = t.target) \/ PatchLocksSecond(s)
        <3>1. tx'[s] = Goto(s, "update") /\ Goto(s, "update") = [t EXCEPT !.at = "update"]
            BY <1>1, <2>4 DEF Acquire, Goto
        <3>2. /\ tx'[s].op = "patch" /\ tx'[s].at = "update" /\ tx'[s].actor = t.actor
              /\ tx'[s].target = t.target /\ tx'[s].role = t.role /\ tx'[s].active = t.active
            BY <2>1, <3>1, ZenonT(30) DEF Patching
        <3>3. /\ [by |-> s, mode |-> "update", on |-> <<"user", t.actor>>] \in locks'
              /\ [by |-> s, mode |-> "update", on |-> <<"user", t.target>>] \in locks'
            <4>1. CASE PatchLocksFirst(s) /\ t.actor = t.target
                BY <2>2, <2>4, <4>1 DEF PatchLocksFirst, At, Acquire, Wanted, RowOrder
            <4>2. CASE PatchLocksSecond(s)
                <5>1. [by |-> s, mode |-> "update", on |-> <<"user", RowOrder(t)[1]>>] \in locks'
                    BY <2>4, <4>2 DEF PatchLocksSecond, At, Acquire, Isolated, Guarded, PatchGuarded, Holds
                <5>2. [by |-> s, mode |-> "update", on |-> <<"user", RowOrder(t)[2]>>] \in locks'
                    BY <2>4, <4>2 DEF PatchLocksSecond, At, Acquire, Wanted
                <5> QED
                    BY <5>1, <5>2 DEF RowOrder
            <4> QED
                BY <2>4, <4>1, <4>2
        <3>4. PatchPermitted(t)
            BY <2>4 DEF PatchAllowed
        <3>5. PatchPermitted(tx[s])'
            BY <2>4, <3>2, <3>4 DEF PatchPermitted, Acquire, db, IsActiveAdmin
        <3>6. Guarded(s)'
            BY <3>2, <3>3, <3>5 DEF Guarded, InviteGuarded, RevokeGuarded, AcceptGuarded,
               PatchGuarded, At, Holds
        <3> QED
            BY <2>1, <2>4, <3>6, AcquireIsolated
    <2> QED
        BY <1>11, <2>3, <2>4 DEF PatchLocksFirst, PatchLocksSecond, LockLastRow
<1> QED
    BY <1>3, <1>4, <1>5, <1>6, <1>7, <1>8, <1>9, <1>10, <1>11

\* Two sessions never hold an object that one of them holds for update.
LEMMA UpdateExcludes ==
    ASSUME Isolated, NEW s \in Sessions, NEW r \in Sessions \ {s}, NEW obj, NEW mode,
           Holds(s, "update", obj)
    PROVE  ~Holds(r, mode, obj)
BY DEF Isolated, LocksCompatible, Holds

\* The steps that write and commit touch no row another session has locked.
LEMMA CommitUntouched ==
    ASSUME Isolated, NEW s \in Sessions, NEW r \in Sessions \ {s}, ~Rollback(s),
           \/ InsertInvitation(s) \/ RevokeInvitation(s) \/ CreateAccount(s)
           \/ ApplyPatch(s) \/ InsertOwner(s)
    PROVE  End(s) /\ Untouched(r)
<1> DEFINE t == tx[s]
<1>1. End(s)
    BY DEF InsertInvitation, RevokeInvitation, CreateAccount, ApplyPatch, InsertOwner
<1>2. tx'[r] = tx[r] /\ \A l \in locks : l.by = r => l \in locks'
    BY <1>1 DEF End, Isolated, Shape, TypeOK
<1>3. CASE InsertInvitation(s)
    <2>1. t.inv \in Invitations /\ ~Issued(t.inv)
        BY <1>3, TransactionCases DEF InsertInvitation, At, Inviting, Isolated, Shape, KeysFresh
    <2>2. users' = users /\ \A i \in Invitations : Issued(i) => invitations'[i] = invitations[i]
        BY <1>3, <2>1 DEF InsertInvitation, Isolated, Shape, TypeOK
    <2> QED
        BY <1>1, <1>2, <2>2 DEF Untouched
<1>4. CASE RevokeInvitation(s)
    <2>1. t.inv \in Invitations /\ Issued(t.inv)
        BY <1>4, TransactionCases DEF RevokeInvitation, At, Revoking, Isolated, Shape, RowsKnown
    <2>2. users' = users /\ invitations' = [invitations EXCEPT ![t.inv].revoked = TRUE]
        BY <1>4 DEF RevokeInvitation
    <2>3. \A i \in Invitations : Issued(i) =>
             /\ invitations'[i].role = invitations[i].role
             /\ invitations'[i].by = invitations[i].by
             /\ invitations'[i].accepted = invitations[i].accepted
             /\ i # t.inv => invitations'[i].revoked = invitations[i].revoked
        BY <2>1, <2>2, IssuedRow DEF Isolated, Shape, TypeOK
    <2>4. ~Holds(r, "update", <<"invitation", t.inv>>)
        <3> SUFFICES ASSUME Holds(r, "update", <<"invitation", t.inv>>)
                     PROVE  FALSE
            OBVIOUS
        <3>1. ~WaitsFor(s, r) /\ t.at = "invitation"
            BY <1>4 DEF RevokeInvitation, At, Grantable
        <3> QED
            BY <3>1 DEF WaitsFor, Conflicts, Wanted, Holds
    <2> QED
        BY <1>1, <1>2, <2>2, <2>3, <2>4 DEF Untouched
<1>5. CASE CreateAccount(s)
    <2> DEFINE i == t.inv
    <2>1. t.op = "accept" /\ t.at = "create" /\ i \in Invitations /\ Issued(i)
        BY <1>5, TransactionCases DEF CreateAccount, At, Accepting, Isolated, Shape, RowsKnown
    <2>2. PICK u \in UserIds :
            /\ ~Exists(u)
            /\ users' = [users EXCEPT ![u] = NewUser(invitations[i].role, t.contact)]
            /\ invitations' = [invitations EXCEPT ![i].accepted = TRUE, ![i].user = u]
        BY <1>5 DEF CreateAccount
    <2>3. \A v \in UserIds : Exists(v) => users'[v] = users[v]
        BY <2>2 DEF Isolated, Shape, TypeOK
    <2>4. \A j \in Invitations : Issued(j) =>
             /\ invitations'[j].role = invitations[j].role
             /\ invitations'[j].by = invitations[j].by
             /\ invitations'[j].revoked = invitations[j].revoked
             /\ j # i => invitations'[j].accepted = invitations[j].accepted
        BY <2>1, <2>2, IssuedRow DEF Isolated, Shape, TypeOK
    <2>5. Holds(s, "update", <<"invitation", i>>)
        BY <2>1 DEF Isolated, Guarded, AcceptGuarded
    <2>6. ~Holds(r, "update", <<"invitation", i>>)
        BY <2>5, UpdateExcludes
    <2> QED
        BY <1>1, <1>2, <2>3, <2>4, <2>6 DEF Untouched
<1>6. CASE ApplyPatch(s)
    <2>1. t.target \in UserIds
        BY <1>6, TransactionCases DEF ApplyPatch, At, Patching, Isolated
    <2>2. users' = [users EXCEPT ![t.target] = Patched(t)] /\ invitations' = invitations
        BY <1>6 DEF ApplyPatch
    <2>3. Holds(s, "update", <<"user", t.target>>)
        BY <1>6 DEF ApplyPatch, Isolated, Guarded, PatchGuarded
    <2>4. \A mode \in {"share", "update"} : ~Holds(r, mode, <<"user", t.target>>)
        BY <2>3, UpdateExcludes
    <2>5. \A v \in UserIds \ {t.target} : users'[v] = users[v]
        BY <2>1, <2>2 DEF Isolated, Shape, TypeOK
    <2> QED
        BY <1>1, <1>2, <2>2, <2>4, <2>5 DEF Untouched
<1>7. CASE InsertOwner(s)
    <2>1. PICK u \in UserIds :
            ~Exists(u) /\ users' = [users EXCEPT ![u] = NewUser("SYSTEM_OWNER", t.contact)]
        BY <1>7 DEF InsertOwner
    <2>2. \A v \in UserIds : Exists(v) => users'[v] = users[v]
        BY <2>1 DEF Isolated, Shape, TypeOK
    <2>3. invitations' = invitations
        BY <1>7 DEF InsertOwner
    <2> QED
        BY <1>1, <1>2, <2>2, <2>3 DEF Untouched
<1> QED
    BY <1>3, <1>4, <1>5, <1>6, <1>7

\* Registrations and the clock touch nothing a session depends on.
LEMMA OutsideUntouched ==
    ASSUME Isolated, UNCHANGED vars \/ Register \/ \E i \in Invitations : Expire(i)
    PROVE  UNCHANGED <<tx, locks>> /\ \A r \in Sessions : Untouched(r)
<1>1. UNCHANGED <<tx, locks>>
    BY DEF vars, Register, Expire
<1>2. \A v \in UserIds : Exists(v) => users'[v] = users[v]
    BY DEF vars, Register, Expire, Isolated, Shape, TypeOK
<1>3. \A i \in Invitations : Issued(i) =>
        /\ invitations'[i].role = invitations[i].role
        /\ invitations'[i].by = invitations[i].by
        /\ invitations'[i].accepted = invitations[i].accepted
        /\ invitations'[i].revoked = invitations[i].revoked
    <2>1. CASE UNCHANGED vars \/ Register
        BY <2>1 DEF vars, Register
    <2>2. CASE \E i \in Invitations : Expire(i)
        BY <2>2, IssuedRow DEF Expire, Isolated, Shape, TypeOK
    <2> QED
        BY <2>1, <2>2
<1> QED
    BY <1>1, <1>2, <1>3 DEF Untouched

LEMMA OutsideIsolated ==
    ASSUME Isolated, Shape', UNCHANGED vars \/ Register \/ \E i \in Invitations : Expire(i)
    PROVE  Isolated'
<1>1. LocksCompatible'
    BY OutsideUntouched DEF Isolated, LocksCompatible
<1>2. \A r \in Sessions : Guarded(r)'
    BY OutsideUntouched, UntouchedGuarded DEF Isolated
<1> QED
    BY <1>1, <1>2 DEF Isolated

LEMMA InitIsolated == Init => Isolated
<1> SUFFICES ASSUME Init PROVE Isolated
    OBVIOUS
<1>1. \A s \in Sessions : tx[s].op = "idle"
    BY DEF Init, Idle
<1>2. \A s \in Sessions : Guarded(s)
    BY <1>1 DEF Guarded, InviteGuarded, RevokeGuarded, AcceptGuarded, PatchGuarded, At
<1> QED
    BY <1>2, InitShape DEF Isolated, LocksCompatible, Init

LEMMA NextIsolated == Isolated /\ [Next]_vars => Isolated'
<1> SUFFICES ASSUME Isolated, [Next]_vars PROVE Isolated'
    OBVIOUS
<1>1. Shape'
    BY NextShape DEF Isolated
<1>2. ASSUME NEW s \in Sessions, Start(s) \/ Handle(s) \/ Fail(s) \/ DeadlockVictim(s)
      PROVE  Isolated'
    <2>1. CASE Start(s)
        BY <1>1, <2>1, BeginIsolated
    <2>2. CASE Rollback(s)
        BY <1>1, <2>2, RollbackIsolated
    <2>3. CASE Handle(s) /\ ~Rollback(s)
        <3>1. CASE \/ InsertInvitation(s) \/ RevokeInvitation(s) \/ CreateAccount(s)
                   \/ ApplyPatch(s) \/ InsertOwner(s)
            <4>1. End(s)
                BY <2>3, <3>1 DEF InsertInvitation, RevokeInvitation, CreateAccount, ApplyPatch,
                   InsertOwner
            <4>2. \A r \in Sessions \ {s} : Untouched(r)
                BY <2>3, <3>1, CommitUntouched
            <4> QED
                BY <1>1, <4>1, <4>2, EndIsolated
        <3> QED
            BY <1>1, <2>3, <3>1, DecideIsolated DEF Handle
    <2> QED
        BY <1>2, <2>1, <2>2, <2>3 DEF Fail, DeadlockVictim
<1> QED
    BY <1>1, <1>2, OutsideIsolated DEF Next

\* A transaction past a lock point holds its locks, and what it decided from
\* the rows it locked stays true until it commits.
THEOREM Isolation == Spec => []Isolated
<1> QED
    BY InitIsolated, NextIsolated, PTL DEF Spec

-----------------------------------------------------------------------------
(* Part 5.  The safety properties.                                         *)

\* A row of users that exists is changed by a PATCH that its rules permit at
\* that moment, and by nothing else.
PatchedBy(s, u) ==
    /\ tx[s] \in Patching /\ tx[s].target = u
    /\ PatchPermitted(tx[s])
    /\ users' = [users EXCEPT ![u] = Patched(tx[s])]
    /\ lastEvent' = [type |-> "USER_UPDATED", by |-> tx[s].actor, subject |-> u]
    /\ bootstrapped' = bootstrapped

\* A new row is a registration's, an acceptance's or the bootstrap's.
Registered(u) == users'[u].role = "SEARCHER" /\ bootstrapped' = bootstrapped

Accepted(u) ==
    /\ bootstrapped' = bootstrapped
    /\ \E i \in Invitations :
          /\ Issued(i) /\ users'[u].role = invitations[i].role
          /\ MayInvite(invitations[i].by, invitations[i].role)

Bootstrapped(u) ==
    /\ users'[u].role = "SYSTEM_OWNER" /\ users'[u].active /\ bootstrapped'
    /\ \A v \in UserIds : ~IsActiveOwner(v)

InsertedAt(u) ==
    /\ ~Exists(u)
    /\ \A v \in UserIds \ {u} : users'[v] = users[v]
    /\ Registered(u) \/ Accepted(u) \/ Bootstrapped(u)

\* Every way the users table changes.
LEMMA UserWrites ==
    ASSUME Isolated, [Next]_vars
    PROVE  \/ UNCHANGED <<users, bootstrapped>>
           \/ \E s \in Sessions, u \in UserIds : PatchedBy(s, u)
           \/ \E u \in UserIds : InsertedAt(u)
<1>1. users \in [UserIds -> UserRow]
    BY DEF Isolated, Shape, TypeOK
<1>2. CASE \/ UNCHANGED vars \/ \E i \in Invitations : Expire(i)
           \/ \E s \in Sessions : Start(s) \/ Rollback(s)
    <2>1. CASE UNCHANGED vars \/ \E i \in Invitations : Expire(i)
        BY <2>1 DEF vars, Expire
    <2>2. ASSUME NEW s \in Sessions, Start(s)
          PROVE  UNCHANGED db
        BY <2>2 DEF Start, StartInvite, StartRevoke, StartAccept, StartPatch, StartBootstrap, Begin
    <2>3. ASSUME NEW s \in Sessions, Rollback(s)
          PROVE  UNCHANGED db
        BY <2>3 DEF Rollback
    <2> QED
        BY <1>2, <2>1, <2>2, <2>3 DEF db
<1>3. CASE Register
    <2>1. PICK u \in UserIds : ~Exists(u) /\ \E row :
            row.role = "SEARCHER" /\ users' = [users EXCEPT ![u] = row]
        BY <1>3 DEF Register
    <2>2. InsertedAt(u)
        BY <1>1, <1>3, <2>1 DEF InsertedAt, Registered, Register
    <2> QED
        BY <2>2
<1>4. ASSUME NEW s \in Sessions, Handle(s), ~Rollback(s)
      PROVE  \/ UNCHANGED <<users, bootstrapped>>
             \/ \E u \in UserIds : PatchedBy(s, u)
             \/ \E u \in UserIds : InsertedAt(u)
    <2> DEFINE t == tx[s]
    <2>1. CASE ApplyPatch(s)
        <3>1. t \in Patching /\ PatchPermitted(t)
            BY <2>1, TransactionCases DEF ApplyPatch, At, Isolated, Guarded, PatchGuarded
        <3>2. t.target \in UserIds
            BY <3>1 DEF Patching
        <3>3. PatchedBy(s, t.target)
            BY <1>4, <2>1, <3>1 DEF ApplyPatch, PatchedBy, Record
        <3> QED
            BY <3>2, <3>3
    <2>2. CASE CreateAccount(s)
        <3> DEFINE i == t.inv
        <3>1. t.op = "accept" /\ t.at = "create" /\ i \in Invitations /\ Issued(i)
            BY <2>2, TransactionCases DEF CreateAccount, At, Accepting, Isolated, Shape, RowsKnown
        <3>2. MayInvite(invitations[i].by, invitations[i].role)
            BY <3>1 DEF Isolated, Guarded, AcceptGuarded, At
        <3>3. PICK u \in UserIds :
                ~Exists(u) /\ users' = [users EXCEPT ![u] = NewUser(invitations[i].role, t.contact)]
            BY <1>4, <2>2 DEF CreateAccount
        <3>4. users'[u].role = invitations[i].role /\ \A v \in UserIds \ {u} : users'[v] = users[v]
            BY <1>1, <3>3 DEF NewUser
        <3>5. bootstrapped' = bootstrapped
            BY <1>4, <2>2 DEF CreateAccount
        <3> QED
            BY <3>1, <3>2, <3>3, <3>4, <3>5 DEF InsertedAt, Accepted
    <2>3. CASE InsertOwner(s)
        <3>1. PICK u \in UserIds :
                ~Exists(u) /\ users' = [users EXCEPT ![u] = NewUser("SYSTEM_OWNER", t.contact)]
            BY <1>4, <2>3 DEF InsertOwner
        <3>2. users'[u].role = "SYSTEM_OWNER" /\ users'[u].active
                /\ \A v \in UserIds \ {u} : users'[v] = users[v]
            BY <1>1, <3>1 DEF NewUser
        <3>3. bootstrapped' /\ \A v \in UserIds : ~IsActiveOwner(v)
            BY <1>4, <2>3 DEF InsertOwner, OwnerInsertable
        <3> QED
            BY <3>1, <3>2, <3>3 DEF InsertedAt, Bootstrapped
    <2>4. CASE InsertInvitation(s) \/ RevokeInvitation(s)
        BY <1>4, <2>4 DEF InsertInvitation, RevokeInvitation
    <2>5. CASE \/ InviteLocksActor(s) \/ InviteLocksContact(s) \/ InviteChecksContact(s)
               \/ RevokeLocksActor(s)
               \/ AcceptLocksInvitation(s) \/ AcceptLocksContact(s) \/ AcceptLocksInviter(s)
               \/ AcceptChecksContact(s) \/ PatchLocksFirst(s) \/ PatchLocksSecond(s)
        BY <1>4, <2>5 DEF InviteLocksActor, InviteLocksContact, InviteChecksContact,
           RevokeLocksActor, AcceptLocksInvitation, AcceptLocksContact, AcceptLocksInviter,
           AcceptChecksContact, PatchLocksFirst, PatchLocksSecond, LockLastRow, Acquire, db
    <2> QED
        BY <1>4, <2>1, <2>2, <2>3, <2>4, <2>5 DEF Handle
<1> QED
    BY <1>2, <1>3, <1>4 DEF Next, Fail, DeadlockVictim

\* What a permitted PATCH makes of the role and the activity of its target.
LEMMA PatchKeepsOwner ==
    ASSUME Isolated, NEW s \in Sessions, NEW u \in UserIds, PatchedBy(s, u)
    PROVE  /\ \A v \in UserIds \ {u} : users'[v] = users[v]
           /\ IsActiveOwner(u) => users'[u].role = "SYSTEM_OWNER" /\ users'[u].active
           /\ users'[u].role = "SYSTEM_OWNER" => users[u].role = "SYSTEM_OWNER"
           /\ users'[u].role # users[u].role => CanAssignRole(users[tx[s].actor].role, users'[u].role)
<1> DEFINE t == tx[s]
<1>1. users'[u] = Patched(t) /\ \A v \in UserIds \ {u} : users'[v] = users[v]
    BY DEF PatchedBy, Isolated, Shape, TypeOK
<1>2. users[u] \in UserRow /\ t.target = u /\ t.active \in {"on", "off", Keep}
    BY DEF PatchedBy, Isolated, Shape, TypeOK, Patching
<1>3. Patched(t).role = IF t.role = Keep THEN users[u].role ELSE t.role
    BY <1>2 DEF Patched, UserRow
<1>4. Patched(t).active = IF t.active = Keep THEN users[u].active ELSE t.active = "on"
    BY <1>2 DEF Patched, UserRow
<1>5. /\ t.role # Keep => CanAssignRole(users[t.actor].role, t.role)
      /\ users[u].role = "SYSTEM_OWNER" => t.active # "off" /\ t.role \in {Keep, "SYSTEM_OWNER"}
      /\ t.role = "SYSTEM_OWNER" => users[u].role = "SYSTEM_OWNER"
    BY <1>2 DEF PatchedBy, PatchPermitted
<1>6. IsActiveOwner(u) => users'[u].role = "SYSTEM_OWNER" /\ users'[u].active
    BY <1>1, <1>2, <1>3, <1>4, <1>5 DEF IsActiveOwner
<1>7. users'[u].role = "SYSTEM_OWNER" => users[u].role = "SYSTEM_OWNER"
    BY <1>1, <1>3, <1>5
<1>8. users'[u].role # users[u].role => CanAssignRole(users[t.actor].role, users'[u].role)
    BY <1>1, <1>3, <1>5
<1> QED
    BY <1>1, <1>6, <1>7, <1>8

\* An active owner stays one.
LEMMA OwnerStays ==
    ASSUME Isolated, [Next]_vars, NEW u \in UserIds, IsActiveOwner(u)
    PROVE  IsActiveOwner(u)'
<1>1. Exists(u)
    BY DEF IsActiveOwner, Exists, NoRole
<1>2. CASE UNCHANGED <<users, bootstrapped>>
    BY <1>2 DEF IsActiveOwner
<1>3. ASSUME NEW s \in Sessions, NEW v \in UserIds, PatchedBy(s, v)
      PROVE  IsActiveOwner(u)'
    BY <1>3, PatchKeepsOwner DEF IsActiveOwner
<1>4. ASSUME NEW v \in UserIds, InsertedAt(v)
      PROVE  IsActiveOwner(u)'
    BY <1>1, <1>4 DEF InsertedAt, IsActiveOwner
<1> QED
    BY <1>2, <1>3, <1>4, UserWrites

LEMMA InitOwned == Init => Owned
<1> SUFFICES ASSUME Init PROVE Owned
    OBVIOUS
<1>1. \A u \in UserIds : users[u].role = NoRole
    BY DEF Init, NoRow
<1> QED
    BY <1>1 DEF Init, Owned, SingleOwner, OwnersActive, AdministratorsNeedOwner, NoRole,
       AdminRoles, PrivilegedRoles

LEMMA NextOwned == Isolated /\ Owned /\ [Next]_vars => Owned'
<1> SUFFICES ASSUME Isolated, Owned, [Next]_vars PROVE Owned'
    OBVIOUS
<1> DEFINE Owner(u) == users[u].role = "SYSTEM_OWNER"
           OwnerNext(u) == users'[u].role = "SYSTEM_OWNER"
<1>1. \A u \in UserIds : Owner(u) => IsActiveOwner(u) /\ IsActiveOwner(u)'
    BY OwnerStays DEF Owned, OwnersActive, IsActiveOwner
<1>2. ASSUME NEW u \in UserIds, IsActiveAdmin(u)
      PROVE  bootstrapped /\ \E o \in UserIds : Owner(o)
    BY <1>2 DEF Owned, AdministratorsNeedOwner, SingleOwner, IsActiveAdmin, IsActiveOwner
<1>3. \/ /\ bootstrapped' = bootstrapped
         /\ \A u \in UserIds : OwnerNext(u) <=> Owner(u)
         /\ \A u \in UserIds : users'[u].role \in AdminRoles =>
               users[u].role \in AdminRoles \/ bootstrapped
      \/ \E u \in UserIds : InsertedAt(u) /\ Bootstrapped(u)
    <2>1. CASE UNCHANGED <<users, bootstrapped>>
        BY <2>1
    <2>2. ASSUME NEW s \in Sessions, NEW v \in UserIds, PatchedBy(s, v)
          PROVE  <1>3
        <3>1. tx[s].actor \in UserIds /\ IsActiveAdmin(tx[s].actor)
            BY <2>2 DEF PatchedBy, Patching, PatchPermitted
        <3>2. bootstrapped /\ bootstrapped' = bootstrapped
            BY <1>2, <2>2, <3>1 DEF PatchedBy
        <3>3. \A u \in UserIds : OwnerNext(u) <=> Owner(u)
            BY <1>1, <2>2, PatchKeepsOwner DEF IsActiveOwner
        <3> QED
            BY <3>2, <3>3
    <2>3. ASSUME NEW v \in UserIds, InsertedAt(v), ~Bootstrapped(v)
          PROVE  <1>3
        <3>1. users'[v].role # "SYSTEM_OWNER" /\ bootstrapped' = bootstrapped
            BY <2>3, IssuedRow DEF InsertedAt, Registered, Accepted, Isolated, InvitationRoles
        <3>2. users[v].role # "SYSTEM_OWNER"
            BY <2>3 DEF InsertedAt, Exists, NoRole
        <3>3. users'[v].role \in AdminRoles => bootstrapped
            <4>1. CASE Registered(v)
                BY <4>1 DEF Registered, AdminRoles, PrivilegedRoles
            <4>2. CASE Accepted(v)
                <5>1. PICK i \in Invitations : Issued(i) /\ MayInvite(invitations[i].by, invitations[i].role)
                    BY <4>2 DEF Accepted
                <5>2. invitations[i].by \in UserIds
                    BY <5>1, IssuedRow DEF Isolated
                <5> QED
                    BY <1>2, <5>1, <5>2, Ranked
            <4> QED
                BY <2>3, <4>1, <4>2 DEF InsertedAt
        <3> QED
            BY <2>3, <3>1, <3>2, <3>3 DEF InsertedAt
    <2> QED
        BY <2>1, <2>2, <2>3, UserWrites
<1>4. CASE \E u \in UserIds : InsertedAt(u) /\ Bootstrapped(u)
    <2>1. PICK u \in UserIds : InsertedAt(u) /\ Bootstrapped(u)
        BY <1>4
    <2>2. \A v \in UserIds : ~Owner(v)
        BY <1>1, <2>1 DEF Bootstrapped
    <2>3. \A v \in UserIds : OwnerNext(v) <=> v = u
        BY <2>1, <2>2 DEF InsertedAt, Bootstrapped
    <2>4. IsActiveOwner(u)' /\ bootstrapped'
        BY <2>1 DEF Bootstrapped, IsActiveOwner
    <2> QED
        BY <2>3, <2>4 DEF Owned, SingleOwner, OwnersActive, AdministratorsNeedOwner, IsActiveOwner
<1>5. CASE /\ bootstrapped' = bootstrapped
           /\ \A u \in UserIds : OwnerNext(u) <=> Owner(u)
           /\ \A u \in UserIds : users'[u].role \in AdminRoles =>
                 users[u].role \in AdminRoles \/ bootstrapped
    <2>1. SingleOwner' /\ OwnersActive'
        BY <1>1, <1>5 DEF Owned, SingleOwner, OwnersActive, IsActiveOwner
    <2>2. ASSUME NEW u \in UserIds, users'[u].role \in AdminRoles
          PROVE  \E o \in UserIds : IsActiveOwner(o)'
        <3>1. \E o \in UserIds : Owner(o)
            BY <1>5, <2>2 DEF Owned, SingleOwner, AdministratorsNeedOwner, IsActiveOwner
        <3> QED
            BY <1>1, <3>1
    <2> QED
        BY <2>1, <2>2 DEF Owned, AdministratorsNeedOwner
<1> QED
    BY <1>3, <1>4, <1>5

\* There is at most one owner, exactly when the bootstrap has completed, and
\* an owner is active.
THEOREM OneOwner == Spec => []SingleOwner
<1>1. Isolated /\ Owned => SingleOwner
    BY DEF Owned
<1> QED
    BY <1>1, InitIsolated, NextIsolated, InitOwned, NextOwned, PTL DEF Spec

\* Administrators exist only under an active owner.
THEOREM OwnerFirst == Spec => []AdministratorsNeedOwner
<1>1. Isolated /\ Owned => AdministratorsNeedOwner
    BY DEF Owned
<1> QED
    BY <1>1, InitIsolated, NextIsolated, InitOwned, NextOwned, PTL DEF Spec

\* Nothing deactivates or demotes the owner.
THEOREM OwnerForGood == Spec => OwnerIsPermanent
<1>1. Isolated /\ [Next]_vars => [\A u \in UserIds : IsActiveOwner(u) => IsActiveOwner(u)']_vars
    BY OwnerStays
<1> QED
    BY <1>1, InitIsolated, NextIsolated, PTL DEF Spec, OwnerIsPermanent

\* Every change of an account is by an administrator who is active and
\* outranks it when the change commits, not merely when the request arrived.
THEOREM PatchesAuthorised == Spec => PatchAuthority
<1> DEFINE Good ==
      \A u \in UserIds :
          Exists(u) /\ users'[u] # users[u] =>
              LET a == lastEvent'.by IN
              /\ lastEvent' = [type |-> "USER_UPDATED", by |-> a, subject |-> u]
              /\ IsActiveAdmin(a)
              /\ CanManageUser(users[a].role, users[u].role)
              /\ users'[u].role # users[u].role => CanAssignRole(users[a].role, users'[u].role)
<1>1. Isolated /\ [Next]_vars => [Good]_vars
    <2> SUFFICES ASSUME Isolated, [Next]_vars, NEW u \in UserIds, Exists(u), users'[u] # users[u]
                 PROVE  LET a == lastEvent'.by IN
                        /\ lastEvent' = [type |-> "USER_UPDATED", by |-> a, subject |-> u]
                        /\ IsActiveAdmin(a)
                        /\ CanManageUser(users[a].role, users[u].role)
                        /\ users'[u].role # users[u].role => CanAssignRole(users[a].role, users'[u].role)
        OBVIOUS
    <2>1. ASSUME NEW v \in UserIds, InsertedAt(v)
          PROVE  FALSE
        BY <2>1 DEF InsertedAt
    <2>2. PICK s \in Sessions, v \in UserIds : PatchedBy(s, v)
        BY <2>1, UserWrites
    <2>3. v = u
        BY <2>2, PatchKeepsOwner
    <2>4. lastEvent' = [type |-> "USER_UPDATED", by |-> tx[s].actor, subject |-> u]
            /\ IsActiveAdmin(tx[s].actor) /\ CanManageUser(users[tx[s].actor].role, users[u].role)
        BY <2>2, <2>3 DEF PatchedBy, PatchPermitted
    <2>5. users'[u].role # users[u].role => CanAssignRole(users[tx[s].actor].role, users'[u].role)
        BY <2>2, <2>3, PatchKeepsOwner
    <2> QED
        BY <2>4, <2>5
<1> QED
    BY <1>1, InitIsolated, NextIsolated, PTL DEF Spec, PatchAuthority

\* One row of user_invitations changes.
Becomes(i, row) ==
    /\ invitations'[i] = row
    /\ \A j \in Invitations \ {i} : invitations'[j] = invitations[j]

\* The four ways it does.
IssuedBy(s, i) ==
    /\ tx[s] \in Inviting /\ tx[s].at = "insert" /\ tx[s].inv = i /\ ~Issued(i)
    /\ MayInvite(tx[s].actor, tx[s].role)
    /\ Becomes(i, [Unissued EXCEPT !.role = tx[s].role, !.contact = tx[s].contact,
                                   !.by = tx[s].actor])

RevokedBy(s, i) ==
    /\ Pending(i)
    /\ IsActiveAdmin(tx[s].actor)
    /\ Becomes(i, [invitations[i] EXCEPT !.revoked = TRUE])
    /\ lastEvent' = [type |-> "USER_INVITATION_REVOKED", by |-> tx[s].actor, subject |-> i]

AcceptedAs(i, u) ==
    /\ Pending(i)
    /\ MayInvite(invitations[i].by, invitations[i].role)
    /\ Becomes(i, [invitations[i] EXCEPT !.accepted = TRUE, !.user = u])

Expired(i) == Pending(i) /\ Becomes(i, [invitations[i] EXCEPT !.expired = TRUE])

LEMMA InvitationWrites ==
    ASSUME Isolated, [Next]_vars
    PROVE  \/ UNCHANGED invitations
           \/ \E s \in Sessions, i \in Invitations : End(s) /\ IssuedBy(s, i)
           \/ \E s \in Sessions, i \in Invitations : End(s) /\ RevokedBy(s, i)
           \/ \E s \in Sessions, i \in Invitations, u \in UserIds : End(s) /\ AcceptedAs(i, u)
           \/ \E i \in Invitations : Expired(i) /\ UNCHANGED <<tx, locks>>
<1>0. invitations \in [Invitations -> InvitationRow]
    BY DEF Isolated, Shape, TypeOK
<1>1. CASE \/ UNCHANGED vars \/ Register \/ \E s \in Sessions : Start(s) \/ Rollback(s)
    <2>1. CASE UNCHANGED vars \/ Register
        BY <2>1 DEF vars, Register
    <2>2. ASSUME NEW s \in Sessions, Start(s)
          PROVE  UNCHANGED db
        BY <2>2 DEF Start, StartInvite, StartRevoke, StartAccept, StartPatch, StartBootstrap, Begin
    <2>3. ASSUME NEW s \in Sessions, Rollback(s)
          PROVE  UNCHANGED db
        BY <2>3 DEF Rollback
    <2> QED
        BY <1>1, <2>1, <2>2, <2>3 DEF db
<1>2. CASE \E i \in Invitations : Expire(i)
    BY <1>0, <1>2 DEF Expire, Expired, Becomes
<1>3. ASSUME NEW s \in Sessions, Handle(s), ~Rollback(s)
      PROVE  \/ UNCHANGED invitations
             \/ \E i \in Invitations : End(s) /\ IssuedBy(s, i)
             \/ \E i \in Invitations : End(s) /\ RevokedBy(s, i)
             \/ \E i \in Invitations, u \in UserIds : End(s) /\ AcceptedAs(i, u)
    <2> DEFINE t == tx[s]
    <2>1. CASE InsertInvitation(s)
        <3>1. t \in Inviting /\ t.at = "insert" /\ t.inv \in Invitations /\ ~Issued(t.inv)
            BY <2>1, TransactionCases DEF InsertInvitation, At, Inviting, Isolated, Shape, KeysFresh
        <3>2. MayInvite(t.actor, t.role)
            BY <2>1 DEF InsertInvitation, Isolated, Guarded, InviteGuarded
        <3> QED
            BY <1>0, <2>1, <3>1, <3>2 DEF InsertInvitation, IssuedBy, Becomes
    <2>2. CASE RevokeInvitation(s)
        <3>1. t.inv \in Invitations
            BY <2>2, TransactionCases DEF RevokeInvitation, At, Revoking, Isolated
        <3>2. IsActiveAdmin(t.actor)
            BY <2>2 DEF RevokeInvitation, Isolated, Guarded, RevokeGuarded
        <3> QED
            BY <1>0, <1>3, <2>2, <3>1, <3>2 DEF RevokeInvitation, RevokedBy, Record, Becomes
    <2>3. CASE CreateAccount(s)
        <3>1. t.inv \in Invitations /\ t.op = "accept" /\ t.at = "create"
            BY <2>3, TransactionCases DEF CreateAccount, At, Accepting, Isolated
        <3>2. Pending(t.inv) /\ MayInvite(invitations[t.inv].by, invitations[t.inv].role)
            BY <3>1 DEF Isolated, Guarded, AcceptGuarded, At
        <3> QED
            BY <1>0, <1>3, <2>3, <3>1, <3>2 DEF CreateAccount, AcceptedAs, Becomes
    <2>4. CASE ApplyPatch(s) \/ InsertOwner(s)
        BY <1>3, <2>4 DEF ApplyPatch, InsertOwner
    <2>5. CASE \/ InviteLocksActor(s) \/ InviteLocksContact(s) \/ InviteChecksContact(s)
               \/ RevokeLocksActor(s)
               \/ AcceptLocksInvitation(s) \/ AcceptLocksContact(s) \/ AcceptLocksInviter(s)
               \/ AcceptChecksContact(s) \/ PatchLocksFirst(s) \/ PatchLocksSecond(s)
        BY <1>3, <2>5 DEF InviteLocksActor, InviteLocksContact, InviteChecksContact,
           RevokeLocksActor, AcceptLocksInvitation, AcceptLocksContact, AcceptLocksInviter,
           AcceptChecksContact, PatchLocksFirst, PatchLocksSecond, LockLastRow, Acquire, db
    <2> QED
        BY <1>3, <2>1, <2>2, <2>3, <2>4, <2>5 DEF Handle
<1> QED
    BY <1>1, <1>2, <1>3 DEF Next, Fail, DeadlockVictim

\* An accepted or revoked invitation is closed for good.
THEOREM ClosedForGood == Spec => ClosedStaysClosed
<1> DEFINE Good == \A i \in Invitations : Issued(i) /\ ~Pending(i) => invitations'[i] = invitations[i]
<1>1. Isolated /\ [Next]_vars => [Good]_vars
    <2> SUFFICES ASSUME Isolated, [Next]_vars, NEW j \in Invitations, Issued(j), ~Pending(j)
                 PROVE  invitations'[j] = invitations[j]
        OBVIOUS
    <2>1. ASSUME NEW i \in Invitations,
                 \/ \E s \in Sessions : IssuedBy(s, i) \/ RevokedBy(s, i)
                 \/ \E u \in UserIds : AcceptedAs(i, u)
                 \/ Expired(i)
          PROVE  i # j
        BY <2>1 DEF IssuedBy, RevokedBy, AcceptedAs, Expired
    <2> QED
        BY <2>1, InvitationWrites DEF IssuedBy, RevokedBy, AcceptedAs, Expired, Becomes
<1> QED
    BY <1>1, InitIsolated, NextIsolated, PTL DEF Spec, ClosedStaysClosed

\* Who issues, accepts on behalf of, or revokes an invitation still may when
\* the transaction commits.
THEOREM InvitationsAuthorised == Spec => InvitationAuthority
<1> DEFINE Good(i) ==
      /\ ~Issued(i) /\ Issued(i)' => MayInvite(invitations'[i].by, invitations'[i].role)
      /\ Pending(i) /\ invitations'[i].accepted => MayInvite(invitations[i].by, invitations[i].role)
      /\ Pending(i) /\ invitations'[i].revoked =>
            /\ lastEvent'.type = "USER_INVITATION_REVOKED" /\ lastEvent'.subject = i
            /\ IsActiveAdmin(lastEvent'.by)
<1>1. Isolated /\ [Next]_vars => [\A i \in Invitations : Good(i)]_vars
    <2> SUFFICES ASSUME Isolated, [Next]_vars, NEW j \in Invitations
                 PROVE  Good(j)
        OBVIOUS
    <2>1. CASE invitations'[j] = invitations[j]
        BY <2>1 DEF Pending, Issued
    <2>2. ASSUME NEW s \in Sessions, NEW i \in Invitations, IssuedBy(s, i)
          PROVE  Good(j)
        BY <2>1, <2>2, ZenonT(30) DEF IssuedBy, Becomes, Unissued, Pending
    <2>3. ASSUME NEW s \in Sessions, NEW i \in Invitations, RevokedBy(s, i)
          PROVE  Good(j)
        BY <2>1, <2>3, IssuedRow DEF RevokedBy, Becomes, Pending, Issued, Isolated
    <2>4. ASSUME NEW i \in Invitations, NEW u \in UserIds, AcceptedAs(i, u)
          PROVE  Good(j)
        BY <2>1, <2>4, IssuedRow, ZenonT(30) DEF AcceptedAs, Becomes, Pending, Issued, Isolated
    <2>5. ASSUME NEW i \in Invitations, Expired(i)
          PROVE  Good(j)
        BY <2>1, <2>5, IssuedRow DEF Expired, Becomes, Pending, Issued, Isolated
    <2> HIDE DEF Good
    <2> QED
        BY <2>1, <2>2, <2>3, <2>4, <2>5, InvitationWrites
<1> QED
    BY <1>1, InitIsolated, NextIsolated, PTL DEF Spec, InvitationAuthority

-----------------------------------------------------------------------------
(* Part 6.  One live invitation per contact.                               *)

\* An invite past the advisory lock holds it; past the check, no invitation
\* that was alive when the transaction began is pending for its contact.  What
\* was dead then is dead now.
ContactGuarded(s) ==
    /\ At(s, "invite", "check") \/ At(s, "invite", "insert") =>
          Holds(s, "update", <<"contact", tx[s].contact>>)
    /\ At(s, "invite", "insert") =>
          \A i \in Invitations \ tx[s].dead :
              ~(Pending(i) /\ invitations[i].contact = tx[s].contact)
    /\ tx[s].op = "invite" => \A i \in tx[s].dead : invitations[i].expired

Distinct == OnePendingPerContact /\ \A s \in Sessions : ContactGuarded(s)

LEMMA StepUntouched ==
    ASSUME Isolated, NEW s \in Sessions, NEW r \in Sessions \ {s},
           Start(s) \/ Handle(s) \/ Fail(s) \/ DeadlockVictim(s)
    PROVE  Untouched(r)
<1>1. CASE Rollback(s)
    BY <1>1, QuietUntouched DEF Rollback, End, Isolated
<1>2. CASE Start(s)
    <2>1. UNCHANGED <<db, locks>> /\ \E t : tx' = [tx EXCEPT ![s] = t]
        BY <1>2 DEF Start, StartInvite, StartRevoke, StartAccept, StartPatch, StartBootstrap, Begin
    <2> QED
        BY <2>1, QuietUntouched DEF Isolated
<1>3. CASE /\ ~Rollback(s)
           /\ \/ InsertInvitation(s) \/ RevokeInvitation(s) \/ CreateAccount(s)
              \/ ApplyPatch(s) \/ InsertOwner(s)
    BY <1>3, CommitUntouched
<1>4. CASE InviteChecksContact(s) \/ AcceptChecksContact(s)
    BY <1>1, <1>4, QuietUntouched DEF InviteChecksContact, AcceptChecksContact, Isolated
<1>5. CASE /\ ~Rollback(s)
           /\ \/ InviteLocksActor(s) \/ InviteLocksContact(s) \/ RevokeLocksActor(s)
              \/ AcceptLocksInvitation(s) \/ AcceptLocksContact(s) \/ AcceptLocksInviter(s)
              \/ PatchLocksFirst(s) \/ PatchLocksSecond(s)
    <2>1. \E t : Acquire(s, t)
        BY <1>5 DEF InviteLocksActor, InviteLocksContact, RevokeLocksActor, AcceptLocksInvitation,
           AcceptLocksContact, AcceptLocksInviter, PatchLocksFirst, PatchLocksSecond, LockLastRow
    <2> QED
        BY <2>1, QuietUntouched DEF Acquire, Isolated
<1> QED
    BY <1>1, <1>2, <1>3, <1>4, <1>5 DEF Handle, Fail, DeadlockVictim

\* A key that no row has yet stands for the empty row.
LEMMA UnissuedRow ==
    ASSUME Isolated, NEW i \in Invitations, ~Issued(i)
    PROVE  invitations[i] = Unissued
<1>1. invitations[i] \in InvitationRow /\ NoRole \notin InvitationRoles
    BY DEF Isolated, Shape, TypeOK, InvitationRoles, Role, NoRole
<1> QED
    BY <1>1 DEF InvitationRow, Issued

\* What every step does to a live invitation.
LEMMA LiveInvitations ==
    ASSUME Isolated, [Next]_vars, NEW i \in Invitations
    PROVE  /\ invitations[i].expired => invitations'[i].expired
           /\ Pending(i)' =>
                 \/ Pending(i) /\ invitations'[i].contact = invitations[i].contact
                 \/ \E s \in Sessions : /\ End(s) /\ IssuedBy(s, i)
                                        /\ invitations'[i].contact = tx[s].contact
<1>1. CASE invitations'[i] = invitations[i]
    BY <1>1 DEF Pending, Issued
<1>2. ASSUME NEW s \in Sessions, End(s), IssuedBy(s, i)
      PROVE  ~invitations[i].expired /\ invitations'[i].contact = tx[s].contact
    BY <1>2, UnissuedRow DEF IssuedBy, Becomes, Unissued
<1>3. ASSUME \/ \E s \in Sessions : RevokedBy(s, i)
             \/ \E u \in UserIds : AcceptedAs(i, u)
             \/ Expired(i)
      PROVE  /\ invitations[i].expired => invitations'[i].expired
             /\ Pending(i) /\ invitations'[i].contact = invitations[i].contact
    BY <1>3, IssuedRow DEF RevokedBy, AcceptedAs, Expired, Becomes, Pending, Isolated
<1>4. \/ invitations'[i] = invitations[i]
      \/ \E s \in Sessions : End(s) /\ IssuedBy(s, i)
      \/ \E s \in Sessions : RevokedBy(s, i)
      \/ \E u \in UserIds : AcceptedAs(i, u)
      \/ Expired(i)
    BY InvitationWrites DEF IssuedBy, RevokedBy, AcceptedAs, Expired, Becomes
<1> QED
    BY <1>1, <1>2, <1>3, <1>4

LEMMA OthersContact ==
    ASSUME Isolated, Distinct, [Next]_vars, NEW r \in Sessions, Untouched(r)
    PROVE  ContactGuarded(r)'
<1> DEFINE t == tx[r]
<1>1. tx'[r] = t /\ ContactGuarded(r)
    BY DEF Untouched, Distinct
<1>2. t.op = "invite" => t \in Inviting
    BY TransactionCases DEF Isolated
<1>3. t.op = "invite" => \A i \in t.dead : invitations'[i].expired
    BY <1>1, <1>2, LiveInvitations DEF ContactGuarded, Inviting
<1>4. t.op = "invite" /\ t.at \in {"check", "insert"} => Holds(r, "update", <<"contact", t.contact>>)
    BY <1>1 DEF ContactGuarded, At
<1>5. t.op = "invite" /\ t.at \in {"check", "insert"} => Holds(r, "update", <<"contact", t.contact>>)'
    BY <1>1, <1>4 DEF Untouched, Holds
<1>6. ASSUME t.op = "invite", t.at = "insert", NEW i \in Invitations \ t.dead,
             Pending(i)', invitations'[i].contact = t.contact
      PROVE  FALSE
    <2>1. ~(Pending(i) /\ invitations[i].contact = t.contact)
        BY <1>1, <1>6 DEF ContactGuarded, At
    <2>2. PICK s \in Sessions : End(s) /\ IssuedBy(s, i) /\ tx[s].contact = t.contact
        BY <1>6, <2>1, LiveInvitations
    <2>3. s # r
        BY <1>1, <1>6, <2>2 DEF End, Idle, Isolated, Shape, TypeOK
    <2>4. Holds(s, "update", <<"contact", t.contact>>)
        BY <2>2 DEF IssuedBy, Inviting, Distinct, ContactGuarded, At
    <2> QED
        BY <1>4, <1>6, <2>3, <2>4, UpdateExcludes
<1> QED
    BY <1>1, <1>3, <1>5, <1>6 DEF ContactGuarded, At

LEMMA OwnContact ==
    ASSUME Isolated, Distinct, NEW s \in Sessions,
           Start(s) \/ Handle(s) \/ Fail(s) \/ DeadlockVictim(s)
    PROVE  ContactGuarded(s)'
<1> DEFINE t == tx[s]
<1>1. ASSUME NEW n, tx' = [tx EXCEPT ![s] = n]
      PROVE  tx'[s] = n
    BY <1>1 DEF Isolated, Shape, TypeOK
<1>2. CASE End(s)
    BY <1>1, <1>2, ZenonT(30) DEF End, Idle, ContactGuarded, At
<1>3. CASE StartInvite(s)
    <2>1. tx'[s].at = "actor" /\ tx'[s].dead = {j \in Invitations : invitations[j].expired}
            /\ invitations' = invitations
        BY <1>3 DEF StartInvite, Begin, Idle, db, Isolated, Shape, TypeOK
    <2> QED
        BY <2>1 DEF ContactGuarded, At
<1>4. CASE \/ StartRevoke(s) \/ StartAccept(s) \/ StartPatch(s) \/ StartBootstrap(s)
    <2>1. tx'[s].op # "invite"
        <3> USE DEF Begin, Idle, Isolated, Shape, TypeOK
        <3>1. CASE StartRevoke(s)
            BY <3>1 DEF StartRevoke
        <3>2. CASE StartAccept(s)
            BY <3>2 DEF StartAccept
        <3>3. CASE StartPatch(s)
            BY <3>3 DEF StartPatch
        <3>4. CASE StartBootstrap(s)
            BY <3>4 DEF StartBootstrap
        <3> QED
            BY <1>4, <3>1, <3>2, <3>3, <3>4
    <2> QED
        BY <2>1 DEF ContactGuarded, At
<1>5. CASE InviteLocksActor(s) /\ ~End(s)
    <2>1. t \in Inviting /\ tx' = [tx EXCEPT ![s] = Goto(s, "contact")] /\ invitations' = invitations
        BY <1>5, TransactionCases DEF InviteLocksActor, At, Acquire, Rollback, db, Isolated
    <2>2. tx'[s].at = "contact" /\ tx'[s].dead = t.dead
        <3>1. tx'[s] = Goto(s, "contact") /\ Goto(s, "contact") = [t EXCEPT !.at = "contact"]
            BY <1>1, <2>1 DEF Goto
        <3> QED
            BY <2>1, <3>1 DEF Inviting
    <2>3. \A i \in t.dead : invitations[i].expired
        BY <1>5 DEF Distinct, ContactGuarded, InviteLocksActor, At
    <2> QED
        BY <2>1, <2>2, <2>3 DEF ContactGuarded, At
<1>6. CASE InviteLocksContact(s)
    <2>1. t \in Inviting /\ t.at = "contact" /\ tx' = [tx EXCEPT ![s] = Goto(s, "check")]
            /\ invitations' = invitations
        BY <1>6, TransactionCases DEF InviteLocksContact, At, Acquire, db, Isolated
    <2>2. tx'[s].at = "check" /\ tx'[s].dead = t.dead /\ tx'[s].contact = t.contact
        <3>1. tx'[s] = Goto(s, "check") /\ Goto(s, "check") = [t EXCEPT !.at = "check"]
            BY <1>1, <2>1 DEF Goto
        <3> QED
            BY <2>1, <3>1 DEF Inviting
    <2>3. [by |-> s, mode |-> "update", on |-> <<"contact", t.contact>>] \in locks'
        BY <1>6, <2>1 DEF InviteLocksContact, Acquire, Wanted
    <2>4. \A i \in t.dead : invitations[i].expired
        BY <1>6 DEF Distinct, ContactGuarded, InviteLocksContact, At
    <2> QED
        BY <2>1, <2>2, <2>3, <2>4 DEF ContactGuarded, At, Holds
<1>7. CASE InviteChecksContact(s) /\ ~End(s)
    <2>1. t \in Inviting /\ t.at = "check" /\ tx' = [tx EXCEPT ![s] = Goto(s, "insert")]
            /\ UNCHANGED <<invitations, locks>> /\ ~ContactInUse(t.contact, t.dead)
        BY <1>7, TransactionCases DEF InviteChecksContact, At, Rollback, db, Isolated
    <2>2. tx'[s].at = "insert" /\ tx'[s].dead = t.dead /\ tx'[s].contact = t.contact
        <3>1. tx'[s] = Goto(s, "insert") /\ Goto(s, "insert") = [t EXCEPT !.at = "insert"]
            BY <1>1, <2>1 DEF Goto
        <3> QED
            BY <2>1, <3>1 DEF Inviting
    <2>3. /\ Holds(s, "update", <<"contact", t.contact>>)
          /\ \A i \in t.dead : invitations[i].expired
        BY <1>7, <2>1 DEF Distinct, ContactGuarded, InviteChecksContact, At
    <2>4. \A i \in Invitations \ t.dead : ~(Pending(i) /\ invitations[i].contact = t.contact)
        BY <2>1 DEF ContactInUse
    <2> QED
        BY <2>1, <2>2, <2>3, <2>4 DEF ContactGuarded, At, Holds, Pending, Issued
<1>8. CASE /\ ~End(s)
           /\ \/ RevokeLocksActor(s) \/ AcceptLocksInvitation(s) \/ AcceptLocksContact(s)
              \/ AcceptLocksInviter(s) \/ AcceptChecksContact(s)
              \/ PatchLocksFirst(s) \/ PatchLocksSecond(s)
    <2>1. t \in Revoking \cup Accepting \cup Patching
        BY <1>8, TransactionCases DEF RevokeLocksActor, AcceptLocksInvitation, AcceptLocksContact,
           AcceptLocksInviter, AcceptChecksContact, PatchLocksFirst, PatchLocksSecond, At, Isolated
    <2>2. \/ \E at : tx' = [tx EXCEPT ![s] = Goto(s, at)]
          \/ tx' = [tx EXCEPT ![s] = [t EXCEPT !.at = "contact",
                                               !.contact = invitations[t.inv].contact]]
        BY <1>8 DEF RevokeLocksActor, AcceptLocksInvitation, AcceptLocksContact,
           AcceptLocksInviter, AcceptChecksContact, PatchLocksFirst, PatchLocksSecond, LockLastRow,
           Acquire, Rollback
    <2>3. tx'[s].op # "invite"
        BY <1>1, <2>1, <2>2, ZenonT(30) DEF Goto, Revoking, Accepting, Patching
    <2> QED
        BY <2>3 DEF ContactGuarded, At
<1> QED
    BY <1>2, <1>3, <1>4, <1>5, <1>6, <1>7, <1>8 DEF Start, Handle, Fail, DeadlockVictim, Rollback,
       InsertInvitation, RevokeInvitation, CreateAccount, ApplyPatch, InsertOwner

LEMMA NextDistinct == Isolated /\ Distinct /\ [Next]_vars => Distinct'
<1> SUFFICES ASSUME Isolated, Distinct, [Next]_vars PROVE Distinct'
    OBVIOUS
<1>1. OnePendingPerContact'
    <2> DEFINE Live(i) == Pending(i) /\ ~invitations[i].expired
    <2>1. ASSUME NEW i \in Invitations, NEW j \in Invitations, i # j, Live(i)', Live(j)',
                 NEW s \in Sessions, IssuedBy(s, i), invitations'[i].contact = tx[s].contact
          PROVE  invitations'[j].contact # invitations'[i].contact
        <3>1. invitations'[j] = invitations[j] /\ Live(j)
            BY <2>1 DEF IssuedBy, Becomes, Pending, Issued
        <3>2. ContactGuarded(s) /\ At(s, "invite", "insert")
            BY <2>1 DEF Distinct, IssuedBy, Inviting, At
        <3>3. j \notin tx[s].dead
            BY <3>1, <3>2 DEF ContactGuarded, At
        <3> QED
            BY <2>1, <3>1, <3>2, <3>3 DEF ContactGuarded
    <2>2. ASSUME NEW i \in Invitations, Live(i)'
          PROVE  \/ Live(i) /\ invitations'[i].contact = invitations[i].contact
                 \/ \E s \in Sessions : IssuedBy(s, i) /\ invitations'[i].contact = tx[s].contact
        BY <2>2, LiveInvitations
    <2> SUFFICES ASSUME NEW i \in Invitations, NEW j \in Invitations, i # j, Live(i)', Live(j)'
                 PROVE  invitations'[i].contact # invitations'[j].contact
        BY DEF OnePendingPerContact
    <2>3. CASE \/ \E s \in Sessions : IssuedBy(s, i) /\ invitations'[i].contact = tx[s].contact
               \/ \E s \in Sessions : IssuedBy(s, j) /\ invitations'[j].contact = tx[s].contact
        BY <2>1, <2>3
    <2>4. CASE /\ Live(i) /\ invitations'[i].contact = invitations[i].contact
               /\ Live(j) /\ invitations'[j].contact = invitations[j].contact
        BY <2>4 DEF Distinct, OnePendingPerContact
    <2> QED
        BY <2>2, <2>3, <2>4
<1>2. CASE UNCHANGED vars \/ Register \/ \E i \in Invitations : Expire(i)
    <2>1. \A r \in Sessions : ContactGuarded(r)'
        BY <1>2, OutsideUntouched, OthersContact
    <2> QED
        BY <1>1, <2>1 DEF Distinct
<1>3. ASSUME NEW s \in Sessions, Start(s) \/ Handle(s) \/ Fail(s) \/ DeadlockVictim(s)
      PROVE  Distinct'
    BY <1>1, <1>3, OwnContact, StepUntouched, OthersContact DEF Distinct
<1> QED
    BY <1>2, <1>3 DEF Next

\* However many administrators invite a contact at once, at most one of its
\* invitations is good at any time.
THEOREM OneLiveInvitation == Spec => []OnePendingPerContact
<1>1. Init => Distinct
    <2> SUFFICES ASSUME Init PROVE Distinct
        OBVIOUS
    <2>1. \A s \in Sessions : tx[s].op = "idle"
        BY DEF Init, Idle
    <2>2. \A i \in Invitations : ~Pending(i)
        BY DEF Init, Pending, Issued, Unissued
    <2> QED
        BY <2>1, <2>2 DEF Distinct, OnePendingPerContact, ContactGuarded, At
<1>2. Distinct => OnePendingPerContact
    BY DEF Distinct
<1> QED
    BY <1>1, <1>2, InitIsolated, NextIsolated, NextDistinct, PTL DEF Spec

\* A row is written whose contacts no other row has.
LEMMA ApartRow ==
    ASSUME users \in [UserIds -> UserRow], ContactsApart, NEW u \in UserIds, NEW row,
           users' = [users EXCEPT ![u] = row],
           \A v \in UserIds \ {u} :
              /\ row.email # NoContact => users[v].email # row.email
              /\ row.phone # NoContact => users[v].phone # row.phone
    PROVE  ContactsApart'
<1>1. users'[u] = row /\ \A v \in UserIds \ {u} : users'[v] = users[v]
    OBVIOUS
<1>2. ASSUME NEW v \in UserIds, NEW w \in UserIds, v # w
      PROVE  /\ users'[v].email = users'[w].email => users'[v].email = NoContact
             /\ users'[v].phone = users'[w].phone => users'[v].phone = NoContact
    <2>1. CASE v # u /\ w # u
        BY <1>1, <1>2, <2>1 DEF ContactsApart
    <2>2. CASE v = u
        BY <1>1, <1>2, <2>2
    <2>3. CASE w = u
        BY <1>1, <1>2, <2>3
    <2> QED
        BY <2>1, <2>2, <2>3
<1> QED
    BY <1>2 DEF ContactsApart

LEMMA NextApart == Isolated /\ ContactsApart /\ [Next]_vars => ContactsApart'
<1> SUFFICES ASSUME Isolated, ContactsApart, [Next]_vars PROVE ContactsApart'
    OBVIOUS
<1>0. users \in [UserIds -> UserRow]
    BY DEF Isolated, Shape, TypeOK
<1>1. ASSUME UNCHANGED users PROVE ContactsApart'
    BY <1>1 DEF ContactsApart
<1>2. ASSUME NEW u \in UserIds, NEW role, NEW c, ~Taken(c),
             users' = [users EXCEPT ![u] = NewUser(role, c)]
      PROVE  ContactsApart'
    <2>1. \A v \in UserIds : users[v].email # c /\ users[v].phone # c
        BY <1>2 DEF Taken
    <2>2. /\ NewUser(role, c).email \in {c, NoContact}
          /\ NewUser(role, c).phone \in {c, NoContact}
        BY DEF NewUser
    <2> DEFINE row == NewUser(role, c)
    <2>3. \A v \in UserIds \ {u} :
             /\ row.email # NoContact => users[v].email # row.email
             /\ row.phone # NoContact => users[v].phone # row.phone
        BY <2>1, <2>2
    <2>4. users' = [users EXCEPT ![u] = row]
        BY <1>2
    <2> HIDE DEF row
    <2> QED
        BY <1>0, <2>3, <2>4, ApartRow
<1>3. CASE UNCHANGED vars \/ \E i \in Invitations : Expire(i)
    BY <1>1, <1>3 DEF vars, Expire
<1>4. CASE Register
    <2>1. PICK u \in UserIds, e \in Emails, p \in PatchPhones \cup {NoContact} :
            /\ ~Taken(e) /\ (p = NoContact \/ ~Taken(p))
            /\ users' = [users EXCEPT ![u] =
                  [role |-> "SEARCHER", active |-> TRUE, email |-> e, phone |-> p]]
        BY <1>4 DEF Register
    <2> DEFINE row == [role |-> "SEARCHER", active |-> TRUE, email |-> e, phone |-> p]
    <2>2. \A v \in UserIds \ {u} :
             /\ row.email # NoContact => users[v].email # row.email
             /\ row.phone # NoContact => users[v].phone # row.phone
        BY <2>1 DEF Taken
    <2>3. users' = [users EXCEPT ![u] = row]
        BY <2>1
    <2> HIDE DEF row
    <2> QED
        BY <1>0, <2>2, <2>3, ApartRow
<1>5. ASSUME NEW s \in Sessions, Start(s) \/ Rollback(s)
      PROVE  ContactsApart'
    <2>1. UNCHANGED db
        BY <1>5 DEF Start, StartInvite, StartRevoke, StartAccept, StartPatch, StartBootstrap, Begin,
           Rollback
    <2> QED
        BY <1>1, <2>1 DEF db
<1>6. ASSUME NEW s \in Sessions, Handle(s), ~Rollback(s)
      PROVE  ContactsApart'
    <2> DEFINE t == tx[s]
    <2>1. CASE CreateAccount(s)
        <3>1. PICK u \in UserIds :
                users' = [users EXCEPT ![u] = NewUser(invitations[t.inv].role, t.contact)]
            BY <1>6, <2>1 DEF CreateAccount
        <3>2. ~Taken(t.contact)
            BY <1>6, <2>1 DEF CreateAccount, UniqueContact
        <3> QED
            BY <1>2, <3>1, <3>2
    <2>2. CASE InsertOwner(s)
        BY <1>2, <1>6, <2>2 DEF InsertOwner, OwnerInsertable
    <2>3. CASE ApplyPatch(s)
        <3>1. t.target \in UserIds
            BY <2>3, TransactionCases DEF ApplyPatch, At, Patching, Isolated
        <3>2. users' = [users EXCEPT ![t.target] = Patched(t)] /\ PhoneFree(t)
            BY <1>6, <2>3 DEF ApplyPatch
        <3>3. /\ Patched(t).email = users[t.target].email
              /\ Patched(t).phone \in {users[t.target].phone, t.contact}
              /\ t.contact = NoContact => Patched(t).phone = users[t.target].phone
            BY <1>0, <3>1 DEF Patched, UserRow
        <3>4. \A v \in UserIds \ {t.target} :
                 /\ Patched(t).email # NoContact => users[v].email # Patched(t).email
                 /\ Patched(t).phone # NoContact => users[v].phone # Patched(t).phone
            BY <3>1, <3>2, <3>3 DEF ContactsApart, PhoneFree
        <3> HIDE DEF t
        <3> QED
            BY <1>0, <3>1, <3>2, <3>4, ApartRow
    <2>4. CASE InsertInvitation(s) \/ RevokeInvitation(s)
        BY <1>1, <1>6, <2>4 DEF InsertInvitation, RevokeInvitation
    <2>5. CASE \/ InviteLocksActor(s) \/ InviteLocksContact(s) \/ InviteChecksContact(s)
               \/ RevokeLocksActor(s)
               \/ AcceptLocksInvitation(s) \/ AcceptLocksContact(s) \/ AcceptLocksInviter(s)
               \/ AcceptChecksContact(s) \/ PatchLocksFirst(s) \/ PatchLocksSecond(s)
        BY <1>1, <1>6, <2>5 DEF InviteLocksActor, InviteLocksContact, InviteChecksContact,
           RevokeLocksActor, AcceptLocksInvitation, AcceptLocksContact, AcceptLocksInviter,
           AcceptChecksContact, PatchLocksFirst, PatchLocksSecond, LockLastRow, Acquire, db
    <2> QED
        BY <1>6, <2>1, <2>2, <2>3, <2>4, <2>5 DEF Handle
<1> QED
    BY <1>3, <1>4, <1>5, <1>6 DEF Next, Fail, DeadlockVictim

\* Neither a registration nor a PATCH that comes between an acceptance's check
\* and its INSERT makes two accounts share a contact, for any number of them.
THEOREM NoSharedContact == Spec => []ContactsApart
<1>1. Init => ContactsApart
    BY DEF Init, ContactsApart, NoRow
<1> QED
    BY <1>1, InitIsolated, NextIsolated, NextApart, PTL DEF Spec

-----------------------------------------------------------------------------
(* Part 7.  PATCHes alone never wait for each other in a circle.           *)

\* A lock belongs to a request in progress, and a PATCH that still waits for
\* its second row has locked nothing but its first.
LocksExplained ==
    \A l \in locks :
        LET t == tx[l.by] IN
        /\ t.op # "idle"
        /\ t.op = "patch" =>
              /\ t.at # "first row"
              /\ t.at = "second row" => l.on = <<"user", RowOrder(t)[1]>>

\* A step changes the request of one session only.
LEMMA OthersExplained ==
    ASSUME Shape, LocksExplained, NEW s \in Sessions, NEW l \in locks, l.by # s,
           \E t : tx' = [tx EXCEPT ![s] = t]
    PROVE  tx'[l.by] = tx[l.by]
BY DEF Shape, TypeOK, Lock

LEMMA EndExplained ==
    ASSUME Shape, LocksExplained, NEW s \in Sessions, End(s)
    PROVE  LocksExplained'
<1>1. \A l \in locks' : l \in locks /\ tx'[l.by] = tx[l.by]
    BY OthersExplained DEF End
<1> QED
    BY <1>1 DEF LocksExplained, RowOrder

LEMMA BeginExplained ==
    ASSUME Shape, LocksExplained, NEW s \in Sessions, NEW t, Begin(s, t)
    PROVE  LocksExplained'
<1>0. tx[s].op = "idle"
    BY DEF Begin, Idle
<1>1. \A l \in locks : l.by # s
    BY <1>0 DEF LocksExplained
<1>2. \A l \in locks' : l \in locks /\ tx'[l.by] = tx[l.by]
    BY <1>1, OthersExplained DEF Begin
<1> QED
    BY <1>2 DEF LocksExplained, RowOrder

\* A step that leaves the session in a request that may hold what it holds.
LEMMA GoesOnExplained ==
    ASSUME Shape, LocksExplained, NEW s \in Sessions, NEW t,
           tx' = [tx EXCEPT ![s] = t], locks' \subseteq Lock,
           t.op \notin {"idle", "patch"} \/ (t.op = "patch" /\ t.at = "update"),
           \A l \in locks' : l \in locks \/ l.by = s
    PROVE  LocksExplained'
<1> SUFFICES ASSUME NEW l \in locks'
             PROVE  /\ tx'[l.by].op # "idle"
                    /\ tx'[l.by].op = "patch" =>
                          /\ tx'[l.by].at # "first row"
                          /\ tx'[l.by].at = "second row" => l.on = <<"user", RowOrder(tx'[l.by])[1]>>
    BY DEF LocksExplained, RowOrder
<1>1. CASE l.by = s
    BY <1>1 DEF Shape, TypeOK
<1>2. CASE l.by # s
    <2>1. l \in locks /\ tx'[l.by] = tx[l.by]
        BY <1>2, OthersExplained
    <2> QED
        BY <2>1 DEF LocksExplained
<1> QED
    BY <1>1, <1>2

\* The lock on the first row is the first a PATCH takes.
LEMMA FirstRowExplained ==
    ASSUME Shape, LocksExplained, NEW s \in Sessions, At(s, "patch", "first row"),
           Acquire(s, Goto(s, "second row"))
    PROVE  LocksExplained'
<1> DEFINE own == [by |-> s, mode |-> Wanted(s)[1], on |-> Wanted(s)[2]]
           t == Goto(s, "second row")
<1>1. \A l \in locks : l.by # s
    BY DEF LocksExplained, At
<1>2. tx[s] \in Patching
    BY TransactionCases DEF At
<1>3. t.op = "patch" /\ t.at = "second row" /\ RowOrder(t) = RowOrder(tx[s])
    BY <1>2 DEF Goto, Patching, RowOrder
<1>4. own.by = s /\ own.on = <<"user", RowOrder(t)[1]>>
    BY <1>3 DEF Wanted, At
<1>5. tx'[s] = t /\ locks' = locks \cup {own}
    BY DEF Acquire, Shape, TypeOK
<1> HIDE DEF own, t
<1> SUFFICES ASSUME NEW l \in locks'
             PROVE  /\ tx'[l.by].op # "idle"
                    /\ tx'[l.by].op = "patch" =>
                          /\ tx'[l.by].at # "first row"
                          /\ tx'[l.by].at = "second row" => l.on = <<"user", RowOrder(tx'[l.by])[1]>>
    BY DEF LocksExplained, RowOrder
<1>6. CASE l \in locks
    <2>1. tx'[l.by] = tx[l.by]
        BY <1>1, <1>6, OthersExplained DEF Acquire
    <2> QED
        BY <1>6, <2>1 DEF LocksExplained
<1>7. CASE l = own
    BY <1>3, <1>4, <1>5, <1>7
<1> QED
    BY <1>5, <1>6, <1>7

LEMMA AcquireExplained ==
    ASSUME Shape, LocksExplained, NEW s \in Sessions, tx[s].at \in WaitPoints,
           NEW t, Acquire(s, t), t.op \notin {"idle", "patch"} \/ (t.op = "patch" /\ t.at = "update")
    PROVE  LocksExplained'
<1>1. locks' \subseteq Lock
    BY WantedTyped DEF Acquire, Shape, TypeOK
<1>2. \A l \in locks' : l \in locks \/ l.by = s
    BY DEF Acquire
<1> QED
    BY <1>1, <1>2, GoesOnExplained DEF Acquire

LEMMA GotoOp ==
    ASSUME Shape, NEW s \in Sessions, NEW at
    PROVE  Goto(s, at).op = tx[s].op /\ Goto(s, at).at = at
<1>1. \/ tx[s] = Idle \/ tx[s] \in Inviting \/ tx[s] \in Revoking \/ tx[s] \in Accepting
      \/ tx[s] \in Patching \/ tx[s] \in Bootstrapping
    BY TransactionCases DEF Transaction
<1>2. CASE tx[s] = Idle
    BY <1>2 DEF Goto, Idle
<1>3. CASE tx[s] \in Inviting
    BY <1>3 DEF Goto, Inviting
<1>4. CASE tx[s] \in Revoking
    BY <1>4 DEF Goto, Revoking
<1>5. CASE tx[s] \in Accepting
    BY <1>5 DEF Goto, Accepting
<1>6. CASE tx[s] \in Patching
    BY <1>6 DEF Goto, Patching
<1>7. CASE tx[s] \in Bootstrapping
    BY <1>7 DEF Goto, Bootstrapping
<1> QED
    BY <1>1, <1>2, <1>3, <1>4, <1>5, <1>6, <1>7

LEMMA HandleExplained ==
    ASSUME Shape, LocksExplained, NEW s \in Sessions, Handle(s)
    PROVE  LocksExplained'
<1>1. CASE End(s)
    BY <1>1, EndExplained
<1>2. CASE (InviteChecksContact(s) \/ AcceptChecksContact(s)) /\ ~End(s)
    <2>1. PICK at : /\ tx[s].op \in {"invite", "accept"}
                    /\ tx' = [tx EXCEPT ![s] = Goto(s, at)] /\ locks' = locks
                    /\ locks' \subseteq Lock
        BY <1>2 DEF InviteChecksContact, AcceptChecksContact, Rollback, At, Shape, TypeOK
    <2>2. Goto(s, at).op \notin {"idle", "patch"}
        BY <2>1, GotoOp
    <2> HIDE DEF Goto
    <2> QED
        BY <2>1, <2>2, GoesOnExplained
<1>3. CASE AcceptLocksInvitation(s) /\ ~End(s)
    <2> DEFINE t == [tx[s] EXCEPT !.at = "contact", !.contact = invitations[tx[s].inv].contact]
    <2>1. At(s, "accept", "invitation") /\ Acquire(s, t)
        BY <1>3 DEF AcceptLocksInvitation, Rollback
    <2>2. t.op \notin {"idle", "patch"} /\ tx[s].at \in WaitPoints
        BY <2>1, TransactionCases DEF At, Accepting, WaitPoints
    <2> HIDE DEF t
    <2> QED
        BY <2>1, <2>2, AcquireExplained
<1>4. CASE /\ ~End(s)
           /\ \/ InviteLocksActor(s) \/ InviteLocksContact(s) \/ RevokeLocksActor(s)
              \/ AcceptLocksContact(s) \/ AcceptLocksInviter(s)
    <2>1. tx[s].op \in {"invite", "revoke", "accept"} /\ tx[s].at \in WaitPoints
        BY <1>4 DEF InviteLocksActor, InviteLocksContact, RevokeLocksActor, AcceptLocksContact,
           AcceptLocksInviter, At, WaitPoints
    <2>2. PICK at : Acquire(s, Goto(s, at))
        BY <1>4 DEF InviteLocksActor, InviteLocksContact, RevokeLocksActor, AcceptLocksContact,
           AcceptLocksInviter, Rollback
    <2>3. Goto(s, at).op \notin {"idle", "patch"}
        BY <2>1, GotoOp
    <2> QED
        BY <2>1, <2>2, <2>3, AcquireExplained
<1>5. CASE PatchLocksFirst(s) /\ ~End(s)
    <2>1. At(s, "patch", "first row") /\ tx[s].at \in WaitPoints
        BY <1>5 DEF PatchLocksFirst, At, WaitPoints
    <2>2. Acquire(s, Goto(s, "second row")) \/ Acquire(s, Goto(s, "update"))
        BY <1>5 DEF PatchLocksFirst, LockLastRow, Rollback
    <2> QED
        BY <2>1, <2>2, GotoOp, AcquireExplained, FirstRowExplained DEF At
<1>6. CASE PatchLocksSecond(s) /\ ~End(s)
    <2>1. At(s, "patch", "second row") /\ tx[s].at \in WaitPoints /\ Acquire(s, Goto(s, "update"))
        BY <1>6 DEF PatchLocksSecond, LockLastRow, Rollback, At, WaitPoints
    <2> QED
        BY <2>1, GotoOp, AcquireExplained DEF At
<1>7. CASE InsertInvitation(s) \/ RevokeInvitation(s) \/ CreateAccount(s) \/ ApplyPatch(s) \/ InsertOwner(s)
    BY <1>1, <1>7 DEF InsertInvitation, RevokeInvitation, CreateAccount, ApplyPatch, InsertOwner, Rollback
<1> QED
    BY <1>1, <1>2, <1>3, <1>4, <1>5, <1>6, <1>7 DEF Handle

LEMMA NextExplained == Shape /\ LocksExplained /\ [Next]_vars => LocksExplained'
<1> SUFFICES ASSUME Shape, LocksExplained, [Next]_vars PROVE LocksExplained'
    OBVIOUS
<1>1. CASE UNCHANGED vars \/ Register \/ \E i \in Invitations : Expire(i)
    <2>1. tx' = tx /\ locks' = locks
        BY <1>1 DEF vars, Register, Expire
    <2> QED
        BY <2>1 DEF LocksExplained, RowOrder
<1>2. ASSUME NEW s \in Sessions, Start(s)
      PROVE  LocksExplained'
    BY <1>2, BeginExplained DEF Start, StartInvite, StartRevoke, StartAccept, StartPatch, StartBootstrap
<1>3. ASSUME NEW s \in Sessions, Fail(s) \/ DeadlockVictim(s)
      PROVE  LocksExplained'
    BY <1>3, EndExplained DEF Fail, DeadlockVictim, Rollback
<1> QED
    BY <1>1, <1>2, <1>3, HandleExplained DEF Next

Waiting(s) == tx[s].op = "patch" /\ ~Grantable(s)

FirstRow(s) == RowOrder(tx[s])[1]

SecondRow(s) == RowOrder(tx[s])[2]

\* A waiting PATCH waits for one of its two rows.
LEMMA WaitingPatch ==
    ASSUME Shape, NEW s \in Sessions, Waiting(s)
    PROVE  /\ At(s, "patch", "first row") \/ At(s, "patch", "second row")
           /\ FirstRow(s) \in Nat /\ SecondRow(s) \in Nat /\ FirstRow(s) <= SecondRow(s)
<1>1. tx[s] \in Patching
    BY TransactionCases DEF Waiting
<1>2. tx[s].actor \in Nat /\ tx[s].target \in Nat
    BY <1>1, UserIdsAssumption DEF Patching
<1>3. PICK t \in Sessions : WaitsFor(s, t)
    BY DEF Waiting, Grantable
<1>4. \E l \in Lock : l.on = Wanted(s)[2]
    BY <1>3 DEF WaitsFor, Conflicts, Shape, TypeOK
<1>5. ASSUME At(s, "patch", "update") PROVE FALSE
    <2>1. Wanted(s)[2] = <<>>
        BY <1>5 DEF Wanted, At
    <2> QED
        BY <1>4, <2>1 DEF Lock, Lockable
<1>6. At(s, "patch", "first row") \/ At(s, "patch", "second row")
    BY <1>1, <1>5 DEF Patching, At
<1>7. FirstRow(s) \in Nat /\ SecondRow(s) \in Nat /\ FirstRow(s) <= SecondRow(s)
    BY <1>2 DEF FirstRow, SecondRow, RowOrder
<1> QED
    BY <1>6, <1>7

\* A PATCH that makes another PATCH wait, while it waits itself, holds only its
\* first row: that is the row the other one wants.
LEMMA WaitedForPatch ==
    ASSUME Shape, LocksExplained, NEW s \in Sessions, NEW t \in Sessions,
           Waiting(s), Waiting(t), WaitsFor(s, t)
    PROVE  /\ At(t, "patch", "second row")
           /\ At(s, "patch", "first row") => FirstRow(s) = FirstRow(t)
           /\ At(s, "patch", "second row") => SecondRow(s) = FirstRow(t)
<1>1. PICK l \in locks : l.by = t /\ l.on = Wanted(s)[2]
    BY DEF WaitsFor, Conflicts
<1>2. At(t, "patch", "second row") /\ l.on = <<"user", FirstRow(t)>>
    BY <1>1, WaitingPatch DEF LocksExplained, At, FirstRow
<1>3. CASE At(s, "patch", "first row")
    <2>1. Wanted(s)[2] = <<"user", FirstRow(s)>>
        BY <1>3 DEF Wanted, At, FirstRow
    <2>2. ~At(s, "patch", "second row")
        BY <1>3 DEF At
    <2>3. <<"user", FirstRow(s)>> = <<"user", FirstRow(t)>>
        BY <1>1, <1>2, <2>1
    <2> QED
        BY <1>2, <2>2, <2>3
<1>4. CASE At(s, "patch", "second row")
    <2>1. Wanted(s)[2] = <<"user", SecondRow(s)>>
        BY <1>4 DEF Wanted, At, SecondRow
    <2>2. ~At(s, "patch", "first row")
        BY <1>4 DEF At
    <2>3. <<"user", SecondRow(s)>> = <<"user", FirstRow(t)>>
        BY <1>1, <1>2, <2>1
    <2> QED
        BY <1>2, <2>2, <2>3
<1> QED
    BY <1>2, <1>3, <1>4, WaitingPatch

\* In a finite set of sessions that each wait for another, everyone is waited
\* for.
LEMMA EveryoneWaitedFor ==
    ASSUME NEW D, IsFiniteSet(D), NEW f \in [D -> D], \A d, e \in D : f[d] = f[e] => d = e
    PROVE  \A e \in D : \E d \in D : f[d] = e
<1>1. f \in Injection(D, D)
    BY DEF Injection, IsInjective
<1>2. f \in Surjection(D, D)
    BY <1>1, FS_Injection
<1> QED
    BY <1>2 DEF Surjection

\* A set of natural numbers that is not empty has a smallest member.
LEMMA SmallestExists ==
    ASSUME NEW R \in SUBSET Nat, R # {}
    PROVE  \E m \in R : \A n \in R : ~(n < m)
<1> DEFINE Less == {p \in Nat \X Nat : p[1] < p[2]}
<1>1. IsWellFoundedOn(Less, Nat)
    BY NatLessThanWellFounded DEF OpToRel
<1>2. \A m, n \in R : n < m => <<n, m>> \in Less
    OBVIOUS
<1> HIDE DEF Less
<1>3. \E m \in R : \A n \in R : <<n, m>> \notin Less
    BY <1>1, WFMin
<1> QED
    BY <1>2, <1>3

LEMMA NoCircle ==
    ASSUME Isolated, LocksExplained, NEW D \in SUBSET {s \in Sessions : Waiting(s)}, WaitCycle(D)
    PROVE  D = {}
<1> SUFFICES ASSUME D # {} PROVE FALSE
    OBVIOUS
<1>1. PICK f \in [D -> D] : /\ \A d \in D : WaitsFor(d, f[d])
                            /\ \A d, e \in D : f[d] = f[e] => d = e
    BY DEF WaitCycle
<1>2. IsFiniteSet(D)
    BY SessionsAssumption, FS_Subset
<1>3. \A e \in D : \E d \in D : f[d] = e
    BY <1>1, <1>2, EveryoneWaitedFor
<1>4. ASSUME NEW e \in D PROVE At(e, "patch", "second row")
    <2>1. PICK d \in D : f[d] = e
        BY <1>3
    <2>2. WaitsFor(d, e)
        BY <1>1, <2>1
    <2> QED
        BY <2>2, WaitedForPatch DEF Isolated
<1>5. \A d \in D : SecondRow(d) = FirstRow(f[d])
    BY <1>1, <1>4, WaitedForPatch DEF Isolated
<1>6. ASSUME NEW d \in D PROVE FirstRow(d) \in Nat /\ SecondRow(d) \in Nat /\ FirstRow(d) < SecondRow(d)
    <2>1. FirstRow(d) \in Nat /\ SecondRow(d) \in Nat
        BY WaitingPatch DEF Isolated
    <2>2. tx[d].actor # tx[d].target
        BY <1>4 DEF Isolated, Guarded, PatchGuarded
    <2>3. tx[d].actor \in Nat /\ tx[d].target \in Nat
        BY TransactionCases, UserIdsAssumption DEF Isolated, Waiting, Patching
    <2> QED
        BY <2>1, <2>2, <2>3 DEF FirstRow, SecondRow, RowOrder
<1>7. PICK d \in D : \A e \in D : ~(FirstRow(e) < FirstRow(d))
    <2>1. {FirstRow(e) : e \in D} \in SUBSET Nat /\ {FirstRow(e) : e \in D} # {}
        BY <1>6
    <2> QED
        BY <2>1, SmallestExists
<1>8. PICK e \in D : f[e] = d
    BY <1>3
<1> QED
    BY <1>5, <1>6, <1>7, <1>8

\* PATCH requests lock their two rows in the order of their ids, so however
\* many run at once they never wait for each other in a circle.
THEOREM NoPatchDeadlock == Spec => []PatchesNeverDeadlock
<1>1. Init => LocksExplained
    BY DEF Init, LocksExplained
<1>2. Isolated /\ LocksExplained => PatchesNeverDeadlock
    BY NoCircle DEF PatchesNeverDeadlock, Waiting
<1>3. Isolated => Shape
    BY DEF Isolated
<1> QED
    BY <1>1, <1>2, <1>3, InitIsolated, NextIsolated, NextExplained, PTL DEF Spec

=============================================================================
