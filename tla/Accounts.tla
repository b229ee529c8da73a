------------------------------ MODULE Accounts ------------------------------
(***************************************************************************)
(* Accounts, invitations and the owner bootstrap of the server             *)
(* (server/src/routes/users.ts, routes/auth.ts, sql/005, 006 and 009) over *)
(* PostgreSQL at READ COMMITTED.                                           *)
(*                                                                         *)
(* A session is a database connection serving one request at a time.  The  *)
(* variables users, invitations, bootstrapped and lastEvent are COMMITTED   *)
(* state.  A handler is a sequence of steps separated by the places where   *)
(* it may wait or be overtaken: one step per lock it takes, and a last step *)
(* in which it re-checks, writes and commits (nothing it wrote is visible   *)
(* before COMMIT, and every row it read for the decision is locked by then  *)
(* or re-read in that step).  A refusal or an error is a ROLLBACK, which    *)
(* drops the session's locks and nothing else.  Requests that the           *)
(* preHandler or the body schema refuses change nothing and are left out.   *)
(***************************************************************************)
EXTENDS Rbac, Naturals, FiniteSets

CONSTANTS
    UserIds,            \* primary keys of users, ordered as ORDER BY id orders them
    Emails, Phones,     \* the two kinds of contact
    Invitations,        \* primary keys of user_invitations
    Sessions,           \* database connections
    OwnerEmails,        \* what operators pass to the bootstrap script
    InviteRoles, InviteContacts,        \* what clients ask for
    PatchRoles, PatchActives, PatchPhones,
    PublicRegistration  \* ALLOW_PUBLIC_REGISTRATION

Contacts == Emails \cup Phones

NoUser == 0
NoContact == "no contact"
NoInvitation == "no invitation"
Keep == "keep"          \* a field the PATCH body leaves out

ASSUME UserIdsAssumption == UserIds \subseteq Nat \ {NoUser}
ASSUME ContactsAssumption ==
    /\ NoContact \notin Contacts
    /\ Keep \notin Phones
    /\ OwnerEmails \subseteq Emails
    /\ InviteContacts \subseteq Contacts
    /\ PatchPhones \subseteq Phones
ASSUME RolesAssumption ==
    /\ InviteRoles \subseteq InvitationRoles
    /\ PatchRoles \subseteq Role
ASSUME ActivesAssumption == PatchActives \subseteq {"on", "off"}
\* The pool opens a bounded number of connections.
ASSUME SessionsAssumption == IsFiniteSet(Sessions)
ASSUME RegistrationAssumption == PublicRegistration \in BOOLEAN

VARIABLES
    users,          \* the users table
    invitations,    \* the user_invitations table
    bootstrapped,   \* system_bootstrap.completed_at IS NOT NULL
    lastEvent,      \* the newest row of the events table
    tx,             \* what each session is doing
    locks           \* row locks and transaction-level advisory locks

db == <<users, invitations, bootstrapped, lastEvent>>
vars == <<users, invitations, bootstrapped, lastEvent, tx, locks>>

-----------------------------------------------------------------------------
(* Rows.                                                                   *)

NoRole == "no role"     \* marks a primary key that no row has yet

NoRow == [role |-> NoRole, active |-> FALSE, email |-> NoContact, phone |-> NoContact]

UserRow == [role: Role \cup {NoRole}, active: BOOLEAN,
            email: Emails \cup {NoContact}, phone: Phones \cup {NoContact}]

Unissued == [role |-> NoRole, contact |-> NoContact, by |-> NoUser,
             expired |-> FALSE, accepted |-> FALSE, revoked |-> FALSE, user |-> NoUser]

InvitationRow == {Unissued} \cup
    [role: InvitationRoles, contact: Contacts, by: UserIds, expired: BOOLEAN,
     accepted: BOOLEAN, revoked: BOOLEAN, user: UserIds \cup {NoUser}]

NoEvent == [type |-> "none", by |-> NoUser, subject |-> NoUser]

Event == [type: {"none", "USER_UPDATED"}, by: UserIds \cup {NoUser}, subject: UserIds \cup {NoUser}]
    \cup [type: {"USER_INVITED", "USER_INVITATION_REVOKED", "USER_INVITATION_ACCEPTED"},
          by: UserIds, subject: Invitations]

Exists(u) == users[u].role # NoRole

Issued(i) == invitations[i].role # NoRole

Pending(i) == Issued(i) /\ ~invitations[i].accepted /\ ~invitations[i].revoked

Taken(c) == \E u \in UserIds : c \in {users[u].email, users[u].phone}

IsActiveOwner(u) == users[u].role = "SYSTEM_OWNER" /\ users[u].active

MayInvite(u, role) == users[u].active /\ CanAssignRole(users[u].role, role)

IsActiveAdmin(u) == users[u].active /\ users[u].role \in AdminRoles

-----------------------------------------------------------------------------
(* Sessions and locks.                                                     *)

Idle == [op |-> "idle", at |-> "idle", actor |-> NoUser, target |-> NoUser,
         inv |-> NoInvitation, role |-> Keep, active |-> Keep,
         contact |-> NoContact, dead |-> {}]

Lockable == ({"user"} \X UserIds) \cup ({"invitation"} \X Invitations)
                \cup ({"contact"} \X Contacts)

Lock == [by: Sessions, mode: {"share", "update"}, on: Lockable]

\* Mutant: the rows are locked in the order the array names them.
RowsAsNamed(t) == <<t.actor, t.target>>

\* ORDER BY id
RowOrder(t) == IF t.actor <= t.target THEN <<t.actor, t.target>> ELSE <<t.target, t.actor>>

\* The lock a session asks for next, as <<mode, object>>; none at its other
\* steps.
Wanted(s) ==
    LET t == tx[s] IN
    CASE t.at = "actor" -> <<"share", <<"user", t.actor>>>>
      [] t.at = "inviter" -> <<"share", <<"user", invitations[t.inv].by>>>>
      [] t.at = "invitation" -> <<"update", <<"invitation", t.inv>>>>
      [] t.at = "contact" -> <<"update", <<"contact", t.contact>>>>
      [] t.at = "first row" -> <<"update", <<"user", RowOrder(t)[1]>>>>
      [] t.at = "second row" -> <<"update", <<"user", RowOrder(t)[2]>>>>
      [] OTHER -> <<"none", <<>>>>

\* l keeps session s from a lock on obj in the given mode.
Conflicts(l, s, mode, obj) ==
    l.by # s /\ l.on = obj /\ "update" \in {mode, l.mode}

WaitsFor(s, t) == \E l \in locks : l.by = t /\ Conflicts(l, s, Wanted(s)[1], Wanted(s)[2])

Grantable(s) == \A t \in Sessions : ~WaitsFor(s, t)

\* The transaction takes the lock it wants and goes on.
Acquire(s, next) ==
    /\ locks' = locks \cup {[by |-> s, mode |-> Wanted(s)[1], on |-> Wanted(s)[2]]}
    /\ tx' = [tx EXCEPT ![s] = next]
    /\ UNCHANGED db

\* COMMIT or ROLLBACK: the session is free again and its locks are gone.
End(s) ==
    /\ tx' = [tx EXCEPT ![s] = Idle]
    /\ locks' = {l \in locks : l.by # s}

\* Mutant: the error path releases the client without ROLLBACK.
ReleaseOnly(s) == tx' = [tx EXCEPT ![s] = Idle] /\ UNCHANGED <<db, locks>>

Rollback(s) == End(s) /\ UNCHANGED db

Begin(s, t) ==
    /\ tx[s] = Idle
    /\ tx' = [tx EXCEPT ![s] = t]
    /\ UNCHANGED <<db, locks>>

At(s, op, at) == tx[s].op = op /\ tx[s].at = at

Goto(s, at) == [tx[s] EXCEPT !.at = at]

\* The audit row written in the same transaction.
Record(type, by, subject) == lastEvent' = [type |-> type, by |-> by, subject |-> subject]

-----------------------------------------------------------------------------
Init ==
    /\ users = [u \in UserIds |-> NoRow]
    /\ invitations = [i \in Invitations |-> Unissued]
    /\ bootstrapped = FALSE
    /\ lastEvent = NoEvent
    /\ tx = [s \in Sessions |-> Idle]
    /\ locks = {}

-----------------------------------------------------------------------------
(* POST /api/v1/users/invitations                                          *)

\* The preHandler authenticated the actor and the role ceiling was checked on
\* its claims; the transaction begins, and now() stays what it is here.
StartInvite(s) ==
    \E a \in UserIds, i \in Invitations, r \in InviteRoles, c \in InviteContacts :
        /\ IsActiveAdmin(a)
        /\ CanAssignRole(users[a].role, r)
        /\ ~Issued(i)
        /\ \A t \in Sessions : ~(tx[t].op = "invite" /\ tx[t].inv = i)
        /\ Begin(s, [Idle EXCEPT !.op = "invite", !.at = "actor", !.actor = a, !.inv = i,
                                 !.role = r, !.contact = c,
                                 !.dead = {j \in Invitations : invitations[j].expired}])

InviteLocksActor(s) ==
    /\ At(s, "invite", "actor")
    /\ Grantable(s)
    /\ IF MayInvite(tx[s].actor, tx[s].role)
         THEN Acquire(s, Goto(s, "contact"))
         ELSE Rollback(s)

\* Mutant: no advisory lock on the contact.
InviteIgnoresContact(s) ==
    /\ At(s, "invite", "contact")
    /\ tx' = [tx EXCEPT ![s].at = "check"]
    /\ UNCHANGED <<db, locks>>

InviteLocksContact(s) ==
    /\ At(s, "invite", "contact")
    /\ Grantable(s)
    /\ Acquire(s, Goto(s, "check"))

\* expires_at > now() is evaluated at the time the transaction began.
ContactInUse(c, dead) ==
    \/ Taken(c)
    \/ \E i \in Invitations \ dead : Pending(i) /\ invitations[i].contact = c

InviteChecksContact(s) ==
    /\ At(s, "invite", "check")
    /\ IF ContactInUse(tx[s].contact, tx[s].dead)
         THEN Rollback(s)
         ELSE /\ tx' = [tx EXCEPT ![s] = Goto(s, "insert")]
              /\ UNCHANGED <<db, locks>>

InsertInvitation(s) ==
    /\ At(s, "invite", "insert")
    /\ LET t == tx[s] IN
       /\ invitations' = [invitations EXCEPT ![t.inv] =
              [Unissued EXCEPT !.role = t.role, !.contact = t.contact, !.by = t.actor]]
       /\ Record("USER_INVITED", t.actor, t.inv)
    /\ End(s)
    /\ UNCHANGED <<users, bootstrapped>>

-----------------------------------------------------------------------------
(* DELETE /api/v1/users/invitations/:id                                    *)

StartRevoke(s) ==
    \E a \in UserIds, i \in Invitations :
        /\ IsActiveAdmin(a)
        /\ Issued(i)
        /\ Begin(s, [Idle EXCEPT !.op = "revoke", !.at = "actor", !.actor = a, !.inv = i])

RevokeLocksActor(s) ==
    /\ At(s, "revoke", "actor")
    /\ Grantable(s)
    /\ IF IsActiveAdmin(tx[s].actor)
         THEN Acquire(s, Goto(s, "invitation"))
         ELSE Rollback(s)

\* The UPDATE waits for the row, re-evaluates its WHERE clause and commits.
RevokeInvitation(s) ==
    /\ At(s, "revoke", "invitation")
    /\ Grantable(s)
    /\ LET t == tx[s] IN
       IF Pending(t.inv)
         THEN /\ invitations' = [invitations EXCEPT ![t.inv].revoked = TRUE]
              /\ Record("USER_INVITATION_REVOKED", t.actor, t.inv)
              /\ End(s)
              /\ UNCHANGED <<users, bootstrapped>>
         ELSE Rollback(s)

-----------------------------------------------------------------------------
(* POST /api/v1/auth/accept-invitation                                     *)

\* The preview, the bcrypt hash and BEGIN.
StartAccept(s) ==
    \E i \in Invitations :
        /\ Pending(i) /\ ~invitations[i].expired
        /\ Begin(s, [Idle EXCEPT !.op = "accept", !.at = "invitation", !.inv = i])

\* Mutant: the preview is trusted once the row is locked.
AcceptTrustsPreview(s) ==
    /\ At(s, "accept", "invitation")
    /\ Grantable(s)
    /\ Acquire(s, [tx[s] EXCEPT !.at = "contact", !.contact = invitations[tx[s].inv].contact])

\* SELECT ... FOR UPDATE sees the row as the last holder left it.  now() is
\* BEGIN's, so an invitation that was alive then still is.
AcceptLocksInvitation(s) ==
    /\ At(s, "accept", "invitation")
    /\ Grantable(s)
    /\ IF Pending(tx[s].inv)
         THEN Acquire(s, [tx[s] EXCEPT !.at = "contact",
                                       !.contact = invitations[tx[s].inv].contact])
         ELSE Rollback(s)

AcceptLocksContact(s) ==
    /\ At(s, "accept", "contact")
    /\ Grantable(s)
    /\ Acquire(s, Goto(s, "inviter"))

\* Mutant: the inviter is read without FOR SHARE.
AcceptReadsInviter(s) ==
    /\ At(s, "accept", "inviter")
    /\ MayInvite(invitations[tx[s].inv].by, invitations[tx[s].inv].role)
    /\ tx' = [tx EXCEPT ![s].at = "check"]
    /\ UNCHANGED <<db, locks>>

AcceptLocksInviter(s) ==
    /\ At(s, "accept", "inviter")
    /\ Grantable(s)
    /\ LET i == tx[s].inv IN
       IF MayInvite(invitations[i].by, invitations[i].role)
         THEN Acquire(s, Goto(s, "check"))
         ELSE Rollback(s)

\* The look for an account with the contact.  It locks nothing, and neither
\* registrations nor PATCHes ask for the advisory lock.
AcceptChecksContact(s) ==
    /\ At(s, "accept", "check")
    /\ IF Taken(tx[s].contact)
         THEN Rollback(s)
         ELSE /\ tx' = [tx EXCEPT ![s] = Goto(s, "create")]
              /\ UNCHANGED <<db, locks>>

\* A row for contact c, which is an email or a phone number.
NewUser(role, c) ==
    [role |-> role, active |-> TRUE,
     email |-> IF c \in Emails THEN c ELSE NoContact,
     phone |-> IF c \in Emails THEN NoContact ELSE c]

\* Mutant: the check is all that keeps contacts apart.
NoIndex(c) == TRUE

\* users.email and users.phone are UNIQUE.
UniqueContact(c) == ~Taken(c)

\* INSERT INTO users, the invitation, the event, COMMIT.
CreateAccount(s) ==
    /\ At(s, "accept", "create")
    /\ LET i == tx[s].inv
           c == tx[s].contact
       IN \/ /\ UniqueContact(c)
             /\ \E u \in UserIds :
                  /\ ~Exists(u)
                  /\ users' = [users EXCEPT ![u] = NewUser(invitations[i].role, c)]
                  /\ invitations' = [invitations EXCEPT ![i].accepted = TRUE, ![i].user = u]
                  /\ Record("USER_INVITATION_ACCEPTED", u, i)
             /\ End(s)
             /\ UNCHANGED bootstrapped
          \/ /\ ~UniqueContact(c) \/ \A u \in UserIds : Exists(u)    \* UserIds bounds the table
             /\ Rollback(s)

-----------------------------------------------------------------------------
(* PATCH /api/v1/users/:id                                                 *)

StartPatch(s) ==
    \E a, u \in UserIds, r \in PatchRoles \cup {Keep}, on \in PatchActives \cup {Keep},
       p \in PatchPhones \cup {NoContact} :
        /\ IsActiveAdmin(a)
        /\ Exists(u)
        /\ <<r, on, p>> # <<Keep, Keep, NoContact>>
        /\ Begin(s, [Idle EXCEPT !.op = "patch", !.at = "first row", !.actor = a,
                                 !.target = u, !.role = r, !.active = on, !.contact = p])

\* Another administrator is active.
AnotherAdmin(u) == \E v \in UserIds \ {u} : IsActiveAdmin(v)

\* Mutant: rank alone decides, with no rule for oneself or for the owner.
PatchAllowedByRank(t) ==
    /\ IsActiveAdmin(t.actor)
    /\ CanManageUser(users[t.actor].role, users[t.target].role)
    /\ t.role # Keep => CanAssignRole(users[t.actor].role, t.role)

\* The rules about the two locked rows.
PatchPermitted(t) ==
    LET self == t.actor = t.target
        current == users[t.target].role
    IN /\ IsActiveAdmin(t.actor)
       /\ CanManageUser(users[t.actor].role, current)
       /\ t.role # Keep => CanAssignRole(users[t.actor].role, t.role)
       /\ ~(self /\ t.active = "off")
       /\ ~(self /\ t.role \notin {Keep, users[t.actor].role})
       /\ ~(current = "SYSTEM_OWNER" /\ (t.active = "off" \/ t.role \notin {Keep, "SYSTEM_OWNER"}))
       /\ ~(t.role = "SYSTEM_OWNER" /\ current # "SYSTEM_OWNER")

\* The last-administrator rule counts rows the handler has not locked.
PatchAllowed(t) ==
    /\ PatchPermitted(t)
    /\ users[t.target].role = "ADMIN" /\ t.active = "off" => AnotherAdmin(t.target)

\* Mutant: the claims the preHandler read decide.
LockLastRowUnread(s) == Acquire(s, Goto(s, "update"))

\* SELECT ... WHERE id = ANY(actor, target) ORDER BY id FOR UPDATE returns the
\* rows once both are locked; the handler decides on what it returned.
LockLastRow(s) ==
    IF PatchAllowed(tx[s]) THEN Acquire(s, Goto(s, "update")) ELSE Rollback(s)

PatchLocksFirst(s) ==
    /\ At(s, "patch", "first row")
    /\ Grantable(s)
    /\ IF tx[s].actor = tx[s].target
         THEN LockLastRow(s)
         ELSE Acquire(s, Goto(s, "second row"))

PatchLocksSecond(s) ==
    /\ At(s, "patch", "second row")
    /\ Grantable(s)
    /\ LockLastRow(s)

\* phone is UNIQUE: the UPDATE fails on a number another row has.
PhoneFree(t) == \A u \in UserIds \ {t.target} : t.contact = NoContact \/ users[u].phone # t.contact

\* Mutant: columns the body leaves out are overwritten.
PatchedWhole(t) ==
    [users[t.target] EXCEPT !.role = t.role, !.active = t.active = "on", !.phone = t.contact]

Patched(t) ==
    LET row == users[t.target] IN
    [row EXCEPT !.role = IF t.role = Keep THEN row.role ELSE t.role,
                !.active = IF t.active = Keep THEN row.active ELSE t.active = "on",
                !.phone = IF t.contact = NoContact THEN row.phone ELSE t.contact]

ApplyPatch(s) ==
    /\ At(s, "patch", "update")
    /\ LET t == tx[s] IN
       IF PhoneFree(t)
         THEN /\ users' = [users EXCEPT ![t.target] = Patched(t)]
              /\ Record("USER_UPDATED", t.actor, t.target)
              /\ End(s)
              /\ UNCHANGED <<invitations, bootstrapped>>
         ELSE Rollback(s)

-----------------------------------------------------------------------------
(* POST /api/v1/auth/register: one INSERT outside any explicit transaction, *)
(* without the advisory lock and without an audit row.                      *)

Register ==
    /\ PublicRegistration
    /\ \E u \in UserIds, e \in Emails, p \in PatchPhones \cup {NoContact} :
        /\ ~Exists(u)
        /\ ~Taken(e) /\ (p = NoContact \/ ~Taken(p))
        /\ users' = [users EXCEPT ![u] =
              [role |-> "SEARCHER", active |-> TRUE, email |-> e, phone |-> p]]
    /\ UNCHANGED <<invitations, bootstrapped, lastEvent, tx, locks>>

-----------------------------------------------------------------------------
(* kukla_bootstrap_system_owner: two existence checks, each with a snapshot *)
(* of its own, and then the inserts; there is no lock between them.         *)

StartBootstrap(s) ==
    /\ ~ \E u \in UserIds : users[u].role \in {"SYSTEM_OWNER", "SUPERADMIN"} /\ users[u].active
    /\ ~bootstrapped
    /\ \E e \in OwnerEmails :
          Begin(s, [Idle EXCEPT !.op = "bootstrap", !.at = "insert", !.contact = e])

\* Mutant: the partial unique index is missing.
OwnerEmailFree(e) == ~Taken(e)

\* users.email and the partial index ux_users_single_system_owner are UNIQUE.
OwnerInsertable(e) == ~Taken(e) /\ \A u \in UserIds : ~IsActiveOwner(u)

InsertOwner(s) ==
    /\ At(s, "bootstrap", "insert")
    /\ \/ /\ OwnerInsertable(tx[s].contact)
          /\ \E u \in UserIds :
                /\ ~Exists(u)
                /\ users' = [users EXCEPT ![u] = NewUser("SYSTEM_OWNER", tx[s].contact)]
          /\ bootstrapped' = TRUE
          /\ End(s)
          /\ UNCHANGED <<invitations, lastEvent>>
       \/ /\ ~OwnerInsertable(tx[s].contact) \/ \A u \in UserIds : Exists(u)
          /\ Rollback(s)

-----------------------------------------------------------------------------
(* The environment.                                                        *)

\* Twenty-four hours pass.
Expire(i) ==
    /\ Pending(i) /\ ~invitations[i].expired
    /\ invitations' = [invitations EXCEPT ![i].expired = TRUE]
    /\ UNCHANGED <<users, bootstrapped, lastEvent, tx, locks>>

\* The process or the connection dies, or a statement fails.
Fail(s) == tx[s] # Idle /\ Rollback(s)

\* D is made of cycles of sessions each waiting for the next.
WaitCycle(D) ==
    \E f \in [D -> D] :
        /\ \A d \in D : WaitsFor(d, f[d])
        /\ \A d, e \in D : f[d] = f[e] => d = e

Deadlocked(s) ==
    \E D \in SUBSET {t \in Sessions : ~Grantable(t)} : s \in D /\ WaitCycle(D)

\* PostgreSQL's deadlock detector fails the statement with 40P01.
DeadlockVictim(s) == Deadlocked(s) /\ Rollback(s)

Handle(s) ==
    \/ InviteLocksActor(s) \/ InviteLocksContact(s)
    \/ InviteChecksContact(s) \/ InsertInvitation(s)
    \/ RevokeLocksActor(s) \/ RevokeInvitation(s)
    \/ AcceptLocksInvitation(s) \/ AcceptLocksContact(s) \/ AcceptLocksInviter(s)
    \/ AcceptChecksContact(s) \/ CreateAccount(s)
    \/ PatchLocksFirst(s) \/ PatchLocksSecond(s) \/ ApplyPatch(s)
    \/ InsertOwner(s)

Start(s) ==
    StartInvite(s) \/ StartRevoke(s) \/ StartAccept(s) \/ StartPatch(s) \/ StartBootstrap(s)

Next ==
    \/ \E s \in Sessions : Start(s) \/ Handle(s) \/ Fail(s) \/ DeadlockVictim(s)
    \/ Register
    \/ \E i \in Invitations : Expire(i)

Spec == Init /\ [][Next]_vars

\* A handler that can go on does, and the deadlock detector runs.  Nothing
\* makes a client send a request or a connection fail.
Fairness == \A s \in Sessions : WF_vars(Handle(s)) /\ WF_vars(DeadlockVictim(s))

FairSpec == Spec /\ Fairness

-----------------------------------------------------------------------------
(* What a state and a step must look like.                                 *)

Inviting ==
    [op: {"invite"}, at: {"actor", "contact", "check", "insert"}, actor: UserIds, target: {NoUser},
     inv: Invitations, role: InvitationRoles, active: {Keep}, contact: Contacts,
     dead: SUBSET Invitations]

Revoking ==
    [op: {"revoke"}, at: {"actor", "invitation"}, actor: UserIds, target: {NoUser},
     inv: Invitations, role: {Keep}, active: {Keep}, contact: {NoContact}, dead: {{}}]

Accepting ==
    [op: {"accept"}, at: {"invitation", "contact", "inviter", "check", "create"},
     actor: {NoUser}, target: {NoUser}, inv: Invitations, role: {Keep}, active: {Keep},
     contact: Contacts \cup {NoContact}, dead: {{}}]

Patching ==
    [op: {"patch"}, at: {"first row", "second row", "update"}, actor: UserIds, target: UserIds,
     inv: {NoInvitation}, role: Role \cup {Keep}, active: {"on", "off", Keep},
     contact: Phones \cup {NoContact}, dead: {{}}]

Bootstrapping ==
    [op: {"bootstrap"}, at: {"insert"}, actor: {NoUser}, target: {NoUser}, inv: {NoInvitation},
     role: {Keep}, active: {Keep}, contact: Emails, dead: {{}}]

Transaction == {Idle} \cup Inviting \cup Revoking \cup Accepting \cup Patching \cup Bootstrapping

\* Every table, transaction and lock has the shape its columns give it.
TypeOK ==
    /\ users \in [UserIds -> UserRow]
    /\ invitations \in [Invitations -> InvitationRow]
    /\ bootstrapped \in BOOLEAN
    /\ lastEvent \in Event
    /\ tx \in [Sessions -> Transaction]
    /\ locks \subseteq Lock

\* An accepted or revoked invitation is closed: no later acceptance,
\* revocation or expiry touches its row again, whatever requests overlap.
ClosedStaysClosed ==
    [][\A i \in Invitations :
          Issued(i) /\ ~Pending(i) => invitations'[i] = invitations[i]]_vars

\* At most one invitation that is still good exists for a contact, however
\* many administrators invite it at once (users.ts POST invitation).
OnePendingPerContact ==
    \A i, j \in Invitations :
        /\ i # j
        /\ Pending(i) /\ ~invitations[i].expired
        /\ Pending(j) /\ ~invitations[j].expired
        => invitations[i].contact # invitations[j].contact

\* No two accounts have a contact in common, although only invitations and
\* acceptances ask for the contact's advisory lock: a registration or a PATCH
\* may take it between an acceptance's check and its INSERT (auth.ts).
ContactsApart ==
    \A u, v \in UserIds : u # v =>
        /\ users[u].email = users[v].email => users[u].email = NoContact
        /\ users[u].phone = users[v].phone => users[u].phone = NoContact

\* When a PATCH of an account commits, its actor is at that moment still an
\* active administrator above the target, and above the role it assigns.
PatchAuthority ==
    [][\A u \in UserIds :
          Exists(u) /\ users'[u] # users[u] =>
              LET a == lastEvent'.by IN
              /\ lastEvent' = [type |-> "USER_UPDATED", by |-> a, subject |-> u]
              /\ IsActiveAdmin(a)
              /\ CanManageUser(users[a].role, users[u].role)
              /\ users'[u].role # users[u].role => CanAssignRole(users[a].role, users'[u].role)]_vars

\* When an invitation is issued or accepted its inviter is at that moment
\* active and allowed to assign the role; when it is revoked, the one who
\* revokes it is an active administrator.
InvitationAuthority ==
    [][\A i \in Invitations :
          /\ ~Issued(i) /\ Issued(i)' => MayInvite(invitations'[i].by, invitations'[i].role)
          /\ Pending(i) /\ invitations'[i].accepted =>
                MayInvite(invitations[i].by, invitations[i].role)
          /\ Pending(i) /\ invitations'[i].revoked =>
                /\ lastEvent'.type = "USER_INVITATION_REVOKED" /\ lastEvent'.subject = i
                /\ IsActiveAdmin(lastEvent'.by)]_vars

\* The owner bootstrapped once is the owner for good: active, never demoted,
\* whatever administrators do to accounts concurrently.
OwnerIsPermanent ==
    [][\A u \in UserIds : IsActiveOwner(u) => IsActiveOwner(u)']_vars

\* There is at most one owner, and only the bootstrap makes one.
SingleOwner ==
    /\ \A u, v \in UserIds : users[u].role = "SYSTEM_OWNER" /\ users[v].role = "SYSTEM_OWNER" => u = v
    /\ (\E u \in UserIds : users[u].role = "SYSTEM_OWNER") <=> bootstrapped

\* On a database that started empty, administrators exist only under an active
\* owner: no sequence of registrations, invitations and PATCHes makes one
\* before the bootstrap, so the last-administrator guard of PATCH never decides.
AdministratorsNeedOwner ==
    (\E u \in UserIds : users[u].role \in AdminRoles) => \E o \in UserIds : IsActiveOwner(o)

\* PATCH locks its two rows in id order, so PATCHes alone never deadlock.
PatchesNeverDeadlock ==
    \A D \in SUBSET {s \in Sessions : tx[s].op = "patch" /\ ~Grantable(s)} :
        WaitCycle(D) => D = {}

\* Once clients stop sending requests, every request in flight is answered:
\* a cycle of lock waits (invite, accept, revoke and PATCH can form one) is
\* broken, and every refusal gives its locks back.
EveryRequestEnds ==
    <>[][\A s \in Sessions : ~Start(s)]_vars => \A s \in Sessions : <>[](tx[s] = Idle)
=============================================================================
