----------------------------- MODULE MCAccounts -----------------------------
EXTENDS Accounts, Sequences, TLC

CONSTANTS s1, s2, s3, i1, i2, i3, mail, mail2, ownerMail, tel, tel2

\* Connections are interchangeable, and so are unissued invitations and, where
\* no invitation goes to an email and any email may be the owner's, emails.
Interchangeable == Permutations(Sessions) \cup Permutations(Invitations) \cup Permutations(Emails)

\* No step reads the audit log.
Unaudited == <<users, invitations, bootstrapped, tx, locks>>

-----------------------------------------------------------------------------
(* A server that is shutting its front door: an owner and an administrator, *)
(* an invitation one of them sent, and on every connection some request     *)
(* that has just begun.  Nothing further arrives but registrations, which   *)
(* need no connection of their own here: each is one statement.             *)

Request(op, at, actor) == [Idle EXCEPT !.op = op, !.at = at, !.actor = actor]

Requests ==
    << [Request("invite", "actor", 2) EXCEPT !.inv = i2, !.role = "SEARCHER", !.contact = tel2],
       [Request("invite", "actor", 2) EXCEPT !.inv = i3, !.role = "SEARCHER", !.contact = tel2],
       [Request("revoke", "actor", 2) EXCEPT !.inv = i1],
       [Request("accept", "invitation", NoUser) EXCEPT !.inv = i1],
       [Request("patch", "first row", 2) EXCEPT !.target = 1, !.active = "off"],
       [Request("patch", "first row", 2) EXCEPT !.target = 2, !.role = "ADMIN"],
       [Request("patch", "first row", 1) EXCEPT !.target = 2, !.active = "off",
                                                !.contact = tel] >>

\* Which request each connection serves; connections being interchangeable,
\* in one order only.  Two requests to invite get different keys.
Assignments ==
    {k \in [Sessions -> 1..Len(Requests)] :
        /\ k[s1] <= k[s2] /\ k[s2] <= k[s3]
        /\ \A n \in {1, 2} : Cardinality({s \in Sessions : k[s] = n}) <= 1}

BusyInit ==
    /\ users = [u \in UserIds |->
          CASE u = 1 -> NewUser("SYSTEM_OWNER", ownerMail)
            [] u = 2 -> NewUser("ADMIN", mail)
            [] OTHER -> NoRow]
    /\ \E a \in {1, 2} :
          invitations = [i \in Invitations |->
             IF i = i1 THEN [Unissued EXCEPT !.role = "SEARCHER", !.contact = tel, !.by = a]
                       ELSE Unissued]
    /\ bootstrapped = TRUE
    /\ lastEvent = NoEvent
    /\ \E k \in Assignments : tx = [s \in Sessions |-> Requests[k[s]]]
    /\ locks = {}

Drain ==
    \/ \E s \in Sessions : Handle(s) \/ Fail(s) \/ DeadlockVictim(s)
    \/ Register
    \/ \E i \in Invitations : Expire(i)

DrainSpec == BusyInit /\ [][Drain]_vars /\ Fairness
=============================================================================
