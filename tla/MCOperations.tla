---------------------------- MODULE MCOperations ----------------------------
EXTENDS Operations, TLC

CONSTANTS s1, s2, op1, task1, lead, sam, ann

Interchangeable == Permutations(Sessions)

\* ann reaches op1 through her organization and is not one of its members.
ThroughOrganization == {<<op1, ann>>}

Roles == lead :> "LEADER" @@ sam :> "SEARCHER"

RolesWithAnn == lead :> "LEADER" @@ ann :> "COORDINATOR"

Ask(kind, search, task, user, status) ==
    [kind |-> kind, search |-> search, task |-> task, user |-> user, status |-> status,
     priority |-> FALSE]

SearchRequests(statuses) ==
    {Ask("newSearch", op1, None, None, Keep)}
      \cup {Ask("patchSearch", op1, None, None, x) : x \in statuses}

MemberRequests(u) ==
    {Ask(k, op1, None, u, Keep) : k \in {"addMember", "removeMember"}}

TaskRequests ==
    {Ask("newTask", op1, task1, sam, Keep),
     Ask("patchTask", None, task1, Keep, "DONE"),
     Ask("patchTask", None, task1, Nobody, Keep),
     Ask("patchTask", None, task1, sam, "OPEN"),
     [Ask("patchTask", None, task1, Keep, Keep) EXCEPT !.priority = TRUE]}

TaskWork == SearchRequests({}) \cup MemberRequests(sam) \cup TaskRequests

StatusWork == SearchRequests({"ACTIVE", "COMPLETED"})

SnapshotWork ==
    SearchRequests({"ACTIVE"})
      \cup {Ask("snapshot", op1, None, None, Keep), Ask("note", op1, None, None, Keep),
            Ask("removeMember", op1, None, lead, Keep), Ask("newTask", op1, task1, Nobody, Keep)}

\* Without snapshots, which order by it, created_at takes part in no guard.
Undated == <<users, searches, members, tasks, nextId,
             [s \in Sessions |-> [tx[s] EXCEPT !.began = 0]], {[e EXCEPT !.at = 0] : e \in events}>>
=============================================================================
