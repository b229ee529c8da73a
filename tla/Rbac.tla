-------------------------------- MODULE Rbac --------------------------------
(***************************************************************************)
(* The role policy of the server (server/src/rbac.ts) and the two other    *)
(* places that state it again: the Go domain package of the local engine   *)
(* (rebuild/internal/domain/rbac.go) and the list of roles the desktop      *)
(* client offers an inviter (desktop/src/main.tsx).                        *)
(***************************************************************************)

Role == {"SYSTEM_OWNER", "SUPERADMIN", "SUPERUSER", "ADMIN",
         "LEADER", "COORDINATOR", "SEARCHER", "VIEWER"}

PrivilegedRoles == {"SYSTEM_OWNER", "SUPERADMIN", "SUPERUSER"}

AdminRoles == PrivilegedRoles \cup {"ADMIN"}

ManagementRoles == AdminRoles \cup {"LEADER", "COORDINATOR"}

\* The roles an invitation may carry: the enum of the route and the CHECK of
\* table user_invitations leave SYSTEM_OWNER out.
InvitationRoles == Role \ {"SYSTEM_OWNER"}

CanManageUser(actor, target) ==
    \/ actor = "SYSTEM_OWNER"
    \/ actor = "SUPERADMIN" /\ target \notin {"SYSTEM_OWNER", "SUPERADMIN"}
    \/ actor = "SUPERUSER" /\ target \notin PrivilegedRoles
    \/ actor = "ADMIN" /\ target \notin AdminRoles

CanAssignRole(actor, next) ==
    \/ actor = "SYSTEM_OWNER" /\ next # "SYSTEM_OWNER"
    \/ actor \in {"SUPERADMIN", "SUPERUSER"} /\ next \notin PrivilegedRoles
    \/ actor = "ADMIN" /\ next \notin AdminRoles

CanUpdateTask(role, assignee, user) ==
    \/ role \in ManagementRoles
    \/ role = "SEARCHER" /\ assignee = user

-----------------------------------------------------------------------------
(* The mirrors of the policy.                                              *)

GoCanManageUser(actor, target) ==
    /\ target \in Role
    /\ CASE actor = "SYSTEM_OWNER" -> TRUE
         [] actor = "SUPERADMIN" -> target \notin {"SYSTEM_OWNER", "SUPERADMIN"}
         [] actor = "SUPERUSER" -> target \notin PrivilegedRoles
         [] actor = "ADMIN" -> target \notin PrivilegedRoles \cup {"ADMIN"}
         [] OTHER -> FALSE

GoCanAssignRole(actor, next) ==
    /\ next \in Role
    /\ CASE actor = "SYSTEM_OWNER" -> next # "SYSTEM_OWNER"
         [] actor \in {"SUPERADMIN", "SUPERUSER"} -> next \notin PrivilegedRoles
         [] actor = "ADMIN" -> next \notin PrivilegedRoles \cup {"ADMIN"}
         [] OTHER -> FALSE

DesktopInvitationRolesFor(actor) ==
    CASE actor = "SYSTEM_OWNER" -> InvitationRoles
      [] actor \in {"SUPERADMIN", "SUPERUSER"} ->
            {"ADMIN", "LEADER", "COORDINATOR", "SEARCHER", "VIEWER"}
      [] actor = "ADMIN" -> {"LEADER", "COORDINATOR", "SEARCHER", "VIEWER"}
      [] OTHER -> {}
=============================================================================
