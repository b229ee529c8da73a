----------------------------- MODULE RbacProofs -----------------------------
(***************************************************************************)
(* The role policy is an order, and its three statements (server, local    *)
(* engine, desktop client) are one policy.                                 *)
(***************************************************************************)
EXTENDS Rbac, TLAPS

\* The server and the local engine decide alike who may manage whom and who
\* may assign what (rbac.ts and rbac.go are maintained by hand).
THEOREM EngineAgrees ==
    ASSUME NEW actor \in Role, NEW other \in Role
    PROVE  /\ GoCanManageUser(actor, other) <=> CanManageUser(actor, other)
           /\ GoCanAssignRole(actor, other) <=> CanAssignRole(actor, other)
BY DEF GoCanManageUser, CanManageUser, GoCanAssignRole, CanAssignRole, Role, PrivilegedRoles,
   AdminRoles

\* The desktop client offers an inviter exactly the roles the server accepts
\* from it.
THEOREM DesktopAgrees ==
    ASSUME NEW actor \in Role
    PROVE  DesktopInvitationRolesFor(actor) = {r \in InvitationRoles : CanAssignRole(actor, r)}
<1>1. ASSUME NEW r \in Role
      PROVE  r \in DesktopInvitationRolesFor(actor) <=> r \in InvitationRoles /\ CanAssignRole(actor, r)
    BY DEF DesktopInvitationRolesFor, InvitationRoles, CanAssignRole, Role, PrivilegedRoles,
       AdminRoles
<1>2. DesktopInvitationRolesFor(actor) \subseteq Role /\ InvitationRoles \subseteq Role
    BY DEF DesktopInvitationRolesFor, InvitationRoles, Role
<1> QED
    BY <1>1, <1>2

\* No chain of appointments climbs: whoever appoints may also manage the
\* appointee, the appointee never manages the appointer, and nobody below the
\* owner manages an equal.
THEOREM NobodyClimbs ==
    ASSUME NEW a \in Role, NEW b \in Role
    PROVE  /\ CanAssignRole(a, b) => CanManageUser(a, b) /\ ~CanManageUser(b, a)
           /\ CanManageUser(a, b) /\ CanManageUser(b, a) => a = "SYSTEM_OWNER" /\ b = a
           /\ \A c \in Role : CanManageUser(a, b) /\ CanManageUser(b, c) => CanManageUser(a, c)
<1> USE DEF CanAssignRole, CanManageUser, Role, PrivilegedRoles, AdminRoles
<1>1. CanAssignRole(a, b) => CanManageUser(a, b) /\ ~CanManageUser(b, a)
    OBVIOUS
<1>2. CanManageUser(a, b) /\ CanManageUser(b, a) => a = "SYSTEM_OWNER" /\ b = a
    OBVIOUS
<1>3. \A c \in Role : CanManageUser(a, b) /\ CanManageUser(b, c) => CanManageUser(a, c)
    OBVIOUS
<1> QED
    BY <1>1, <1>2, <1>3
=============================================================================
