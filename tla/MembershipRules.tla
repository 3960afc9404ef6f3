-------------------------- MODULE MembershipRules --------------------------
(***************************************************************************)
(* Who may change which membership of a workspace, as the services of      *)
(* packages/core/src/workspaces judge it.  A `roles' argument is the       *)
(* content of workspace_members for one workspace: a function from         *)
(* accounts to a role, or to "none" for an account without a row.          *)
(***************************************************************************)
CONSTANT Accounts

Roles == {"owner", "admin", "member"}
Standing == Roles \cup {"none"}

\* The roles an invitation can grant (the owner invitation of the instance
\* console, which needs instance_issued, is not part of this model).
InvitationRoles == {"admin", "member"}

Members(roles) == {a \in Accounts : roles[a] # "none"}
Owners(roles) == {a \in Accounts : roles[a] = "owner"}

\* changeMemberRole: a plain member changes nothing, and only an owner makes,
\* or changes, an owner.  A role that is already the one asked for is no change.
MayChangeRole(roles, actor, target, new) ==
    /\ roles[actor] \in {"owner", "admin"}
    /\ roles[target] # "none"
    /\ roles[actor] = "owner" \/ (roles[target] # "owner" /\ new # "owner")
    /\ roles[target] # new

\* transferOwnership: an owner makes another member an owner and may step down
\* to admin in the same transaction.
MayTransfer(roles, actor, target, demoteSelf) ==
    /\ roles[actor] = "owner"
    /\ target # actor
    /\ roles[target] # "none"
    /\ roles[target] # "owner" \/ demoteSelf

\* endMembership: anyone leaves, an admin removes those who are not owners, an
\* owner removes anyone.  The content needs a recipient: the member the caller
\* named, else another owner for who leaves (the caller itself for a removal).
MayEnd(roles, actor, target, named) ==
    /\ roles[actor] # "none"
    /\ roles[target] # "none"
    /\ \/ actor = target
       \/ roles[actor] = "owner"
       \/ roles[actor] = "admin" /\ roles[target] # "owner"
    /\ IF named THEN Members(roles) \ {target} # {}
                ELSE actor = target => Owners(roles) \ {target} # {}

\* What deleting an account does to the workspace: the answer of
\* sys_account_deletion_scope for it ("clear" when it is not listed).
DeletionScope(roles, a) ==
    IF roles[a] = "none" THEN "clear"
    ELSE IF Members(roles) = {a} THEN "sole"
    ELSE IF Owners(roles) = {a} THEN "blocking"
    ELSE "clear"

\* account_strip_workspaces strips the workspace for a member that founded it
\* (created_by with self_created) or is its only owner.
Strips(roles, a, founder) ==
    /\ roles[a] # "none"
    /\ founder = a \/ Owners(roles) = {a}
=============================================================================
