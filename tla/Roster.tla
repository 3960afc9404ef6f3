------------------------------- MODULE Roster -------------------------------
(***************************************************************************)
(* What the members of a workspace are promised: every change is one step  *)
(* that the rules of MembershipRules allow in the very state it changes,   *)
(* as if no two requests ever overlapped.  Membership, where requests are  *)
(* transactions of several statements, is shown to implement it.           *)
(***************************************************************************)
EXTENDS Integers, FiniteSets, MembershipRules

CONSTANTS Founder, Registrants, Newcomers, Admins, SeatLimit

VARIABLES
    role,        \* the role of each account in the workspace
    ws,          \* "live", "deleting" or "gone"
    account,     \* what each account is
    invitation   \* the role of the pending invitation of an address

rvars == <<role, ws, account, invitation>>

Exists(a) == account[a] \in {"unverified", "verified"}

Init ==
    /\ role = [a \in Accounts |-> IF a = Founder THEN "owner" ELSE "none"]
    /\ ws = "live"
    /\ account = [a \in Accounts |->
                    IF a \in Newcomers THEN "absent"
                    ELSE IF a \in Registrants THEN "unverified" ELSE "verified"]
    /\ invitation = [a \in Accounts |-> "none"]

\* A change of roles in a live workspace that leaves it an owner.
Regroup(roles) ==
    /\ ws = "live"
    /\ Owners(roles) # {}
    /\ role' = roles
    /\ UNCHANGED <<ws, account, invitation>>

ChangeRole ==
    \E actor, target \in Accounts, new \in Roles :
        /\ MayChangeRole(role, actor, target, new)
        /\ Regroup([role EXCEPT ![target] = new])

Transfer ==
    \E actor, target \in Accounts, demoteSelf \in BOOLEAN :
        /\ MayTransfer(role, actor, target, demoteSelf)
        /\ Regroup([role EXCEPT ![target] = "owner",
                                ![actor] = IF demoteSelf THEN "admin" ELSE "owner"])

EndMember ==
    \E actor, target \in Accounts, named \in BOOLEAN :
        /\ MayEnd(role, actor, target, named)
        /\ Regroup([role EXCEPT ![target] = "none"])

\* An invitation is used once, for the account of its address, while a seat is left.
Join ==
    \E a \in Accounts :
        /\ ws = "live"
        /\ invitation[a] # "none"
        /\ role[a] = "none"
        /\ Cardinality(Members(role)) < SeatLimit
        /\ role' = [role EXCEPT ![a] = invitation[a]]
        /\ invitation' = [invitation EXCEPT ![a] = "none"]
        /\ \/ account[a] = "verified" /\ UNCHANGED account
           \/ /\ account[a] = "absent"
              /\ \E s \in {"unverified", "verified"} : account' = [account EXCEPT ![a] = s]
        /\ UNCHANGED ws

AdminJoin ==
    \E a \in Admins :
        /\ Exists(a)
        /\ role[a] = "none"
        /\ Regroup([role EXCEPT ![a] = "member"])

Invite ==
    /\ ws # "gone"
    /\ \E a \in Accounts, r \in InvitationRoles : invitation' = [invitation EXCEPT ![a] = r]
    /\ UNCHANGED <<role, ws, account>>

Revoke ==
    /\ \E a \in Accounts : invitation' = [invitation EXCEPT ![a] = "none"]
    /\ UNCHANGED <<role, ws, account>>

DeleteWorkspace ==
    /\ ws = "live"
    /\ Owners(role) # {}
    /\ ws' = "deleting"
    /\ UNCHANGED <<role, account, invitation>>

\* An account goes when that leaves no workspace without an owner, and takes the
\* workspace along when nobody else is in it.
RemoveAccount ==
    \E a \in Accounts :
        LET scope == IF ws = "live" THEN DeletionScope(role, a) ELSE "clear" IN
        /\ Exists(a)
        /\ scope # "blocking"
        /\ account' = [account EXCEPT ![a] = "deleted"]
        /\ role' = [role EXCEPT ![a] = "none"]
        /\ ws' = IF scope = "sole" THEN "deleting" ELSE ws
        /\ UNCHANGED invitation

\* The owner of an address verifies it: the workspace of the founder is left to
\* the founder alone.  In any other workspace members may be removed, never
\* added, and at most the account itself is made an owner.
Verify ==
    \E a \in Accounts :
        /\ account[a] = "unverified"
        /\ account' = [account EXCEPT ![a] = "verified"]
        /\ \A b \in Accounts \ {a} : role'[b] \in {role[b], "none"}
        /\ role'[a] \in IF role[a] = "none" THEN {"none"} ELSE {role[a], "owner"}
        /\ role' \in [Accounts -> Standing]
        /\ a = Founder /\ ws = "live" /\ role[a] # "none" =>
              role' = [b \in Accounts |-> IF b = a THEN "owner" ELSE "none"]
        /\ \A b \in Accounts : invitation'[b] \in {invitation[b], "none"}
        /\ invitation' \in [Accounts -> InvitationRoles \cup {"none"}]
        /\ ws = "live" => Owners(role') # {}
        /\ UNCHANGED ws

\* The rows of a workspace that is being deleted go, and the workspace last.
Purge ==
    /\ ws = "deleting"
    /\ \E rows, pending \in SUBSET Accounts :
        /\ role' = [a \in Accounts |-> IF a \in rows THEN "none" ELSE role[a]]
        /\ invitation' = [a \in Accounts |-> IF a \in pending THEN "none" ELSE invitation[a]]
        /\ \/ UNCHANGED ws
           \/ Members(role) = {} /\ pending = Accounts /\ ws' = "gone"
    /\ UNCHANGED account

Next ==
    \/ ChangeRole \/ Transfer \/ EndMember \/ Join \/ AdminJoin \/ Invite \/ Revoke
    \/ DeleteWorkspace \/ RemoveAccount \/ Verify \/ Purge

Spec == Init /\ [][Next]_rvars
=============================================================================
