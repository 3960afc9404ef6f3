----------------------------- MODULE Membership -----------------------------
(***************************************************************************)
(* The members of one workspace, changed by concurrent READ COMMITTED      *)
(* transactions of PostgreSQL.  Each transaction runs one operation of     *)
(* packages/core/src/workspaces (or of packages/core/src/accounts), whose  *)
(* statements are the steps below:                                         *)
(*                                                                         *)
(*   - a statement reads what is committed when it starts (role, ws, ...)  *)
(*     and what its own transaction wrote (writes);                        *)
(*   - `SELECT ... FOR [NO KEY] UPDATE' of the workspace row takes wsLock  *)
(*     and is skipped by a row whose deleting_at is set;                   *)
(*   - rows of workspace_members and workspace_invitations a transaction   *)
(*     has written stay locked by it until it ends (RowsFree);             *)
(*   - the deferred constraint trigger of workspace_members runs when the  *)
(*     transaction commits, as a statement of its own (CheckOwner), and    *)
(*     only then do the writes become visible (Commit).                    *)
(*                                                                         *)
(* A refusal of the code writes nothing, so every refused outcome, and     *)
(* every failure (a lost connection, a crash of the server, the victim of  *)
(* the deadlock detector), is Rollback.                                    *)
(***************************************************************************)
EXTENDS Integers, FiniteSets, MembershipRules

CONSTANTS
    Txs,          \* transactions that can be open at once
    NoTx,         \* nobody holds the lock
    Founder,      \* the account that made the workspace for itself
    Registrants,  \* accounts whose address nobody has verified yet
    Newcomers,    \* addresses that have no account yet
    Admins,       \* instance admins with a second factor
    SeatLimit,    \* the seats of the entitlement
    MaxTokens,    \* bound: tokens issued for the invitation of one address
    Mailed,       \* whether the composition mails the link of an invitation
    RetryLimit,   \* how often the worker retries a workspace.delete job
    Operations    \* the operations that requests of this instance ask for

OperationNames ==
    {"changeRole", "transfer", "end", "deleteWorkspace", "invite", "renew",
     "revoke", "accept", "signup", "adminJoin", "deleteAccount", "verify"}

ASSUME MembershipAssumption ==
    /\ NoTx \notin Txs
    /\ Founder \in Accounts \ Newcomers
    /\ Registrants \subseteq Accounts
    /\ Newcomers \subseteq Accounts \ Registrants
    /\ Admins \subseteq Accounts
    /\ IsFiniteSet(Accounts)
    /\ SeatLimit \in Nat \ {0}
    /\ MaxTokens \in Nat
    /\ Mailed \in BOOLEAN
    /\ RetryLimit \in Nat
    /\ Operations \subseteq OperationNames

VARIABLES
    role,      \* workspace_members, committed
    ws,        \* the workspace row: "live", "deleting" (deleting_at set), "gone"
    account,   \* accounts: "absent", "unverified", "verified", "deleted"
    invRole,   \* the pending invitation of an address: its role, or "none"
    invToken,  \* the token last issued for the invitation of an address
    wsLock,    \* the transaction that holds the workspace row
    accLock,   \* the row locks on accounts: "none", "share" or "update"
    pc,        \* the next statement of each transaction
    ask,       \* what the request of each transaction asks for
    scope,     \* what a transaction keeps of a read: a deletion scope
    marks,     \* the transaction set deleting_at
    writes,    \* its uncommitted rows of workspace_members ("keep": none)
    invites,   \* the invitation rows it has locked
    job,       \* the table the workspace.delete job is at
    retries    \* the runs of the job that stopped halfway

vars == <<role, ws, account, invRole, invToken, wsLock, accLock, pc, ask,
          scope, marks, writes, invites, job, retries>>
table == <<role, ws, account, invRole, invToken>>
locks == <<wsLock, accLock>>
worker == <<job, retries>>

PCs == {"idle", "snapshot", "lock", "account", "judge", "again", "relock",
        "decide", "apply", "write", "commit", "checked"}
Scopes == {"unknown", "clear", "sole", "blocking"}
Jobs == {"none", "invitations", "members", "row"}

Asks == [op : OperationNames \cup {"none"}, actor : Accounts, target : Accounts,
         new : Roles, flag : BOOLEAN, token : 0 .. MaxTokens]

NoAsk == [op |-> "none", actor |-> Founder, target |-> Founder, new |-> "member",
          flag |-> FALSE, token |-> 0]

NoWrites == [a \in Accounts |-> "keep"]

TypeOK ==
    /\ role \in [Accounts -> Standing]
    /\ ws \in {"live", "deleting", "gone"}
    /\ account \in [Accounts -> {"absent", "unverified", "verified", "deleted"}]
    /\ invRole \in [Accounts -> InvitationRoles \cup {"none"}]
    /\ invToken \in [Accounts -> 0 .. MaxTokens]
    /\ wsLock \in Txs \cup {NoTx}
    /\ accLock \in [Accounts -> [Txs -> {"none", "share", "update"}]]
    /\ pc \in [Txs -> PCs]
    /\ ask \in [Txs -> Asks]
    /\ \A t \in Txs : ask[t].op = "invite" => ask[t].new \in InvitationRoles
    /\ scope \in [Txs -> Scopes]
    /\ marks \in [Txs -> BOOLEAN]
    /\ writes \in [Txs -> [Accounts -> Standing \cup {"keep"}]]
    /\ invites \in [Txs -> SUBSET Accounts]
    /\ job \in Jobs
    /\ retries \in 0 .. RetryLimit

Init ==
    /\ role = [a \in Accounts |-> IF a = Founder THEN "owner" ELSE "none"]
    /\ ws = "live"
    /\ account = [a \in Accounts |->
                    IF a \in Newcomers THEN "absent"
                    ELSE IF a \in Registrants THEN "unverified" ELSE "verified"]
    /\ invRole = [a \in Accounts |-> "none"]
    /\ invToken = [a \in Accounts |-> 0]
    /\ wsLock = NoTx
    /\ accLock = [a \in Accounts |-> [t \in Txs |-> "none"]]
    /\ pc = [t \in Txs |-> "idle"]
    /\ ask = [t \in Txs |-> NoAsk]
    /\ scope = [t \in Txs |-> "unknown"]
    /\ marks = [t \in Txs |-> FALSE]
    /\ writes = [t \in Txs |-> NoWrites]
    /\ invites = [t \in Txs |-> {}]
    /\ job = "none"
    /\ retries = 0
-----------------------------------------------------------------------------
(* What a transaction sees and holds.                                      *)

\* workspace_members as transaction t reads it: its own writes over the rows
\* that are committed.
Seen(t) ==
    [a \in Accounts |-> IF writes[t][a] = "keep" THEN role[a] ELSE writes[t][a]]

\* No other transaction has an uncommitted write of one of these rows.
RowsFree(t, rows) == \A u \in Txs \ {t} : \A a \in rows : writes[u][a] = "keep"
InvitationsFree(t, rows) == \A u \in Txs \ {t} : invites[u] \cap rows = {}

\* FOR SHARE conflicts with FOR UPDATE, and FOR UPDATE with both.
AccountFree(t, a, mode) ==
    \A u \in Txs \ {t} :
        accLock[a][u] = "none" \/ (accLock[a][u] = "share" /\ mode = "share")

\* The foreign keys of a row that names the workspace and its author take FOR KEY
\* SHARE on both, which only FOR UPDATE refuses: the lock of the two deletions on
\* the workspace, and every lock on an account but the FOR SHARE of a join.
KeyShare(t, a) ==
    /\ wsLock # NoTx => ask[wsLock].op \notin {"deleteWorkspace", "deleteAccount"}
    /\ AccountFree(t, a, "share")

Exists(a) == account[a] \in {"unverified", "verified"}

Goto(t, place) == pc' = [pc EXCEPT ![t] = place]

\* Uncommitted rows: the transaction writes those where `new' is no "keep".
Write(t, new) ==
    /\ RowsFree(t, {a \in Accounts : new[a] # "keep"})
    /\ writes' = [writes EXCEPT ![t] = new]

\* The end of a transaction gives back everything it holds.
End(t) ==
    /\ Goto(t, "idle")
    /\ ask' = [ask EXCEPT ![t] = NoAsk]
    /\ scope' = [scope EXCEPT ![t] = "unknown"]
    /\ marks' = [marks EXCEPT ![t] = FALSE]
    /\ writes' = [writes EXCEPT ![t] = NoWrites]
    /\ invites' = [invites EXCEPT ![t] = {}]
    /\ wsLock' = IF wsLock = t THEN NoTx ELSE wsLock
    /\ accLock' = [a \in Accounts |-> [accLock[a] EXCEPT ![t] = "none"]]
-----------------------------------------------------------------------------
(* The requests.  A request that acts in the workspace is let in by the    *)
(* tenant stage: the workspace is live and the account is a member.        *)

Admitted(a) == ws = "live" /\ role[a] # "none"

Open(t, op, place, actor, target, new, flag, token) ==
    /\ op \in Operations
    /\ pc[t] = "idle"
    /\ Goto(t, place)
    /\ ask' = [ask EXCEPT ![t] = [op |-> op, actor |-> actor, target |-> target,
                                  new |-> new, flag |-> flag, token |-> token]]
    /\ UNCHANGED <<table, locks, scope, marks, writes, invites, worker>>

AskRoleChange(t) ==
    \E actor, target \in Accounts, new \in Roles :
        /\ Admitted(actor)
        /\ Open(t, "changeRole", "lock", actor, target, new, FALSE, 0)

AskTransfer(t) ==
    \E actor, target \in Accounts, demoteSelf \in BOOLEAN :
        /\ Admitted(actor)
        /\ Open(t, "transfer", "lock", actor, target, "owner", demoteSelf, 0)

AskEnd(t) ==
    \E actor, target \in Accounts, named \in BOOLEAN :
        /\ Admitted(actor)
        /\ Open(t, "end", "lock", actor, target, "member", named, 0)

AskWorkspaceDeletion(t) ==
    \E actor \in Accounts :
        /\ Admitted(actor)
        /\ Open(t, "deleteWorkspace", "lock", actor, actor, "member", FALSE, 0)

\* sys_invitation_accept and sys_invitation_accept_new_account: the invitation
\* is found by its token, without a lock, to learn the workspace.
AskAcceptance(t) ==
    \E a \in Accounts, linkIssued \in BOOLEAN :
        /\ invRole[a] # "none"
        /\ \/ /\ account[a] # "absent"
              /\ ~linkIssued
              /\ Open(t, "accept", "lock", a, a, "member", FALSE, invToken[a])
           \/ /\ account[a] = "absent"
              /\ Open(t, "signup", "lock", a, a, "member", linkIssued, invToken[a])

AskAdminJoin(t) ==
    \E a \in Admins :
        /\ Exists(a)
        /\ Open(t, "adminJoin", "lock", a, a, "member", FALSE, 0)

AskAccountDeletion(t) ==
    \E a \in Accounts :
        /\ Exists(a)
        /\ Open(t, "deleteAccount", "snapshot", a, a, "member", FALSE, 0)

AskVerification(t) ==
    \E a \in Accounts :
        /\ account[a] = "unverified"
        /\ Open(t, "verify", "snapshot", a, a, "member", FALSE, 0)

\* inviteMember, resendInvitation, createInvitationLink and revokeInvitation judge
\* the role of the caller (and, for an invitation, that no member holds the
\* address) by reads that lock nothing.
AskInvitation(t) ==
    \E actor, target \in Accounts, new \in InvitationRoles :
        /\ Admitted(actor)
        /\ role[actor] \in {"owner", "admin"}
        /\ role[target] = "none"
        /\ account[target] # "deleted"
        /\ Open(t, "invite", "write", actor, target, new, FALSE, 0)

AskRenewal(t) ==
    \E actor, target \in Accounts :
        /\ Admitted(actor)
        /\ role[actor] \in {"owner", "admin"}
        /\ invRole[target] # "none"
        /\ Open(t, "renew", "write", actor, target, "member", FALSE, 0)

AskRevocation(t) ==
    \E actor, target \in Accounts :
        /\ Admitted(actor)
        /\ role[actor] \in {"owner", "admin"}
        /\ invRole[target] # "none"
        /\ Open(t, "revoke", "write", actor, target, "member", FALSE, 0)
-----------------------------------------------------------------------------
(* The locks.                                                              *)

\* The two operations that lock the workspaces of an account find them in the
\* snapshot of the locking statement: those it created or belongs to for a
\* deletion, those it created or owns for a verification.
Finds(t) ==
    LET a == ask[t].actor IN
    /\ ws = "live"
    /\ \/ a = Founder
       \/ ask[t].op = "deleteAccount" /\ role[a] # "none"
       \/ ask[t].op = "verify" /\ role[a] = "owner"

Snapshot(t) ==
    /\ \/ pc[t] = "snapshot" /\ Goto(t, IF Finds(t) THEN "lock" ELSE "account")
       \/ pc[t] = "again" /\ Goto(t, IF Finds(t) THEN "relock" ELSE "decide")
    /\ UNCHANGED <<table, locks, ask, scope, marks, writes, invites, worker>>

AfterLock(op) ==
    IF op \in {"accept", "adminJoin", "deleteAccount", "verify"} THEN "account"
                                                                 ELSE "judge"

\* Mutant of LockWorkspace: a lock mode that does not conflict with itself.
LockWorkspaceShared(t) ==
    /\ pc[t] \in {"lock", "relock"}
    /\ ws = "live"
    /\ wsLock' = t
    /\ Goto(t, IF pc[t] = "lock" THEN AfterLock(ask[t].op) ELSE "decide")
    /\ UNCHANGED <<table, accLock, ask, scope, marks, writes, invites, worker>>

\* A workspace that is being deleted has no row to lock: the operations on the
\* workspace end there (Rollback), those on an account go on without it.
LockWorkspace(t) ==
    /\ pc[t] \in {"lock", "relock"}
    /\ \/ ws = "live" /\ wsLock \in {NoTx, t} /\ wsLock' = t
       \/ ws # "live" /\ ask[t].op \in {"deleteAccount", "verify"} /\ UNCHANGED wsLock
    /\ Goto(t, IF pc[t] = "lock" THEN AfterLock(ask[t].op) ELSE "decide")
    /\ UNCHANGED <<table, accLock, ask, scope, marks, writes, invites, worker>>

\* Mutant of LockAccount: the account is read without FOR SHARE or FOR UPDATE.
LockAccountUnlocked(t) ==
    /\ pc[t] = "account"
    /\ Exists(ask[t].actor)
    /\ Goto(t, IF ask[t].op = "verify" THEN "again" ELSE "judge")
    /\ UNCHANGED <<table, locks, ask, scope, marks, writes, invites, worker>>

LockAccount(t) ==
    LET a == ask[t].actor
        mode == IF ask[t].op \in {"accept", "adminJoin"} THEN "share" ELSE "update"
    IN
    /\ pc[t] = "account"
    /\ Exists(a)
    /\ AccountFree(t, a, mode)
    /\ accLock' = [accLock EXCEPT ![a][t] = mode]
    /\ \/ ask[t].op = "verify" /\ account[a] = "unverified" /\ Goto(t, "again")
       \/ ask[t].op # "verify" /\ Goto(t, "judge")
    /\ UNCHANGED <<table, wsLock, ask, scope, marks, writes, invites, worker>>
-----------------------------------------------------------------------------
(* The judgements, made on what is committed under the lock, and the       *)
(* uncommitted writes that follow from them.                               *)

Judging(t, op) == pc[t] = "judge" /\ ask[t].op = op

ChangeMemberRole(t) ==
    LET q == ask[t] IN
    /\ Judging(t, "changeRole")
    /\ MayChangeRole(role, q.actor, q.target, q.new)
    /\ Write(t, [NoWrites EXCEPT ![q.target] = q.new])
    /\ Goto(t, "commit")
    /\ UNCHANGED <<table, locks, ask, scope, marks, invites, worker>>

\* Mutant of TransferOwnership: who steps down becomes a plain member.
TransferOwnershipToMember(t) ==
    LET q == ask[t] IN
    /\ Judging(t, "transfer")
    /\ MayTransfer(role, q.actor, q.target, q.flag)
    /\ Write(t, [NoWrites EXCEPT ![q.target] = "owner",
                                 ![q.actor] = IF q.flag THEN "member" ELSE "keep"])
    /\ Goto(t, "commit")
    /\ UNCHANGED <<table, locks, ask, scope, marks, invites, worker>>

TransferOwnership(t) ==
    LET q == ask[t]
        promoted == IF role[q.target] = "owner" THEN "keep" ELSE "owner"
        stepped == IF q.flag THEN "admin" ELSE "keep"
    IN
    /\ Judging(t, "transfer")
    /\ MayTransfer(role, q.actor, q.target, q.flag)
    /\ Write(t, [NoWrites EXCEPT ![q.target] = promoted, ![q.actor] = stepped])
    /\ Goto(t, "commit")
    /\ UNCHANGED <<table, locks, ask, scope, marks, invites, worker>>

EndMembership(t) ==
    LET q == ask[t] IN
    /\ Judging(t, "end")
    /\ MayEnd(role, q.actor, q.target, q.flag)
    /\ Write(t, [NoWrites EXCEPT ![q.target] = "none"])
    /\ Goto(t, "commit")
    /\ UNCHANGED <<table, locks, ask, scope, marks, invites, worker>>

MarkDeleting(t) ==
    /\ Judging(t, "deleteWorkspace")
    /\ role[ask[t].actor] = "owner"
    /\ marks' = [marks EXCEPT ![t] = TRUE]
    /\ Goto(t, "commit")
    /\ UNCHANGED <<table, locks, ask, scope, writes, invites, worker>>

\* The invitation is read again under the locks, by its token.
InvitationStands(t) ==
    LET a == ask[t].target IN
    /\ invRole[a] # "none"
    /\ invToken[a] = ask[t].token
    /\ InvitationsFree(t, {a})

\* Mutant of SeatLeft: the seat that is being taken is not counted.
SeatLeftOffByOne == Cardinality(Members(role)) <= SeatLimit

SeatLeft == Cardinality(Members(role)) < SeatLimit

\* Mutant of AcceptInvitation: the invitation is read again without FOR UPDATE.
AcceptInvitationUnlocked(t) ==
    LET a == ask[t].target IN
    /\ \/ Judging(t, "accept") /\ account[a] = "verified" /\ role[a] = "none"
       \/ Judging(t, "signup") /\ account[a] = "absent"
    /\ InvitationStands(t)
    /\ SeatLeft
    /\ Write(t, [NoWrites EXCEPT ![a] = invRole[a]])
    /\ Goto(t, "commit")
    /\ UNCHANGED <<table, locks, ask, scope, marks, invites, worker>>

AcceptInvitation(t) ==
    LET a == ask[t].target IN
    /\ \/ Judging(t, "accept") /\ account[a] = "verified" /\ role[a] = "none"
       \/ Judging(t, "signup") /\ account[a] = "absent"
    /\ InvitationStands(t)
    /\ SeatLeft
    /\ Write(t, [NoWrites EXCEPT ![a] = invRole[a]])
    /\ invites' = [invites EXCEPT ![t] = {a}]
    /\ Goto(t, "commit")
    /\ UNCHANGED <<table, locks, ask, scope, marks, worker>>

AddMembership(t) ==
    LET a == ask[t].actor IN
    /\ Judging(t, "adminJoin")
    /\ role[a] = "none"
    /\ Write(t, [NoWrites EXCEPT ![a] = "member"])
    /\ Goto(t, "commit")
    /\ UNCHANGED <<table, locks, ask, scope, marks, invites, worker>>

\* The scope of an account deletion, computed once for the refusal and the
\* guard and once more in the call that deletes.
ScopeOf(t) ==
    IF ws = "live" THEN DeletionScope(role, ask[t].actor) ELSE "clear"

ReadScope(t) ==
    /\ Judging(t, "deleteAccount")
    /\ ScopeOf(t) # "blocking"
    /\ scope' = [scope EXCEPT ![t] = ScopeOf(t)]
    /\ Goto(t, "again")
    /\ UNCHANGED <<table, locks, ask, marks, writes, invites, worker>>

DeleteAccount(t) ==
    LET a == ask[t].actor IN
    /\ pc[t] = "decide"
    /\ ask[t].op = "deleteAccount"
    /\ ScopeOf(t) = scope[t]
    /\ Write(t, [NoWrites EXCEPT ![a] = IF role[a] = "none" THEN "keep" ELSE "none"])
    /\ marks' = [marks EXCEPT ![t] = scope[t] = "sole"]
    /\ Goto(t, "commit")
    /\ UNCHANGED <<table, locks, ask, scope, invites, worker>>

\* account_strip_workspaces reads which workspaces it strips (v_sole) and then
\* removes the other members and the pending invitations of those.
ReadStrip(t) ==
    /\ pc[t] = "decide"
    /\ ask[t].op = "verify"
    /\ scope' = [scope EXCEPT ![t] =
                    IF ws = "live" /\ Strips(role, ask[t].actor, Founder)
                    THEN "sole" ELSE "clear"]
    /\ Goto(t, "apply")
    /\ UNCHANGED <<table, locks, ask, marks, writes, invites, worker>>

\* Mutant of StripWorkspace: the other owners keep their memberships.
StripWorkspaceKeepsOwners(t) ==
    LET a == ask[t].actor
        stripped == [b \in Accounts |->
                        IF b # a /\ role[b] \in {"admin", "member"} THEN "none" ELSE "keep"]
    IN
    /\ pc[t] = "apply"
    /\ \/ scope[t] = "sole" /\ Write(t, stripped)
       \/ scope[t] = "clear" /\ UNCHANGED writes
    /\ Goto(t, "commit")
    /\ UNCHANGED <<table, locks, ask, scope, marks, invites, worker>>

StripWorkspace(t) ==
    LET a == ask[t].actor
        pending == {b \in Accounts : invRole[b] # "none"}
        stripped == [b \in Accounts |->
                        IF b = a THEN (IF role[a] \in {"owner", "none"} THEN "keep" ELSE "owner")
                        ELSE IF role[b] = "none" THEN "keep" ELSE "none"]
    IN
    /\ pc[t] = "apply"
    /\ \/ /\ scope[t] = "sole"
          /\ InvitationsFree(t, pending)
          /\ Write(t, stripped)
          /\ invites' = [invites EXCEPT ![t] = pending]
       \/ scope[t] = "clear" /\ UNCHANGED <<writes, invites>>
    /\ Goto(t, "commit")
    /\ UNCHANGED <<table, locks, ask, scope, marks, worker>>
-----------------------------------------------------------------------------
(* The end of a transaction.                                               *)

LosesOwner(t) == \E a \in Accounts : role[a] = "owner" /\ Seen(t)[a] # "owner"

\* Mutant of CheckOwner: the owners are counted as they were before the
\* transaction.
CheckOwnerBefore(t) ==
    /\ pc[t] = "commit"
    /\ IF LosesOwner(t) /\ ws = "live" /\ ~marks[t]
         THEN wsLock \in {NoTx, t} /\ wsLock' = t /\ Owners(role) # {}
         ELSE UNCHANGED wsLock
    /\ Goto(t, "checked")
    /\ UNCHANGED <<table, accLock, ask, scope, marks, writes, invites, worker>>

\* Mutant of CheckOwner: the owners are counted without the lock.
CheckOwnerUnlocked(t) ==
    /\ pc[t] = "commit"
    /\ LosesOwner(t) /\ ws = "live" /\ ~marks[t] => Owners(Seen(t)) # {}
    /\ Goto(t, "checked")
    /\ UNCHANGED <<table, locks, ask, scope, marks, writes, invites, worker>>

\* workspace_members_check_owner, at commit: it takes the lock of the workspace
\* row and counts the owners in a statement of its own.  A workspace that is
\* being deleted, by this transaction too, is exempt.
CheckOwner(t) ==
    /\ pc[t] = "commit"
    /\ IF LosesOwner(t) /\ ws = "live" /\ ~marks[t]
         THEN /\ wsLock \in {NoTx, t}
              /\ wsLock' = t
              /\ Owners(Seen(t)) # {}
         ELSE UNCHANGED wsLock
    /\ Goto(t, "checked")
    /\ UNCHANGED <<table, accLock, ask, scope, marks, writes, invites, worker>>

AccountAfter(t) ==
    CASE ask[t].op = "deleteAccount" -> "deleted"
      [] ask[t].op = "verify" -> "verified"
      [] ask[t].op = "signup" -> IF ask[t].flag THEN "unverified" ELSE "verified"
      [] OTHER -> account[ask[t].actor]

\* Mutant of Commit: an invitation that was accepted stays pending.
CommitReusable(t) ==
    /\ pc[t] = "checked"
    /\ role' = Seen(t)
    /\ ws' = IF marks[t] THEN "deleting" ELSE ws
    /\ job' = IF marks[t] THEN "invitations" ELSE job
    /\ account' = [account EXCEPT ![ask[t].actor] = AccountAfter(t)]
    /\ End(t)
    /\ UNCHANGED <<invRole, invToken, retries>>

\* Mutant of Commit: the job of a workspace that goes with an account is not
\* queued.
CommitWithoutJob(t) ==
    /\ pc[t] = "checked"
    /\ role' = Seen(t)
    /\ ws' = IF marks[t] THEN "deleting" ELSE ws
    /\ job' = IF ask[t].op = "deleteWorkspace" THEN "invitations" ELSE job
    /\ account' = [account EXCEPT ![ask[t].actor] = AccountAfter(t)]
    /\ invRole' = [a \in Accounts |-> IF a \in invites[t] THEN "none" ELSE invRole[a]]
    /\ End(t)
    /\ UNCHANGED <<invToken, retries>>

Commit(t) ==
    /\ pc[t] = "checked"
    /\ role' = Seen(t)
    /\ ws' = IF marks[t] THEN "deleting" ELSE ws
    /\ job' = IF marks[t] THEN "invitations" ELSE job
    /\ UNCHANGED <<invToken, retries>>
    /\ account' = [account EXCEPT ![ask[t].actor] = AccountAfter(t)]
    /\ invRole' = [a \in Accounts |-> IF a \in invites[t] THEN "none" ELSE invRole[a]]
    /\ End(t)

Rollback(t) ==
    /\ pc[t] # "idle"
    /\ End(t)
    /\ UNCHANGED <<table, worker>>

\* writePending: one INSERT ... ON CONFLICT DO UPDATE, which waits for a
\* transaction that holds the row of the address; a composition that mails no
\* link keeps the token of a pending invitation.  The foreign keys need the
\* inviting account and the workspace row, live or not.
WriteInvitation(t) ==
    LET a == ask[t].target
        keep == ~Mailed /\ invRole[a] # "none"
    IN
    /\ pc[t] = "write"
    /\ ask[t].op = "invite"
    /\ ws # "gone"
    /\ Exists(ask[t].actor)
    /\ KeyShare(t, ask[t].actor)
    /\ InvitationsFree(t, {a})
    /\ keep \/ invToken[a] < MaxTokens
    /\ invRole' = [invRole EXCEPT ![a] = ask[t].new]
    /\ invToken' = [invToken EXCEPT ![a] = IF keep THEN @ ELSE @ + 1]
    /\ End(t)
    /\ UNCHANGED <<role, ws, account, worker>>

\* renew: a resend and a new link replace the token of an invitation that is
\* still pending.
RenewInvitation(t) ==
    LET a == ask[t].target IN
    /\ pc[t] = "write"
    /\ ask[t].op = "renew"
    /\ invRole[a] # "none"
    /\ invToken[a] < MaxTokens
    /\ Exists(ask[t].actor)
    /\ KeyShare(t, ask[t].actor)
    /\ InvitationsFree(t, {a})
    /\ invToken' = [invToken EXCEPT ![a] = @ + 1]
    /\ End(t)
    /\ UNCHANGED <<role, ws, account, invRole, worker>>

RevokeInvitation(t) ==
    LET a == ask[t].target IN
    /\ pc[t] = "write"
    /\ ask[t].op = "revoke"
    /\ invRole[a] # "none"
    /\ Exists(ask[t].actor)
    /\ KeyShare(t, ask[t].actor)
    /\ InvitationsFree(t, {a})
    /\ invRole' = [invRole EXCEPT ![a] = "none"]
    /\ End(t)
    /\ UNCHANGED <<role, ws, account, invToken, worker>>
-----------------------------------------------------------------------------
(* The workspace.delete job: each table in batches, in the order of the    *)
(* registry, each batch a transaction of its own, then the row.            *)

PurgeInvitations ==
    /\ job = "invitations"
    /\ \/ \E rows \in SUBSET {a \in Accounts : invRole[a] # "none"} :
            /\ rows # {}
            /\ \A t \in Txs : invites[t] \cap rows = {}
            /\ invRole' = [a \in Accounts |-> IF a \in rows THEN "none" ELSE invRole[a]]
            /\ UNCHANGED job
       \/ /\ \A a \in Accounts : invRole[a] = "none"
          /\ job' = "members"
          /\ UNCHANGED invRole
    /\ UNCHANGED <<role, ws, account, invToken, locks, pc, ask, scope, marks, writes, invites, retries>>

PurgeMembers ==
    /\ job = "members"
    /\ \/ \E rows \in SUBSET Members(role) :
            /\ rows # {}
            /\ \A t \in Txs : \A a \in rows : writes[t][a] = "keep"
            /\ role' = [a \in Accounts |-> IF a \in rows THEN "none" ELSE role[a]]
            /\ UNCHANGED job
       \/ Members(role) = {} /\ job' = "row" /\ UNCHANGED role
    /\ UNCHANGED <<ws, account, invRole, invToken, locks, pc, ask, scope, marks, writes, invites, retries>>

DeleteFinish ==
    /\ job = "row"
    /\ wsLock = NoTx
    /\ ws' = "gone"
    /\ job' = "none"
    /\ invRole' = [a \in Accounts |-> "none"]
    /\ role' = [a \in Accounts |-> "none"]
    /\ UNCHANGED <<account, invToken, locks, pc, ask, scope, marks, writes, invites, retries>>

\* Mutant of RestartJob: one run more than the limit.
RestartJobOnceMore ==
    /\ job \in {"members", "row"}
    /\ retries <= RetryLimit
    /\ retries' = retries + 1
    /\ job' = "invitations"
    /\ UNCHANGED <<table, locks, pc, ask, scope, marks, writes, invites>>

\* A run that stopped halfway is run again from the first table.
RestartJob ==
    /\ job \in {"members", "row"}
    /\ retries < RetryLimit
    /\ retries' = retries + 1
    /\ job' = "invitations"
    /\ UNCHANGED <<table, locks, pc, ask, scope, marks, writes, invites>>
-----------------------------------------------------------------------------
Request(t) ==
    \/ AskRoleChange(t) \/ AskTransfer(t) \/ AskEnd(t) \/ AskWorkspaceDeletion(t)
    \/ AskAcceptance(t) \/ AskAdminJoin(t) \/ AskAccountDeletion(t)
    \/ AskVerification(t) \/ AskInvitation(t) \/ AskRenewal(t)
    \/ AskRevocation(t)

Statement(t) ==
    \/ Snapshot(t) \/ LockWorkspace(t) \/ LockAccount(t)
    \/ ChangeMemberRole(t) \/ TransferOwnership(t) \/ EndMembership(t)
    \/ MarkDeleting(t) \/ AcceptInvitation(t) \/ AddMembership(t)
    \/ ReadScope(t) \/ DeleteAccount(t) \/ ReadStrip(t) \/ StripWorkspace(t)
    \/ CheckOwner(t) \/ Commit(t) \/ Rollback(t)
    \/ WriteInvitation(t) \/ RenewInvitation(t) \/ RevokeInvitation(t)

Purge == PurgeInvitations \/ PurgeMembers \/ DeleteFinish

Next == (\E t \in Txs : Request(t) \/ Statement(t)) \/ Purge \/ RestartJob

Spec == Init /\ [][Next]_vars
-----------------------------------------------------------------------------
(* Properties.                                                             *)

\* A live workspace always has an owner (workspace_members_owner_required),
\* whatever removals, demotions, deletions and verifications overlap.
OwnerRequired == ws = "live" => Owners(role) # {}

\* Part of OwnerHeld: two open transactions never have uncommitted writes of the same membership
\* row: the row locks PostgreSQL holds until a transaction ends.
RowExclusive ==
    \A t, u \in Txs : t # u =>
        \A a \in Accounts : writes[t][a] = "keep" \/ writes[u][a] = "keep"

\* Part of OwnerHeld: once the trigger has let a transaction through that takes an owner away, it
\* holds the workspace row and an owner is left in what it is about to commit,
\* until it does.
CheckedOwner ==
    \A t \in Txs :
        pc[t] = "checked" /\ ws = "live" /\ ~marks[t] /\ LosesOwner(t) =>
            wsLock = t /\ Owners(Seen(t)) # {}

\* The owner rule with what keeps it: at every moment an owner is left, each
\* check that has let a transaction through still holds, and no other open
\* transaction has written a row that the check has read.  (The deferred trigger
\* workspace_members_check_owner, the row locks)
OwnerHeld == OwnerRequired /\ RowExclusive /\ CheckedOwner

\* Acceptances that overlap never take the same last seat: only an instance
\* admin, whose join counts no seats, brings a workspace past the limit.
SeatsWithinLimit ==
    "adminJoin" \notin Operations => Cardinality(Members(role)) <= SeatLimit

\* Every member has an account: the deletion of an account and a join of the
\* same account that overlap never leave a membership behind.
MembersHaveAccounts == \A a \in Members(role) : Exists(a)

\* The verdict of each operation still stands in the state its transaction
\* commits in: the actor has the role it was judged by, the invitation is
\* pending with that token and its seat is free, the scope is what it was.
VerdictsStand ==
    \A t \in Txs : pc[t] \in {"commit", "checked"} =>
        LET q == ask[t] IN
        /\ q.op # "deleteAccount" /\ q.op # "verify" => ws = "live"
        /\ q.op = "changeRole" => MayChangeRole(role, q.actor, q.target, q.new)
        /\ q.op = "transfer" => MayTransfer(role, q.actor, q.target, q.flag)
        /\ q.op = "end" => MayEnd(role, q.actor, q.target, q.flag)
        /\ q.op = "deleteWorkspace" => role[q.actor] = "owner"
        /\ q.op \in {"accept", "signup"} =>
              /\ role[q.target] = "none"
              /\ writes[t][q.target] = invRole[q.target]
              /\ invToken[q.target] = q.token
              /\ SeatLeft
        /\ q.op = "deleteAccount" => ScopeOf(t) = scope[t]

\* Every commit is one step of Roster: the transactions, however their
\* statements interleave, are as good as serial.
Promise == INSTANCE Roster WITH invitation <- invRole
ImplementsRoster == Promise!Spec

\* A deletion that was asked for ends: the workspace.delete job empties and
\* removes the workspace, although runs of it stop halfway and start again.
DeletionEnds == ws = "deleting" ~> ws = "gone"

\* Every transaction ends (statement_timeout and the pool see to it), and the
\* last run of the job is not stopped.  A batch that waits for the row of a
\* member is next in the queue of that row's lock, so members who try to delete
\* their accounts over and over cannot keep it waiting: strong fairness.
FairSpec ==
    /\ Spec
    /\ \A t \in Txs : WF_vars(Commit(t) \/ Rollback(t))
    /\ WF_vars(PurgeInvitations) /\ SF_vars(PurgeMembers) /\ WF_vars(DeleteFinish)
=============================================================================
