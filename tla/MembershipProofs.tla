-------------------------- MODULE MembershipProofs --------------------------
(***************************************************************************)
(* Proofs about Membership, for every set of accounts and transactions,    *)
(* every seat limit and every set of operations.                           *)
(***************************************************************************)
EXTENDS Membership, TLAPS

\* The workspace.delete job exists only for a workspace that is being deleted.
JobNeedsDeletion == job # "none" => ws # "live"

\* OwnerRequired is not inductive: a commit keeps an owner only because the
\* trigger counted one under the lock (CheckedOwner), which other commits leave
\* alone because no two transactions write one row (RowExclusive).
Inv == TypeOK /\ RowExclusive /\ CheckedOwner /\ OwnerRequired /\ JobNeedsDeletion

-----------------------------------------------------------------------------
(* Types.                                                                  *)

\* The initial state is well typed.
LEMMA InitTypeOK == Init => TypeOK
  BY MembershipAssumption
  DEF Init, TypeOK, MembershipAssumption, Standing, Roles, InvitationRoles, PCs, NoAsk, Asks,
      OperationNames, Scopes, NoWrites, Jobs

\* A transaction that ends gives back well typed locks and rows.
LEMMA EndType ==
  ASSUME TypeOK, NEW t \in Txs, End(t)
  PROVE  /\ wsLock' \in Txs \cup {NoTx}
         /\ accLock' \in [Accounts -> [Txs -> {"none", "share", "update"}]]
         /\ pc' \in [Txs -> PCs]
         /\ ask' \in [Txs -> Asks]
         /\ \A u \in Txs : ask'[u].op = "invite" => ask'[u].new \in InvitationRoles
         /\ scope' \in [Txs -> Scopes]
         /\ marks' \in [Txs -> BOOLEAN]
         /\ writes' \in [Txs -> [Accounts -> Standing \cup {"keep"}]]
         /\ invites' \in [Txs -> SUBSET Accounts]
  BY MembershipAssumption
  DEF TypeOK, End, Goto, MembershipAssumption, PCs, NoAsk, Asks, OperationNames, Scopes,
      NoWrites, Roles

\* A request that opens a transaction is well typed.
LEMMA OpenType ==
  ASSUME TypeOK, NEW t \in Txs, NEW op \in OperationNames, NEW place \in PCs,
         NEW actor \in Accounts, NEW target \in Accounts, NEW new \in Roles,
         NEW flag \in BOOLEAN, NEW token \in 0 .. MaxTokens,
         op = "invite" => new \in InvitationRoles,
         Open(t, op, place, actor, target, new, flag, token)
  PROVE  TypeOK'
  <1>1. /\ ask' \in [Txs -> Asks]
        /\ \A u \in Txs : ask'[u].op = "invite" => ask'[u].new \in InvitationRoles
    BY DEF Open, TypeOK, Asks
  <1>2. pc' \in [Txs -> PCs]
    BY DEF Open, TypeOK, Goto
  <1> QED
    BY <1>1, <1>2 DEF Open, TypeOK, table, locks, worker

\* Each request of a transaction leaves the state well typed.
LEMMA RequestType ==
  ASSUME TypeOK, NEW t \in Txs, Request(t)
  PROVE  TypeOK'
  <1>0. /\ 0 \in 0 .. MaxTokens
        /\ {"member", "owner"} \subseteq Roles /\ InvitationRoles \subseteq Roles
        /\ {"lock", "write", "snapshot"} \subseteq PCs /\ Admins \subseteq Accounts
    BY MembershipAssumption DEF MembershipAssumption, Roles, PCs, InvitationRoles
  <1>1. CASE AskRoleChange(t)
    BY <1>0, <1>1, OpenType DEF AskRoleChange, OperationNames
  <1>2. CASE AskTransfer(t)
    BY <1>0, <1>2, OpenType DEF AskTransfer, OperationNames
  <1>3. CASE AskEnd(t)
    BY <1>0, <1>3, OpenType DEF AskEnd, OperationNames
  <1>4. CASE AskWorkspaceDeletion(t)
    BY <1>0, <1>4, OpenType DEF AskWorkspaceDeletion, OperationNames
  <1>5. CASE AskAcceptance(t)
    <2>1. PICK a \in Accounts, linkIssued \in BOOLEAN :
             \/ Open(t, "accept", "lock", a, a, "member", FALSE, invToken[a])
             \/ Open(t, "signup", "lock", a, a, "member", linkIssued, invToken[a])
      BY <1>5 DEF AskAcceptance
    <2>2. invToken[a] \in 0 .. MaxTokens
      BY DEF TypeOK
    <2> QED
      BY <1>0, <2>1, <2>2, OpenType DEF OperationNames
  <1>6. CASE AskAdminJoin(t)
    BY <1>0, <1>6, OpenType DEF AskAdminJoin, OperationNames
  <1>7. CASE AskAccountDeletion(t)
    BY <1>0, <1>7, OpenType DEF AskAccountDeletion, OperationNames
  <1>8. CASE AskVerification(t)
    BY <1>0, <1>8, OpenType DEF AskVerification, OperationNames
  <1>9. CASE AskInvitation(t)
    BY <1>0, <1>9, OpenType DEF AskInvitation, OperationNames
  <1>10. CASE AskRevocation(t)
    BY <1>0, <1>10, OpenType DEF AskRevocation, OperationNames
  <1>11. CASE AskRenewal(t)
    BY <1>0, <1>11, OpenType DEF AskRenewal, OperationNames
  <1> QED
    BY <1>1, <1>2, <1>3, <1>4, <1>5, <1>6, <1>7, <1>8, <1>9, <1>10, <1>11 DEF Request

\* Each statement of a transaction leaves the state well typed.
LEMMA StatementType ==
  ASSUME TypeOK, NEW t \in Txs, Statement(t)
  PROVE  TypeOK'
  <1> USE DEF table, locks, worker
  <1>q. /\ ask[t] \in Asks
        /\ ask[t].actor \in Accounts /\ ask[t].target \in Accounts
        /\ ask[t].new \in Roles
    BY DEF TypeOK, Asks
  <1>1. CASE Snapshot(t)
    BY <1>1 DEF Snapshot, TypeOK, Goto, PCs
  <1>2. CASE LockWorkspace(t)
    BY <1>2 DEF LockWorkspace, AfterLock, TypeOK, Goto, PCs
  <1>3. CASE LockAccount(t)
    BY <1>3, <1>q DEF LockAccount, TypeOK, Goto, PCs
  <1>4. CASE ChangeMemberRole(t)
    BY <1>4, <1>q DEF ChangeMemberRole, Write, NoWrites, Standing, TypeOK, Goto, PCs
  <1>5. CASE TransferOwnership(t)
    BY <1>5, <1>q DEF TransferOwnership, Write, NoWrites, Standing, Roles, TypeOK, Goto, PCs
  <1>6. CASE EndMembership(t)
    BY <1>6, <1>q DEF EndMembership, Write, NoWrites, Standing, Roles, TypeOK, Goto, PCs
  <1>7. CASE MarkDeleting(t)
    BY <1>7, <1>q DEF MarkDeleting, TypeOK, Goto, PCs
  <1>8. CASE AcceptInvitation(t)
    BY <1>8, <1>q
    DEF AcceptInvitation, Write, NoWrites, Standing, Roles, InvitationRoles, TypeOK, Goto, PCs
  <1>9. CASE AddMembership(t)
    BY <1>9, <1>q DEF AddMembership, Write, NoWrites, Standing, Roles, TypeOK, Goto, PCs
  <1>10. CASE ReadScope(t)
    BY <1>10, <1>q DEF ReadScope, ScopeOf, DeletionScope, Scopes, TypeOK, Goto, PCs
  <1>11. CASE DeleteAccount(t)
    BY <1>11, <1>q DEF DeleteAccount, Write, NoWrites, Standing, Roles, TypeOK, Goto, PCs
  <1>12. CASE ReadStrip(t)
    BY <1>12, <1>q DEF ReadStrip, Scopes, TypeOK, Goto, PCs
  <1>13. CASE StripWorkspace(t)
    <2>1. writes' \in [Txs -> [Accounts -> Standing \cup {"keep"}]]
      <3>1. CASE UNCHANGED writes
        BY <3>1 DEF TypeOK
      <3>2. CASE \E new \in [Accounts -> {"keep", "owner", "none"}] :
                    writes' = [writes EXCEPT ![t] = new]
        BY <3>2 DEF TypeOK, Standing, Roles
      <3> QED
        BY <1>13, <3>1, <3>2 DEF StripWorkspace, Write
    <2>2. invites' \in [Txs -> SUBSET Accounts]
      BY <1>13 DEF StripWorkspace, TypeOK
    <2>3. pc' \in [Txs -> PCs]
      BY <1>13 DEF StripWorkspace, TypeOK, Goto, PCs
    <2> QED
      BY <1>13, <2>1, <2>2, <2>3 DEF StripWorkspace, TypeOK
  <1>14. CASE CheckOwner(t)
    BY <1>14, <1>q DEF CheckOwner, TypeOK, Goto, PCs
  <1>15. CASE Commit(t)
    <2>1. role' \in [Accounts -> Standing]
      BY <1>15 DEF Commit, Seen, TypeOK, Standing, Roles
    <2>2. account' \in [Accounts -> {"absent", "unverified", "verified", "deleted"}]
      BY <1>15, <1>q DEF Commit, AccountAfter, TypeOK
    <2>3. invRole' \in [Accounts -> InvitationRoles \cup {"none"}]
      BY <1>15 DEF Commit, TypeOK
    <2>4. /\ ws' \in {"live", "deleting", "gone"} /\ job' \in Jobs
          /\ UNCHANGED <<invToken, retries>>
      BY <1>15 DEF Commit, TypeOK, Jobs
    <2> QED
      BY <1>15, <2>1, <2>2, <2>3, <2>4, EndType DEF Commit, TypeOK
  <1>16. CASE Rollback(t)
    BY <1>16, EndType DEF Rollback, TypeOK
  <1>17. CASE WriteInvitation(t)
    <2>1. invRole' \in [Accounts -> InvitationRoles \cup {"none"}]
      BY <1>17, <1>q DEF WriteInvitation, TypeOK
    <2>2. invToken' \in [Accounts -> 0 .. MaxTokens]
      BY <1>17, <1>q, MembershipAssumption DEF WriteInvitation, TypeOK, MembershipAssumption
    <2> QED
      BY <1>17, <2>1, <2>2, EndType DEF WriteInvitation, TypeOK
  <1>18. CASE RevokeInvitation(t)
    BY <1>18, <1>q, EndType DEF RevokeInvitation, TypeOK
  <1>19. CASE RenewInvitation(t)
    <2>1. invToken' \in [Accounts -> 0 .. MaxTokens]
      BY <1>19, <1>q, MembershipAssumption DEF RenewInvitation, TypeOK, MembershipAssumption
    <2> QED
      BY <1>19, <2>1, EndType DEF RenewInvitation, TypeOK
  <1> QED
    BY <1>1, <1>2, <1>3, <1>4, <1>5, <1>6, <1>7, <1>8, <1>9, <1>10, <1>11, <1>12, <1>13,
       <1>14, <1>15, <1>16, <1>17, <1>18, <1>19 DEF Statement

\* The job leaves the state well typed.
LEMMA JobType ==
  ASSUME TypeOK, Purge \/ RestartJob
  PROVE  TypeOK'
  <1> USE DEF table, locks
  <1>1. CASE PurgeInvitations
    BY <1>1 DEF PurgeInvitations, TypeOK, Jobs
  <1>2. CASE PurgeMembers
    BY <1>2 DEF PurgeMembers, TypeOK, Jobs, Standing
  <1>3. CASE DeleteFinish
    BY <1>3 DEF DeleteFinish, TypeOK, Jobs, Standing
  <1>4. CASE RestartJob
    BY <1>4, MembershipAssumption DEF RestartJob, TypeOK, Jobs, MembershipAssumption
  <1> QED
    BY <1>1, <1>2, <1>3, <1>4 DEF Purge

\* A step that changes nothing leaves the state well typed.
LEMMA StutterType ==
  ASSUME TypeOK, UNCHANGED vars
  PROVE  TypeOK'
  BY DEF TypeOK, vars

\* The types are an invariant: no sequence of requests, commits, rollbacks and
\* runs of the job takes a variable out of its range, the counters of tokens
\* and of retries included.
THEOREM TypeCorrect == Spec => []TypeOK
  <1>1. Init => TypeOK
    BY InitTypeOK
  <1>2. TypeOK /\ [Next]_vars => TypeOK'
    BY RequestType, StatementType, JobType, StutterType DEF Next
  <1> QED
    BY <1>1, <1>2, PTL DEF Spec
-----------------------------------------------------------------------------
(* An owner is left.                                                       *)

\* A step of one transaction that changes no table, does not get past the
\* trigger, takes the workspace row from nobody and writes only rows that no
\* other transaction has written.
LEMMA LocalStep ==
  ASSUME Inv, TypeOK', NEW t \in Txs,
         UNCHANGED <<role, ws, job>>,
         \A u \in Txs \ {t} :
            writes'[u] = writes[u] /\ marks'[u] = marks[u] /\ pc'[u] = pc[u],
         pc'[t] # "checked",
         wsLock \in Txs \ {t} => wsLock' = wsLock,
         \A u \in Txs \ {t}, a \in Accounts : writes'[t][a] = "keep" \/ writes[u][a] = "keep"
  PROVE  Inv'
  <1>1. RowExclusive'
    <2> SUFFICES ASSUME NEW u \in Txs, NEW v \in Txs, u # v, NEW a \in Accounts
                 PROVE  writes'[u][a] = "keep" \/ writes'[v][a] = "keep"
      BY DEF RowExclusive
    <2> QED
      BY DEF Inv, RowExclusive
  <1>2. CheckedOwner'
    <2> SUFFICES ASSUME NEW u \in Txs, pc'[u] = "checked", ws' = "live", ~marks'[u],
                        LosesOwner(u)'
                 PROVE  wsLock' = u /\ (Owners(Seen(u)) # {})'
      BY DEF CheckedOwner
    <2>1. u # t /\ pc[u] = "checked" /\ ws = "live" /\ ~marks[u] /\ writes'[u] = writes[u]
      OBVIOUS
    <2>2. Seen(u)' = Seen(u)
      BY <2>1 DEF Seen
    <2>3. LosesOwner(u) /\ Owners(Seen(u))' = Owners(Seen(u))
      BY <2>2 DEF LosesOwner, Owners
    <2>4. wsLock = u /\ Owners(Seen(u)) # {}
      BY <2>1, <2>3 DEF Inv, CheckedOwner
    <2> QED
      BY <2>1, <2>3, <2>4
  <1>3. OwnerRequired' /\ JobNeedsDeletion'
    BY DEF Inv, OwnerRequired, JobNeedsDeletion, Owners
  <1> QED
    BY <1>1, <1>2, <1>3 DEF Inv

\* A transaction that ends without a commit.
LEMMA EndStep ==
  ASSUME Inv, TypeOK', NEW t \in Txs, End(t), UNCHANGED <<role, ws, job>>
  PROVE  Inv'
  <1>1. \A u \in Txs \ {t} :
          writes'[u] = writes[u] /\ marks'[u] = marks[u] /\ pc'[u] = pc[u]
    BY DEF End, Goto, Inv, TypeOK
  <1>2. pc'[t] = "idle" /\ \A a \in Accounts : writes'[t][a] = "keep"
    BY DEF End, Goto, NoWrites, Inv, TypeOK
  <1>3. wsLock \in Txs \ {t} => wsLock' = wsLock
    BY DEF End
  <1> QED
    BY <1>1, <1>2, <1>3, LocalStep

\* A statement that only moves its transaction on, or takes a free lock.
LEMMA QuietStep ==
  ASSUME Inv, TypeOK', NEW t \in Txs, NEW place \in PCs \ {"checked"}, Goto(t, place),
         UNCHANGED <<role, ws, job, marks, writes>>,
         wsLock \in Txs \ {t} => wsLock' = wsLock
  PROVE  Inv'
  <1>1. pc'[t] = place /\ \A u \in Txs \ {t} : pc'[u] = pc[u]
    BY DEF Goto, Inv, TypeOK
  <1>2. \A u \in Txs \ {t}, a \in Accounts : writes[t][a] = "keep" \/ writes[u][a] = "keep"
    BY DEF Inv, RowExclusive
  <1> QED
    BY <1>1, <1>2, LocalStep

\* A statement that writes rows of workspace_members, and perhaps marks the
\* workspace.
LEMMA WriteStep ==
  ASSUME Inv, TypeOK', NEW t \in Txs, NEW new, Write(t, new), Goto(t, "commit"),
         UNCHANGED <<role, ws, job, wsLock>>,
         \A u \in Txs \ {t} : marks'[u] = marks[u]
  PROVE  Inv'
  <1>1. pc'[t] = "commit" /\ \A u \in Txs \ {t} : pc'[u] = pc[u]
    BY DEF Goto, Inv, TypeOK
  <1>2. writes'[t] = new /\ \A u \in Txs \ {t} : writes'[u] = writes[u]
    BY DEF Write, Inv, TypeOK
  <1>3. \A u \in Txs \ {t}, a \in Accounts : writes'[t][a] = "keep" \/ writes[u][a] = "keep"
    BY <1>2 DEF Write, RowsFree
  <1> QED
    BY <1>1, <1>2, <1>3, LocalStep

\* Opening a transaction.
LEMMA RequestInv ==
  ASSUME Inv, NEW t \in Txs, Request(t)
  PROVE  Inv'
  <1>1. TypeOK'
    BY RequestType DEF Inv
  <1>2. \E place \in {"lock", "snapshot", "write"} :
           Goto(t, place) /\ UNCHANGED <<role, ws, job, marks, writes, wsLock>>
    BY DEF Request, AskRoleChange, AskTransfer, AskEnd, AskWorkspaceDeletion, AskAcceptance,
           AskAdminJoin, AskAccountDeletion, AskVerification, AskInvitation, AskRenewal,
           AskRevocation, Open, table, locks, worker
  <1> QED
    BY <1>1, <1>2, QuietStep DEF PCs

\* The trigger lets a transaction through only with the lock and an owner.
LEMMA CheckOwnerInv ==
  ASSUME Inv, TypeOK', NEW t \in Txs, CheckOwner(t)
  PROVE  Inv'
  <1>1. /\ UNCHANGED <<role, ws, job, marks, writes>>
        /\ pc'[t] = "checked" /\ \A u \in Txs \ {t} : pc'[u] = pc[u]
    BY DEF CheckOwner, Goto, table, worker, Inv, TypeOK
  <1>2. wsLock \in Txs \ {t} => wsLock' = wsLock
    BY MembershipAssumption DEF CheckOwner, MembershipAssumption
  <1>3. RowExclusive' /\ OwnerRequired' /\ JobNeedsDeletion'
    BY <1>1 DEF Inv, RowExclusive, OwnerRequired, JobNeedsDeletion, Owners
  <1>4. CheckedOwner'
    <2> SUFFICES ASSUME NEW u \in Txs, pc'[u] = "checked", ws' = "live", ~marks'[u],
                        LosesOwner(u)'
                 PROVE  wsLock' = u /\ (Owners(Seen(u)) # {})'
      BY DEF CheckedOwner
    <2>1. Seen(u)' = Seen(u) /\ LosesOwner(u) /\ Owners(Seen(u))' = Owners(Seen(u))
      BY <1>1 DEF Seen, LosesOwner, Owners
    <2>2. CASE u = t
      BY <1>1, <2>1, <2>2 DEF CheckOwner
    <2>3. CASE u # t
      <3>1. wsLock = u /\ Owners(Seen(u)) # {}
        BY <1>1, <2>1, <2>3 DEF Inv, CheckedOwner
      <3> QED
        BY <1>2, <2>1, <2>3, <3>1
    <2> QED
      BY <2>2, <2>3
  <1> QED
    BY <1>3, <1>4 DEF Inv

\* A commit.  If it takes an owner away, the trigger has left another one under
\* the lock; and a transaction that has passed the trigger too keeps the owner
\* it counted, since who could take that one away would hold the same lock.
LEMMA CommitInv ==
  ASSUME Inv, TypeOK', NEW t \in Txs, Commit(t)
  PROVE  Inv'
  <1>1. /\ pc[t] = "checked" /\ role' = Seen(t)
        /\ pc'[t] = "idle" /\ \A u \in Txs \ {t} : pc'[u] = pc[u]
    BY DEF Commit, End, Goto, Inv, TypeOK
  <1>2. /\ \A u \in Txs \ {t} : writes'[u] = writes[u] /\ marks'[u] = marks[u]
        /\ \A a \in Accounts : writes'[t][a] = "keep"
    BY DEF Commit, End, NoWrites, Inv, TypeOK
  <1>3. wsLock \in Txs \ {t} => wsLock' = wsLock
    BY DEF Commit, End
  <1>4. ws' = "live" => ws = "live" /\ ~marks[t]
    BY DEF Commit
  <1>5. RowExclusive'
    <2> SUFFICES ASSUME NEW u \in Txs, NEW v \in Txs, u # v, NEW a \in Accounts
                 PROVE  writes'[u][a] = "keep" \/ writes'[v][a] = "keep"
      BY DEF RowExclusive
    <2> QED
      BY <1>2 DEF Inv, RowExclusive
  <1>6. JobNeedsDeletion'
    BY DEF Commit, Inv, JobNeedsDeletion
  <1>7. OwnerRequired'
    <2> SUFFICES ASSUME ws' = "live"
                 PROVE  \E a \in Accounts : Seen(t)[a] = "owner"
      BY <1>1 DEF OwnerRequired, Owners
    <2>1. PICK o \in Accounts : role[o] = "owner"
      BY <1>4 DEF Inv, OwnerRequired, Owners
    <2>2. CASE LosesOwner(t)
      BY <1>1, <1>4, <2>2 DEF Inv, CheckedOwner, Owners
    <2>3. CASE ~LosesOwner(t)
      BY <2>1, <2>3 DEF LosesOwner
    <2> QED
      BY <2>2, <2>3
  <1>8. CheckedOwner'
    <2> SUFFICES ASSUME NEW u \in Txs, pc'[u] = "checked", ws' = "live", ~marks'[u],
                        LosesOwner(u)'
                 PROVE  wsLock' = u /\ (Owners(Seen(u)) # {})'
      BY DEF CheckedOwner
    <2>1. u # t /\ pc[u] = "checked" /\ ws = "live" /\ ~marks[u] /\ ~marks[t]
      BY <1>1, <1>2, <1>4
    <2>2. \A a \in Accounts : writes[u][a] # "keep" => role'[a] = role[a]
      BY <1>1, <2>1 DEF Inv, RowExclusive, Seen
    <2>3. LosesOwner(u)
      <3>1. PICK a \in Accounts : role'[a] = "owner" /\ Seen(u)'[a] # "owner"
        BY DEF LosesOwner
      <3>2. writes[u][a] # "keep" /\ writes[u][a] # "owner"
        BY <1>2, <2>1, <3>1 DEF Seen
      <3> QED
        BY <2>2, <3>1, <3>2 DEF LosesOwner, Seen
    <2>4. wsLock = u /\ Owners(Seen(u)) # {}
      BY <2>1, <2>3 DEF Inv, CheckedOwner
    <2>5. ~LosesOwner(t)
      BY <1>1, <2>1, <2>4 DEF Inv, CheckedOwner
    <2>6. PICK o \in Accounts : Seen(u)[o] = "owner"
      BY <2>4 DEF Owners
    <2>7. Seen(u)'[o] = "owner"
      BY <1>1, <1>2, <2>1, <2>2, <2>5, <2>6 DEF Seen, LosesOwner
    <2> QED
      BY <1>3, <2>1, <2>4, <2>7 DEF Owners
  <1> QED
    BY <1>5, <1>6, <1>7, <1>8 DEF Inv

\* Every statement of a transaction.
LEMMA StatementInv ==
  ASSUME Inv, NEW t \in Txs, Statement(t)
  PROVE  Inv'
  <1> USE DEF table, locks, worker
  <1>0. TypeOK' /\ NoTx \notin Txs
    BY StatementType, MembershipAssumption DEF Inv, MembershipAssumption
  <1>1. CASE Snapshot(t)
    BY <1>0, <1>1, QuietStep DEF Snapshot, PCs
  <1>2. CASE LockWorkspace(t)
    BY <1>0, <1>2, QuietStep DEF LockWorkspace, AfterLock, PCs
  <1>3. CASE LockAccount(t)
    BY <1>0, <1>3, QuietStep DEF LockAccount, PCs
  <1>4. CASE ChangeMemberRole(t)
    BY <1>0, <1>4, WriteStep DEF ChangeMemberRole
  <1>5. CASE TransferOwnership(t)
    BY <1>0, <1>5, WriteStep DEF TransferOwnership
  <1>6. CASE EndMembership(t)
    BY <1>0, <1>6, WriteStep DEF EndMembership
  <1>7. CASE MarkDeleting(t)
    <2>1. /\ pc'[t] = "commit" /\ UNCHANGED <<role, ws, job, writes, wsLock>>
          /\ \A u \in Txs \ {t} : pc'[u] = pc[u] /\ marks'[u] = marks[u]
      BY <1>7 DEF MarkDeleting, Goto, Inv, TypeOK
    <2>2. \A u \in Txs \ {t}, a \in Accounts : writes[t][a] = "keep" \/ writes[u][a] = "keep"
      BY DEF Inv, RowExclusive
    <2> QED
      BY <1>0, <2>1, <2>2, LocalStep
  <1>8. CASE AcceptInvitation(t)
    BY <1>0, <1>8, WriteStep DEF AcceptInvitation
  <1>9. CASE AddMembership(t)
    BY <1>0, <1>9, WriteStep DEF AddMembership
  <1>10. CASE ReadScope(t)
    BY <1>0, <1>10, QuietStep DEF ReadScope, PCs
  <1>11. CASE DeleteAccount(t)
    <2>1. \A u \in Txs \ {t} : marks'[u] = marks[u]
      BY <1>11 DEF DeleteAccount, Inv, TypeOK
    <2> QED
      BY <1>0, <1>11, <2>1, WriteStep DEF DeleteAccount
  <1>12. CASE ReadStrip(t)
    BY <1>0, <1>12, QuietStep DEF ReadStrip, PCs
  <1>13. CASE StripWorkspace(t)
    BY <1>0, <1>13, WriteStep, QuietStep DEF StripWorkspace, PCs
  <1>14. CASE CheckOwner(t)
    BY <1>0, <1>14, CheckOwnerInv
  <1>15. CASE Commit(t)
    BY <1>0, <1>15, CommitInv
  <1>16. CASE Rollback(t)
    BY <1>0, <1>16, EndStep DEF Rollback
  <1>17. CASE WriteInvitation(t)
    BY <1>0, <1>17, EndStep DEF WriteInvitation
  <1>18. CASE RevokeInvitation(t)
    BY <1>0, <1>18, EndStep DEF RevokeInvitation
  <1>19. CASE RenewInvitation(t)
    BY <1>0, <1>19, EndStep DEF RenewInvitation
  <1> QED
    BY <1>1, <1>2, <1>3, <1>4, <1>5, <1>6, <1>7, <1>8, <1>9, <1>10, <1>11, <1>12, <1>13,
       <1>14, <1>15, <1>16, <1>17, <1>18, <1>19 DEF Statement

\* The job works on a workspace that is being deleted, which needs no owner.
LEMMA JobInv ==
  ASSUME Inv, Purge \/ RestartJob
  PROVE  Inv'
  <1>1. TypeOK'
    BY JobType DEF Inv
  <1>2. ws # "live" /\ ws' # "live" /\ UNCHANGED writes
    BY DEF Purge, PurgeInvitations, PurgeMembers, DeleteFinish, RestartJob, table, Inv,
           JobNeedsDeletion
  <1>3. RowExclusive'
    BY <1>2 DEF Inv, RowExclusive
  <1> QED
    BY <1>1, <1>2, <1>3 DEF Inv, CheckedOwner, OwnerRequired, JobNeedsDeletion

LEMMA InitInv == Init => Inv
  <1>1. Init => OwnerRequired
    BY MembershipAssumption DEF Init, OwnerRequired, Owners, MembershipAssumption
  <1>2. Init => RowExclusive /\ CheckedOwner /\ JobNeedsDeletion
    BY DEF Init, RowExclusive, CheckedOwner, JobNeedsDeletion, NoWrites
  <1> QED
    BY <1>1, <1>2, InitTypeOK DEF Inv

\* Inv is inductive.
LEMMA StepInv ==
  ASSUME Inv, [Next]_vars
  PROVE  Inv'
  <1>1. CASE UNCHANGED vars
    <2>1. TypeOK' /\ RowExclusive' /\ OwnerRequired' /\ JobNeedsDeletion'
      BY <1>1, StutterType DEF Inv, RowExclusive, Owners, OwnerRequired, JobNeedsDeletion, vars
    <2>2. \A t \in Txs : Seen(t)' = Seen(t)
      BY <1>1 DEF Seen, vars
    <2>3. CheckedOwner'
      BY <1>1, <2>2 DEF Inv, CheckedOwner, LosesOwner, Owners, vars
    <2> QED
      BY <2>1, <2>3 DEF Inv
  <1> QED
    BY <1>1, RequestInv, StatementInv, JobInv DEF Next

LEMMA Invariance == Spec => []Inv
  BY InitInv, StepInv, PTL DEF Spec

\* A live workspace always has an owner, for any number of accounts and of
\* overlapping transactions: the deferred trigger workspace_members_check_owner
\* and its lock suffice, whatever locks the operations themselves take.
THEOREM OwnerAlways == Spec => []OwnerRequired
  BY Invariance, PTL DEF Inv

\* What the trigger has checked stands until its transaction has committed: the
\* rows it counted are written by nobody else.
THEOREM OwnerAlwaysHeld == Spec => []OwnerHeld
  BY Invariance, PTL DEF Inv, OwnerHeld
=============================================================================
