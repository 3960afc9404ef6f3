---------------------------- MODULE VerdictProofs ----------------------------
(***************************************************************************)
(* Proofs about the verdicts of Membership: what an operation has judged   *)
(* under its locks still stands when its transaction commits, so every     *)
(* commit is a step of Roster, every member has an account, and no seat is *)
(* taken twice; for every set of accounts and transactions.                *)
(***************************************************************************)
EXTENDS MembershipProofs, FiniteSetTheorems

\* The operations that lock the workspace row before they judge, those that lock
\* an account FOR UPDATE, those of one statement, and those that add a member.
WorkspaceOps ==
    {"changeRole", "transfer", "end", "deleteWorkspace", "accept", "signup", "adminJoin"}
AccountOps == {"deleteAccount", "verify"}
InvitationOps == {"invite", "renew", "revoke"}
Joins == {"accept", "signup", "adminJoin"}

Judged(t) == pc[t] \in {"commit", "checked"}
Decided(t) == Judged(t) \/ pc[t] \in {"decide", "apply"}
AccountLocked(t) == pc[t] \notin {"snapshot", "lock", "account"}

\* Which operations reach which statement, and whose request they carry.
Routed(t) ==
    LET q == ask[t] IN
    /\ q.op \in Operations \cup {"none"}
    /\ q.op = "none" <=> pc[t] = "idle"
    /\ q.op \in InvitationOps <=> pc[t] = "write"
    /\ pc[t] = "account" => q.op \in {"accept", "adminJoin"} \cup AccountOps
    /\ pc[t] = "judge" => q.op \in WorkspaceOps \cup {"deleteAccount"}
    /\ pc[t] \in {"snapshot", "again", "relock", "decide"} => q.op \in AccountOps
    /\ pc[t] = "apply" => q.op = "verify"
    /\ q.op \in Joins \cup AccountOps => q.target = q.actor
    /\ q.op = "adminJoin" => q.actor \in Admins

\* Before its judgement a transaction has written nothing.
Unwritten(t) == ~Judged(t) => writes[t] = NoWrites /\ invites[t] = {} /\ ~marks[t]

\* Who holds the workspace row.  A deletion of an account that is in a live
\* workspace, and the verification of its founder, hold it from the second lock
\* on; a verification of anybody else may have found nothing to lock.
HoldsWorkspace(t) ==
    LET q == ask[t] IN
    /\ q.op \in WorkspaceOps /\ pc[t] # "lock" => wsLock = t /\ ws = "live"
    /\ q.op = "deleteAccount" /\ Decided(t) /\ ws = "live" /\ role[q.actor] # "none" =>
          wsLock = t
    /\ q.op = "verify" /\ q.actor = Founder /\ Decided(t) /\ ws = "live" => wsLock = t
    /\ marks[t] => wsLock = t /\ ws = "live"

\* Who holds the row of an account, and what that keeps the account.
HoldsAccount(t) ==
    LET q == ask[t] IN
    /\ q.op \in {"accept", "adminJoin"} /\ AccountLocked(t) =>
          accLock[q.actor][t] = "share" /\ Exists(q.actor)
    /\ q.op \in AccountOps /\ AccountLocked(t) =>
          accLock[q.actor][t] = "update" /\ Exists(q.actor)
    /\ q.op = "verify" /\ AccountLocked(t) => account[q.actor] = "unverified"
    /\ q.op = "accept" /\ Judged(t) => account[q.actor] = "verified"
    /\ q.op = "signup" /\ Judged(t) => account[q.actor] = "absent"

\* What a transaction that has judged is about to commit.
Planned(t) ==
    LET q == ask[t] IN
    Judged(t) =>
      /\ q.op = "changeRole" => writes[t] = [NoWrites EXCEPT ![q.target] = q.new]
      /\ q.op = "transfer" =>
            writes[t] = [NoWrites EXCEPT
                            ![q.target] = IF role[q.target] = "owner" THEN "keep" ELSE "owner",
                            ![q.actor] = IF q.flag THEN "admin" ELSE "keep"]
      /\ q.op = "end" => writes[t] = [NoWrites EXCEPT ![q.target] = "none"]
      /\ q.op = "deleteWorkspace" => writes[t] = NoWrites /\ marks[t]
      /\ q.op \in {"accept", "signup"} =>
            /\ writes[t] = [NoWrites EXCEPT ![q.actor] = invRole[q.actor]]
            /\ invites[t] = {q.actor}
      /\ q.op = "adminJoin" => writes[t] = [NoWrites EXCEPT ![q.actor] = "member"]
      /\ q.op = "deleteAccount" =>
            /\ writes[t] = [NoWrites EXCEPT
                               ![q.actor] = IF role[q.actor] = "none" THEN "keep" ELSE "none"]
            /\ marks[t] = (scope[t] = "sole")
      /\ q.op = "verify" =>
            /\ \A b \in Accounts \ {q.actor} : writes[t][b] \in {"keep", "none"}
            /\ writes[t][q.actor] \in {"keep", "owner"}
      /\ q.op \notin {"accept", "signup", "verify"} => invites[t] = {}
      /\ q.op \notin {"deleteWorkspace", "deleteAccount"} => ~marks[t]

\* Only a join writes the row of an account that is not a member.
Present(t) ==
    ask[t].op \notin Joins =>
        \A b \in Accounts : writes[t][b] # "keep" => role[b] # "none"

\* The verdicts.  A verification may strip an admin, without the lock of the
\* workspace, between the judgement of that admin's request and its commit: the
\* rules of a role change and of an ended membership stand as they were judged
\* only where nothing is verified, and in general for the target alone.
Stands(t) ==
    LET q == ask[t] IN
    /\ q.op = "deleteAccount" /\ AccountLocked(t) /\ pc[t] # "judge" => scope[t] # "blocking"
    /\ q.op = "verify" /\ q.actor = Founder /\ pc[t] = "apply" /\ ws = "live"
          /\ role[q.actor] # "none" => scope[t] = "sole"
    /\ Judged(t) =>
        /\ q.op = "changeRole" =>
              /\ role[q.target] \notin {"none", q.new}
              /\ "verify" \notin Operations => MayChangeRole(role, q.actor, q.target, q.new)
        /\ q.op = "transfer" => MayTransfer(role, q.actor, q.target, q.flag)
        /\ q.op = "end" =>
              /\ role[q.target] # "none"
              /\ "verify" \notin Operations => MayEnd(role, q.actor, q.target, q.flag)
        /\ q.op = "deleteWorkspace" => role[q.actor] = "owner"
        /\ q.op \in Joins => role[q.actor] = "none"
        /\ q.op \in {"accept", "signup"} =>
              invRole[q.actor] # "none" /\ invToken[q.actor] = q.token /\ SeatLeft
        /\ q.op = "deleteAccount" => ScopeOf(t) = scope[t]
        /\ q.op = "verify" /\ q.actor = Founder /\ ws = "live" /\ role[q.actor] # "none" =>
              \A b \in Accounts : Seen(t)[b] = IF b = q.actor THEN "owner" ELSE "none"

Sound(t) ==
    /\ Routed(t) /\ Unwritten(t) /\ HoldsWorkspace(t) /\ HoldsAccount(t)
    /\ Planned(t) /\ Present(t) /\ Stands(t)

AllSound == \A t \in Txs : Sound(t)

\* An invitation that is locked, and an account locked FOR UPDATE, are locked by
\* one transaction.
InvitationsExclusive == \A u, v \in Txs : u # v => invites[u] \cap invites[v] = {}
AccountsExclusive ==
    \A u, v \in Txs : u # v =>
        \A a \in Accounts : accLock[a][u] = "update" => accLock[a][v] = "none"

\* The job runs for a workspace that is being deleted, and gets to its row when
\* no member is left.
JobSound ==
    /\ job # "none" => ws = "deleting"
    /\ job = "row" => Members(role) = {}

\* VerdictsStand is not inductive: a verdict stands because whoever could change
\* what it was made on needs a lock that the transaction holds (HoldsWorkspace,
\* HoldsAccount, the exclusive rows), and that is so only of the writes that each
\* operation makes (Planned, Present).
Serial ==
    /\ Inv
    /\ AllSound
    /\ InvitationsExclusive /\ AccountsExclusive
    /\ JobSound
    /\ MembersHaveAccounts
-----------------------------------------------------------------------------
(* What the step of one transaction leaves to another one.                 *)

\* Nothing of its own has changed, and it keeps its locks.
Undisturbed(u) ==
    /\ pc'[u] = pc[u] /\ ask'[u] = ask[u] /\ scope'[u] = scope[u] /\ marks'[u] = marks[u]
    /\ writes'[u] = writes[u] /\ invites'[u] = invites[u]
    /\ \A a \in Accounts : accLock'[a][u] = accLock[a][u]
    /\ wsLock = u => wsLock' = u

\* The tables have changed no more than its locks allow.
Respected(u) ==
    /\ ws' = "live" => ws = "live"
    /\ wsLock = u /\ ws = "live" =>
        /\ ws' = "live"
        /\ \A b \in Accounts : role[b] = "owner" => role'[b] = "owner"
        /\ \A b \in Accounts : role[b] = "none" => role'[b] = "none"
        /\ "verify" \notin Operations => role' = role
        /\ \A b \in invites[u] : invRole'[b] = invRole[b] /\ invToken'[b] = invToken[b]
        /\ \A b \in Accounts : account[b] = "absent" => account'[b] = "absent"
    /\ \A b \in Accounts : writes[u][b] # "keep" => role'[b] = role[b]
    /\ \A b \in Accounts : accLock[b][u] # "none" /\ Exists(b) =>
        /\ account'[b] = account[b]
        /\ accLock[b][u] = "update" /\ role[b] = "none" => role'[b] = "none"

\* A roster that loses members has a seat left when the larger one had.
LEMMA SeatsOnlyFreed ==
  ASSUME Members(role') \subseteq Members(role), SeatLeft
  PROVE  SeatLeft'
  <1>1. IsFiniteSet(Members(role))
    BY FS_Subset, MembershipAssumption DEF Members, MembershipAssumption
  <1>2. /\ IsFiniteSet(Members(role'))
        /\ Cardinality(Members(role')) <= Cardinality(Members(role))
    BY <1>1, FS_Subset
  <1>3. Cardinality(Members(role)) \in Nat /\ Cardinality(Members(role')) \in Nat
    BY <1>1, <1>2, FS_CardinalityType
  <1> QED
    BY <1>2, <1>3, MembershipAssumption DEF SeatLeft, MembershipAssumption

\* The fields of a request are typed.
LEMMA AskTyped ==
  ASSUME TypeOK, NEW t \in Txs
  PROVE  /\ ask[t].actor \in Accounts /\ ask[t].target \in Accounts /\ ask[t].new \in Roles
         /\ ask[t].op \in OperationNames \cup {"none"} /\ ask[t].flag \in BOOLEAN
  BY DEF TypeOK, Asks

\* What a transaction holds and has written stays sound.
LEMMA FrameHolds ==
  ASSUME TypeOK, NEW u \in Txs, Sound(u), Undisturbed(u), Respected(u)
  PROVE  (Routed(u) /\ Unwritten(u) /\ HoldsWorkspace(u) /\ HoldsAccount(u) /\ Present(u))'
  <1>0. ask[u].actor \in Accounts
    BY AskTyped
  <1>1. Routed(u)'
    BY DEF Sound, Routed, Undisturbed
  <1>2. Unwritten(u)'
    BY DEF Sound, Unwritten, Undisturbed, Judged
  <1>3. HoldsAccount(u)'
    BY <1>0 DEF Sound, HoldsAccount, HoldsWorkspace, Undisturbed, Respected, Judged,
                AccountLocked, Exists, WorkspaceOps, AccountOps
  <1>4. HoldsWorkspace(u)'
    BY <1>0 DEF Sound, HoldsAccount, HoldsWorkspace, Undisturbed, Respected, Judged,
                AccountLocked, Decided, AccountOps
  <1>5. Present(u)'
    BY DEF Sound, Present, Undisturbed, Respected
  <1> QED
    BY <1>1, <1>2, <1>3, <1>4, <1>5

\* Under its locks a transaction finds the rules as they were.
LEMMA FramePlanned ==
  ASSUME TypeOK, NEW u \in Txs, Sound(u), Undisturbed(u), Respected(u)
  PROVE  Planned(u)'
  <1>0. ask[u].actor \in Accounts /\ ask[u].target \in Accounts
    BY AskTyped
  <1>1. SUFFICES ASSUME Judged(u) PROVE Planned(u)'
    BY DEF Planned, Undisturbed, Judged
  <1>l. ask[u].op \in WorkspaceOps => wsLock = u /\ ws = "live"
    BY <1>1 DEF Sound, HoldsWorkspace, Judged
  <1>2. ask[u].op = "transfer" =>
          writes[u] = [NoWrites EXCEPT
                          ![ask[u].target] = IF role'[ask[u].target] = "owner" THEN "keep" ELSE "owner",
                          ![ask[u].actor] = IF ask[u].flag THEN "admin" ELSE "keep"]
    <2> SUFFICES ASSUME ask[u].op = "transfer"
                 PROVE  role'[ask[u].target] = "owner" <=> role[ask[u].target] = "owner"
      BY <1>1 DEF Sound, Planned
    <2>1. CASE role[ask[u].target] = "owner"
      BY <1>0, <1>l, <2>1 DEF Respected, WorkspaceOps
    <2>2. CASE role[ask[u].target] # "owner"
      <3>1. ask[u].target # ask[u].actor
        BY <1>1 DEF Sound, Stands, MayTransfer
      <3>2. writes[u][ask[u].target] = "owner"
        BY <1>0, <1>1, <2>2, <3>1 DEF Sound, Planned, NoWrites
      <3> QED
        BY <1>0, <3>2 DEF Respected
    <2> QED
      BY <2>1, <2>2
  <1>3. ask[u].op \in {"accept", "signup"} => invRole'[ask[u].actor] = invRole[ask[u].actor]
    BY <1>1, <1>l DEF Sound, Planned, Respected, WorkspaceOps
  <1>4. ask[u].op = "deleteAccount" =>
          (role'[ask[u].actor] = "none" <=> role[ask[u].actor] = "none")
    <2> SUFFICES ASSUME ask[u].op = "deleteAccount"
                 PROVE  role'[ask[u].actor] = "none" <=> role[ask[u].actor] = "none"
      OBVIOUS
    <2>1. CASE role[ask[u].actor] = "none"
      <3>1. accLock[ask[u].actor][u] = "update" /\ Exists(ask[u].actor)
        BY <1>1 DEF Sound, HoldsAccount, Judged, AccountLocked, AccountOps
      <3> QED
        BY <1>0, <2>1, <3>1 DEF Respected
    <2>2. CASE role[ask[u].actor] # "none"
      <3>1. writes[u][ask[u].actor] = "none"
        BY <1>0, <1>1, <2>2 DEF Sound, Planned, NoWrites
      <3> QED
        BY <1>0, <2>2, <3>1 DEF Respected
    <2> QED
      BY <2>1, <2>2
  <1>5. ask[u].op = "deleteAccount" =>
          writes[u] = [NoWrites EXCEPT
                          ![ask[u].actor] = IF role'[ask[u].actor] = "none" THEN "keep" ELSE "none"]
    BY <1>1, <1>4 DEF Sound, Planned
  <1>6. /\ ask'[u] = ask[u] /\ scope'[u] = scope[u] /\ marks'[u] = marks[u]
        /\ writes'[u] = writes[u] /\ invites'[u] = invites[u]
    BY DEF Undisturbed
  <1>7. Planned(u)
    BY DEF Sound
  <1>8. ask[u].op \in {"changeRole", "end", "deleteWorkspace", "adminJoin", "verify"} => Planned(u)'
    BY <1>1, <1>6, <1>7 DEF Planned
  <1>9. ask[u].op = "transfer" => Planned(u)'
    BY <1>1, <1>2, <1>6, <1>7 DEF Planned
  <1>10. ask[u].op \in {"accept", "signup"} => Planned(u)'
    BY <1>1, <1>3, <1>6, <1>7 DEF Planned
  <1>11. ask[u].op = "deleteAccount" => Planned(u)'
    BY <1>1, <1>5, <1>6, <1>7 DEF Planned
  <1> QED
    BY <1>8, <1>9, <1>10, <1>11, <1>1, <1>6, <1>7 DEF Planned

LEMMA FrameStands ==
  ASSUME TypeOK, OwnerRequired, NEW u \in Txs, Sound(u), Undisturbed(u), Respected(u)
  PROVE  Stands(u)'
  <1>0. ask[u].actor \in Accounts /\ ask[u].target \in Accounts
    BY AskTyped
  <1>1. Founder \in Accounts
    BY MembershipAssumption DEF MembershipAssumption
  <1>2. /\ ask'[u] = ask[u] /\ pc'[u] = pc[u] /\ scope'[u] = scope[u]
        /\ writes'[u] = writes[u] /\ Judged(u)' = Judged(u)
        /\ AccountLocked(u)' = AccountLocked(u)
    BY DEF Undisturbed, Judged, AccountLocked
  <1>l. ask[u].op \in WorkspaceOps /\ Judged(u) =>
          /\ wsLock = u /\ ws = "live" /\ ws' = "live"
          /\ \A b \in Accounts : role[b] = "owner" => role'[b] = "owner"
          /\ \A b \in Accounts : role[b] = "none" => role'[b] = "none"
    BY DEF Sound, HoldsWorkspace, Judged, Respected
  <1>3. ask[u].op = "deleteAccount" /\ AccountLocked(u) /\ pc[u] # "judge" => scope[u] # "blocking"
    BY DEF Sound, Stands
  <1>f. ask[u].op = "verify" /\ Decided(u) /\ role'[ask[u].actor] # "none"
           => role[ask[u].actor] # "none"
    <2> SUFFICES ASSUME ask[u].op = "verify", Decided(u), role[ask[u].actor] = "none"
                 PROVE  role'[ask[u].actor] = "none"
      OBVIOUS
    <2>1. accLock[ask[u].actor][u] = "update" /\ Exists(ask[u].actor)
      BY DEF Sound, HoldsAccount, Decided, Judged, AccountLocked, AccountOps
    <2> QED
      BY <1>0, <2>1 DEF Respected
  <1>4. ask[u].op = "verify" /\ ask[u].actor = Founder /\ pc[u] = "apply" /\ ws' = "live"
          /\ role'[ask[u].actor] # "none" => scope[u] = "sole"
    BY <1>f DEF Sound, Stands, Decided, Respected
  <1>5. SUFFICES ASSUME Judged(u) PROVE Stands(u)'
    BY <1>2, <1>3, <1>4 DEF Stands
  <1>6. ask[u].op = "changeRole" =>
          /\ role'[ask[u].target] \notin {"none", ask[u].new}
          /\ "verify" \notin Operations =>
                MayChangeRole(role', ask[u].actor, ask[u].target, ask[u].new)
    <2> SUFFICES ASSUME ask[u].op = "changeRole"
                 PROVE  /\ role'[ask[u].target] \notin {"none", ask[u].new}
                        /\ "verify" \notin Operations =>
                              MayChangeRole(role', ask[u].actor, ask[u].target, ask[u].new)
      OBVIOUS
    <2>1. /\ role[ask[u].target] \notin {"none", ask[u].new}
          /\ "verify" \notin Operations =>
                MayChangeRole(role, ask[u].actor, ask[u].target, ask[u].new)
      BY <1>5 DEF Sound, Stands
    <2>2. writes[u][ask[u].target] = ask[u].new
      BY <1>0, <1>5 DEF Sound, Planned, NoWrites
    <2>3. ask[u].new # "keep"
      BY AskTyped DEF Roles
    <2>4. role'[ask[u].target] = role[ask[u].target]
      BY <1>0, <2>2, <2>3 DEF Respected
    <2>5. "verify" \notin Operations => role' = role
      BY <1>5, <1>l DEF Respected, WorkspaceOps
    <2> QED
      BY <2>1, <2>4, <2>5
  <1>7. ask[u].op = "transfer" => MayTransfer(role', ask[u].actor, ask[u].target, ask[u].flag)
    <2> SUFFICES ASSUME ask[u].op = "transfer"
                 PROVE  MayTransfer(role', ask[u].actor, ask[u].target, ask[u].flag)
      OBVIOUS
    <2>1. MayTransfer(role, ask[u].actor, ask[u].target, ask[u].flag)
      BY <1>5 DEF Sound, Stands
    <2>2. role'[ask[u].actor] = "owner"
      BY <1>0, <1>5, <1>l, <2>1 DEF MayTransfer, WorkspaceOps
    <2>3. CASE role[ask[u].target] = "owner"
      BY <1>0, <1>5, <1>l, <2>1, <2>2, <2>3 DEF MayTransfer, WorkspaceOps
    <2>4. CASE role[ask[u].target] # "owner"
      <3>1. writes[u][ask[u].target] = "owner"
        BY <1>0, <1>5, <2>1, <2>4 DEF Sound, Planned, NoWrites, MayTransfer
      <3>2. role'[ask[u].target] = role[ask[u].target]
        BY <1>0, <3>1 DEF Respected
      <3> QED
        BY <2>1, <2>2, <3>2 DEF MayTransfer
    <2> QED
      BY <2>3, <2>4
  <1>8. ask[u].op = "end" =>
          /\ role'[ask[u].target] # "none"
          /\ "verify" \notin Operations =>
                MayEnd(role', ask[u].actor, ask[u].target, ask[u].flag)
    <2> SUFFICES ASSUME ask[u].op = "end"
                 PROVE  /\ role'[ask[u].target] # "none"
                        /\ "verify" \notin Operations =>
                              MayEnd(role', ask[u].actor, ask[u].target, ask[u].flag)
      OBVIOUS
    <2>1. /\ role[ask[u].target] # "none"
          /\ "verify" \notin Operations =>
                MayEnd(role, ask[u].actor, ask[u].target, ask[u].flag)
      BY <1>5 DEF Sound, Stands
    <2>2. writes[u][ask[u].target] = "none"
      BY <1>0, <1>5 DEF Sound, Planned, NoWrites
    <2>4. role'[ask[u].target] = role[ask[u].target]
      BY <1>0, <2>2 DEF Respected
    <2>5. "verify" \notin Operations => role' = role
      BY <1>5, <1>l DEF Respected, WorkspaceOps
    <2> QED
      BY <2>1, <2>4, <2>5
  <1>9. ask[u].op = "deleteWorkspace" => role'[ask[u].actor] = "owner"
    BY <1>0, <1>5, <1>l DEF Sound, Stands, WorkspaceOps
  <1>10. ask[u].op \in Joins => role'[ask[u].actor] = "none"
    BY <1>0, <1>5, <1>l DEF Sound, Stands, WorkspaceOps, Joins
  <1>11. ask[u].op \in {"accept", "signup"} =>
           /\ invRole'[ask[u].actor] # "none" /\ invToken'[ask[u].actor] = ask[u].token
           /\ SeatLeft'
    <2> SUFFICES ASSUME ask[u].op \in {"accept", "signup"}
                 PROVE  /\ invRole'[ask[u].actor] # "none"
                        /\ invToken'[ask[u].actor] = ask[u].token
                        /\ SeatLeft'
      OBVIOUS
    <2>1. /\ invRole[ask[u].actor] # "none" /\ invToken[ask[u].actor] = ask[u].token
          /\ SeatLeft /\ invites[u] = {ask[u].actor}
      BY <1>5 DEF Sound, Stands, Planned
    <2>2. /\ invRole'[ask[u].actor] = invRole[ask[u].actor]
          /\ invToken'[ask[u].actor] = invToken[ask[u].actor]
      BY <1>5, <1>l, <2>1 DEF Respected, WorkspaceOps
    <2>3. Members(role') \subseteq Members(role)
      BY <1>5, <1>l DEF Members, WorkspaceOps
    <2> QED
      BY <2>1, <2>2, <2>3, SeatsOnlyFreed
  <1>12. ask[u].op = "deleteAccount" => ScopeOf(u)' = scope[u]
    <2> SUFFICES ASSUME ask[u].op = "deleteAccount" PROVE ScopeOf(u)' = scope[u]
      OBVIOUS
    <2> DEFINE a == ask[u].actor
    <2>1. ScopeOf(u) = scope[u] /\ scope[u] # "blocking"
      BY <1>5 DEF Sound, Stands, Judged, AccountLocked
    <2>2. accLock[a][u] = "update" /\ Exists(a)
      BY <1>5 DEF Sound, HoldsAccount, Judged, AccountLocked, AccountOps
    <2>3. CASE ws # "live" \/ role[a] = "none"
      <3>1. ws' # "live" \/ role'[a] = "none"
        BY <1>0, <2>2, <2>3 DEF Respected
      <3> QED
        BY <1>2, <2>1, <2>3, <3>1 DEF ScopeOf, DeletionScope
    <2>4. CASE ws = "live" /\ role[a] # "none"
      <3>1. wsLock = u
        BY <1>5, <2>4 DEF Sound, HoldsWorkspace, Decided
      <3>2. /\ ws' = "live"
            /\ \A b \in Accounts : role[b] = "owner" => role'[b] = "owner"
            /\ \A b \in Accounts : role[b] = "none" => role'[b] = "none"
        BY <2>4, <3>1 DEF Respected
      <3>3. writes[u][a] = "none"
        BY <1>0, <1>5, <2>4 DEF Sound, Planned, NoWrites
      <3>4. role'[a] = role[a]
        BY <1>0, <3>3 DEF Respected
      <3>5. CASE Members(role) = {a}
        <4>1. Members(role') = {a}
          BY <1>0, <2>4, <3>2, <3>4, <3>5 DEF Members
        <4> QED
          BY <1>2, <2>1, <2>4, <3>2, <3>4, <3>5, <4>1 DEF ScopeOf, DeletionScope
      <3>6. CASE Members(role) # {a}
        <4>1. Owners(role) # {a} /\ scope[u] = "clear"
          BY <2>1, <2>4, <3>6 DEF ScopeOf, DeletionScope
        <4>2. PICK z \in Accounts : role[z] = "owner" /\ z # a
          BY <2>4, <4>1 DEF OwnerRequired, Owners
        <4>3. role'[z] = "owner"
          BY <3>2, <4>2
        <4>4. Members(role') # {a} /\ Owners(role') # {a}
          BY <4>2, <4>3 DEF Members, Owners
        <4> QED
          BY <1>2, <3>2, <3>4, <4>1, <4>4 DEF ScopeOf, DeletionScope
      <3> QED
        BY <3>5, <3>6
    <2> QED
      BY <2>3, <2>4
  <1>13. ask[u].op = "verify" /\ ask[u].actor = Founder /\ ws' = "live"
           /\ role'[ask[u].actor] # "none" =>
             \A b \in Accounts :
                Seen(u)'[b] = IF b = ask[u].actor THEN "owner" ELSE "none"
    <2> SUFFICES ASSUME ask[u].op = "verify", ask[u].actor = Founder, ws' = "live",
                        role'[ask[u].actor] # "none", NEW b \in Accounts
                 PROVE  Seen(u)'[b] = IF b = ask[u].actor THEN "owner" ELSE "none"
      OBVIOUS
    <2>1. ws = "live" /\ role[ask[u].actor] # "none"
      BY <1>5, <1>f DEF Respected, Decided
    <2>2. Seen(u)[b] = IF b = ask[u].actor THEN "owner" ELSE "none"
      BY <1>5, <2>1 DEF Sound, Stands
    <2>3. wsLock = u
      BY <1>5, <2>1 DEF Sound, HoldsWorkspace, Decided
    <2>4. writes[u][b] = "keep" => role'[b] = role[b]
      BY <2>1, <2>2, <2>3 DEF Respected, Seen
    <2> QED
      BY <1>2, <2>2, <2>4 DEF Seen
  <1> QED
    BY <1>2, <1>3, <1>4, <1>5, <1>6, <1>7, <1>8, <1>9, <1>10, <1>11, <1>12, <1>13 DEF Stands

\* A transaction that another one leaves undisturbed stays sound.
LEMMA Frame ==
  ASSUME TypeOK, OwnerRequired, NEW u \in Txs, Sound(u), Undisturbed(u), Respected(u)
  PROVE  Sound(u)'
  BY FrameHolds, FramePlanned, FrameStands DEF Sound
-----------------------------------------------------------------------------
(* The steps that change no table.                                         *)

\* A step of one transaction that changes no table: it suffices that the
\* transaction itself is sound after it, and that the rows it has locked were free.
LEMMA LocalSerial ==
  ASSUME Serial, Inv', NEW t \in Txs, UNCHANGED <<table, job>>,
         \A u \in Txs \ {t} : Undisturbed(u),
         Sound(t)',
         InvitationsFree(t, invites'[t]),
         \A u \in Txs \ {t}, a \in Accounts :
            /\ accLock'[a][t] = "update" => accLock[a][u] = "none"
            /\ accLock[a][u] = "update" => accLock'[a][t] = "none"
  PROVE  Serial'
  <1>1. UNCHANGED <<role, ws, account, invRole, invToken, job>>
    BY DEF table
  <1>2. AllSound'
    <2> SUFFICES ASSUME NEW u \in Txs \ {t} PROVE Sound(u)'
      BY DEF AllSound
    <2>1. Respected(u)
      BY <1>1 DEF Respected
    <2> QED
      BY <2>1, Frame DEF Serial, Inv, AllSound
  <1>3. InvitationsExclusive'
    <2> SUFFICES ASSUME NEW u \in Txs, NEW v \in Txs, u # v
                 PROVE  invites'[u] \cap invites'[v] = {}
      BY DEF InvitationsExclusive
    <2> QED
      BY DEF Serial, InvitationsExclusive, InvitationsFree, Undisturbed
  <1>4. AccountsExclusive'
    <2> SUFFICES ASSUME NEW u \in Txs, NEW v \in Txs, u # v, NEW a \in Accounts,
                        accLock'[a][u] = "update"
                 PROVE  accLock'[a][v] = "none"
      BY DEF AccountsExclusive
    <2> QED
      BY DEF Serial, AccountsExclusive, Undisturbed
  <1>5. JobSound' /\ MembersHaveAccounts'
    BY <1>1 DEF Serial, JobSound, MembersHaveAccounts, Members, Exists
  <1> QED
    BY <1>2, <1>3, <1>4, <1>5 DEF Serial

\* The end of a transaction.
LEMMA EndSound ==
  ASSUME TypeOK, NEW t \in Txs, End(t)
  PROVE  /\ Sound(t)'
         /\ \A u \in Txs \ {t} : Undisturbed(u)
         /\ invites'[t] = {} /\ \A a \in Accounts : accLock'[a][t] = "none"
  <1>1. /\ pc'[t] = "idle" /\ ask'[t] = NoAsk /\ scope'[t] = "unknown" /\ marks'[t] = FALSE
        /\ writes'[t] = NoWrites /\ invites'[t] = {}
        /\ \A a \in Accounts : accLock'[a][t] = "none"
    BY DEF End, Goto, TypeOK
  <1>2. \A u \in Txs \ {t} : Undisturbed(u)
    BY DEF End, Goto, Undisturbed, TypeOK
  <1>3. Routed(t)' /\ Unwritten(t)' /\ HoldsWorkspace(t)' /\ HoldsAccount(t)' /\ Planned(t)'
    BY <1>1 DEF NoAsk, Routed, Unwritten, HoldsWorkspace, HoldsAccount, Planned, Judged,
                AccountLocked, WorkspaceOps, AccountOps, InvitationOps, Joins
  <1>4. Present(t)' /\ Stands(t)'
    BY <1>1 DEF NoAsk, NoWrites, Present, Stands, Judged, AccountLocked
  <1> QED
    BY <1>1, <1>2, <1>3, <1>4 DEF Sound

LEMMA RollbackSerial ==
  ASSUME Serial, Inv', NEW t \in Txs, Rollback(t)
  PROVE  Serial'
  <1>1. End(t) /\ UNCHANGED <<table, job>>
    BY DEF Rollback, worker
  <1>2. /\ Sound(t)'
        /\ \A u \in Txs \ {t} : Undisturbed(u)
        /\ invites'[t] = {} /\ \A a \in Accounts : accLock'[a][t] = "none"
    BY <1>1, EndSound DEF Serial, Inv
  <1>3. InvitationsFree(t, invites'[t])
    BY <1>2 DEF InvitationsFree
  <1> QED
    BY <1>1, <1>2, <1>3, LocalSerial

\* A transaction that is opened.
LEMMA OpenSerial ==
  ASSUME Serial, Inv', NEW t \in Txs, NEW op \in OperationNames, NEW place,
         NEW actor \in Accounts, NEW target \in Accounts, NEW new, NEW flag, NEW token,
         Open(t, op, place, actor, target, new, flag, token),
         \/ op \in InvitationOps /\ place = "write"
         \/ op \in WorkspaceOps /\ place = "lock"
         \/ op \in AccountOps /\ place = "snapshot",
         op \in Joins \cup AccountOps => target = actor,
         op = "adminJoin" => actor \in Admins
  PROVE  Serial'
  <1>1. /\ op \in Operations /\ pc[t] = "idle"
        /\ pc'[t] = place /\ ask'[t].op = op /\ ask'[t].actor = actor /\ ask'[t].target = target
        /\ UNCHANGED <<role, ws, account, invRole, invToken, job, wsLock, accLock, scope, marks,
                      writes, invites>>
    BY DEF Open, Goto, Serial, Inv, TypeOK, table, locks, worker
  <1>2. \A u \in Txs \ {t} : Undisturbed(u)
    BY DEF Open, Goto, Undisturbed, Serial, Inv, TypeOK, locks
  <1>3. writes'[t] = NoWrites /\ invites'[t] = {} /\ ~marks'[t]
    BY <1>1 DEF Serial, AllSound, Sound, Unwritten, Judged
  <1>4. Routed(t)' /\ Unwritten(t)' /\ HoldsWorkspace(t)' /\ HoldsAccount(t)' /\ Planned(t)'
    BY <1>1, <1>3 DEF Routed, Unwritten, HoldsWorkspace, HoldsAccount, Planned, Judged, Decided,
                      AccountLocked, WorkspaceOps, AccountOps, InvitationOps, Joins,
                      OperationNames
  <1>5. Present(t)' /\ Stands(t)'
    BY <1>1, <1>3 DEF NoWrites, Present, Stands, Judged, AccountLocked, AccountOps, InvitationOps
  <1>6. /\ InvitationsFree(t, invites'[t])
        /\ \A u \in Txs \ {t}, a \in Accounts :
              /\ accLock'[a][t] = "update" => accLock[a][u] = "none"
              /\ accLock[a][u] = "update" => accLock'[a][t] = "none"
    BY <1>1, <1>3 DEF InvitationsFree, Serial, AccountsExclusive
  <1> QED
    BY <1>1, <1>2, <1>4, <1>5, <1>6, LocalSerial DEF Sound, table

LEMMA RequestSerial ==
  ASSUME Serial, Inv', NEW t \in Txs, Request(t)
  PROVE  Serial'
  <1> USE DEF OperationNames, WorkspaceOps, AccountOps, InvitationOps, Joins
  <1>0. Admins \subseteq Accounts
    BY MembershipAssumption DEF MembershipAssumption
  <1>1. CASE AskRoleChange(t)
    BY <1>1, OpenSerial DEF AskRoleChange
  <1>2. CASE AskTransfer(t)
    BY <1>2, OpenSerial DEF AskTransfer
  <1>3. CASE AskEnd(t)
    BY <1>3, OpenSerial DEF AskEnd
  <1>4. CASE AskWorkspaceDeletion(t)
    BY <1>4, OpenSerial DEF AskWorkspaceDeletion
  <1>5. CASE AskAcceptance(t)
    BY <1>5, OpenSerial DEF AskAcceptance
  <1>6. CASE AskAdminJoin(t)
    BY <1>0, <1>6, OpenSerial DEF AskAdminJoin
  <1>7. CASE AskAccountDeletion(t)
    BY <1>7, OpenSerial DEF AskAccountDeletion
  <1>8. CASE AskVerification(t)
    BY <1>8, OpenSerial DEF AskVerification
  <1>9. CASE AskInvitation(t)
    BY <1>9, OpenSerial DEF AskInvitation
  <1>10. CASE AskRevocation(t)
    BY <1>10, OpenSerial DEF AskRevocation
  <1>11. CASE AskRenewal(t)
    BY <1>11, OpenSerial DEF AskRenewal
  <1> QED
    BY <1>1, <1>2, <1>3, <1>4, <1>5, <1>6, <1>7, <1>8, <1>9, <1>10, <1>11 DEF Request

\* A statement that writes nothing: it moves its transaction on, keeps something
\* it has read, or takes the workspace row from nobody.
LEMMA MoveSerial ==
  ASSUME Serial, Inv', NEW t \in Txs, NEW place, Goto(t, place),
         UNCHANGED <<table, job, ask, accLock, marks, writes, invites>>,
         \A u \in Txs \ {t} : scope'[u] = scope[u],
         wsLock \in Txs \ {t} => wsLock' = wsLock,
         Sound(t)'
  PROVE  Serial'
  <1>1. \A u \in Txs \ {t} : Undisturbed(u)
    BY DEF Goto, Undisturbed, Serial, Inv, TypeOK
  <1>2. /\ InvitationsFree(t, invites'[t])
        /\ \A u \in Txs \ {t}, a \in Accounts :
              /\ accLock'[a][t] = "update" => accLock[a][u] = "none"
              /\ accLock[a][u] = "update" => accLock'[a][t] = "none"
    BY DEF InvitationsFree, Serial, InvitationsExclusive, AccountsExclusive
  <1> QED
    BY <1>1, <1>2, LocalSerial

\* A judgement with the writes that follow from it.
LEMMA JudgeSerial ==
  ASSUME Serial, Inv', NEW t \in Txs, Goto(t, "commit"),
         UNCHANGED <<table, job, ask, locks, scope>>,
         \A u \in Txs \ {t} :
            marks'[u] = marks[u] /\ writes'[u] = writes[u] /\ invites'[u] = invites[u],
         InvitationsFree(t, invites'[t]),
         Sound(t)'
  PROVE  Serial'
  <1>1. \A u \in Txs \ {t} : Undisturbed(u)
    BY DEF Goto, Undisturbed, Serial, Inv, TypeOK, locks
  <1>2. \A u \in Txs \ {t}, a \in Accounts :
           /\ accLock'[a][t] = "update" => accLock[a][u] = "none"
           /\ accLock[a][u] = "update" => accLock'[a][t] = "none"
    BY DEF Serial, AccountsExclusive, locks
  <1> QED
    BY <1>1, <1>2, LocalSerial

\* The locks.  The founder's verification, and the deletion of an account that is
\* in the live workspace, find it and lock it.
LEMMA SnapshotSerial ==
  ASSUME Serial, Inv', NEW t \in Txs, Snapshot(t)
  PROVE  Serial'
  <1> USE DEF table, locks, worker
  <1>1. PICK place \in {"lock", "account", "relock", "decide"} :
           /\ Goto(t, place)
           /\ pc[t] = "snapshot" <=> place \in {"lock", "account"}
           /\ pc[t] = "again" <=> place \in {"relock", "decide"}
           /\ place = "decide" => ~Finds(t)
    BY DEF Snapshot
  <1>2. pc'[t] = place
    BY <1>1 DEF Goto, Serial, Inv, TypeOK
  <1>3. UNCHANGED <<role, ws, account, wsLock, accLock, ask, scope, marks, writes, invites, job>>
    BY DEF Snapshot
  <1>4. Sound(t)
    BY DEF Serial, AllSound
  <1>5. Routed(t)' /\ Unwritten(t)' /\ HoldsAccount(t)' /\ Planned(t)'
    BY <1>1, <1>2, <1>3, <1>4
    DEF Sound, Routed, Unwritten, HoldsAccount, Planned, Judged, AccountLocked,
        AccountOps, InvitationOps, WorkspaceOps, Exists
  <1>6. HoldsWorkspace(t)'
    BY <1>1, <1>2, <1>3, <1>4
    DEF Sound, Routed, Unwritten, HoldsWorkspace, Finds, Judged, Decided, AccountOps, WorkspaceOps
  <1>7. Present(t)' /\ Stands(t)'
    BY <1>1, <1>2, <1>3, <1>4
    DEF Sound, Unwritten, NoWrites, Present, Stands, Judged, AccountLocked
  <1> QED
    BY <1>1, <1>3, <1>5, <1>6, <1>7, MoveSerial DEF Sound, Snapshot

LEMMA LockWorkspaceSerial ==
  ASSUME Serial, Inv', NEW t \in Txs, LockWorkspace(t)
  PROVE  Serial'
  <1> USE DEF table, locks, worker
  <1>1. PICK place \in {"account", "judge", "decide"} :
           /\ Goto(t, place)
           /\ pc[t] \in {"lock", "relock"}
           /\ place = IF pc[t] = "lock" THEN AfterLock(ask[t].op) ELSE "decide"
           /\ \/ ws = "live" /\ wsLock \in {NoTx, t} /\ wsLock' = t
              \/ ws # "live" /\ ask[t].op \in AccountOps /\ wsLock' = wsLock
    BY DEF LockWorkspace, AfterLock, AccountOps
  <1>2. pc'[t] = place
    BY <1>1 DEF Goto, Serial, Inv, TypeOK
  <1>3. UNCHANGED <<role, ws, account, accLock, ask, scope, marks, writes, invites, job>>
    BY DEF LockWorkspace
  <1>4. Sound(t)
    BY DEF Serial, AllSound
  <1>5. Operations \subseteq OperationNames /\ NoTx \notin Txs
    BY MembershipAssumption DEF MembershipAssumption
  <1>6. Routed(t)'
    BY <1>1, <1>2, <1>3, <1>4, <1>5
    DEF Sound, Routed, AfterLock, AccountOps, InvitationOps, WorkspaceOps, OperationNames
  <1>7. Unwritten(t)' /\ HoldsAccount(t)' /\ Planned(t)'
    BY <1>1, <1>2, <1>3, <1>4
    DEF Sound, Routed, Unwritten, HoldsAccount, Planned, Judged, AccountLocked, AfterLock,
        AccountOps, Exists
  <1>8. HoldsWorkspace(t)'
    BY <1>1, <1>2, <1>3, <1>4
    DEF Sound, Routed, Unwritten, HoldsWorkspace, Judged, Decided, AccountOps, WorkspaceOps
  <1>9. Present(t)' /\ Stands(t)'
    BY <1>1, <1>2, <1>3, <1>4
    DEF Sound, Routed, Unwritten, NoWrites, Present, Stands, Judged, AccountLocked, AfterLock,
        AccountOps
  <1>10. wsLock \in Txs \ {t} => wsLock' = wsLock
    BY <1>1, <1>5
  <1> QED
    BY <1>1, <1>3, <1>6, <1>7, <1>8, <1>9, <1>10, MoveSerial DEF Sound, LockWorkspace

LEMMA LockAccountSerial ==
  ASSUME Serial, Inv', NEW t \in Txs, LockAccount(t)
  PROVE  Serial'
  <1> USE DEF table, locks, worker
  <1>1. PICK mode \in {"share", "update"}, place \in {"judge", "again"} :
           /\ mode = IF ask[t].op \in {"accept", "adminJoin"} THEN "share" ELSE "update"
           /\ pc[t] = "account" /\ Goto(t, place)
           /\ Exists(ask[t].actor) /\ AccountFree(t, ask[t].actor, mode)
           /\ accLock' = [accLock EXCEPT ![ask[t].actor][t] = mode]
           /\ ask[t].op = "verify" => place = "again" /\ account[ask[t].actor] = "unverified"
           /\ ask[t].op # "verify" => place = "judge"
    BY DEF LockAccount
  <1>0. ask[t].actor \in Accounts
    BY AskTyped DEF Serial, Inv
  <1>2. pc'[t] = place /\ \A u \in Txs \ {t} : pc'[u] = pc[u]
    BY <1>1 DEF Goto, Serial, Inv, TypeOK
  <1>3. UNCHANGED <<role, ws, account, wsLock, ask, scope, marks, writes, invites, job>>
    BY DEF LockAccount
  <1>4. Sound(t)
    BY DEF Serial, AllSound
  <1>5. /\ accLock'[ask[t].actor][t] = mode
        /\ \A a \in Accounts \ {ask[t].actor} : accLock'[a][t] = accLock[a][t]
        /\ \A u \in Txs \ {t}, a \in Accounts : accLock'[a][u] = accLock[a][u]
    BY <1>0, <1>1 DEF Serial, Inv, TypeOK
  <1>6. \A u \in Txs \ {t} : Undisturbed(u)
    BY <1>2, <1>3, <1>5 DEF Undisturbed
  <1>7. Routed(t)' /\ Unwritten(t)' /\ HoldsWorkspace(t)' /\ Planned(t)'
    BY <1>1, <1>2, <1>3, <1>4
    DEF Sound, Routed, Unwritten, HoldsWorkspace, Planned, Judged, Decided,
        AccountOps, InvitationOps, WorkspaceOps
  <1>8. HoldsAccount(t)'
    BY <1>1, <1>2, <1>3, <1>4, <1>5 DEF Sound, Routed, HoldsAccount, Judged, AccountOps, Exists
  <1>9. Present(t)' /\ Stands(t)'
    BY <1>1, <1>2, <1>3, <1>4
    DEF Sound, Routed, Unwritten, NoWrites, Present, Stands, Judged, AccountLocked, AccountOps
  <1>10. \A u \in Txs \ {t}, a \in Accounts :
            /\ accLock'[a][t] = "update" => accLock[a][u] = "none"
            /\ accLock[a][u] = "update" => accLock'[a][t] = "none"
    <2> SUFFICES ASSUME NEW u \in Txs \ {t}, NEW a \in Accounts
                 PROVE  /\ accLock'[a][t] = "update" => accLock[a][u] = "none"
                        /\ accLock[a][u] = "update" => accLock'[a][t] = "none"
      OBVIOUS
    <2>1. CASE a = ask[t].actor
      BY <1>1, <1>5, <2>1 DEF AccountFree
    <2>2. CASE a # ask[t].actor
      BY <1>5, <2>2 DEF Serial, AccountsExclusive
    <2> QED
      BY <2>1, <2>2
  <1>11. InvitationsFree(t, invites'[t])
    BY <1>3 DEF InvitationsFree, Serial, InvitationsExclusive
  <1>12. UNCHANGED <<table, job>>
    BY <1>3 DEF LockAccount
  <1> QED
    BY <1>6, <1>7, <1>8, <1>9, <1>10, <1>11, <1>12, LocalSerial DEF Sound
-----------------------------------------------------------------------------
(* The judgements.                                                         *)

\* A judgement that has been made keeps the locks it was made under.
LEMMA JudgeHolds ==
  ASSUME Serial, Inv', NEW t \in Txs, Goto(t, "commit"),
         UNCHANGED <<table, locks, ask, scope>>,
         pc[t] \in {"judge", "decide", "apply"},
         ask[t].op = "accept" => account[ask[t].actor] = "verified",
         ask[t].op = "signup" => account[ask[t].actor] = "absent",
         ask[t].op = "deleteAccount" => pc[t] = "decide",
         marks'[t] => wsLock = t /\ ws = "live"
  PROVE  /\ pc'[t] = "commit"
         /\ ask[t].op \in WorkspaceOps => wsLock = t /\ ws = "live"
         /\ (Routed(t) /\ Unwritten(t) /\ HoldsWorkspace(t) /\ HoldsAccount(t))'
  <1> USE DEF table, locks
  <1>1. pc'[t] = "commit"
    BY DEF Goto, Serial, Inv, TypeOK
  <1>2. Sound(t)
    BY DEF Serial, AllSound
  <1>3. ask[t].op \in WorkspaceOps => wsLock = t /\ ws = "live"
    BY <1>2 DEF Sound, HoldsWorkspace
  <1>4. Routed(t)' /\ Unwritten(t)'
    BY <1>1, <1>2 DEF Sound, Routed, Unwritten, Judged, InvitationOps
  <1>5. HoldsWorkspace(t)' /\ HoldsAccount(t)'
    BY <1>1, <1>2 DEF Sound, Routed, HoldsWorkspace, HoldsAccount, Judged, Decided, AccountLocked,
                      AccountOps, WorkspaceOps, Exists
  <1> QED
    BY <1>1, <1>3, <1>4, <1>5

\* Only the rows of its own transaction change in a Write.
LEMMA WriteOwn ==
  ASSUME TypeOK, NEW t \in Txs, NEW new, Write(t, new)
  PROVE  writes'[t] = new /\ \A u \in Txs \ {t} : writes'[u] = writes[u]
  BY DEF Write, TypeOK

LEMMA ChangeMemberRoleSerial ==
  ASSUME Serial, Inv', NEW t \in Txs, ChangeMemberRole(t)
  PROVE  Serial'
  <1> USE DEF table, locks, worker
  <1>1. /\ pc[t] = "judge" /\ ask[t].op = "changeRole" /\ Goto(t, "commit")
        /\ MayChangeRole(role, ask[t].actor, ask[t].target, ask[t].new)
        /\ UNCHANGED <<role, ws, account, invRole, invToken, wsLock, accLock, ask, scope, marks,
                      invites, job>>
    BY DEF ChangeMemberRole, Judging
  <1>2. /\ writes'[t] = [NoWrites EXCEPT ![ask[t].target] = ask[t].new]
        /\ \A u \in Txs \ {t} : writes'[u] = writes[u]
    BY WriteOwn DEF ChangeMemberRole, Serial, Inv
  <1>3. ask[t].target \in Accounts
    BY AskTyped DEF Serial, Inv
  <1>4. marks[t] = FALSE /\ invites[t] = {}
    BY <1>1 DEF Serial, AllSound, Sound, Unwritten, Judged, Inv, TypeOK
  <1>5. /\ pc'[t] = "commit"
        /\ (Routed(t) /\ Unwritten(t) /\ HoldsWorkspace(t) /\ HoldsAccount(t))'
    BY <1>1, <1>4, JudgeHolds
  <1>6. Planned(t)'
    BY <1>1, <1>2, <1>4, <1>5 DEF Planned
  <1>7. Present(t)' /\ Stands(t)'
    BY <1>1, <1>2, <1>3, <1>5 DEF Present, Stands, Judged, NoWrites, MayChangeRole, Joins
  <1> QED
    BY <1>1, <1>2, <1>4, <1>5, <1>6, <1>7, JudgeSerial DEF Sound, InvitationsFree

LEMMA TransferOwnershipSerial ==
  ASSUME Serial, Inv', NEW t \in Txs, TransferOwnership(t)
  PROVE  Serial'
  <1> USE DEF table, locks, worker
  <1>1. /\ pc[t] = "judge" /\ ask[t].op = "transfer" /\ Goto(t, "commit")
        /\ MayTransfer(role, ask[t].actor, ask[t].target, ask[t].flag)
        /\ UNCHANGED <<role, ws, account, invRole, invToken, wsLock, accLock, ask, scope, marks,
                      invites, job>>
    BY DEF TransferOwnership, Judging
  <1>2. /\ writes'[t] =
              [NoWrites EXCEPT
                  ![ask[t].target] = IF role[ask[t].target] = "owner" THEN "keep" ELSE "owner",
                  ![ask[t].actor] = IF ask[t].flag THEN "admin" ELSE "keep"]
        /\ \A u \in Txs \ {t} : writes'[u] = writes[u]
    BY WriteOwn DEF TransferOwnership, Serial, Inv
  <1>3. ask[t].target \in Accounts /\ ask[t].actor \in Accounts
    BY AskTyped DEF Serial, Inv
  <1>4. marks[t] = FALSE /\ invites[t] = {}
    BY <1>1 DEF Serial, AllSound, Sound, Unwritten, Judged, Inv, TypeOK
  <1>5. /\ pc'[t] = "commit"
        /\ (Routed(t) /\ Unwritten(t) /\ HoldsWorkspace(t) /\ HoldsAccount(t))'
    BY <1>1, <1>4, JudgeHolds
  <1>6. Planned(t)'
    BY <1>1, <1>2, <1>4, <1>5 DEF Planned
  <1>7. Present(t)' /\ Stands(t)'
    BY <1>1, <1>2, <1>3, <1>5 DEF Present, Stands, Judged, NoWrites, MayTransfer, Joins
  <1> QED
    BY <1>1, <1>2, <1>4, <1>5, <1>6, <1>7, JudgeSerial DEF Sound, InvitationsFree

LEMMA EndMembershipSerial ==
  ASSUME Serial, Inv', NEW t \in Txs, EndMembership(t)
  PROVE  Serial'
  <1> USE DEF table, locks, worker
  <1>1. /\ pc[t] = "judge" /\ ask[t].op = "end" /\ Goto(t, "commit")
        /\ MayEnd(role, ask[t].actor, ask[t].target, ask[t].flag)
        /\ UNCHANGED <<role, ws, account, invRole, invToken, wsLock, accLock, ask, scope, marks,
                      invites, job>>
    BY DEF EndMembership, Judging
  <1>2. /\ writes'[t] = [NoWrites EXCEPT ![ask[t].target] = "none"]
        /\ \A u \in Txs \ {t} : writes'[u] = writes[u]
    BY WriteOwn DEF EndMembership, Serial, Inv
  <1>3. ask[t].target \in Accounts
    BY AskTyped DEF Serial, Inv
  <1>4. marks[t] = FALSE /\ invites[t] = {}
    BY <1>1 DEF Serial, AllSound, Sound, Unwritten, Judged, Inv, TypeOK
  <1>5. /\ pc'[t] = "commit"
        /\ (Routed(t) /\ Unwritten(t) /\ HoldsWorkspace(t) /\ HoldsAccount(t))'
    BY <1>1, <1>4, JudgeHolds
  <1>6. Planned(t)'
    BY <1>1, <1>2, <1>4, <1>5 DEF Planned
  <1>7. Present(t)' /\ Stands(t)'
    BY <1>1, <1>2, <1>3, <1>5 DEF Present, Stands, Judged, NoWrites, MayEnd, Joins
  <1> QED
    BY <1>1, <1>2, <1>4, <1>5, <1>6, <1>7, JudgeSerial DEF Sound, InvitationsFree

LEMMA MarkDeletingSerial ==
  ASSUME Serial, Inv', NEW t \in Txs, MarkDeleting(t)
  PROVE  Serial'
  <1> USE DEF table, locks, worker
  <1>1. /\ pc[t] = "judge" /\ ask[t].op = "deleteWorkspace" /\ Goto(t, "commit")
        /\ role[ask[t].actor] = "owner"
        /\ UNCHANGED <<role, ws, account, invRole, invToken, wsLock, accLock, ask, scope, writes,
                      invites, job>>
        /\ marks'[t] /\ \A u \in Txs \ {t} : marks'[u] = marks[u]
    BY DEF MarkDeleting, Judging, Serial, Inv, TypeOK
  <1>2. writes[t] = NoWrites /\ invites[t] = {}
    BY <1>1 DEF Serial, AllSound, Sound, Unwritten, Judged
  <1>3. wsLock = t /\ ws = "live"
    BY <1>1 DEF Serial, AllSound, Sound, HoldsWorkspace, WorkspaceOps
  <1>5. /\ pc'[t] = "commit"
        /\ (Routed(t) /\ Unwritten(t) /\ HoldsWorkspace(t) /\ HoldsAccount(t))'
    BY <1>1, <1>3, JudgeHolds
  <1>6. Planned(t)'
    BY <1>1, <1>2, <1>5 DEF Planned
  <1>7. Present(t)' /\ Stands(t)'
    BY <1>1, <1>2, <1>5 DEF Present, Stands, Judged, NoWrites, Joins
  <1> QED
    BY <1>1, <1>2, <1>5, <1>6, <1>7, JudgeSerial DEF Sound, InvitationsFree

LEMMA AcceptInvitationSerial ==
  ASSUME Serial, Inv', NEW t \in Txs, AcceptInvitation(t)
  PROVE  Serial'
  <1> USE DEF table, locks, worker
  <1>0. ask[t].target = ask[t].actor /\ ask[t].actor \in Accounts
    <2>1. ask[t].op \in {"accept", "signup"}
      BY DEF AcceptInvitation, Judging
    <2> QED
      BY <2>1, AskTyped DEF Serial, Inv, AllSound, Sound, Routed, Joins
  <1>1. /\ pc[t] = "judge" /\ ask[t].op \in {"accept", "signup"} /\ Goto(t, "commit")
        /\ ask[t].op = "accept" =>
              account[ask[t].actor] = "verified" /\ role[ask[t].actor] = "none"
        /\ ask[t].op = "signup" => account[ask[t].actor] = "absent"
        /\ InvitationStands(t) /\ SeatLeft
        /\ UNCHANGED <<role, ws, account, invRole, invToken, wsLock, accLock, ask, scope, marks, job>>
        /\ invites'[t] = {ask[t].actor} /\ \A u \in Txs \ {t} : invites'[u] = invites[u]
    BY <1>0 DEF AcceptInvitation, Judging, Serial, Inv, TypeOK
  <1>2. /\ writes'[t] = [NoWrites EXCEPT ![ask[t].actor] = invRole[ask[t].actor]]
        /\ \A u \in Txs \ {t} : writes'[u] = writes[u]
    BY <1>0, WriteOwn DEF AcceptInvitation, Serial, Inv
  <1>3. role[ask[t].actor] = "none"
    BY <1>0, <1>1 DEF Serial, MembersHaveAccounts, Members, Exists
  <1>4. marks[t] = FALSE
    BY <1>1 DEF Serial, AllSound, Sound, Unwritten, Judged, Inv, TypeOK
  <1>5. /\ pc'[t] = "commit"
        /\ (Routed(t) /\ Unwritten(t) /\ HoldsWorkspace(t) /\ HoldsAccount(t))'
    BY <1>1, <1>4, JudgeHolds
  <1>6. Planned(t)'
    BY <1>1, <1>2, <1>4, <1>5 DEF Planned
  <1>7. Present(t)' /\ Stands(t)'
    <2>1. SeatLeft'
      BY <1>1 DEF SeatLeft, Members
    <2>2. Present(t)'
      BY <1>1 DEF Present, Joins
    <2>3. Stands(t)'
      BY <1>0, <1>1, <1>3, <1>5, <2>1 DEF Stands, Judged, InvitationStands
    <2> QED
      BY <2>2, <2>3
  <1>8. InvitationsFree(t, invites'[t])
    BY <1>0, <1>1 DEF InvitationStands
  <1> QED
    BY <1>1, <1>2, <1>4, <1>5, <1>6, <1>7, <1>8, JudgeSerial DEF Sound

LEMMA AddMembershipSerial ==
  ASSUME Serial, Inv', NEW t \in Txs, AddMembership(t)
  PROVE  Serial'
  <1> USE DEF table, locks, worker
  <1>1. /\ pc[t] = "judge" /\ ask[t].op = "adminJoin" /\ Goto(t, "commit")
        /\ role[ask[t].actor] = "none"
        /\ UNCHANGED <<role, ws, account, invRole, invToken, wsLock, accLock, ask, scope, marks,
                      invites, job>>
    BY DEF AddMembership, Judging
  <1>2. /\ writes'[t] = [NoWrites EXCEPT ![ask[t].actor] = "member"]
        /\ \A u \in Txs \ {t} : writes'[u] = writes[u]
    BY WriteOwn DEF AddMembership, Serial, Inv
  <1>4. marks[t] = FALSE /\ invites[t] = {}
    BY <1>1 DEF Serial, AllSound, Sound, Unwritten, Judged, Inv, TypeOK
  <1>5. /\ pc'[t] = "commit"
        /\ (Routed(t) /\ Unwritten(t) /\ HoldsWorkspace(t) /\ HoldsAccount(t))'
    BY <1>1, <1>4, JudgeHolds
  <1>6. Planned(t)'
    BY <1>1, <1>2, <1>4, <1>5 DEF Planned
  <1>7. Present(t)' /\ Stands(t)'
    BY <1>1, <1>2, <1>5 DEF Present, Stands, Judged, Joins
  <1> QED
    BY <1>1, <1>2, <1>4, <1>5, <1>6, <1>7, JudgeSerial DEF Sound, InvitationsFree

LEMMA ReadScopeSerial ==
  ASSUME Serial, Inv', NEW t \in Txs, ReadScope(t)
  PROVE  Serial'
  <1> USE DEF table, locks, worker
  <1>1. /\ pc[t] = "judge" /\ ask[t].op = "deleteAccount" /\ Goto(t, "again")
        /\ ScopeOf(t) # "blocking"
        /\ scope'[t] = ScopeOf(t) /\ \A u \in Txs \ {t} : scope'[u] = scope[u]
        /\ UNCHANGED <<role, ws, account, invRole, invToken, wsLock, accLock, ask, marks, writes,
                      invites, job>>
    BY DEF ReadScope, Judging, Serial, Inv, TypeOK
  <1>2. pc'[t] = "again"
    BY <1>1 DEF Goto, Serial, Inv, TypeOK
  <1>3. Sound(t)
    BY DEF Serial, AllSound
  <1>4. Routed(t)' /\ Unwritten(t)' /\ HoldsWorkspace(t)' /\ HoldsAccount(t)' /\ Planned(t)'
    BY <1>1, <1>2, <1>3
    DEF Sound, Routed, Unwritten, HoldsWorkspace, HoldsAccount, Planned, Judged, Decided,
        AccountLocked, AccountOps, InvitationOps, WorkspaceOps, Exists
  <1>5. Present(t)' /\ Stands(t)'
    BY <1>1, <1>2, <1>3 DEF Sound, Unwritten, NoWrites, Present, Stands, Judged, AccountLocked
  <1> QED
    BY <1>1, <1>4, <1>5, MoveSerial DEF Sound, ReadScope

LEMMA DeleteAccountSerial ==
  ASSUME Serial, Inv', NEW t \in Txs, DeleteAccount(t)
  PROVE  Serial'
  <1> USE DEF table, locks, worker
  <1>1. /\ pc[t] = "decide" /\ ask[t].op = "deleteAccount" /\ Goto(t, "commit")
        /\ ScopeOf(t) = scope[t]
        /\ UNCHANGED <<role, ws, account, invRole, invToken, wsLock, accLock, ask, scope,
                      invites, job>>
        /\ marks'[t] = (scope[t] = "sole") /\ \A u \in Txs \ {t} : marks'[u] = marks[u]
    BY DEF DeleteAccount, Serial, Inv, TypeOK
  <1>2. /\ writes'[t] = [NoWrites EXCEPT
                            ![ask[t].actor] = IF role[ask[t].actor] = "none" THEN "keep" ELSE "none"]
        /\ \A u \in Txs \ {t} : writes'[u] = writes[u]
    BY WriteOwn DEF DeleteAccount, Serial, Inv
  <1>3. ask[t].actor \in Accounts
    BY AskTyped DEF Serial, Inv
  <1>4. invites[t] = {}
    BY <1>1 DEF Serial, AllSound, Sound, Unwritten, Judged
  <1>5. marks'[t] => wsLock = t /\ ws = "live"
    <2> SUFFICES ASSUME marks'[t] PROVE wsLock = t /\ ws = "live"
      OBVIOUS
    <2>1. ws = "live" /\ role[ask[t].actor] # "none"
      BY <1>1 DEF ScopeOf, DeletionScope
    <2> QED
      BY <1>1, <2>1 DEF Serial, AllSound, Sound, HoldsWorkspace, Decided
  <1>6. /\ pc'[t] = "commit"
        /\ (Routed(t) /\ Unwritten(t) /\ HoldsWorkspace(t) /\ HoldsAccount(t))'
    BY <1>1, <1>5, JudgeHolds
  <1>7. Planned(t)'
    BY <1>1, <1>2, <1>4, <1>6 DEF Planned
  <1>8. Present(t)'
    BY <1>1, <1>2, <1>3 DEF Present, NoWrites
  <1>9. Stands(t)'
    <2>1. ScopeOf(t)' = scope'[t]
      BY <1>1 DEF ScopeOf
    <2>2. scope[t] # "blocking"
      BY <1>1 DEF Serial, AllSound, Sound, Stands, AccountLocked
    <2> QED
      BY <1>1, <1>6, <2>1, <2>2 DEF Stands, Judged, Joins
  <1> QED
    BY <1>1, <1>2, <1>4, <1>6, <1>7, <1>8, <1>9, JudgeSerial DEF Sound, InvitationsFree

LEMMA ReadStripSerial ==
  ASSUME Serial, Inv', NEW t \in Txs, ReadStrip(t)
  PROVE  Serial'
  <1> USE DEF table, locks, worker
  <1>1. /\ pc[t] = "decide" /\ ask[t].op = "verify" /\ Goto(t, "apply")
        /\ scope'[t] = IF ws = "live" /\ Strips(role, ask[t].actor, Founder) THEN "sole" ELSE "clear"
        /\ \A u \in Txs \ {t} : scope'[u] = scope[u]
        /\ UNCHANGED <<role, ws, account, invRole, invToken, wsLock, accLock, ask, marks, writes,
                      invites, job>>
    BY DEF ReadStrip, Serial, Inv, TypeOK
  <1>2. pc'[t] = "apply"
    BY <1>1 DEF Goto, Serial, Inv, TypeOK
  <1>3. Sound(t)
    BY DEF Serial, AllSound
  <1>4. Routed(t)' /\ Unwritten(t)' /\ HoldsWorkspace(t)' /\ HoldsAccount(t)' /\ Planned(t)'
    BY <1>1, <1>2, <1>3
    DEF Sound, Routed, Unwritten, HoldsWorkspace, HoldsAccount, Planned, Judged, Decided,
        AccountLocked, AccountOps, InvitationOps, WorkspaceOps, Exists
  <1>5. Present(t)' /\ Stands(t)'
    BY <1>1, <1>2, <1>3 DEF Sound, Unwritten, NoWrites, Present, Stands, Strips, Judged
  <1> QED
    BY <1>1, <1>4, <1>5, MoveSerial DEF Sound, ReadStrip

\* The rows a verification strips.
LEMMA StripWrites ==
  ASSUME Serial, NEW t \in Txs, StripWorkspace(t)
  PROVE  /\ \A u \in Txs \ {t} : writes'[u] = writes[u] /\ invites'[u] = invites[u]
         /\ InvitationsFree(t, invites'[t])
         /\ \A b \in Accounts :
               writes'[t][b] =
                 IF scope[t] = "clear" THEN "keep"
                 ELSE IF b = ask[t].actor
                   THEN IF role[b] \in {"owner", "none"} THEN "keep" ELSE "owner"
                   ELSE IF role[b] = "none" THEN "keep" ELSE "none"
  <1>1. pc[t] = "apply" /\ ask[t].actor \in Accounts
    BY AskTyped DEF StripWorkspace, Serial, Inv
  <1>2. writes[t] = NoWrites /\ invites[t] = {}
    BY <1>1 DEF Serial, AllSound, Sound, Unwritten, Judged
  <1>3. CASE scope[t] = "clear" /\ UNCHANGED <<writes, invites>>
    BY <1>2, <1>3 DEF InvitationsFree, NoWrites
  <1>4. CASE /\ scope[t] = "sole"
             /\ InvitationsFree(t, {b \in Accounts : invRole[b] # "none"})
             /\ Write(t, [b \in Accounts |->
                        IF b = ask[t].actor
                          THEN (IF role[ask[t].actor] \in {"owner", "none"} THEN "keep" ELSE "owner")
                          ELSE IF role[b] = "none" THEN "keep" ELSE "none"])
             /\ invites' = [invites EXCEPT ![t] = {b \in Accounts : invRole[b] # "none"}]
    <2>1. /\ invites'[t] = {b \in Accounts : invRole[b] # "none"}
          /\ \A u \in Txs \ {t} : invites'[u] = invites[u]
      BY <1>4 DEF Serial, Inv, TypeOK
    <2>2. /\ writes'[t] =
                [b \in Accounts |->
                   IF b = ask[t].actor
                     THEN (IF role[ask[t].actor] \in {"owner", "none"} THEN "keep" ELSE "owner")
                     ELSE IF role[b] = "none" THEN "keep" ELSE "none"]
          /\ \A u \in Txs \ {t} : writes'[u] = writes[u]
      BY <1>4, WriteOwn DEF Serial, Inv
    <2> QED
      BY <1>4, <2>1, <2>2
  <1> QED
    BY <1>3, <1>4 DEF StripWorkspace

LEMMA StripWorkspaceSerial ==
  ASSUME Serial, Inv', NEW t \in Txs, StripWorkspace(t)
  PROVE  Serial'
  <1> USE DEF table, locks, worker
  <1>1. /\ pc[t] = "apply" /\ Goto(t, "commit")
        /\ UNCHANGED <<role, ws, account, invRole, invToken, wsLock, accLock, ask, scope, marks, job>>
    BY DEF StripWorkspace
  <1>2. ask[t].op = "verify" /\ ask[t].actor \in Accounts
    BY <1>1, AskTyped DEF Serial, Inv, AllSound, Sound, Routed
  <1>4. marks[t] = FALSE
    BY <1>1 DEF Serial, AllSound, Sound, Unwritten, Judged, Inv, TypeOK
  <1>5. /\ pc'[t] = "commit"
        /\ (Routed(t) /\ Unwritten(t) /\ HoldsWorkspace(t) /\ HoldsAccount(t))'
    BY <1>1, <1>2, <1>4, JudgeHolds
  <1>3. /\ \A u \in Txs \ {t} : writes'[u] = writes[u] /\ invites'[u] = invites[u]
        /\ InvitationsFree(t, invites'[t])
        /\ \A b \in Accounts :
              /\ writes'[t][b] \in {"keep", IF b = ask[t].actor THEN "owner" ELSE "none"}
              /\ writes'[t][b] # "keep" => role[b] # "none"
    BY StripWrites
  <1>6. Planned(t)' /\ Present(t)'
    <2>1. Planned(t)'
      BY <1>1, <1>2, <1>3, <1>4 DEF Planned
    <2>2. Present(t)'
      BY <1>1, <1>3 DEF Present
    <2> QED
      BY <2>1, <2>2
  <1>7. Stands(t)'
    <2>1. SUFFICES ASSUME ask[t].actor = Founder, ws = "live", role[ask[t].actor] # "none",
                          NEW b \in Accounts
                   PROVE  Seen(t)'[b] = IF b = ask[t].actor THEN "owner" ELSE "none"
      BY <1>1, <1>2, <1>5 DEF Stands, Judged, Joins
    <2>2. scope[t] = "sole"
      BY <1>1, <1>2, <2>1 DEF Serial, AllSound, Sound, Stands
    <2>3. writes'[t][b] =
            IF b = ask[t].actor
              THEN IF role[b] \in {"owner", "none"} THEN "keep" ELSE "owner"
              ELSE IF role[b] = "none" THEN "keep" ELSE "none"
      BY <2>2, StripWrites
    <2> QED
      BY <1>1, <2>1, <2>3 DEF Seen
  <1> QED
    BY <1>1, <1>3, <1>4, <1>5, <1>6, <1>7, JudgeSerial DEF Sound

LEMMA CheckOwnerSerial ==
  ASSUME Serial, Inv', NEW t \in Txs, CheckOwner(t)
  PROVE  Serial'
  <1> USE DEF table, locks, worker
  <1>1. /\ pc[t] = "commit" /\ Goto(t, "checked")
        /\ UNCHANGED <<role, ws, account, invRole, invToken, accLock, ask, scope, marks, writes,
                      invites, job>>
        /\ wsLock' = wsLock \/ (wsLock \in {NoTx, t} /\ wsLock' = t)
    BY DEF CheckOwner
  <1>2. pc'[t] = "checked" /\ NoTx \notin Txs
    BY <1>1, MembershipAssumption DEF Goto, Serial, Inv, TypeOK, MembershipAssumption
  <1>3. Sound(t)
    BY DEF Serial, AllSound
  <1>4. Judged(t) /\ Judged(t)' /\ (wsLock = t => wsLock' = t)
    BY <1>1, <1>2 DEF Judged
  <1>5. Routed(t)' /\ Unwritten(t)' /\ HoldsWorkspace(t)' /\ HoldsAccount(t)'
    BY <1>1, <1>2, <1>3, <1>4
    DEF Sound, Routed, Unwritten, HoldsWorkspace, HoldsAccount, Decided, AccountLocked,
        InvitationOps, Exists
  <1>6. Planned(t)' /\ Present(t)'
    BY <1>1, <1>3, <1>4 DEF Sound, Planned, Present
  <1>7. Stands(t)'
    <2>1. SeatLeft' = SeatLeft
      BY <1>1 DEF SeatLeft, Members
    <2>2. ScopeOf(t)' = ScopeOf(t) /\ Seen(t)' = Seen(t)
      BY <1>1 DEF ScopeOf, Seen
    <2> QED
      BY <1>1, <1>2, <1>3, <1>4, <2>1, <2>2 DEF Sound, Stands, AccountLocked
  <1>8. wsLock \in Txs \ {t} => wsLock' = wsLock
    BY <1>1, <1>2
  <1> QED
    BY <1>1, <1>5, <1>6, <1>7, <1>8, MoveSerial DEF Sound
-----------------------------------------------------------------------------
(* The commit.                                                             *)

\* What a commit does to the rows: a row nobody had is made only by a join, of its
\* own account, that holds the live workspace; without a verification whoever
\* changes a row of a live workspace holds it; an owner goes only under the lock.
LEMMA CommitRows ==
  ASSUME Serial, NEW t \in Txs, Commit(t)
  PROVE  /\ \A b \in Accounts :
               role'[b] = IF writes[t][b] = "keep" THEN role[b] ELSE writes[t][b]
         /\ \A b \in Accounts : role[b] = "none" /\ role'[b] # "none" =>
               ask[t].op \in Joins /\ b = ask[t].actor /\ wsLock = t /\ ws = "live"
         /\ ws = "live" /\ wsLock # t => \A b \in Accounts : role[b] = "owner" => role'[b] = "owner"
         /\ ws = "live" /\ wsLock # t /\ "verify" \notin Operations => role' = role
         /\ marks[t] => wsLock = t /\ ws = "live"
  <1>1. pc[t] = "checked" /\ role' = Seen(t) /\ Sound(t) /\ Judged(t)
    BY DEF Commit, Serial, AllSound, Judged
  <1>2. \A b \in Accounts :
           role'[b] = IF writes[t][b] = "keep" THEN role[b] ELSE writes[t][b]
    BY <1>1 DEF Seen
  <1>3. marks[t] => wsLock = t /\ ws = "live"
    BY <1>1 DEF Sound, HoldsWorkspace
  <1>4. ask[t].op \in WorkspaceOps => wsLock = t /\ ws = "live"
    BY <1>1 DEF Sound, HoldsWorkspace
  <1>5. ask[t].actor \in Accounts /\ ask[t].op \in OperationNames \cup {"none"}
    BY AskTyped DEF Serial, Inv
  <1>6. ASSUME NEW b \in Accounts, role[b] = "none", role'[b] # "none"
        PROVE  ask[t].op \in Joins /\ b = ask[t].actor /\ wsLock = t /\ ws = "live"
    <2>1. writes[t][b] # "keep"
      BY <1>2, <1>6
    <2>2. ask[t].op \in Joins
      BY <1>1, <1>6, <2>1 DEF Sound, Present
    <2>3. b = ask[t].actor
      BY <1>1, <1>5, <2>1, <2>2 DEF Sound, Planned, Joins, NoWrites
    <2> QED
      BY <1>4, <2>2, <2>3 DEF Joins, WorkspaceOps
  <1>7. ASSUME ws = "live", wsLock # t, NEW b \in Accounts, role[b] = "owner"
        PROVE  role'[b] = "owner"
    <2>1. ~LosesOwner(t)
      BY <1>1, <1>3, <1>7 DEF Serial, Inv, CheckedOwner
    <2> QED
      BY <1>1, <1>7, <2>1 DEF LosesOwner
  <1>8. ASSUME ws = "live", wsLock # t, "verify" \notin Operations
        PROVE  role' = role
    <2>1. ask[t].op = "deleteAccount"
      BY <1>1, <1>4, <1>5, <1>8
      DEF Sound, Routed, InvitationOps, WorkspaceOps, OperationNames
    <2>2. role[ask[t].actor] = "none"
      BY <1>1, <1>8, <2>1 DEF Sound, HoldsWorkspace, Decided
    <2>3. \A b \in Accounts : writes[t][b] = "keep"
      BY <1>1, <1>5, <2>1, <2>2 DEF Sound, Planned, NoWrites
    <2> QED
      BY <1>1, <2>3 DEF Seen, Serial, Inv, TypeOK
  <1> QED
    BY <1>2, <1>3, <1>6, <1>7, <1>8

\* What a commit does to the accounts: it changes the one whose row its
\* transaction holds FOR UPDATE, or makes one under the lock of the workspace.
LEMMA CommitAccounts ==
  ASSUME Serial, NEW t \in Txs, Commit(t), NEW b \in Accounts, account'[b] # account[b]
  PROVE  /\ b = ask[t].actor
         /\ \/ /\ ask[t].op \in AccountOps /\ accLock[b][t] = "update" /\ Exists(b)
               /\ account'[b] = IF ask[t].op = "verify" THEN "verified" ELSE "deleted"
            \/ /\ ask[t].op = "signup" /\ account[b] = "absent" /\ wsLock = t
               /\ account'[b] \in {"unverified", "verified"}
  <1>1. /\ pc[t] = "checked" /\ Sound(t)
        /\ account' = [account EXCEPT ![ask[t].actor] = AccountAfter(t)]
    BY DEF Commit, Serial, AllSound
  <1>2. b = ask[t].actor /\ account'[b] = AccountAfter(t)
    BY <1>1 DEF Serial, Inv, TypeOK
  <1>3. CASE ask[t].op \in AccountOps
    <2>1. accLock[b][t] = "update" /\ Exists(b)
      BY <1>1, <1>2, <1>3 DEF Sound, HoldsAccount, AccountLocked
    <2> QED
      BY <1>2, <1>3, <2>1 DEF AccountAfter, AccountOps
  <1>4. CASE ask[t].op = "signup"
    <2>1. account[b] = "absent" /\ wsLock = t
      BY <1>1, <1>2, <1>4 DEF Sound, HoldsAccount, HoldsWorkspace, Judged, WorkspaceOps
    <2> QED
      BY <1>2, <1>4, <2>1 DEF AccountAfter
  <1>5. CASE ask[t].op \notin AccountOps \cup {"signup"}
    BY <1>2, <1>5 DEF AccountAfter, AccountOps
  <1> QED
    BY <1>3, <1>4, <1>5

LEMMA CommitRespects ==
  ASSUME Serial, NEW t \in Txs, Commit(t), NEW u \in Txs \ {t}
  PROVE  Respected(u)
  <1>1. ws' = IF marks[t] THEN "deleting" ELSE ws
    BY DEF Commit
  <1>2. Sound(t) /\ Sound(u) /\ pc[t] = "checked"
    BY DEF Serial, AllSound, Commit
  <1>3. ASSUME wsLock = u, ws = "live"
        PROVE  /\ ws' = "live"
               /\ \A b \in Accounts : role[b] = "owner" => role'[b] = "owner"
               /\ \A b \in Accounts : role[b] = "none" => role'[b] = "none"
               /\ "verify" \notin Operations => role' = role
               /\ \A b \in invites[u] : invRole'[b] = invRole[b] /\ invToken'[b] = invToken[b]
               /\ \A b \in Accounts : account[b] = "absent" => account'[b] = "absent"
    <2>1. \A b \in invites[u] : invRole'[b] = invRole[b] /\ invToken'[b] = invToken[b]
      BY DEF Commit, Serial, Inv, TypeOK, InvitationsExclusive
    <2>2. \A b \in Accounts : account[b] = "absent" => account'[b] = "absent"
      BY <1>3, CommitAccounts DEF Exists
    <2> QED
      BY <1>1, <1>3, <2>1, <2>2, CommitRows
  <1>4. \A b \in Accounts : writes[u][b] # "keep" => role'[b] = role[b]
    BY CommitRows DEF Serial, Inv, RowExclusive
  <1>5. ASSUME NEW b \in Accounts, accLock[b][u] # "none", Exists(b)
        PROVE  account'[b] = account[b]
    BY <1>5, CommitAccounts DEF Serial, AccountsExclusive, Exists
  <1>6. ASSUME NEW b \in Accounts, Exists(b), accLock[b][u] = "update", role[b] = "none"
        PROVE  role'[b] = "none"
    <2>1. SUFFICES ASSUME ask[t].op \in Joins, b = ask[t].actor PROVE FALSE
      BY <1>6, CommitRows
    <2>2. CASE ask[t].op = "signup"
      BY <1>2, <1>6, <2>1, <2>2 DEF Sound, HoldsAccount, Judged, Exists
    <2>3. CASE ask[t].op \in {"accept", "adminJoin"}
      <3>1. accLock[b][t] = "share"
        BY <1>2, <2>1, <2>3 DEF Sound, HoldsAccount, AccountLocked
      <3> QED
        BY <1>6, <3>1 DEF Serial, AccountsExclusive
    <2> QED
      BY <2>1, <2>2, <2>3 DEF Joins
  <1> QED
    BY <1>1, <1>3, <1>4, <1>5, <1>6 DEF Respected

LEMMA CommitSerial ==
  ASSUME Serial, Inv', NEW t \in Txs, Commit(t)
  PROVE  Serial'
  <1>1. /\ Sound(t)'
        /\ \A u \in Txs \ {t} : Undisturbed(u)
        /\ invites'[t] = {} /\ \A a \in Accounts : accLock'[a][t] = "none"
    BY EndSound DEF Commit, Serial, Inv
  <1>2. AllSound'
    <2> SUFFICES ASSUME NEW u \in Txs \ {t} PROVE Sound(u)'
      BY <1>1 DEF AllSound
    <2>1. Respected(u)
      BY CommitRespects
    <2> QED
      BY <1>1, <2>1, Frame DEF Serial, Inv, AllSound
  <1>3. InvitationsExclusive' /\ AccountsExclusive'
    <2>1. ASSUME NEW u \in Txs, NEW v \in Txs, u # v
          PROVE  invites'[u] \cap invites'[v] = {}
      BY <1>1, <2>1 DEF Serial, InvitationsExclusive, Undisturbed
    <2>2. ASSUME NEW u \in Txs, NEW v \in Txs, u # v, NEW a \in Accounts,
                 accLock'[a][u] = "update"
          PROVE  accLock'[a][v] = "none"
      BY <1>1, <2>2 DEF Serial, AccountsExclusive, Undisturbed
    <2> QED
      BY <2>1, <2>2 DEF InvitationsExclusive, AccountsExclusive
  <1>4. JobSound'
    <2>1. /\ ws' = IF marks[t] THEN "deleting" ELSE ws
          /\ job' = IF marks[t] THEN "invitations" ELSE job
      BY DEF Commit
    <2>2. ASSUME job' = "row" PROVE Members(role') = {}
      <3>1. job = "row" /\ ws = "deleting"
        BY <2>1, <2>2 DEF Serial, JobSound
      <3>2. \A b \in Accounts : role[b] = "none"
        BY <3>1 DEF Serial, JobSound, Members
      <3> QED
        BY <3>1, <3>2, CommitRows DEF Members
    <2> QED
      BY <2>1, <2>2 DEF Serial, JobSound, Members
  <1>5. MembersHaveAccounts'
    <2> SUFFICES ASSUME NEW b \in Accounts, role'[b] # "none"
                 PROVE  account'[b] \in {"unverified", "verified"}
      BY DEF MembersHaveAccounts, Members, Exists
    <2>1. pc[t] = "checked" /\ Sound(t)
      BY DEF Commit, Serial, AllSound
    <2>2. CASE role[b] # "none"
      <3>1. Exists(b)
        BY <2>2 DEF Serial, MembersHaveAccounts, Members
      <3>2. ask[t].op = "deleteAccount" => b # ask[t].actor
        BY <2>1, <2>2, CommitRows DEF Sound, Planned, Judged, NoWrites
      <3> QED
        BY <3>1, <3>2, CommitAccounts DEF Exists, AccountOps
    <2>3. CASE role[b] = "none"
      <3>1. ask[t].op \in Joins /\ b = ask[t].actor
        BY <2>3, CommitRows
      <3>2. CASE ask[t].op = "signup"
        BY <3>1, <3>2 DEF Commit, AccountAfter, Serial, Inv, TypeOK
      <3>3. CASE ask[t].op \in {"accept", "adminJoin"}
        <4>1. Exists(b)
          BY <2>1, <3>1, <3>3 DEF Sound, HoldsAccount, AccountLocked
        <4> QED
          BY <3>3, <4>1, CommitAccounts DEF Exists, AccountOps
      <3> QED
        BY <3>1, <3>2, <3>3 DEF Joins
    <2> QED
      BY <2>2, <2>3
  <1> QED
    BY <1>2, <1>3, <1>4, <1>5 DEF Serial
-----------------------------------------------------------------------------
(* The statements on invitations, and the job.                             *)

\* An invitation that is written, renewed or revoked is locked by nobody else.
LEMMA InvitationSerial ==
  ASSUME Serial, Inv', NEW t \in Txs, End(t), UNCHANGED <<role, ws, account, job>>,
         InvitationsFree(t, {ask[t].target}),
         \A b \in Accounts \ {ask[t].target} :
            invRole'[b] = invRole[b] /\ invToken'[b] = invToken[b]
  PROVE  Serial'
  <1>1. /\ Sound(t)'
        /\ \A u \in Txs \ {t} : Undisturbed(u)
        /\ invites'[t] = {} /\ \A a \in Accounts : accLock'[a][t] = "none"
    BY EndSound DEF Serial, Inv
  <1>2. AllSound'
    <2> SUFFICES ASSUME NEW u \in Txs \ {t} PROVE Sound(u)'
      BY <1>1 DEF AllSound
    <2>1. \A b \in invites[u] : invRole'[b] = invRole[b] /\ invToken'[b] = invToken[b]
      BY DEF InvitationsFree, Serial, Inv, TypeOK
    <2>2. Respected(u)
      BY <2>1 DEF Respected
    <2> QED
      BY <1>1, <2>2, Frame DEF Serial, Inv, AllSound
  <1>3. InvitationsExclusive' /\ AccountsExclusive'
    <2>1. ASSUME NEW u \in Txs, NEW v \in Txs, u # v
          PROVE  invites'[u] \cap invites'[v] = {}
      BY <1>1, <2>1 DEF Serial, InvitationsExclusive, Undisturbed
    <2>2. ASSUME NEW u \in Txs, NEW v \in Txs, u # v, NEW a \in Accounts,
                 accLock'[a][u] = "update"
          PROVE  accLock'[a][v] = "none"
      BY <1>1, <2>2 DEF Serial, AccountsExclusive, Undisturbed
    <2> QED
      BY <2>1, <2>2 DEF InvitationsExclusive, AccountsExclusive
  <1>4. JobSound' /\ MembersHaveAccounts'
    BY DEF Serial, JobSound, MembersHaveAccounts, Members, Exists
  <1> QED
    BY <1>2, <1>3, <1>4 DEF Serial

\* Every statement of a transaction.
LEMMA StatementSerial ==
  ASSUME Serial, Inv', NEW t \in Txs, Statement(t)
  PROVE  Serial'
  <1>1. CASE WriteInvitation(t)
    <2>1. /\ End(t) /\ UNCHANGED <<role, ws, account, job>>
          /\ InvitationsFree(t, {ask[t].target})
      BY <1>1 DEF WriteInvitation, worker
    <2>2. \A b \in Accounts \ {ask[t].target} :
             invRole'[b] = invRole[b] /\ invToken'[b] = invToken[b]
      BY <1>1 DEF WriteInvitation, Serial, Inv, TypeOK
    <2> QED
      BY <2>1, <2>2, InvitationSerial
  <1>2. CASE RenewInvitation(t)
    <2>1. /\ End(t) /\ UNCHANGED <<role, ws, account, job>>
          /\ InvitationsFree(t, {ask[t].target})
      BY <1>2 DEF RenewInvitation, worker
    <2>2. \A b \in Accounts \ {ask[t].target} :
             invRole'[b] = invRole[b] /\ invToken'[b] = invToken[b]
      BY <1>2 DEF RenewInvitation, Serial, Inv, TypeOK
    <2> QED
      BY <2>1, <2>2, InvitationSerial
  <1>3. CASE RevokeInvitation(t)
    <2>1. /\ End(t) /\ UNCHANGED <<role, ws, account, job>>
          /\ InvitationsFree(t, {ask[t].target})
      BY <1>3 DEF RevokeInvitation, worker
    <2>2. \A b \in Accounts \ {ask[t].target} :
             invRole'[b] = invRole[b] /\ invToken'[b] = invToken[b]
      BY <1>3 DEF RevokeInvitation, Serial, Inv, TypeOK
    <2> QED
      BY <2>1, <2>2, InvitationSerial
  <1>4. CASE Snapshot(t) \/ LockWorkspace(t) \/ LockAccount(t)
    BY <1>4, SnapshotSerial, LockWorkspaceSerial, LockAccountSerial
  <1>5. CASE ChangeMemberRole(t) \/ TransferOwnership(t) \/ EndMembership(t) \/ MarkDeleting(t)
    BY <1>5, ChangeMemberRoleSerial, TransferOwnershipSerial, EndMembershipSerial,
       MarkDeletingSerial
  <1>6. CASE AcceptInvitation(t) \/ AddMembership(t)
    BY <1>6, AcceptInvitationSerial, AddMembershipSerial
  <1>7. CASE ReadScope(t) \/ DeleteAccount(t) \/ ReadStrip(t) \/ StripWorkspace(t)
    BY <1>7, ReadScopeSerial, DeleteAccountSerial, ReadStripSerial, StripWorkspaceSerial
  <1>8. CASE CheckOwner(t) \/ Commit(t) \/ Rollback(t)
    BY <1>8, CheckOwnerSerial, CommitSerial, RollbackSerial
  <1> QED
    BY <1>1, <1>2, <1>3, <1>4, <1>5, <1>6, <1>7, <1>8 DEF Statement

\* The job takes rows that no transaction has written, of a workspace that none
\* can hold any more.
LEMMA PurgeSerial ==
  ASSUME Serial, Inv', Purge \/ RestartJob
  PROVE  Serial'
  <1> USE DEF table, locks
  <1>1. /\ ws = "deleting" /\ ws' # "live"
        /\ UNCHANGED <<account, wsLock, accLock, pc, ask, scope, marks, writes, invites>>
    BY DEF Purge, PurgeInvitations, PurgeMembers, DeleteFinish, RestartJob, Serial, JobSound
  <1>2. \A b \in Accounts : role'[b] = role[b] \/ role'[b] = "none"
    BY DEF Purge, PurgeInvitations, PurgeMembers, DeleteFinish, RestartJob
  <1>3. ASSUME NEW u \in Txs, NEW b \in Accounts, writes[u][b] # "keep"
        PROVE  role'[b] = role[b]
    <2>1. CASE PurgeMembers
      BY <1>3, <2>1 DEF PurgeMembers, Serial, Inv, TypeOK, Members
    <2>2. CASE DeleteFinish
      <3>1. ask[u].op \notin Joins
        <4>1. pc[u] # "lock"
          BY <1>3 DEF Serial, AllSound, Sound, Unwritten, Judged, NoWrites
        <4> QED
          BY <1>1, <4>1 DEF Serial, AllSound, Sound, HoldsWorkspace, Joins, WorkspaceOps
      <3>2. role[b] # "none"
        BY <1>3, <3>1 DEF Serial, AllSound, Sound, Present
      <3> QED
        BY <2>2, <3>2 DEF DeleteFinish, Serial, JobSound, Members
    <2>3. CASE PurgeInvitations \/ RestartJob
      BY <2>3 DEF PurgeInvitations, RestartJob
    <2> QED
      BY <2>1, <2>2, <2>3 DEF Purge
  <1>4. AllSound'
    <2> SUFFICES ASSUME NEW u \in Txs PROVE Sound(u)'
      BY DEF AllSound
    <2>1. Undisturbed(u)
      BY <1>1 DEF Undisturbed
    <2>2. Respected(u)
      BY <1>1, <1>2, <1>3 DEF Respected
    <2> QED
      BY <2>1, <2>2, Frame DEF Serial, Inv, AllSound
  <1>5. InvitationsExclusive' /\ AccountsExclusive'
    BY <1>1 DEF Serial, InvitationsExclusive, AccountsExclusive
  <1>6. JobSound'
    BY <1>1, <1>2
    DEF Purge, PurgeInvitations, PurgeMembers, DeleteFinish, RestartJob, Serial, JobSound, Members
  <1>7. MembersHaveAccounts'
    BY <1>1, <1>2 DEF Serial, MembersHaveAccounts, Members, Exists
  <1> QED
    BY <1>4, <1>5, <1>6, <1>7 DEF Serial

\* A step that changes nothing.
LEMMA StutterSerial ==
  ASSUME Serial, Inv', UNCHANGED vars
  PROVE  Serial'
  <1>1. AllSound'
    <2> SUFFICES ASSUME NEW u \in Txs PROVE Sound(u)'
      BY DEF AllSound
    <2>1. Undisturbed(u) /\ Respected(u)
      BY DEF Undisturbed, Respected, vars
    <2> QED
      BY <2>1, Frame DEF Serial, Inv, AllSound
  <1> QED
    BY <1>1
    DEF Serial, InvitationsExclusive, AccountsExclusive, JobSound, MembersHaveAccounts, Members,
        Exists, vars

LEMMA InitSerial == Init => Serial
  <1> SUFFICES ASSUME Init PROVE Serial
    OBVIOUS
  <1>1. ASSUME NEW t \in Txs PROVE Sound(t)
    <2>1. /\ pc[t] = "idle" /\ ask[t] = NoAsk /\ marks[t] = FALSE
          /\ writes[t] = NoWrites /\ invites[t] = {}
      BY DEF Init
    <2>2. Routed(t) /\ Unwritten(t) /\ HoldsWorkspace(t) /\ HoldsAccount(t) /\ Planned(t)
      BY <2>1 DEF NoAsk, Routed, Unwritten, HoldsWorkspace, HoldsAccount, Planned, Judged,
                  AccountLocked, WorkspaceOps, AccountOps, InvitationOps, Joins
    <2>3. Present(t) /\ Stands(t)
      BY <2>1 DEF NoAsk, NoWrites, Present, Stands, Judged, AccountLocked
    <2> QED
      BY <2>2, <2>3 DEF Sound
  <1>2. InvitationsExclusive /\ AccountsExclusive /\ JobSound
    BY DEF Init, InvitationsExclusive, AccountsExclusive, JobSound
  <1>3. MembersHaveAccounts
    BY MembershipAssumption
    DEF Init, MembersHaveAccounts, Members, Exists, MembershipAssumption
  <1> QED
    BY InitInv, <1>1, <1>2, <1>3 DEF Serial, AllSound

\* Serial is inductive.
LEMMA StepSerial ==
  ASSUME Serial, [Next]_vars
  PROVE  Serial'
  <1>1. Inv'
    BY StepInv DEF Serial
  <1> QED
    BY <1>1, RequestSerial, StatementSerial, PurgeSerial, StutterSerial DEF Next

LEMMA SerialAlways == Spec => []Serial
  BY InitSerial, StepSerial, PTL DEF Spec
-----------------------------------------------------------------------------
(* The theorems.                                                           *)

\* Every member has an account: the deletion of an account holds its row, which a
\* join of the same account needs, and takes the membership along.
THEOREM MembersKeepAccounts == Spec => []MembersHaveAccounts
  BY SerialAlways, PTL DEF Serial

\* Where no address is verified, the verdict of every operation, whatever it was
\* made on, still stands in the state its transaction commits in.  (With a
\* verification it need not: an admin who is stripped of a workspace that the
\* verification has not locked may still commit a role change.)
THEOREM VerdictsAlwaysStand == "verify" \notin Operations => (Spec => []VerdictsStand)
  <1>1. ASSUME "verify" \notin Operations, Serial
        PROVE  VerdictsStand
    <2>1. SUFFICES ASSUME NEW t \in Txs, Judged(t)
                   PROVE
          /\ ask[t].op # "deleteAccount" /\ ask[t].op # "verify" => ws = "live"
          /\ ask[t].op = "changeRole" =>
                MayChangeRole(role, ask[t].actor, ask[t].target, ask[t].new)
          /\ ask[t].op = "transfer" => MayTransfer(role, ask[t].actor, ask[t].target, ask[t].flag)
          /\ ask[t].op = "end" => MayEnd(role, ask[t].actor, ask[t].target, ask[t].flag)
          /\ ask[t].op = "deleteWorkspace" => role[ask[t].actor] = "owner"
          /\ ask[t].op \in {"accept", "signup"} =>
                /\ role[ask[t].target] = "none"
                /\ writes[t][ask[t].target] = invRole[ask[t].target]
                /\ invToken[ask[t].target] = ask[t].token
                /\ SeatLeft
          /\ ask[t].op = "deleteAccount" => ScopeOf(t) = scope[t]
      BY DEF VerdictsStand, Judged
    <2>2. Sound(t)
      BY <1>1 DEF Serial, AllSound
    <2>3. ask[t].op \in OperationNames \cup {"none"} /\ ask[t].actor \in Accounts
      BY <1>1, AskTyped DEF Serial, Inv
    <2>4. ask[t].op # "deleteAccount" /\ ask[t].op # "verify" => ws = "live"
      BY <2>1, <2>2, <2>3
      DEF Sound, Routed, HoldsWorkspace, Judged, WorkspaceOps, InvitationOps, OperationNames
    <2>5. ask[t].op \in {"accept", "signup"} =>
            /\ ask[t].target = ask[t].actor
            /\ writes[t][ask[t].actor] = invRole[ask[t].actor]
      BY <2>1, <2>2, <2>3 DEF Sound, Routed, Planned, Joins, NoWrites
    <2> QED
      BY <1>1, <2>1, <2>2, <2>4, <2>5 DEF Sound, Stands, Joins
  <1>2. ASSUME "verify" \notin Operations PROVE Serial => VerdictsStand
    BY <1>1, <1>2
  <1>3. ASSUME "verify" \notin Operations PROVE Spec => []VerdictsStand
    <2>1. Serial => VerdictsStand
      BY <1>2, <1>3
    <2> QED
      BY <2>1, SerialAlways, PTL
  <1> QED
    BY <1>3

\* Without joins of instance admins, a commit adds a member only while a seat is left.
LEMMA SeatsStep ==
  ASSUME Serial, SeatsWithinLimit, [Next]_vars
  PROVE  SeatsWithinLimit'
  <1> SUFFICES ASSUME "adminJoin" \notin Operations
               PROVE  Cardinality(Members(role')) <= SeatLimit
    BY DEF SeatsWithinLimit, Members
  <1>1. Cardinality(Members(role)) <= SeatLimit /\ IsFiniteSet(Members(role))
    BY FS_Subset, MembershipAssumption DEF SeatsWithinLimit, Members, MembershipAssumption
  <1>2. SeatLimit \in Nat
    BY MembershipAssumption DEF MembershipAssumption
  <1>3. CASE Members(role') \subseteq Members(role)
    <2>1. /\ IsFiniteSet(Members(role'))
          /\ Cardinality(Members(role')) <= Cardinality(Members(role))
      BY <1>1, <1>3, FS_Subset
    <2>2. Cardinality(Members(role)) \in Nat /\ Cardinality(Members(role')) \in Nat
      BY <1>1, <2>1, FS_CardinalityType
    <2> QED
      BY <1>1, <1>2, <2>1, <2>2
  <1>4. CASE \E t \in Txs : Commit(t)
    <2>1. PICK t \in Txs : Commit(t)
      BY <1>4
    <2>2. Sound(t) /\ Judged(t)
      BY <2>1 DEF Serial, AllSound, Commit, Judged
    <2>3. CASE ask[t].op \in Joins
      <3>1. SeatLeft
        BY <2>2, <2>3 DEF Sound, Routed, Stands, Joins
      <3>2. Cardinality(Members(role)) \in Nat /\ Cardinality(Members(role)) < SeatLimit
        BY <1>1, <3>1, FS_CardinalityType DEF SeatLeft
      <3>3. Members(role') \subseteq Members(role) \cup {ask[t].actor}
        BY <2>1, CommitRows DEF Members
      <3>4. /\ IsFiniteSet(Members(role) \cup {ask[t].actor})
            /\ Cardinality(Members(role) \cup {ask[t].actor}) \in Nat
            /\ Cardinality(Members(role) \cup {ask[t].actor}) <= Cardinality(Members(role)) + 1
        <4>1. /\ IsFiniteSet(Members(role) \cup {ask[t].actor})
              /\ \/ Cardinality(Members(role) \cup {ask[t].actor}) = Cardinality(Members(role))
                 \/ Cardinality(Members(role) \cup {ask[t].actor}) = Cardinality(Members(role)) + 1
          BY <1>1, FS_AddElement
        <4> QED
          BY <3>2, <4>1
      <3>5. /\ IsFiniteSet(Members(role'))
            /\ Cardinality(Members(role')) <= Cardinality(Members(role) \cup {ask[t].actor})
        BY <3>3, <3>4, FS_Subset
      <3>6. Cardinality(Members(role')) \in Nat
        BY <3>5, FS_CardinalityType
      <3> QED
        BY <1>2, <3>2, <3>4, <3>5, <3>6
    <2>4. CASE ask[t].op \notin Joins
      <3>1. Members(role') \subseteq Members(role)
        BY <2>1, <2>4, CommitRows DEF Members
      <3> QED
        BY <1>3, <3>1
    <2> QED
      BY <2>3, <2>4
  <1>5. CASE \A t \in Txs : ~Commit(t)
    <2>1. \A b \in Accounts : role'[b] = role[b] \/ role'[b] = "none"
      <3>1. CASE \E t \in Txs : Request(t)
        BY <3>1
        DEF Request, AskRoleChange, AskTransfer, AskEnd, AskWorkspaceDeletion, AskAcceptance,
            AskAdminJoin, AskAccountDeletion, AskVerification, AskInvitation, AskRenewal,
            AskRevocation, Open, table
      <3>2. CASE \E t \in Txs : Statement(t)
        BY <1>5, <3>2
        DEF Statement, Snapshot, LockWorkspace, LockAccount, ChangeMemberRole, TransferOwnership,
            EndMembership, MarkDeleting, AcceptInvitation, AddMembership, ReadScope,
            DeleteAccount, ReadStrip, StripWorkspace, CheckOwner, Rollback, WriteInvitation,
            RenewInvitation, RevokeInvitation, table
      <3>3. CASE Purge \/ RestartJob
        BY <3>3 DEF Purge, PurgeInvitations, PurgeMembers, DeleteFinish, RestartJob, table
      <3>4. CASE UNCHANGED vars
        BY <3>4 DEF vars
      <3> QED
        BY <3>1, <3>2, <3>3, <3>4 DEF Next
    <2> QED
      BY <1>3, <2>1 DEF Members
  <1> QED
    BY <1>4, <1>5

\* Acceptances and registrations that overlap never take the same last seat: each
\* counts the seats under the lock of the workspace, and its count still stands
\* when it commits.
THEOREM SeatsNeverOversold == Spec => []SeatsWithinLimit
  <1>1. Init => SeatsWithinLimit
    <2> SUFFICES ASSUME Init PROVE Cardinality(Members(role)) <= SeatLimit
      BY DEF SeatsWithinLimit
    <2>1. Members(role) = {Founder}
      BY MembershipAssumption DEF Init, Members, MembershipAssumption
    <2>2. Cardinality({Founder}) = 1
      BY FS_Singleton
    <2> QED
      BY <2>1, <2>2, MembershipAssumption DEF MembershipAssumption
  <1> QED
    BY <1>1, InitSerial, StepSerial, SeatsStep, PTL DEF Spec
-----------------------------------------------------------------------------
(* Membership implements Roster.                                           *)

\* A commit that neither accepts an invitation nor ends or verifies an account
\* changes the roles alone, or the workspace.
LEMMA CommitPlain ==
  ASSUME Serial, NEW t \in Txs, Commit(t),
         ask[t].op \notin {"accept", "signup"} \cup AccountOps
  PROVE  account' = account /\ invRole' = invRole
  <1>1. Sound(t) /\ Judged(t) /\ pc[t] = "checked"
    BY DEF Serial, AllSound, Commit, Judged
  <1>2. invites[t] = {}
    BY <1>1 DEF Sound, Planned, AccountOps
  <1>3. account' = account
    BY DEF Commit, AccountAfter, AccountOps, Serial, Inv, TypeOK
  <1> QED
    BY <1>2, <1>3 DEF Commit, Serial, Inv, TypeOK

\* A change of roles, by the owner there always is.
LEMMA ChangeRoleStep ==
  ASSUME Serial, Inv', NEW t \in Txs, Commit(t), ask[t].op = "changeRole"
  PROVE  Promise!ChangeRole
  <1>1. Sound(t) /\ Judged(t) /\ pc[t] = "checked"
    BY DEF Serial, AllSound, Commit, Judged
  <1>2. ask[t].actor \in Accounts /\ ask[t].target \in Accounts /\ ask[t].new \in Roles
    BY AskTyped DEF Serial, Inv
  <1>3. account' = account /\ invRole' = invRole
    BY CommitPlain DEF AccountOps
  <1>4. ws = "live" /\ ws' = ws
    BY <1>1 DEF Sound, HoldsWorkspace, Planned, WorkspaceOps, Commit
  <1>5. role' = [role EXCEPT ![ask[t].target] = ask[t].new]
    <2>1. writes[t] = [NoWrites EXCEPT ![ask[t].target] = ask[t].new]
      BY <1>1 DEF Sound, Planned
    <2> QED
      BY <1>2, <2>1 DEF Commit, Seen, NoWrites, Roles, Serial, Inv, TypeOK
  <1>6. PICK o \in Accounts : role[o] = "owner"
    BY <1>4 DEF Serial, Inv, OwnerRequired, Owners
  <1>7. Promise!MayChangeRole(role, o, ask[t].target, ask[t].new)
    BY <1>1, <1>6 DEF Sound, Stands, Promise!MayChangeRole
  <1>8. Promise!Owners(role') # {}
    BY <1>4 DEF Inv, OwnerRequired, Owners, Promise!Owners
  <1> QED
    BY <1>2, <1>3, <1>4, <1>5, <1>6, <1>7, <1>8
    DEF Promise!ChangeRole, Promise!Regroup, Promise!Roles, Roles

LEMMA TransferStep ==
  ASSUME Serial, Inv', NEW t \in Txs, Commit(t), ask[t].op = "transfer"
  PROVE  Promise!Transfer
  <1>1. Sound(t) /\ Judged(t) /\ pc[t] = "checked"
    BY DEF Serial, AllSound, Commit, Judged
  <1>2. ask[t].actor \in Accounts /\ ask[t].target \in Accounts /\ ask[t].flag \in BOOLEAN
    BY AskTyped DEF Serial, Inv
  <1>3. account' = account /\ invRole' = invRole
    BY CommitPlain DEF AccountOps
  <1>4. ws = "live" /\ ws' = ws
    BY <1>1 DEF Sound, HoldsWorkspace, Planned, WorkspaceOps, Commit
  <1>5. MayTransfer(role, ask[t].actor, ask[t].target, ask[t].flag)
    BY <1>1 DEF Sound, Stands
  <1>6. role' = [role EXCEPT ![ask[t].target] = "owner",
                             ![ask[t].actor] = IF ask[t].flag THEN "admin" ELSE "owner"]
    <2>1. writes[t] =
            [NoWrites EXCEPT
                ![ask[t].target] = IF role[ask[t].target] = "owner" THEN "keep" ELSE "owner",
                ![ask[t].actor] = IF ask[t].flag THEN "admin" ELSE "keep"]
      BY <1>1 DEF Sound, Planned
    <2>2. /\ writes[t][ask[t].target] = IF role[ask[t].target] = "owner" THEN "keep" ELSE "owner"
          /\ writes[t][ask[t].actor] = IF ask[t].flag THEN "admin" ELSE "keep"
          /\ \A b \in Accounts \ {ask[t].target, ask[t].actor} : writes[t][b] = "keep"
      BY <1>2, <1>5, <2>1 DEF NoWrites, MayTransfer
    <2>3. role \in [Accounts -> Standing] /\ role' \in [Accounts -> Standing]
      BY DEF Serial, Inv, TypeOK
    <2>4. /\ role'[ask[t].target] = "owner"
          /\ role'[ask[t].actor] = IF ask[t].flag THEN "admin" ELSE "owner"
          /\ \A b \in Accounts \ {ask[t].target, ask[t].actor} : role'[b] = role[b]
      BY <1>2, <1>5, <2>2, CommitRows DEF MayTransfer
    <2> QED
      BY <1>2, <1>5, <2>3, <2>4 DEF MayTransfer
  <1>7. Promise!MayTransfer(role, ask[t].actor, ask[t].target, ask[t].flag)
    BY <1>5 DEF MayTransfer, Promise!MayTransfer
  <1>8. Promise!Owners(role') # {}
    BY <1>4 DEF Inv, OwnerRequired, Owners, Promise!Owners
  <1> QED
    BY <1>2, <1>3, <1>4, <1>6, <1>7, <1>8 DEF Promise!Transfer, Promise!Regroup

\* A membership that ends, as an owner who stays may end it.
LEMMA EndMemberStep ==
  ASSUME Serial, Inv', NEW t \in Txs, Commit(t), ask[t].op = "end"
  PROVE  Promise!EndMember
  <1>1. Sound(t) /\ Judged(t) /\ pc[t] = "checked"
    BY DEF Serial, AllSound, Commit, Judged
  <1>2. ask[t].target \in Accounts
    BY AskTyped DEF Serial, Inv
  <1>3. account' = account /\ invRole' = invRole
    BY CommitPlain DEF AccountOps
  <1>4. ws = "live" /\ ws' = ws
    BY <1>1 DEF Sound, HoldsWorkspace, Planned, WorkspaceOps, Commit
  <1>5. role' = [role EXCEPT ![ask[t].target] = "none"]
    <2>1. writes[t] = [NoWrites EXCEPT ![ask[t].target] = "none"]
      BY <1>1 DEF Sound, Planned
    <2> QED
      BY <1>2, <2>1 DEF Commit, Seen, NoWrites, Serial, Inv, TypeOK
  <1>6. PICK o \in Accounts : role'[o] = "owner"
    BY <1>4 DEF Inv, OwnerRequired, Owners
  <1>7. role[o] = "owner" /\ o # ask[t].target /\ role[ask[t].target] # "none"
    BY <1>1, <1>2, <1>5, <1>6 DEF Sound, Stands, Serial, Inv, TypeOK
  <1>8. Promise!MayEnd(role, o, ask[t].target, FALSE)
    BY <1>7 DEF Promise!MayEnd
  <1>9. Promise!Owners(role') # {}
    BY <1>6 DEF Promise!Owners
  <1> QED
    BY <1>2, <1>3, <1>4, <1>5, <1>6, <1>8, <1>9 DEF Promise!EndMember, Promise!Regroup

LEMMA DeleteWorkspaceStep ==
  ASSUME Serial, NEW t \in Txs, Commit(t), ask[t].op = "deleteWorkspace"
  PROVE  Promise!DeleteWorkspace
  <1>1. Sound(t) /\ Judged(t) /\ pc[t] = "checked"
    BY DEF Serial, AllSound, Commit, Judged
  <1>2. account' = account /\ invRole' = invRole
    BY CommitPlain DEF AccountOps
  <1>3. ws = "live" /\ ws' = "deleting"
    BY <1>1 DEF Sound, HoldsWorkspace, Planned, WorkspaceOps, Commit
  <1>4. role' = role
    <2>1. writes[t] = NoWrites
      BY <1>1 DEF Sound, Planned
    <2> QED
      BY <2>1 DEF Commit, Seen, NoWrites, Serial, Inv, TypeOK
  <1>5. Promise!Owners(role) # {}
    BY <1>3 DEF Serial, Inv, OwnerRequired, Owners, Promise!Owners
  <1> QED
    BY <1>2, <1>3, <1>4, <1>5 DEF Promise!DeleteWorkspace

LEMMA AdminJoinStep ==
  ASSUME Serial, Inv', NEW t \in Txs, Commit(t), ask[t].op = "adminJoin"
  PROVE  Promise!AdminJoin
  <1>1. Sound(t) /\ Judged(t) /\ pc[t] = "checked"
    BY DEF Serial, AllSound, Commit, Judged
  <1>2. ask[t].actor \in Accounts /\ ask[t].actor \in Admins
    BY <1>1, AskTyped DEF Serial, Inv, Sound, Routed
  <1>3. account' = account /\ invRole' = invRole
    BY CommitPlain DEF AccountOps
  <1>4. ws = "live" /\ ws' = ws
    BY <1>1 DEF Sound, HoldsWorkspace, Planned, WorkspaceOps, Commit
  <1>5. role' = [role EXCEPT ![ask[t].actor] = "member"]
    <2>1. writes[t] = [NoWrites EXCEPT ![ask[t].actor] = "member"]
      BY <1>1 DEF Sound, Planned
    <2> QED
      BY <1>2, <2>1 DEF Commit, Seen, NoWrites, Serial, Inv, TypeOK
  <1>6. Promise!Exists(ask[t].actor)
    BY <1>1 DEF Sound, HoldsAccount, AccountLocked, Exists, Promise!Exists
  <1>7. role[ask[t].actor] = "none"
    BY <1>1 DEF Sound, Stands, Joins
  <1>8. Promise!Owners(role') # {}
    BY <1>4 DEF Inv, OwnerRequired, Owners, Promise!Owners
  <1> QED
    BY <1>2, <1>3, <1>4, <1>5, <1>6, <1>7, <1>8 DEF Promise!AdminJoin, Promise!Regroup

LEMMA JoinStep ==
  ASSUME Serial, NEW t \in Txs, Commit(t), ask[t].op \in {"accept", "signup"}
  PROVE  Promise!Join
  <1> DEFINE a == ask[t].actor
  <1>1. Sound(t) /\ Judged(t) /\ pc[t] = "checked"
    BY DEF Serial, AllSound, Commit, Judged
  <1>2. a \in Accounts
    BY AskTyped DEF Serial, Inv
  <1>3. ws = "live" /\ ws' = ws
    BY <1>1 DEF Sound, HoldsWorkspace, Planned, WorkspaceOps, Commit
  <1>4. /\ writes[t] = [NoWrites EXCEPT ![a] = invRole[a]] /\ invites[t] = {a}
        /\ role[a] = "none" /\ invRole[a] # "none" /\ SeatLeft
    BY <1>1 DEF Sound, Planned, Stands, Joins
  <1>5. role' = [role EXCEPT ![a] = invRole[a]]
    <2>1. invRole[a] # "keep"
      BY <1>2 DEF Serial, Inv, TypeOK, InvitationRoles
    <2> QED
      BY <1>2, <1>4, <2>1 DEF Commit, Seen, NoWrites, Serial, Inv, TypeOK
  <1>6. invRole' = [invRole EXCEPT ![a] = "none"]
    BY <1>2, <1>4 DEF Commit, Serial, Inv, TypeOK
  <1>7. \/ account[a] = "verified" /\ account' = account
        \/ /\ account[a] = "absent"
           /\ \E s \in {"unverified", "verified"} : account' = [account EXCEPT ![a] = s]
    <2>1. CASE ask[t].op = "accept"
      BY <1>1, <1>2, <2>1
      DEF Sound, HoldsAccount, Commit, AccountAfter, Serial, Inv, TypeOK
    <2>2. CASE ask[t].op = "signup"
      BY <1>1, <2>2 DEF Sound, HoldsAccount, Commit, AccountAfter
    <2> QED
      BY <2>1, <2>2
  <1>8. Promise!Cardinality(Promise!Members(role)) < SeatLimit
    <2>1. Promise!Cardinality(Members(role)) = Cardinality(Members(role))
      BY DEF Cardinality, Promise!Cardinality
    <2> QED
      BY <1>4, <2>1 DEF SeatLeft, Members, Promise!Members
  <1> QED
    BY <1>2, <1>3, <1>4, <1>5, <1>6, <1>7, <1>8 DEF Promise!Join

LEMMA RemoveAccountStep ==
  ASSUME Serial, NEW t \in Txs, Commit(t), ask[t].op = "deleteAccount"
  PROVE  Promise!RemoveAccount
  <1> DEFINE a == ask[t].actor
  <1>1. Sound(t) /\ Judged(t) /\ pc[t] = "checked"
    BY DEF Serial, AllSound, Commit, Judged
  <1>2. a \in Accounts
    BY AskTyped DEF Serial, Inv
  <1>3. /\ writes[t] = [NoWrites EXCEPT ![a] = IF role[a] = "none" THEN "keep" ELSE "none"]
        /\ marks[t] = (scope[t] = "sole") /\ invites[t] = {}
        /\ ScopeOf(t) = scope[t]
    BY <1>1 DEF Sound, Planned, Stands
  <1>4. scope[t] # "blocking"
    BY <1>1 DEF Sound, Stands, AccountLocked
  <1>5. role' = [role EXCEPT ![a] = "none"]
    BY <1>2, <1>3 DEF Commit, Seen, NoWrites, Serial, Inv, TypeOK
  <1>6. account' = [account EXCEPT ![a] = "deleted"] /\ invRole' = invRole
    BY <1>3 DEF Commit, AccountAfter, Serial, Inv, TypeOK
  <1>7. Promise!Exists(a)
    BY <1>1 DEF Sound, HoldsAccount, AccountLocked, AccountOps, Exists, Promise!Exists
  <1>8. ScopeOf(t) = IF ws = "live" THEN Promise!DeletionScope(role, a) ELSE "clear"
    BY DEF ScopeOf, DeletionScope, Members, Owners,
           Promise!DeletionScope, Promise!Members, Promise!Owners
  <1>9. ws' = IF scope[t] = "sole" THEN "deleting" ELSE ws
    BY <1>3 DEF Commit
  <1> QED
    BY <1>2, <1>3, <1>4, <1>5, <1>6, <1>7, <1>8, <1>9 DEF Promise!RemoveAccount

LEMMA VerifyStep ==
  ASSUME Serial, Inv', NEW t \in Txs, Commit(t), ask[t].op = "verify"
  PROVE  Promise!Verify
  <1> DEFINE a == ask[t].actor
  <1>1. Sound(t) /\ Judged(t) /\ pc[t] = "checked"
    BY DEF Serial, AllSound, Commit, Judged
  <1>2. a \in Accounts
    BY AskTyped DEF Serial, Inv
  <1>3. account[a] = "unverified" /\ account' = [account EXCEPT ![a] = "verified"]
    BY <1>1 DEF Sound, HoldsAccount, AccountLocked, Commit, AccountAfter
  <1>4. /\ \A b \in Accounts \ {a} : writes[t][b] \in {"keep", "none"}
        /\ writes[t][a] \in {"keep", "owner"}
        /\ \A b \in Accounts : writes[t][b] # "keep" => role[b] # "none"
    BY <1>1 DEF Sound, Planned, Present, Joins
  <1>5. \A b \in Accounts : role'[b] = IF writes[t][b] = "keep" THEN role[b] ELSE writes[t][b]
    BY CommitRows
  <1>6. \A b \in Accounts \ {a} : role'[b] \in {role[b], "none"}
    BY <1>4, <1>5
  <1>7. role'[a] \in IF role[a] = "none" THEN {"none"} ELSE {role[a], "owner"}
    BY <1>2, <1>4, <1>5
  <1>8. role' \in [Accounts -> Promise!Standing]
    BY DEF Inv, TypeOK, Standing, Roles, Promise!Standing, Promise!Roles
  <1>9. a = Founder /\ ws = "live" /\ role[a] # "none" =>
          role' = [b \in Accounts |-> IF b = a THEN "owner" ELSE "none"]
    BY <1>1 DEF Sound, Stands, Commit, Seen
  <1>10. \A b \in Accounts : invRole'[b] \in {invRole[b], "none"}
    BY DEF Commit
  <1>11. invRole' \in [Accounts -> Promise!InvitationRoles \cup {"none"}]
    BY DEF Inv, TypeOK, InvitationRoles, Promise!InvitationRoles
  <1>12. ws' = ws
    BY <1>1 DEF Sound, Planned, Commit
  <1>13. ws = "live" => Promise!Owners(role') # {}
    BY <1>12 DEF Inv, OwnerRequired, Owners, Promise!Owners
  <1> QED
    BY <1>2, <1>3, <1>6, <1>7, <1>8, <1>9, <1>10, <1>11, <1>12, <1>13 DEF Promise!Verify

\* Every commit is one step of Roster.
LEMMA CommitStep ==
  ASSUME Serial, Inv', NEW t \in Txs, Commit(t)
  PROVE  Promise!Next
  <1>1. ask[t].op \in WorkspaceOps \cup AccountOps
    <2>1. Sound(t) /\ pc[t] = "checked" /\ ask[t].op \in OperationNames \cup {"none"}
      BY AskTyped DEF Serial, Inv, AllSound, Commit
    <2> QED
      BY <2>1 DEF Sound, Routed, WorkspaceOps, AccountOps, InvitationOps, OperationNames
  <1>2. CASE ask[t].op = "changeRole"
    BY <1>2, ChangeRoleStep DEF Promise!Next
  <1>3. CASE ask[t].op = "transfer"
    BY <1>3, TransferStep DEF Promise!Next
  <1>4. CASE ask[t].op = "end"
    BY <1>4, EndMemberStep DEF Promise!Next
  <1>5. CASE ask[t].op = "deleteWorkspace"
    BY <1>5, DeleteWorkspaceStep DEF Promise!Next
  <1>6. CASE ask[t].op \in {"accept", "signup"}
    BY <1>6, JoinStep DEF Promise!Next
  <1>7. CASE ask[t].op = "adminJoin"
    BY <1>7, AdminJoinStep DEF Promise!Next
  <1>8. CASE ask[t].op = "deleteAccount"
    BY <1>8, RemoveAccountStep DEF Promise!Next
  <1>9. CASE ask[t].op = "verify"
    BY <1>9, VerifyStep DEF Promise!Next
  <1> QED
    BY <1>1, <1>2, <1>3, <1>4, <1>5, <1>6, <1>7, <1>8, <1>9 DEF WorkspaceOps, AccountOps

\* The three statements on invitations.
LEMMA InvitationStep ==
  ASSUME Serial, NEW t \in Txs,
         WriteInvitation(t) \/ RenewInvitation(t) \/ RevokeInvitation(t)
  PROVE  [Promise!Next]_(Promise!rvars)
  <1>0. ask[t].target \in Accounts
    BY AskTyped DEF Serial, Inv
  <1>1. CASE WriteInvitation(t)
    <2>1. ask[t].new \in Promise!InvitationRoles
      BY <1>1 DEF WriteInvitation, Serial, Inv, TypeOK, InvitationRoles, Promise!InvitationRoles
    <2>2. Promise!Invite
      BY <1>0, <1>1, <2>1 DEF WriteInvitation, Promise!Invite
    <2> QED
      BY <2>2 DEF Promise!Next
  <1>2. CASE RenewInvitation(t)
    BY <1>2 DEF RenewInvitation, Promise!rvars
  <1>3. CASE RevokeInvitation(t)
    <2>1. Promise!Revoke
      BY <1>0, <1>3 DEF RevokeInvitation, Promise!Revoke
    <2> QED
      BY <2>1 DEF Promise!Next
  <1> QED
    BY <1>1, <1>2, <1>3

\* The job removes rows of a workspace that is being deleted.
LEMMA PurgeStep ==
  ASSUME Serial, Purge \/ RestartJob
  PROVE  [Promise!Next]_(Promise!rvars)
  <1> USE DEF table
  <1>0. ws = "deleting"
    BY DEF Purge, PurgeInvitations, PurgeMembers, DeleteFinish, RestartJob, Serial, JobSound
  <1>r. /\ role = [a \in Accounts |-> IF a \in {} THEN "none" ELSE role[a]]
        /\ invRole = [a \in Accounts |-> IF a \in {} THEN "none" ELSE invRole[a]]
    BY DEF Serial, Inv, TypeOK
  <1>1. CASE PurgeInvitations
    <2>1. CASE UNCHANGED invRole
      BY <1>1, <2>1 DEF PurgeInvitations, Promise!rvars
    <2>2. CASE \E pending \in SUBSET Accounts :
                  invRole' = [a \in Accounts |-> IF a \in pending THEN "none" ELSE invRole[a]]
      <3>1. PICK pending \in SUBSET Accounts :
               invRole' = [a \in Accounts |-> IF a \in pending THEN "none" ELSE invRole[a]]
        BY <2>2
      <3>2. UNCHANGED <<role, ws, account>> /\ {} \in SUBSET Accounts
        BY <1>1 DEF PurgeInvitations
      <3>3. Promise!Purge
        BY <1>0, <1>r, <3>1, <3>2 DEF Promise!Purge
      <3> QED
        BY <3>3 DEF Promise!Next
    <2> QED
      BY <1>1, <2>1, <2>2 DEF PurgeInvitations
  <1>2. CASE PurgeMembers
    <2>1. CASE UNCHANGED role
      BY <1>2, <2>1 DEF PurgeMembers, Promise!rvars
    <2>2. CASE \E rows \in SUBSET Accounts :
                  role' = [a \in Accounts |-> IF a \in rows THEN "none" ELSE role[a]]
      <3>1. PICK rows \in SUBSET Accounts :
               role' = [a \in Accounts |-> IF a \in rows THEN "none" ELSE role[a]]
        BY <2>2
      <3>2. UNCHANGED <<invRole, ws, account>> /\ {} \in SUBSET Accounts
        BY <1>2 DEF PurgeMembers
      <3>3. Promise!Purge
        BY <1>0, <1>r, <3>1, <3>2 DEF Promise!Purge
      <3> QED
        BY <3>3 DEF Promise!Next
    <2> QED
      BY <1>2, <2>1, <2>2 DEF PurgeMembers, Members
  <1>3. CASE DeleteFinish
    <2>1. Promise!Members(role) = {}
      BY <1>3 DEF DeleteFinish, Serial, JobSound, Members, Promise!Members
    <2>2. /\ role' = [a \in Accounts |-> IF a \in Accounts THEN "none" ELSE role[a]]
          /\ invRole' = [a \in Accounts |-> IF a \in Accounts THEN "none" ELSE invRole[a]]
          /\ ws' = "gone" /\ account' = account
      BY <1>3 DEF DeleteFinish
    <2>3. Promise!Purge
      BY <1>0, <2>1, <2>2 DEF Promise!Purge
    <2> QED
      BY <2>3 DEF Promise!Next
  <1>4. CASE RestartJob
    BY <1>4 DEF RestartJob, Promise!rvars
  <1> QED
    BY <1>1, <1>2, <1>3, <1>4 DEF Purge

\* Every other step leaves what Roster sees as it was.
LEMMA RosterStep ==
  ASSUME Serial, [Next]_vars
  PROVE  [Promise!Next]_(Promise!rvars)
  <1>0. Inv'
    BY StepInv DEF Serial
  <1>1. CASE \E t \in Txs : Request(t)
    BY <1>1
    DEF Request, AskRoleChange, AskTransfer, AskEnd, AskWorkspaceDeletion, AskAcceptance,
        AskAdminJoin, AskAccountDeletion, AskVerification, AskInvitation, AskRenewal,
        AskRevocation, Open, table, Promise!rvars
  <1>2. ASSUME NEW t \in Txs, Statement(t)
        PROVE  [Promise!Next]_(Promise!rvars)
    <2>1. CASE Commit(t)
      BY <1>0, <2>1, CommitStep
    <2>2. CASE WriteInvitation(t) \/ RenewInvitation(t) \/ RevokeInvitation(t)
      BY <2>2, InvitationStep
    <2>3. CASE Snapshot(t) \/ LockWorkspace(t) \/ LockAccount(t) \/ ReadScope(t) \/ ReadStrip(t)
               \/ CheckOwner(t) \/ Rollback(t)
      BY <2>3
      DEF Snapshot, LockWorkspace, LockAccount, ReadScope, ReadStrip, CheckOwner, Rollback,
          table, Promise!rvars
    <2>4. CASE ChangeMemberRole(t) \/ TransferOwnership(t) \/ EndMembership(t) \/ MarkDeleting(t)
               \/ AcceptInvitation(t) \/ AddMembership(t) \/ DeleteAccount(t) \/ StripWorkspace(t)
      BY <2>4
      DEF ChangeMemberRole, TransferOwnership, EndMembership, MarkDeleting, AcceptInvitation,
          AddMembership, DeleteAccount, StripWorkspace, table, Promise!rvars
    <2> QED
      BY <1>2, <2>1, <2>2, <2>3, <2>4 DEF Statement
  <1>3. CASE UNCHANGED vars
    BY <1>3 DEF vars, Promise!rvars
  <1> QED
    BY <1>1, <1>2, <1>3, PurgeStep DEF Next

\* The transactions are as good as serial: every commit, and every batch of the
\* job, is one step that the rules allow in the very state it changes, and every
\* other statement, refusal and failure changes nothing.
THEOREM TransactionsAreSerial == Spec => ImplementsRoster
  <1>1. Init => Promise!Init
    BY DEF Init, Promise!Init
  <1> QED
    BY <1>1, SerialAlways, RosterStep, PTL DEF Spec, ImplementsRoster, Promise!Spec
=============================================================================
