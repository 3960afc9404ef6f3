------------------------ MODULE InstanceAdminsProofs ------------------------
(***************************************************************************)
(* Proofs about InstanceAdmins for any accounts and any number of          *)
(* overlapping transactions.  The invariant says what each lock is for: a  *)
(* row that a transaction has judged is locked by it and as it was judged, *)
(* and whoever is about to take an enabled admin away holds the advisory   *)
(* key and has seen another admin.  Two such transactions would both hold  *)
(* the key, so the other admin is still there when it commits.             *)
(***************************************************************************)
EXTENDS InstanceAdmins, TLAPS

\* The rows that t has judged are locked by it and as they were judged.
Locked(t) ==
    pc[t] \in {"key", "judge", "commit"} =>
        /\ lock[ask[t].target] = t
        /\ row[ask[t].target].standing # "gone"
        /\ ask[t].op \in InstanceOperations =>
              lock[ask[t].actor] = t /\ MayAdminister(row[ask[t].actor])

\* A transaction that needs the key holds it when it decides.
KeyHeld(t) == pc[t] \in {"judge", "commit"} /\ NeedsKey(t) => key = t

\* What t is about to commit.
Decided(t) ==
    pc[t] = "commit" =>
        /\ EnabledAdmin(row[ask[t].target]) /\ ~EnabledAdmin(write[t]) =>
              key = t /\ OtherAdmin(ask[t].target)
        /\ ~(write[t].admin /\ write[t].period # "none")
        /\ ask[t].op = "end" =>
              /\ due[ask[t].target]
              /\ write[t].standing = "gone" => row[ask[t].target].period = "delete"

Sound(t) == Locked(t) /\ KeyHeld(t) /\ Decided(t)

\* A period that is over is the period of an account that has one.
DuePeriods == \A a \in Accounts : due[a] => row[a].period # "none"

Inv ==
    /\ TypeOK /\ DuePeriods /\ NoExportOnlyAdmin /\ AdminRemains
    /\ \A t \in Txs : Sound(t)
-----------------------------------------------------------------------------
(* Types.                                                                  *)

\* The initial state is well typed.
LEMMA InitTypeOK == Init => TypeOK
  BY InstanceAssumption
  DEF Init, TypeOK, InstanceAssumption, Rows, Gone, PCs, NoAsk, Asks, NoChange, AllChanges,
      OperationNames, InstanceOperations, EndActions

\* A row that a change or a verification leaves is a row.
LEMMA ChangedRow ==
  ASSUME NEW r \in Rows, NEW c \in AllChanges, NEW self \in BOOLEAN
  PROVE  Changed(r, c, self) \in Rows /\ Marked(r, self) \in Rows
  <1>1. \A q \in Rows : Marked(q, self) \in Rows
    BY DEF Marked, Rows
  <1>2. [r EXCEPT !.admin = IF c.admin = "keep" THEN @ ELSE c.admin = "yes",
                  !.standing = CASE c.disabled = "keep" -> @
                                 [] c.disabled = "yes" -> "disabled"
                                 [] c.disabled = "no" -> "enabled"] \in Rows
    BY DEF Rows, AllChanges
  <1> QED
    BY <1>1, <1>2 DEF Changed

\* What a request asks for is well typed.
LEMMA OpenType ==
  ASSUME TypeOK, NEW t \in Txs, NEW op \in OperationNames, NEW actor \in Accounts,
         NEW target \in Accounts, NEW c \in AllChanges, NEW period \in EndActions \cup {"none"},
         Open(t, op, actor, target, c, period), todo' \subseteq Accounts \X EndActions
  PROVE  TypeOK'
  BY DEF Open, TypeOK, Goto, PCs, Asks, table, locks

\* Each request of a transaction leaves the state well typed.
LEMMA RequestType ==
  ASSUME TypeOK, NEW t \in Txs, Request(t)
  PROVE  TypeOK'
  <1>0. /\ NoChange \in AllChanges /\ Changes \subseteq AllChanges
        /\ todo \subseteq Accounts \X EndActions
    BY InstanceAssumption DEF InstanceAssumption, NoChange, AllChanges, TypeOK
  <1>1. CASE AskInstance(t)
    BY <1>0, <1>1, OpenType DEF AskInstance, OperationNames, InstanceOperations
  <1>2. CASE AskOwn(t)
    BY <1>0, <1>2, OpenType DEF AskOwn, OperationNames
  <1>3. CASE AskEnd(t)
    BY <1>0, <1>3, OpenType DEF AskEnd, OperationNames
  <1> QED
    BY <1>1, <1>2, <1>3 DEF Request

\* Each lock that is taken leaves the state well typed.
LEMMA LockingType ==
  ASSUME TypeOK, NEW t \in Txs, Locking(t)
  PROVE  TypeOK'
  BY DEF Locking, LockRow, Reread, TakeKey, TypeOK, Goto, PCs, table, locks, job

\* Each decision leaves the state well typed.
LEMMA DecisionType ==
  ASSUME TypeOK, NEW t \in Txs, Decision(t)
  PROVE  TypeOK'
  <1>0. /\ ask[t].target \in Accounts /\ ask[t].change \in AllChanges
        /\ ask[t].period \in EndActions \cup {"none"}
        /\ row[ask[t].target] \in Rows
    BY DEF TypeOK, Asks
  <1>1. ASSUME NEW r \in Rows, Put(t, r) PROVE TypeOK'
    BY <1>1 DEF Put, TypeOK, Goto, PCs, table, locks, job
  <1>2. CASE UpdateAccount(t)
    BY <1>0, <1>1, <1>2, ChangedRow DEF UpdateAccount
  <1>3. CASE VerifyEmail(t)
    BY <1>0, <1>1, <1>3, ChangedRow DEF VerifyEmail
  <1>4. CASE ResetMfa(t) \/ ActivateMfa(t) \/ DisableMfa(t)
    BY <1>0, <1>1, <1>4 DEF ResetMfa, ActivateMfa, DisableMfa, Rows
  <1>5. CASE SetMode(t) \/ EndByDisabling(t)
    BY <1>0, <1>1, <1>5 DEF SetMode, EndByDisabling, Rows
  <1>6. CASE DeleteAccount(t) \/ EndByDeleting(t)
    BY <1>1, <1>6 DEF DeleteAccount, EndByDeleting, Rows, Gone
  <1> QED
    BY <1>2, <1>3, <1>4, <1>5, <1>6 DEF Decision

\* Commits and rollbacks leave the state well typed.
LEMMA EndType ==
  ASSUME TypeOK, NEW t \in Txs, Commit(t) \/ Rollback(t)
  PROVE  TypeOK'
  <1>1. /\ pc' \in [Txs -> PCs] /\ ask' \in [Txs -> Asks] /\ write' \in [Txs -> Rows]
        /\ lock' \in [Accounts -> Txs \cup {NoTx}] /\ key' \in Txs \cup {NoTx}
    <2>1. NoAsk \in Asks /\ Gone \in Rows /\ "idle" \in PCs
      BY InstanceAssumption
      DEF Asks, NoAsk, NoChange, AllChanges, Rows, Gone, PCs, EndActions, InstanceAssumption
    <2>2. End(t)
      BY DEF Commit, Rollback
    <2> QED
      BY <2>1, <2>2 DEF End, Goto, TypeOK
  <1>2. CASE Commit(t)
    BY <1>1, <1>2 DEF Commit, TypeOK, job
  <1>3. CASE Rollback(t)
    BY <1>1, <1>3, InstanceAssumption DEF Rollback, TypeOK, table, InstanceAssumption
  <1> QED
    BY <1>2, <1>3

\* The job and the clock leave the state well typed: the list of what is due
\* names end actions, since only an account that has a period is due.
LEMMA JobType ==
  ASSUME TypeOK, DuePeriods, ReadDue \/ StopJob \/ PeriodPasses
  PROVE  TypeOK'
  <1>1. CASE ReadDue
    <2>1. \A a \in Accounts : due[a] => row[a].period \in EndActions
      BY DEF TypeOK, DuePeriods, Rows
    <2>2. todo' \subseteq Accounts \X EndActions
      BY <1>1, <2>1 DEF ReadDue
    <2> QED
      BY <1>1, <2>2 DEF ReadDue, TypeOK, table, locks
  <1>2. CASE StopJob
    BY <1>2, InstanceAssumption DEF StopJob, TypeOK, table, locks, InstanceAssumption
  <1>3. CASE PeriodPasses
    BY <1>3 DEF PeriodPasses, TypeOK, locks, job
  <1> QED
    BY <1>1, <1>2, <1>3
-----------------------------------------------------------------------------
(* The invariant.                                                          *)

\* What t does without a commit leaves the other transactions sound, as long as
\* it takes no lock from them.
LEMMA OtherSound ==
  ASSUME NEW t \in Txs, NEW u \in Txs, t # u, TypeOK, Sound(u), UNCHANGED row,
         \A a \in Accounts : due[a] => due'[a],
         pc'[u] = pc[u], ask'[u] = ask[u], write'[u] = write[u],
         \A a \in Accounts : lock[a] = u => lock'[a] = u, key = u => key' = u
  PROVE  Sound(u)'
  <1>1. ask[u].target \in Accounts /\ ask[u].actor \in Accounts
    BY DEF TypeOK, Asks
  <1>2. NeedsKey(u)' = NeedsKey(u) /\ OtherAdmin(ask[u].target)' = OtherAdmin(ask[u].target)
    BY DEF NeedsKey, OtherAdmin
  <1>3. Locked(u)'
    BY <1>1 DEF Sound, Locked
  <1>4. KeyHeld(u)'
    BY <1>2 DEF Sound, KeyHeld
  <1>5. Decided(u)'
    BY <1>1, <1>2 DEF Sound, Decided
  <1> QED
    BY <1>3, <1>4, <1>5 DEF Sound

\* A step that leaves the table alone and every transaction sound.
LEMMA TableStep ==
  ASSUME Inv, TypeOK', UNCHANGED table, \A u \in Txs : Sound(u)'
  PROVE  Inv'
  BY DEF Inv, table, DuePeriods, NoExportOnlyAdmin, AdminRemains

\* A transaction that has judged nothing yet is sound.
LEMMA EarlySound ==
  ASSUME NEW t \in Txs, pc'[t] \in {"idle", "rows"}
  PROVE  Sound(t)'
  BY DEF Sound, Locked, KeyHeld, Decided

\* Requests.
LEMMA RequestInv ==
  ASSUME Inv, NEW t \in Txs, Request(t)
  PROVE  Inv'
  <1>1. TypeOK'
    BY RequestType DEF Inv
  <1>2. /\ UNCHANGED <<row, due, lock, key, write>> /\ pc'[t] = "rows"
        /\ \A u \in Txs \ {t} : pc'[u] = pc[u] /\ ask'[u] = ask[u]
    BY DEF Inv, TypeOK, Request, AskInstance, AskOwn, AskEnd, Open, Goto, table, locks
  <1>3. \A u \in Txs : Sound(u)'
    BY <1>2, OtherSound, EarlySound DEF Inv
  <1> QED
    BY <1>1, <1>2, <1>3, TableStep DEF table

\* The transactions that are rolled back.
LEMMA RollbackInv ==
  ASSUME Inv, NEW t \in Txs, Rollback(t)
  PROVE  Inv'
  <1>1. TypeOK'
    BY EndType DEF Inv
  <1>2. /\ UNCHANGED <<row, due>> /\ pc'[t] = "idle"
        /\ \A u \in Txs \ {t} :
              /\ pc'[u] = pc[u] /\ ask'[u] = ask[u] /\ write'[u] = write[u]
              /\ \A a \in Accounts : lock[a] = u => lock'[a] = u
              /\ key = u => key' = u
    BY DEF Inv, TypeOK, Rollback, End, Goto, table
  <1>3. \A u \in Txs : Sound(u)'
    BY <1>2, OtherSound, EarlySound DEF Inv
  <1> QED
    BY <1>1, <1>2, <1>3, TableStep DEF table

\* The locks, and the check of the caller that is made again under them.
LEMMA LockingInv ==
  ASSUME Inv, NEW t \in Txs, Locking(t)
  PROVE  Inv'
  <1>1. TypeOK'
    BY LockingType DEF Inv
  <1>2. /\ UNCHANGED <<row, due, ask, write>>
        /\ \A u \in Txs \ {t} :
              /\ pc'[u] = pc[u]
              /\ \A a \in Accounts : lock[a] = u => lock'[a] = u
              /\ key = u => key' = u
    BY InstanceAssumption
    DEF Inv, TypeOK, Locking, LockRow, Reread, TakeKey, Goto, table, locks, InstanceAssumption
  <1>3. Sound(t)'
    <2>0. /\ ask[t].target \in Accounts /\ ask[t].actor \in Accounts
          /\ NeedsKey(t)' = NeedsKey(t)
      BY <1>2 DEF Inv, TypeOK, Asks, NeedsKey
    <2>1. CASE LockRow(t)
      BY <2>1, EarlySound DEF LockRow
    <2>2. CASE Reread(t)
      <3>1. lock[ask[t].target] = t /\ row[ask[t].target].standing # "gone"
        BY <2>0, <2>2 DEF Reread, Wanted
      <3>2. ask[t].op \in InstanceOperations =>
               lock[ask[t].actor] = t /\ MayAdminister(row[ask[t].actor])
        BY <2>0, <2>2 DEF Reread, Wanted, MayAdminister, EnabledAdmin
      <3>3. pc'[t] = IF NeedsKey(t) THEN "key" ELSE "judge"
        BY <2>2 DEF Reread, Goto, Inv, TypeOK
      <3>4. UNCHANGED lock
        BY <2>2 DEF Reread, locks
      <3>5. Locked(t)'
        BY <1>2, <3>1, <3>2, <3>4 DEF Locked
      <3> QED
        BY <2>0, <3>3, <3>5 DEF Sound, KeyHeld, Decided
    <2>3. CASE TakeKey(t)
      <3>1. pc[t] = "key" /\ pc'[t] = "judge" /\ key' = t /\ UNCHANGED lock
        BY <2>3 DEF TakeKey, Goto, Inv, TypeOK
      <3>2. Locked(t)'
        BY <1>2, <3>1 DEF Inv, Sound, Locked
      <3> QED
        BY <3>1, <3>2 DEF Sound, KeyHeld, Decided
    <2> QED
      BY <2>1, <2>2, <2>3 DEF Locking
  <1>4. \A u \in Txs : Sound(u)'
    BY <1>2, <1>3, OtherSound DEF Inv
  <1> QED
    BY <1>1, <1>2, <1>4, TableStep DEF table

\* The decisions: each is made with the locks it needs, and none of them makes
\* an export-only account an admin or the other way round.
LEMMA DecisionInv ==
  ASSUME Inv, NEW t \in Txs, Decision(t)
  PROVE  Inv'
  <1> DEFINE q == ask[t]
             a == ask[t].target
             r == row[ask[t].target]
  <1>1. TypeOK'
    BY DecisionType DEF Inv
  <1>2. /\ UNCHANGED <<row, due, lock, key, ask>> /\ pc[t] = "judge" /\ pc'[t] = "commit"
        /\ \A u \in Txs \ {t} : pc'[u] = pc[u] /\ write'[u] = write[u]
    BY DEF Inv, TypeOK, Decision, UpdateAccount, ResetMfa, SetMode, DeleteAccount, ActivateMfa,
           DisableMfa, VerifyEmail, EndByDisabling, EndByDeleting, Judging, Put, Goto, table,
           locks, job
  <1>3. /\ a \in Accounts /\ r \in Rows /\ q \in Asks /\ write[t] \in Rows
        /\ ~(r.admin /\ r.period # "none")
        /\ NeedsKey(t) => key = t
        /\ Locked(t)
    BY <1>2 DEF Inv, TypeOK, Asks, NoExportOnlyAdmin, Sound, KeyHeld
  <1>4. ASSUME NEW w, Put(t, w) PROVE write'[t] = w
    BY <1>4 DEF Put, Inv, TypeOK
  <1>5. /\ EnabledAdmin(r) /\ ~EnabledAdmin(write'[t]) => key = t /\ OtherAdmin(a)
        /\ ~(write'[t].admin /\ write'[t].period # "none")
        /\ q.op = "end" =>
              /\ due[a]
              /\ write'[t].standing = "gone" => r.period = "delete"
    <2>1. CASE UpdateAccount(t)
      <3>1. /\ q.op = "update" /\ write'[t] = Changed(r, q.change, q.actor = q.target)
            /\ NeedsKey(t) => OtherAdmin(a)
            /\ ~(q.change.admin = "yes" /\ ~r.admin /\ r.period # "none")
        BY <1>4, <2>1 DEF UpdateAccount, Judging, KeepsAdmin
      <3>2. EnabledAdmin(r) /\ ~EnabledAdmin(write'[t]) => NeedsKey(t)
        BY <3>1 DEF NeedsKey
      <3>3. /\ write'[t].period = r.period
            /\ write'[t].admin = IF q.change.admin = "keep" THEN r.admin
                                                           ELSE q.change.admin = "yes"
        BY <1>3, <3>1 DEF Changed, Marked, Rows
      <3>4. q.change.admin \in {"keep", "yes", "no"}
        BY <1>3 DEF Asks, AllChanges
      <3> QED
        BY <1>3, <3>1, <3>2, <3>3, <3>4
    <2>2. CASE VerifyEmail(t)
      <3>1. q.op = "redeem" /\ write'[t] = Marked(r, FALSE)
        BY <1>4, <2>2 DEF VerifyEmail, Judging
      <3>2. /\ write'[t].standing = r.standing /\ write'[t].admin = r.admin
            /\ write'[t].period = r.period
        BY <1>3, <3>1 DEF Marked, Rows
      <3> QED
        BY <1>3, <3>1, <3>2 DEF EnabledAdmin
    <2>3. CASE ResetMfa(t) \/ ActivateMfa(t) \/ DisableMfa(t)
      <3>1. /\ q.op \in {"resetMfa", "mfaOn", "mfaOff"}
            /\ \E mfa \in BOOLEAN : write'[t] = [r EXCEPT !.mfa = mfa]
        BY <1>4, <2>3 DEF ResetMfa, ActivateMfa, DisableMfa, Judging
      <3>2. /\ write'[t].standing = r.standing /\ write'[t].admin = r.admin
            /\ write'[t].period = r.period
        BY <1>3, <3>1 DEF Rows
      <3> QED
        BY <1>3, <3>1, <3>2 DEF EnabledAdmin
    <2>4. CASE SetMode(t)
      <3>1. /\ q.op \in {"setMode", "serviceMode"} /\ write'[t] = [r EXCEPT !.period = q.period]
            /\ q.period # "none" => ~r.admin
        BY <1>4, <2>4 DEF SetMode, Judging
      <3>2. /\ write'[t].standing = r.standing /\ write'[t].admin = r.admin
            /\ write'[t].period = q.period
        BY <1>3, <3>1 DEF Rows
      <3> QED
        BY <1>3, <3>1, <3>2 DEF EnabledAdmin
    <2>5. CASE EndByDisabling(t)
      <3>1. /\ write'[t] = [r EXCEPT !.standing = "disabled", !.period = "none"]
            /\ r.period # "none" /\ due[a]
        BY <1>4, <2>5 DEF EndByDisabling, Due
      <3>2. write'[t].standing = "disabled" /\ write'[t].period = "none"
        BY <1>3, <3>1 DEF Rows
      <3> QED
        BY <1>3, <3>1, <3>2 DEF EnabledAdmin
    <2>6. CASE DeleteAccount(t) \/ EndByDeleting(t)
      <3>1. /\ write'[t] = Gone
            /\ NeedsKey(t) => OtherAdmin(a)
            /\ \/ q.op \in {"deleteSelf", "deleteOther"}
               \/ /\ q.op = "end" /\ q.period = "delete" /\ due[a]
                  /\ r.period = "delete"
        BY <1>4, <2>6 DEF DeleteAccount, EndByDeleting, Judging, KeepsAdmin, Due
      <3>2. r.admin => NeedsKey(t)
        BY <3>1 DEF NeedsKey
      <3> QED
        BY <1>3, <3>1, <3>2 DEF EnabledAdmin, Gone
    <2> QED
      BY <2>1, <2>2, <2>3, <2>4, <2>5, <2>6 DEF Decision
  <1>6. Sound(t)'
    <2>1. NeedsKey(t)' = NeedsKey(t) /\ OtherAdmin(a)' = OtherAdmin(a)
      BY <1>2 DEF NeedsKey, OtherAdmin
    <2>2. Locked(t)'
      BY <1>2, <1>3 DEF Locked
    <2>3. KeyHeld(t)'
      BY <1>2, <1>3, <2>1 DEF KeyHeld
    <2>4. Decided(t)'
      BY <1>2, <1>5, <2>1 DEF Decided
    <2> QED
      BY <2>2, <2>3, <2>4 DEF Sound
  <1>7. \A u \in Txs : Sound(u)'
    BY <1>2, <1>6, OtherSound DEF Inv
  <1> QED
    BY <1>1, <1>2, <1>7, TableStep DEF table

\* A commit: nobody else has locked the row it writes, and nobody else who takes
\* an admin away holds the key.
LEMMA CommitInv ==
  ASSUME Inv, NEW t \in Txs, Commit(t)
  PROVE  Inv'
  <1> DEFINE a == ask[t].target
  <1>1. TypeOK'
    BY EndType DEF Inv
  <1>2. /\ a \in Accounts /\ pc[t] = "commit" /\ pc'[t] = "idle"
        /\ row' = [row EXCEPT ![a] = write[t]]
        /\ \A u \in Txs \ {t} :
              /\ pc'[u] = pc[u] /\ ask'[u] = ask[u] /\ write'[u] = write[u]
              /\ \A b \in Accounts : lock[b] = u => lock'[b] = u
              /\ key = u => key' = u
    BY DEF Inv, TypeOK, Asks, Commit, End, Goto
  <1>3. /\ \A b \in Accounts \ {a} : row'[b] = row[b] /\ due'[b] = due[b]
        /\ row'[a] = write[t]
        /\ due'[a] => write[t].period # "none"
    BY <1>2 DEF Inv, TypeOK, Commit
  <1>4. /\ lock[a] = t
        /\ EnabledAdmin(row[a]) /\ ~EnabledAdmin(write[t]) => key = t /\ OtherAdmin(a)
        /\ ~(write[t].admin /\ write[t].period # "none")
    BY <1>2 DEF Inv, Sound, Locked, Decided
  <1>5. ASSUME NEW u \in Txs \ {t} PROVE Sound(u)'
    <2>1. Sound(u) /\ ask[u].target \in Accounts /\ ask[u].actor \in Accounts
      BY DEF Inv, TypeOK, Asks
    <2>2. pc[u] \in {"key", "judge", "commit"} =>
             /\ lock[ask[u].target] = u
             /\ row'[ask[u].target] = row[ask[u].target]
             /\ due'[ask[u].target] = due[ask[u].target]
      BY <1>3, <1>4, <2>1 DEF Sound, Locked
    <2>3. Locked(u)'
      BY <1>2, <1>3, <1>4, <2>1, <2>2 DEF Sound, Locked
    <2>4. pc[u] \in {"judge", "commit"} => NeedsKey(u)' = NeedsKey(u)
      BY <1>2, <2>2 DEF NeedsKey
    <2>5. KeyHeld(u)'
      BY <1>2, <2>1, <2>4 DEF Sound, KeyHeld
    <2>6. ASSUME OtherAdmin(ask[u].target), key = u PROVE OtherAdmin(ask[u].target)'
      <3>1. PICK o \in Accounts \ {ask[u].target} : EnabledAdmin(row[o])
        BY <2>6 DEF OtherAdmin
      <3>2. EnabledAdmin(row'[o])
        BY <1>3, <1>4, <2>6, <3>1
      <3> QED
        BY <1>2, <3>1, <3>2 DEF OtherAdmin
    <2>7. Decided(u)'
      BY <1>2, <2>1, <2>2, <2>6 DEF Sound, Decided
    <2> QED
      BY <2>3, <2>5, <2>7 DEF Sound
  <1>6. \A u \in Txs : Sound(u)'
    BY <1>2, <1>5, EarlySound
  <1>7. AdminRemains'
    BY <1>2, <1>3, <1>4 DEF Inv, AdminRemains, OtherAdmin
  <1>8. DuePeriods' /\ NoExportOnlyAdmin'
    BY <1>3, <1>4 DEF Inv, DuePeriods, NoExportOnlyAdmin
  <1> QED
    BY <1>1, <1>6, <1>7, <1>8 DEF Inv

\* The job that reads what is due, and the clock.
LEMMA JobInv ==
  ASSUME Inv, ReadDue \/ StopJob \/ PeriodPasses
  PROVE  Inv'
  <1>1. TypeOK'
    BY JobType DEF Inv
  <1>2. /\ UNCHANGED <<row, lock, key, pc, ask, write>>
        /\ \A a \in Accounts : due[a] => due'[a]
        /\ \A a \in Accounts : due'[a] => row[a].period # "none"
    BY DEF Inv, TypeOK, DuePeriods, ReadDue, StopJob, PeriodPasses, table, locks, job
  <1>3. ASSUME NEW u \in Txs PROVE Sound(u)'
    <2>0. Sound(u) /\ ask[u].target \in Accounts
      BY DEF Inv, TypeOK, Asks
    <2>1. NeedsKey(u)' = NeedsKey(u) /\ OtherAdmin(ask[u].target)' = OtherAdmin(ask[u].target)
      BY <1>2 DEF NeedsKey, OtherAdmin
    <2>2. Locked(u)'
      BY <1>2, <2>0 DEF Sound, Locked
    <2>3. KeyHeld(u)'
      BY <1>2, <2>0, <2>1 DEF Sound, KeyHeld
    <2>4. Decided(u)'
      BY <1>2, <2>0, <2>1 DEF Sound, Decided
    <2> QED
      BY <2>2, <2>3, <2>4 DEF Sound
  <1> QED
    BY <1>1, <1>2, <1>3 DEF Inv, DuePeriods, NoExportOnlyAdmin, AdminRemains

\* The invariant holds initially and every step keeps it.
LEMMA Invariance == Spec => []Inv
  <1>1. Init => Inv
    <2>1. Init => DuePeriods /\ NoExportOnlyAdmin
      BY DEF Init, DuePeriods, NoExportOnlyAdmin
    <2>2. Init => AdminRemains
      <3>1. Root \in Accounts
        BY InstanceAssumption DEF InstanceAssumption
      <3>2. ASSUME Init PROVE row[Root].standing = "enabled" /\ row[Root].admin
        BY <3>1, <3>2 DEF Init
      <3> QED
        BY <3>1, <3>2 DEF AdminRemains, EnabledAdmin
    <2>3. Init => \A t \in Txs : Sound(t)
      BY DEF Init, Sound, Locked, KeyHeld, Decided
    <2> QED
      BY <2>1, <2>2, <2>3, InitTypeOK DEF Inv
  <1>2. Inv /\ [Next]_vars => Inv'
    <2>1. ASSUME Inv, UNCHANGED vars PROVE Inv'
      <3>1. TypeOK'
        BY <2>1 DEF Inv, TypeOK, vars
      <3>2. ASSUME NEW u \in Txs PROVE Sound(u)'
        <4>1. NeedsKey(u)' = NeedsKey(u) /\ OtherAdmin(ask[u].target)' = OtherAdmin(ask[u].target)
          BY <2>1 DEF NeedsKey, OtherAdmin, vars
        <4> QED
          BY <2>1, <4>1 DEF Inv, Sound, Locked, KeyHeld, Decided, vars
      <3> QED
        BY <2>1, <3>1, <3>2 DEF Inv, DuePeriods, NoExportOnlyAdmin, AdminRemains, vars
    <2> QED
      BY <2>1, RequestInv, LockingInv, DecisionInv, CommitInv, RollbackInv, JobInv DEF Next
  <1> QED
    BY <1>1, <1>2, PTL DEF Spec

\* Every reachable state is well typed: the list of the job never names an
\* account that has no period.
THEOREM TypeCorrect == Spec => []TypeOK
  BY Invariance, PTL DEF Inv

\* The instance always keeps an enabled admin, whatever revocations, disablings,
\* deletions and ends of periods overlap.
THEOREM AdminAlways == Spec => []AdminRemains
  BY Invariance, PTL DEF Inv

\* No account is an instance admin and export-only.
THEOREM AdminsHaveFullAccess == Spec => []NoExportOnlyAdmin
  BY Invariance, PTL DEF Inv

\* What an admin does commits only while they are an enabled admin with a second
\* factor.
THEOREM ActorAlwaysStands == Spec => []ActorStands
  <1>1. Inv => ActorStands
    BY DEF Inv, Sound, Locked, ActorStands
  <1> QED
    BY <1>1, Invariance, PTL

\* The job ends only periods that are over and deletes only accounts that are to
\* be deleted.
THEOREM EndsAreDue == Spec => []EndsOnlyDue
  <1>1. Inv => EndsOnlyDue
    BY DEF Inv, Sound, Decided, EndsOnlyDue
  <1> QED
    BY <1>1, Invariance, PTL
=============================================================================
