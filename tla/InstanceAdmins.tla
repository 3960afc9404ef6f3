--------------------------- MODULE InstanceAdmins ---------------------------
(***************************************************************************)
(* The accounts of an instance as its admins see them: the instance-admin  *)
(* flag, the disabled state, the second factor, the verified address and   *)
(* the export-only period of an account, changed by concurrent READ        *)
(* COMMITTED transactions of PostgreSQL.  A transaction                    *)
(*                                                                         *)
(*   - checks its caller by a read that locks nothing (Ask...),            *)
(*   - locks the rows of the caller and of that account one after the      *)
(*     other, in the order of their identifiers (LockRow),                 *)
(*   - checks the caller again under those locks (Reread),                 *)
(*   - takes the advisory key of the set of admins when it takes an        *)
(*     enabled admin away (TakeKey) and decides in a statement of its own, *)
(*   - and commits.                                                        *)
(*                                                                         *)
(* The backup codes and the workspaces that some of them lock before these *)
(* guard nothing that is decided here; who waits for whom is the subject   *)
(* of module LockOrder, and the workspaces that of module Membership: here *)
(* an account in Blocking is at times the only owner of a workspace that   *)
(* has other members, and a deletion of it may find it so.  A refusal      *)
(* writes nothing, so a refused transaction is Rollback.                   *)
(***************************************************************************)
EXTENDS Integers, FiniteSets

CONSTANTS
    Accounts,     \* identifiers; `ORDER BY a.id' is their order
    Txs,          \* transactions that can be open at once
    NoTx,         \* nobody holds the lock
    Root,         \* the account of the first-run setup
    Registrants,  \* accounts whose address nobody has verified yet
    Blocking,     \* at times only owners of a workspace that has other members
    Changes,      \* the fields a PATCH of an account names in this instance
    MaxFailures,  \* bound: how often the job of the periods fails
    Operations    \* the operations that requests of this instance ask for

\* A field that is left out is "keep".
AllChanges == [admin : {"keep", "yes", "no"}, disabled : {"keep", "yes", "no"},
               verify : BOOLEAN]

InstanceOperations == {"update", "resetMfa", "setMode", "deleteOther"}
OperationNames == InstanceOperations \cup
    {"serviceMode", "deleteSelf", "mfaOn", "mfaOff", "redeem", "end"}

ASSUME InstanceAssumption ==
    /\ Accounts \subseteq Nat
    /\ IsFiniteSet(Accounts)
    /\ Root \in Accounts \ Registrants
    /\ NoTx \notin Txs
    /\ Blocking \subseteq Accounts
    /\ Changes \subseteq AllChanges
    /\ MaxFailures \in Nat
    /\ Operations \subseteq OperationNames

VARIABLES
    row,       \* accounts, committed
    due,       \* export_only_until has passed
    lock,      \* who has locked the row of an account
    key,       \* who holds the advisory key slugbase.instance_admins
    pc,        \* the next statement of each transaction
    ask,       \* what the request of each transaction asks for
    write,     \* the row of the target as the transaction leaves it
    todo,      \* the periods the run of accounts.endAccessMode still has to end
    failures   \* the runs and transactions of the job that failed

vars == <<row, due, lock, key, pc, ask, write, todo, failures>>
table == <<row, due>>
locks == <<lock, key>>
job == <<todo, failures>>

EndActions == {"disable", "delete"}
Rows == [standing : {"enabled", "disabled", "gone"}, admin : BOOLEAN,
         mfa : BOOLEAN, verified : BOOLEAN, period : EndActions \cup {"none"}]
Gone == [standing |-> "gone", admin |-> FALSE, mfa |-> FALSE,
         verified |-> FALSE, period |-> "none"]

NoChange == [admin |-> "keep", disabled |-> "keep", verify |-> FALSE]
Asks == [op : OperationNames \cup {"none"}, actor : Accounts, target : Accounts,
         change : AllChanges, period : EndActions \cup {"none"}]
NoAsk == [op |-> "none", actor |-> Root, target |-> Root, change |-> NoChange,
          period |-> "none"]

PCs == {"idle", "rows", "key", "judge", "commit"}

TypeOK ==
    /\ row \in [Accounts -> Rows]
    /\ due \in [Accounts -> BOOLEAN]
    /\ lock \in [Accounts -> Txs \cup {NoTx}]
    /\ key \in Txs \cup {NoTx}
    /\ pc \in [Txs -> PCs]
    /\ ask \in [Txs -> Asks]
    /\ write \in [Txs -> Rows]
    /\ todo \subseteq Accounts \X EndActions
    /\ failures \in 0 .. MaxFailures

\* sys_complete_setup made Root, verified and an admin without a second factor.
Init ==
    /\ row = [a \in Accounts |->
                [standing |-> "enabled", admin |-> a = Root, mfa |-> FALSE,
                 verified |-> a \notin Registrants, period |-> "none"]]
    /\ due = [a \in Accounts |-> FALSE]
    /\ lock = [a \in Accounts |-> NoTx]
    /\ key = NoTx
    /\ pc = [t \in Txs |-> "idle"]
    /\ ask = [t \in Txs |-> NoAsk]
    /\ write = [t \in Txs |-> Gone]
    /\ todo = {}
    /\ failures = 0
-----------------------------------------------------------------------------
(* The rules.                                                              *)

EnabledAdmin(r) == r.standing = "enabled" /\ r.admin

\* The check every sys_instance_* function makes of the calling account.
MayAdminister(r) == EnabledAdmin(r) /\ r.mfa

\* Another account is an admin who can sign in.
OtherAdmin(a) == \E o \in Accounts \ {a} : EnabledAdmin(row[o])

\* Marking an address verified takes away the second factor whoever registered
\* it set up, but not that of the admin who marks their own address.
Marked(r, self) ==
    IF r.verified THEN r
    ELSE [r EXCEPT !.verified = TRUE, !.mfa = IF self THEN @ ELSE FALSE]

Changed(r, c, self) ==
    LET flagged == [r EXCEPT
            !.admin = IF c.admin = "keep" THEN @ ELSE c.admin = "yes",
            !.standing = CASE c.disabled = "keep" -> @
                           [] c.disabled = "yes" -> "disabled"
                           [] c.disabled = "no" -> "enabled"]
    IN IF c.verify THEN Marked(flagged, self) ELSE flagged

\* What takes the advisory key: a change that takes an enabled admin away, and
\* the deletion of an account that holds the flag.
NeedsKey(t) ==
    LET q == ask[t]  r == row[ask[t].target] IN
    \/ /\ q.op = "update"
       /\ EnabledAdmin(r)
       /\ ~EnabledAdmin(Changed(r, q.change, q.actor = q.target))
    \/ q.op \in {"deleteSelf", "deleteOther"} /\ r.admin
    \/ q.op = "end" /\ q.period = "delete" /\ r.admin
-----------------------------------------------------------------------------
(* The requests.                                                           *)

Goto(t, place) == pc' = [pc EXCEPT ![t] = place]

Open(t, op, actor, target, c, period) ==
    /\ op \in Operations
    /\ pc[t] = "idle"
    /\ Goto(t, "rows")
    /\ ask' = [ask EXCEPT ![t] = [op |-> op, actor |-> actor, target |-> target,
                                  change |-> c, period |-> period]]
    /\ UNCHANGED <<table, locks, write, failures>>

\* A session is refused for a disabled account, and every request that writes for
\* an export-only one, but for the deletion of the account itself.
Signed(a) == row[a].standing = "enabled" /\ row[a].period = "none"

AskInstance(t) ==
    \E actor, target \in Accounts :
        /\ Signed(actor)
        /\ MayAdminister(row[actor])
        /\ \/ \E c \in Changes : Open(t, "update", actor, target, c, "none")
           \/ actor # target /\ Open(t, "resetMfa", actor, target, NoChange, "none")
           \/ Open(t, "deleteOther", actor, target, NoChange, "none")
           \/ \E period \in EndActions \cup {"none"} :
                 Open(t, "setMode", actor, target, NoChange, period)
        /\ UNCHANGED todo

\* What an account asks for itself; sys_account_set_access_mode is called by the
\* job of a composition, in a transaction of the account.
AskOwn(t) ==
    \E a \in Accounts :
        /\ \/ Signed(a) /\ \E op \in {"mfaOn", "mfaOff"} :
                 Open(t, op, a, a, NoChange, "none")
           \/ row[a].standing = "enabled" /\ Open(t, "deleteSelf", a, a, NoChange, "none")
           \/ \E period \in EndActions \cup {"none"} :
                 Open(t, "serviceMode", a, a, NoChange, period)
           \/ /\ row[a].standing # "gone"
              /\ ~row[a].verified
              /\ Open(t, "redeem", a, a, NoChange, "none")
        /\ UNCHANGED todo

\* accounts.endAccessMode: what sys_account_access_mode_due lists, read once for
\* the run, and then a transaction for each account of the list.
ReadDue ==
    /\ todo = {}
    /\ \E a \in Accounts : due[a]
    /\ todo' = {<<a, row[a].period>> : a \in {d \in Accounts : due[d]}}
    /\ UNCHANGED <<table, locks, pc, ask, write, failures>>

AskEnd(t) ==
    \E p \in todo :
        /\ Open(t, "end", p[1], p[1], NoChange, p[2])
        /\ todo' = todo \ {p}

\* Mutant of StopJob: one failure more than the bound.
StopJobOnceMore ==
    /\ todo # {}
    /\ failures <= MaxFailures
    /\ todo' = {}
    /\ failures' = failures + 1
    /\ UNCHANGED <<table, locks, pc, ask, write>>

\* The worker stops; what the run had left to do is read again by the next one.
StopJob ==
    /\ todo # {}
    /\ failures < MaxFailures
    /\ todo' = {}
    /\ failures' = failures + 1
    /\ UNCHANGED <<table, locks, pc, ask, write>>
-----------------------------------------------------------------------------
(* The locks.                                                              *)

\* The rows that are still to be locked; a row that is gone is not found.
Wanted(t) ==
    {a \in {ask[t].actor, ask[t].target} : row[a].standing # "gone" /\ lock[a] # t}

\* ORDER BY a.id.
NextRow(t, a) == a \in Wanted(t) /\ \A b \in Wanted(t) : a <= b

LockRow(t) ==
    /\ pc[t] = "rows"
    /\ \E a \in Accounts :
        /\ NextRow(t, a)
        /\ lock[a] = NoTx
        /\ lock' = [lock EXCEPT ![a] = t]
    /\ UNCHANGED <<table, key, pc, ask, write, job>>

\* Mutant of Reread: the check made before the locks is trusted.
RereadTrusting(t) ==
    /\ pc[t] = "rows"
    /\ Wanted(t) = {}
    /\ row[ask[t].target].standing # "gone"
    /\ Goto(t, IF NeedsKey(t) THEN "key" ELSE "judge")
    /\ UNCHANGED <<table, locks, ask, write, job>>

\* The caller is checked again and the account read under the locks.
Reread(t) ==
    /\ pc[t] = "rows"
    /\ Wanted(t) = {}
    /\ ask[t].op \in InstanceOperations => MayAdminister(row[ask[t].actor])
    /\ row[ask[t].target].standing # "gone"
    /\ Goto(t, IF NeedsKey(t) THEN "key" ELSE "judge")
    /\ UNCHANGED <<table, locks, ask, write, job>>

\* Mutant of TakeKey: the admins are counted without the key.
TakeNoKey(t) ==
    /\ pc[t] = "key"
    /\ Goto(t, "judge")
    /\ UNCHANGED <<table, locks, ask, write, job>>

\* pg_advisory_xact_lock of the set of instance admins.
TakeKey(t) ==
    /\ pc[t] = "key"
    /\ key = NoTx
    /\ key' = t
    /\ Goto(t, "judge")
    /\ UNCHANGED <<table, lock, ask, write, job>>
-----------------------------------------------------------------------------
(* The decisions, each on the row of the target that the transaction has   *)
(* locked.                                                                 *)

Judging(t, ops) == pc[t] = "judge" /\ ask[t].op \in ops

Put(t, r) ==
    /\ write' = [write EXCEPT ![t] = r]
    /\ Goto(t, "commit")
    /\ UNCHANGED <<table, locks, ask, job>>

KeepsAdmin(t) == NeedsKey(t) => OtherAdmin(ask[t].target)

\* Mutant of UpdateAccount: the mode of the account is not looked at.
UpdateAccountForAnyone(t) ==
    LET q == ask[t]  r == row[ask[t].target] IN
    /\ Judging(t, {"update"})
    /\ KeepsAdmin(t)
    /\ Put(t, Changed(r, q.change, q.actor = q.target))

UpdateAccount(t) ==
    LET q == ask[t]  r == row[ask[t].target] IN
    /\ Judging(t, {"update"})
    /\ ~(q.change.admin = "yes" /\ ~r.admin /\ r.period # "none")
    /\ KeepsAdmin(t)
    /\ Put(t, Changed(r, q.change, q.actor = q.target))

ResetMfa(t) ==
    LET r == row[ask[t].target] IN
    /\ Judging(t, {"resetMfa"})
    /\ r.standing = "enabled"
    /\ r.mfa
    /\ Put(t, [r EXCEPT !.mfa = FALSE])

\* Mutant of SetMode: the flag of the account is not looked at.
SetModeForAnyone(t) ==
    LET q == ask[t]  r == row[ask[t].target] IN
    /\ Judging(t, {"setMode", "serviceMode"})
    /\ IF q.period = "none" THEN r.period # "none" ELSE r.standing = "enabled"
    /\ Put(t, [r EXCEPT !.period = q.period])

\* access_mode_apply; the end date asked for is another than the one it has.
SetMode(t) ==
    LET q == ask[t]  r == row[ask[t].target] IN
    /\ Judging(t, {"setMode", "serviceMode"})
    /\ IF q.period = "none" THEN r.period # "none"
                            ELSE r.standing = "enabled" /\ ~r.admin
    /\ Put(t, [r EXCEPT !.period = q.period])

DeleteAccount(t) ==
    LET q == ask[t] IN
    /\ \/ Judging(t, {"deleteSelf"})
       \/ Judging(t, {"deleteOther"}) /\ q.target # q.actor
    /\ KeepsAdmin(t)
    /\ Put(t, Gone)

ActivateMfa(t) ==
    LET r == row[ask[t].target] IN
    /\ Judging(t, {"mfaOn"})
    /\ r.standing = "enabled"
    /\ ~r.mfa
    /\ Put(t, [r EXCEPT !.mfa = TRUE])

DisableMfa(t) ==
    LET r == row[ask[t].target] IN
    /\ Judging(t, {"mfaOff"})
    /\ r.standing = "enabled"
    /\ r.mfa
    /\ Put(t, [r EXCEPT !.mfa = FALSE])

\* sys_email_verify: the token of another run may have verified it already.
VerifyEmail(t) ==
    LET r == row[ask[t].target] IN
    /\ Judging(t, {"redeem"})
    /\ r.standing = "enabled"
    /\ Put(t, Marked(r, FALSE))

\* Mutant of Due: whoever the list named is taken to be due still.
DueAsListed(a) == row[a].period # "none"

Due(a) == row[a].period # "none" /\ due[a]

\* Mutant of EndByDisabling: the mode is not put back to full.
EndByDisablingOnly(t) ==
    LET q == ask[t]  r == row[ask[t].target] IN
    /\ Judging(t, {"end"})
    /\ Due(q.target)
    /\ q.period = "delete" => q.target \in Blocking \/ ~KeepsAdmin(t)
    /\ Put(t, [r EXCEPT !.standing = "disabled"])

\* endAccessMode: disabled when that is what the list says, or when the account
\* cannot be deleted.
EndByDisabling(t) ==
    LET q == ask[t]  r == row[ask[t].target] IN
    /\ Judging(t, {"end"})
    /\ Due(q.target)
    /\ q.period = "delete" => q.target \in Blocking \/ ~KeepsAdmin(t)
    /\ Put(t, [r EXCEPT !.standing = "disabled", !.period = "none"])

EndByDeleting(t) ==
    LET q == ask[t] IN
    /\ Judging(t, {"end"})
    /\ Due(q.target)
    /\ q.period = "delete"
    /\ row[q.target].period = "delete"
    /\ KeepsAdmin(t)
    /\ Put(t, Gone)
-----------------------------------------------------------------------------
(* The ends of a transaction, and time.                                    *)

End(t) ==
    /\ Goto(t, "idle")
    /\ ask' = [ask EXCEPT ![t] = NoAsk]
    /\ write' = [write EXCEPT ![t] = Gone]
    /\ lock' = [a \in Accounts |-> IF lock[a] = t THEN NoTx ELSE lock[a]]
    /\ key' = IF key = t THEN NoTx ELSE key

\* A mode that is set has an end date at least a day ahead.
Commit(t) ==
    LET a == ask[t].target IN
    /\ pc[t] = "commit"
    /\ row' = [row EXCEPT ![a] = write[t]]
    /\ due' = [due EXCEPT ![a] = /\ @
                                 /\ write[t].period # "none"
                                 /\ ask[t].op \notin {"setMode", "serviceMode"}]
    /\ End(t)
    /\ UNCHANGED job

\* The transaction of the job found nothing to end: the account is gone, its
\* period was cleared or moved, or it is to be disabled now and not deleted.
NothingToEnd(t) ==
    LET q == ask[t]  r == row[ask[t].target] IN
    \/ pc[t] = "rows" /\ Wanted(t) = {} /\ r.standing = "gone"
    \/ pc[t] = "judge" /\ ~Due(q.target)
    \/ /\ pc[t] = "judge"
       /\ q.period = "delete"
       /\ r.period = "disable"

\* A transaction is refused, or fails; those of the job fail MaxFailures times.
Rollback(t) ==
    /\ pc[t] # "idle"
    /\ \/ (ask[t].op # "end" \/ NothingToEnd(t)) /\ UNCHANGED failures
       \/ /\ ask[t].op = "end"
          /\ failures < MaxFailures
          /\ failures' = failures + 1
    /\ End(t)
    /\ UNCHANGED <<table, todo>>

PeriodPasses ==
    /\ \E a \in Accounts :
        /\ row[a].period # "none"
        /\ ~due[a]
        /\ due' = [due EXCEPT ![a] = TRUE]
    /\ UNCHANGED <<row, locks, pc, ask, write, job>>
-----------------------------------------------------------------------------
Request(t) == AskInstance(t) \/ AskOwn(t) \/ AskEnd(t)

Locking(t) == LockRow(t) \/ Reread(t) \/ TakeKey(t)

Decision(t) ==
    \/ UpdateAccount(t) \/ ResetMfa(t) \/ SetMode(t) \/ DeleteAccount(t)
    \/ ActivateMfa(t) \/ DisableMfa(t) \/ VerifyEmail(t)
    \/ EndByDisabling(t) \/ EndByDeleting(t)

Next ==
    \/ \E t \in Txs :
        Request(t) \/ Locking(t) \/ Decision(t) \/ Commit(t) \/ Rollback(t)
    \/ ReadDue \/ StopJob \/ PeriodPasses

Spec == Init /\ [][Next]_vars
-----------------------------------------------------------------------------
(* Properties.                                                             *)

\* The instance always keeps an admin who can sign in, whatever revocations,
\* disablings, deletions and ends of periods overlap (the comment of
\* sys_account_last_instance_admin: neither of two admins reads "another admin
\* remains" from a stale set).
AdminRemains == \E a \in Accounts : EnabledAdmin(row[a])

\* No account is an instance admin and export-only, although the flag and the
\* mode are set by different functions: the end of a period disables an account
\* without taking the key of the admins because of it.
NoExportOnlyAdmin == \A a \in Accounts : ~(row[a].admin /\ row[a].period # "none")

\* What an admin does commits only while they are an enabled admin with a second
\* factor: no change of the admin that committed earlier is overlooked.
ActorStands ==
    \A t \in Txs :
        pc[t] = "commit" /\ ask[t].op \in InstanceOperations =>
            MayAdminister(row[ask[t].actor])

\* The job ends only periods whose end date has passed, and deletes only accounts
\* that are to be deleted still, however old the list is that it works from.
EndsOnlyDue ==
    \A t \in Txs :
        pc[t] = "commit" /\ ask[t].op = "end" =>
            LET a == ask[t].target IN
            /\ due[a]
            /\ write[t].standing = "gone" => row[a].period = "delete"

\* An export-only period that is over ends: the account is disabled or deleted,
\* or the mode is cleared or set anew, although runs of the job fail.
PeriodEnds == \A a \in Accounts : due[a] ~> ~due[a]

\* The schedule runs the job every day, every transaction ends, and a transaction
\* of the job that waits for a lock is next in the queue of that lock: strong
\* fairness.
FairSpec ==
    /\ Spec
    /\ WF_vars(ReadDue)
    /\ SF_vars(\E t \in Txs : AskEnd(t))
    /\ \A t \in Txs :
        /\ WF_vars(Commit(t) \/ Rollback(t))
        /\ SF_vars(ask[t].op = "end" /\ (Locking(t) \/ Decision(t)))
=============================================================================
