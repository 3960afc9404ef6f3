# Slugbase: a verification project

Slugbase is a bookmark and short-link server: one Node process group (HTTP
server and worker) over one PostgreSQL database. Its rules about who may do what
are enforced twice, in `packages/core` and in the SQL functions of
`packages/db/src/sql`, and its requests overlap: every request is a READ
COMMITTED transaction, so a statement sees what committed before *that
statement*, and what keeps a rule is the locks a transaction takes and the order
in which it reads and locks. This project models those transactions statement
by statement. TLC checks the models on small instances, TLAPS proves the central
results for any number of accounts, requests and transactions.

Paths below are relative to `src/packages/`.

## 1. Inventory

The parts of the system, the state each keeps, what changes it, and what makes
it correct. `PROJECT.json` lists them all under "components", with what of each
is modelled.

| Part | State | Operations | What is hard | Correct when |
|---|---|---|---|---|
| Workspace membership (`core/src/workspaces/{members,ownership,departure}.ts`, `270`, `400`) | `workspace_members` | role change, transfer, leave/remove, an instance admin's join | two changes that each read the other's owner as still there; roles read before they are written | a live workspace has an owner; every change was allowed in the state it changed |
| Invitations (`invitations.ts`, `invitation-acceptance.ts`, `invitation-signup.ts`, `300`-`340`) | `workspace_invitations`, token hash, mail ticket | invite, resend, copy link, revoke, accept, sign up, the mail job | the same token twice; a token replaced while it is being used; the last seat | one acceptance for each invitation; the seat limit holds; at most one link works |
| Workspace deletion (`delete.ts`, `280`, `worker/jobs/workspace-delete.ts`) | `deleting_at`, the job | mark, batches, final row | the job stops between two batches; late writers | it ends; a live workspace is never purged |
| Account deletion (`accounts/delete.ts`, `290`, `420`) | `accounts` and all that cascades | `DELETE /me`, an admin's deletion | the scope is read, another system is asked, then the account goes | no membership without an account, no workspace without an owner, no instance without an admin |
| Email verification (`210`) | `email_verified_at`, credentials, what others may do in the workspaces | redeem the link, an admin's mark | what it strips is read after the lock | the workspace is left to its owner alone |
| Instance admins (`410`, `420`, `core/src/instance`) | flag, disabled state, second factor | grant, revoke, disable, enable, mark, reset, delete | admins who act on each other at once; a caller who lost the flag while waiting | an enabled admin remains; nobody acts on a lost standing |
| Access mode (`710`, `accounts/access-mode.ts`, `worker/maintenance.ts`) | mode, end date, end action | set, clear, the daily job that ends periods | a stale work list; a deletion that is not possible | only periods that are over end, and they do; an admin is never export-only |
| Sessions and credentials (`070`, `080`, `130`, `140`, `190`, `220`, `server/src/auth`) | sessions, password date, secret, backup codes | sign in, promote, rotate, reset, change, enrol, disable | a code used twice; a password change or an enrolment that overlaps a sign-in | a code works once; a changed password ends the other sessions; a factor that is on is asked for |
| Email change (`230`, `worker/jobs/mail-send.ts`) | address, pending address, the two kinds of links | request, mail, confirm, take back, expire | the notice and the confirmation are two messages of one job that is retried; addresses are looked up before they are written | nobody confirms a change whose old address was not told; the old address can be put back |
| Identity providers (`170`, `180`, `240`, `340`) | login states, identities | start, complete, link, unlink | a callback delivered twice | one identity for each subject |
| First-run setup (`120`) | `instance_state` | complete | two first requests | exactly one |
| Bookmarks, quota (`470`-`500`, `430`) | rows and the counter of them | create, archive, delete, import | two creations at the limit | the counter is the number of rows |
| Member departure (`680`) | ownership of content | the job | delivered twice, or after a new join | nothing of a member who came back is taken |
| Teams, shares, slugs (`560`-`570`, `640`-`670`) | members of a team and its version, preferences | replace, share, prefer | a replacement based on an old version | no lost update; no preference without access |
| Idempotency keys (`310`, `http/idempotency.ts`) | keys | begin, finish | a retry while the first call runs | one effect |
| Rate limits (`040`, `050`) | buckets | take, purge | refill against purge | the bucket's definition |
| Usage buffer (`usage/buffer.ts`) | in-memory counts | record, flush | a failed flush, shutdown | at most once, nothing lost while up |
| Worker, events (`worker/`, `events/`) | pg-boss queues | send, handle, retry | delivery at least once | handlers repeatable |
| HTTP chain (`http/`) | the request context | fixed stages | none | order of the stages |
| Entitlements, audit, search, import/export, page fetch, favicons, AI, instance console, migrations, web, ui, email, contracts | see PROJECT.json | | I/O, formatting or read-only | |

How they interact: HTTP handlers and jobs open a tenant transaction
(`db/src/tenant.ts`) and call services of `core`, which call repositories, which
call `sys_*` functions; a job or a domain event is queued *in* the transaction
that causes it, so the queue never disagrees with the tables. Rows of
`workspaces` are the locks of memberships, rows of `accounts` those of an
account, and one advisory key that of the set of instance admins.

## 2. Modules

    MembershipRules ─┬─ Roster (abstract)
                     └─ Membership, implements Roster ── MCMembership, MembershipProofs, VerdictProofs
    InstanceAdmins ── MCInstanceAdmins, InstanceAdminsProofs
    LockOrder ── MCLockOrder, LockOrderProofs
    InvitationMail ── MCInvitationMail, InvitationMailProofs
    EmailChange ── MCEmailChange, EmailChangeProofs
    Credentials ── MCCredentials, CredentialsProofs
    Bookmarks ── MCBookmarks, BookmarksProofs

`Membership` composes memberships, invitations, the deletion of the workspace and
of accounts, and verification, because they meet in the same rows under the same
locks. The other modules are apart since what they share with it is one fact each,
which they take as a free choice: the mail of an invitation (who accepts and when),
the content of a member who leaves (who leaves and when), the admins (who cannot be
deleted).

### MembershipRules, Roster, Membership

`MembershipRules` has the pure rules: who may change a role, transfer, end a
membership, what deleting an account does to a workspace, what a verification
strips. `Roster` is what members are promised: each change is one atomic step the
rules allow in the state it changes. `Membership` is the code: transactions of
several statements on one workspace.

| Variable | Code |
|---|---|
| `role`, `ws`, `account`, `invRole`, `invToken` | committed rows of `workspace_members`, `workspaces`, `accounts`, `workspace_invitations` |
| `wsLock`, `accLock` | row locks of the workspace (`FOR UPDATE`, `FOR NO KEY UPDATE`) and of accounts (`FOR SHARE`, `FOR UPDATE`) |
| `pc`, `ask`, `scope`, `marks`, `writes`, `invites` | where each transaction is, what it was asked, what it read, and what it has written and not committed |
| `job`, `retries` | the progress of the `workspace.delete` job |

A transaction asks (`Ask...`), locks (`Snapshot`, `LockWorkspace`,
`LockAccount`), judges and writes under the lock (`ChangeMemberRole`,
`TransferOwnership`, `EndMembership`, `MarkDeleting`, `AcceptInvitation`,
`AddMembership`, `DeleteAccount`, `StripWorkspace`), runs the deferred trigger of
270 (`CheckOwner`) and commits. `Snapshot` is apart from `LockWorkspace` because
a locking statement chooses its rows in the snapshot it starts with: what commits
while it waits is seen by the *next* statement only. Any transaction may roll
back at any point (a refusal, an error, a deadlock victim, a lost connection).

Abstractions: one workspace; an address is the account that has it; a judgement
and its write under the workspace lock are one step; the DELETEs of a strip are one
step that waits for all rows at once; the `FOR KEY SHARE` locks of foreign keys are
modelled where a transaction takes no other lock (invite, renew, revoke) and
elsewhere only add waiting; whether an admin took the link of an invitation
(`link_issued`) is a free choice at sign-up; the link of an invitation works as
soon as it is written (the job that replaces the token is in InvitationMail). Of the
tables that the purge empties, the two that the rules read are modelled.

### InstanceAdmins

The row of an account as admins see it: `standing` (enabled, disabled, gone),
`admin`, `mfa`, `verified`, `period` (the end action of an export-only period),
and `due` (its end date has passed). A transaction asks after an unlocked check of
its caller, locks the rows of caller and target in identifier order (`LockRow`),
checks the caller again (`Reread`), takes the advisory key when it takes an
enabled admin away (`TakeKey`), decides on the locked row (`UpdateAccount`,
`ResetMfa`, `SetMode`, `DeleteAccount`, `ActivateMfa`, `DisableMfa`, `VerifyEmail`,
`EndByDisabling`, `EndByDeleting`) and commits. The job `accounts.endAccessMode`
reads its list once (`ReadDue`), ends the periods of the list one transaction each
(`AskEnd`), and may stop or fail (`StopJob`, `Rollback`).

Abstractions: `Blocking` are the accounts that are at times the only owner of a
workspace with other members, whose deletion may be refused or not (memberships are
Membership's subject); sessions are
left out, so an admin whose sessions a change has just ended may still ask, which
only adds behaviours; the job works on one batch, which is every list shorter than
`END_ACCESS_MODE_BATCH` (100); a period that is set anew has another end date.

### LockOrder

Who waits for whom when several workspaces are involved. Each operation is the
list of its locking statements (`Plan`), each of which finds rows in its own
snapshot (`Found`) and locks them in identifier order (`Lock`). Memberships and
accounts change when operations commit, so a later statement can find rows the
first did not. Roles and admins are only as detailed as what statements find
depends on; every account has backup codes, and every operation on an admin that
may need the key takes it: both only add waiting.

### InvitationMail

One invitation and its `invitation.send` jobs. What matters of a token is who has
it: nobody, the mailbox of the invited address, or an admin who took the link.

| Variable | Code |
|---|---|
| `invitation` | the row: status, `expires_at`, `token_hash`, `mail_ticket`, `link_issued` |
| `account` | the account of the address: none, or made with the invitation, verified or not |
| `jobs`, `sending` | the jobs of pg-boss by ticket, and the tokens in the hands of the mail port |
| `mailbox`, `handed`, `proof`, `renewals` | history: what arrived, what admins were given, which token proved the address |

`Invite` and `InviteOwner` write the row (with mail: a ticket and a job; without:
the hash is kept), `Resend`, `CreateLink`, `Revoke` and `Expire` change it,
`Issue` is the job's transaction that replaces the hash if the ticket is still the
row's, `Deliver` and `Fail` end the attempt after the message was or was not taken
(a worker that stops is a `Fail`), `Drop` loses a message that no attempt waits for
any more, `Register` and `Accept` redeem a token.

Abstractions: roles, seats and teams are Membership's; successive rows of one
address, and the invitations of owners and of members, are one record; the address
registers with the invitation only; an attempt that stalls *before* its transaction
is assumed to be ended by the statement timeout before the queue hands out the job
again.

### EmailChange

| Variable | Code |
|---|---|
| `email`, `verified`, `disabled`, `pending` | columns of `accounts` |
| `tokens`, `issued`, `expired` | `credential_tokens` of the two purposes, numbered by the issuing transaction; both kinds live one hour, so they expire in that order |
| `jobs` | `mail.send` jobs of kind emailChange and what each attempt has read |
| `taking` | the address a registration or a confirmation has found free and not yet written |
| `mailed`, `seen`, `void` | history: what left the process and whereto; what had been issued when an address was looked up; links used up on a disabled account |

`Request` and `Clear` are the account's, `ReadProfile`, `IssueTokens`,
`SendNotice`, `SendConfirmation`, `FailAttempt` the job's steps, `Confirm` looks
whether the address is free and `MoveAddress` writes it, `Cancel` is the "this
wasn't me" link, `CheckRegistration` and `InsertAccount` a registration,
`MarkVerified` and `SetDisabled` what admins do, `Expire` and `Purge` time and the
maintenance job.

Left out: the sessions and reset tokens that `Cancel` ends, the deletion of an
account, and the gap between two expiries. Two facts the properties make explicit:
a registration that looked *before* the link was issued can hold the address the
link would put back (`seen` in `ReservationHolds`; a token carries as `claim` what
`seen` was when it was issued, and putting the address back with an older link takes
the account's claim back to that), and a link that is redeemed
while its account is disabled is used up, does nothing and leaves the confirmation
working (`void` in `NoticeFirst`).

### Credentials

One account. Requests read, work (argon2id, a code), and write what they decided.

| Variable | Code |
|---|---|
| `changedAt`, `begun` | `password_changed_at`; time, counted in password changes begun |
| `locked` | the row of the account, between two steps of a password change |
| `factor`, `codes`, `drawn`, `key`, `step` | `mfa_secret` as sealed, `mfa_enabled_at`, `mfa_last_step`; the backup codes; the key of the secret box; the clock of the authenticator |
| `sessions`, `made` | the rows of `sessions` |
| `requests` | what each request has in hand |
| the rest | history for the properties |

Sign-in is `LookUp`, `ReadLevel`, `Insert`, `CommitSession`; a password change
`AskChange`, `BeginChange`, `RevokeOthers`, `CommitChange` (a reset `AskReset` and
`CommitReset`); the second factor `StartEnrollment`, `ReadPending`, `Activate`,
`ReadFactor`, `Reseal`, `CompleteSignIn`, `RecordFailure`, `WrongCode`,
`Regenerate`, `Disable`, `Reauthenticate`; `EndSessions`, `ResetFactor` and
`RetireKey` are sign-outs, an admin's reset and the rotation of the key.

Abstractions: passwords have no values, so a sign-in that verified the old password
before a change and makes its session after it is a new session here, as in the
code; one backup code stands for the ten; identity providers, API tokens and
what a verification of the address resets are left out.

### Bookmarks

One workspace: `members`, the `rows` of bookmarks, the counter `count`, the lock of
the workspace's row (`locked`), the stored idempotency `keys`, the `events` of
departures, and the transactions under way (`txs`).

A creation or an import is `Claim` (the key), `Take` (a place under the ceiling,
which locks the workspace) and `Insert`; it may `Abort` at any point. A slug is
changed by `LockForUpdate` and `Update`. `Delete` and `Archive` change the counter.
`EndMembership` and `DeleteAccount` release the bookmarks of who goes (the trigger
of 560 clears their slugs and keeps them in `departure_slug`), `Join` is a return,
and the event is delivered by `ReadDeparture` and `ApplyDeparture` any number of
times; `Collide` is a delivery that met the unique key, and fails.

Left out: a key's expiry, its use for another request and the limit on the wait for
it; versions of bookmarks; folders, tags and roles. A slug stands for the slug and
its forwarding. A slug that the recipient frees while the statement of the delivery
runs is cleared all the same, which is why `OwnersChoice` speaks of what the
delivery met.

## 3. Runs

Every configuration has two overlapping transactions or requests, interchangeable
(symmetry) except in the liveness runs and in `links`, which has one job beside the
requests. Two are enough for every hazard listed but
longer circles of waiting (see below), since each is a race of two; the proofs
cover any number.

| Run | Instance | Checks | Distinct states |
|---|---|---|---|
| `members` | 3 accounts, an instance admin; role changes, transfers, leaving, joins, deletions of the workspace and of accounts | `TypeOK`, `OwnerRequired`, `VerdictsStand`, `MembersHaveAccounts`, `ImplementsRoster` | 260 k |
| `joins` | seat limit below the accounts, a newcomer without an account, token renewals | `SeatsWithinLimit`, `VerdictsStand`, `ImplementsRoster` | 356 k |
| `verify` | verifications against joins, transfers, invitations | `OwnerHeld`, `ImplementsRoster` | 315 k |
| `purge` | 2 accounts, one restart of the job, fairness | `DeletionEnds` | 50 k |
| `admins` | 2 accounts, one unverified whose deletion may be refused; grant, revoke, disable, modes, second factors, deletions | `AdminRemains`, `ActorStands`, `NoExportOnlyAdmin` | 2.4 M |
| `period` | 2 accounts, one failure of the job, fairness | `TypeOK`, `EndsOnlyDue`, `PeriodEnds` | 95 k |
| `order` | 2 accounts, both admins, a workspace each, all operations | `TypeOK`, `OnlySecondLooksDeadlock` | 1.1 M |
| `mail` | one invitation, 3 renewals, 3 tickets, a configuration with and one without mail, a retry, fairness | `TypeOK`, `ProofIsMail`, `MailIsProof`, `LinkLasts`, `MailArrives` | 74 k |
| `links` | the account that changes and one that registers, 3 addresses, a job with retries, 2 issues of links | `TypeOK`, `NoticeFirst`, `ReservationHolds`, `LinkOutlives` | 1.4 M |
| `sessions` | 2 requests, 3 sessions, 2 password changes, one secret | `TypeOK`, `OldSessionsEnd`, `LevelFits`, `CodeOnce` | 1.0 M |
| `factor` | 2 requests, one session, 2 secrets, a retired key | `ActivatedIsVerified`, `CodeOnce` | 0.8 M |
| `content` | 2 accounts, 2 transactions, a ceiling of 1, one slug, one key, one departure | `TypeOK`, `CountMatches`, `SlugsUnique`, `OncePerKey`, `CeilingKept`, `OwnersChoice` | 0.7 M |

What they show: `VerdictsStand` says that what a transaction decided is still
right when it commits, where nobody is verified meanwhile; `ImplementsRoster` that every commit is one step of
`Roster`, so overlapping requests are as good as serial. `OwnerHeld` is the inductive
form of `OwnerRequired` (see the proofs). `AdminRemains` goes
wrong when two admins who each count on the other overlap, or a period ends.
`OnlySecondLooksDeadlock` says that workspaces, codes, accounts, key is an order
everybody keeps but for the second look of a deletion and of a verification.
`ProofIsMail` and `MailIsProof` say that `link_issued` tells the truth in both
directions. `NoticeFirst` says that a working confirmation that has left the process always
has a "this wasn't me" link that left before it and works. `OldSessionsEnd` depends
on the date of a session being taken before it is inserted, and, since a promoted or
renewed session counts as created now, on both refusing one that is older than the
password; `LevelFits` on the second reading of the factor in `sys_session_create`.
`CountMatches` and `OwnersChoice` hold although departures are delivered late and
twice.

`CHECK_DEADLOCK FALSE` stands where every account or the workspace can be gone for
good (`members`, `purge`, `order`), and where the bound on tokens, sessions,
identifiers or renewals is used up in the end (`mail`, `links`, `sessions`,
`factor`, `content`).

Bounds: `MaxTokens`, `MaxRenewals`, `MaxTickets`, `MaxIssued` (links), `RetryLimit`
(restarts of a job; the code has 10), `MaxFailures` (failures of jobs in
InstanceAdmins and InvitationMail; in Credentials the code's `c_max_failures`, 5
there), `MaxSessions`, `MaxChanges`, `MaxSecrets`, `MaxStep`, `MaxKey`, `MaxIds`,
`MaxDepartures` and the sets of operations. One restart or failure suffices to
leave a job in every intermediate state; three accounts give an actor, a target and
a bystander; two issues of links are an older and a newer one; three sessions are
the one that changes the password, one made before and one made meanwhile; two
bookmarks make a clash of slugs and a second place over a ceiling of one. The
deadlock property was also checked with three transactions and one workspace,
which is too slow to keep as a run.

### Where the code and its comments differ

None of these breaks a property of a run (the fourth is why `VerdictsStand` is not one of
`verify`, see the proofs); each is a comment that says more than the
code does, and the models follow the code.

- 290:18-21, the answer of the scope stays true: the account's own acceptance may
  commit while the scope waits for the account row; the joined workspace is then in
  the answer and not locked. `sys_delete_account` looks again, and the trigger
  counts owners.
- 210:33-35, nobody is invited while the lock is held: `FOR NO KEY UPDATE` does not
  conflict with the foreign key's `FOR KEY SHARE`.
- 290:85-86, the advisory key cannot deadlock two admins: one may hold the key and
  wait for a newly joined workspace, whose row the other holds while it waits for the
  key; the database aborts one.
- 210:37-39, the workspaces locked are a superset of those stripped: an account that
  becomes the only owner between the locking statement and the read of `v_sole` has
  its workspace stripped without its lock, which run `verify` includes and
  `ImplementsRoster` survives.
- 320 has a member added by the two acceptance functions only; the instance admin's
  join of 400 adds one too, under the same lock.
- `mail-send.ts`:37-39, the notice goes to the current address: the profile is read
  (line 123) before the function that issues the links locks the account, and a
  confirmation of an earlier change may commit in between: the notice then goes to the
  former address with a link that records the new one. `NoticeFirst` therefore speaks
  of a notice that was mailed, not of where to.

The first, the third and the fourth have a common cause: rows are found in the
snapshot of one statement and used by a later one.

### Fairness

Safety needs none. `DeletionEnds`: every open transaction ends (weak fairness of
commit or rollback: `statement_timeout` and the pool end it), the queue retries the
job (weak fairness of its steps), and a batch that waits for a row is next in the
queue of that lock (strong fairness of `PurgeMembers`); the last retry is not
stopped. `PeriodEnds`: the daily schedule runs the job (weak fairness of
`ReadDue`), a run works through its list and its transactions are served by the
lock queues (strong fairness of `AskEnd` and of the steps of an end); failures are
bounded by `MaxFailures`. `MailArrives`: the worker takes the jobs that wait (weak
fairness of `Issue`) and the mail port answers (weak fairness of `Deliver`: a
message arrives unless the attempt fails, which is bounded, or the message is lost). Nothing is assumed of requests.

## 4. Proofs

For any set of accounts, any number of transactions, requests, sessions and jobs and
any bounds, from the assumptions on the constants only (`MembershipAssumption`,
`InstanceAssumption`, `InvitationMailAssumption`, `CredentialsAssumption`,
`BookmarksAssumption`, `EmailAssumption`, `LockAssumption`: identifiers and bounds
are numbers, the founder and the root account exist, some account exists, `NoTx`,
`NoRequest` and the other fillers are none). Every invariant and every action
property of a run has its theorem; each inductive invariant was model-checked on the
instances of the runs before it was proved.

`MembershipProofs`: `TypeCorrect`, `OwnerAlways` (a live workspace has an owner) and
`OwnerAlwaysHeld`. `OwnerRequired` is not inductive: a commit keeps an owner because
the trigger counted one under the workspace lock. `OwnerHeld` adds `CheckedOwner`
(whoever has passed the trigger and takes an owner away holds the lock, and an owner
is left in what it sees) and `RowExclusive` (no two transactions have written one
row); the invariant needs besides that the purge works on a workspace being deleted
(`JobNeedsDeletion`). The proof uses none of the locks that the operations
themselves take: the trigger suffices.

`VerdictProofs` says what those locks are for: `MembersKeepAccounts`,
`SeatsNeverOversold`, `VerdictsAlwaysStand` and `TransactionsAreSerial`, the
refinement of `Roster`. The inductive invariant `Serial` states of each transaction
that it is where its operation can be (`Routed`), has written nothing before it has
judged (`Unwritten`) and then what its request plans (`Planned`, `Present`), holds
the workspace's row and those of accounts from the statement that locks them
(`HoldsWorkspace`, `HoldsAccount`), and that its verdict still holds (`Stands`); and
that invitations and accounts are locked by one transaction at a time
(`InvitationsExclusive`, `AccountsExclusive`). `Frame` says what the others rely on:
a transaction whose own state is untouched (`Undisturbed`) stays sound if the tables
change no more than its locks allow (`Respected`). Then each statement needs an
argument about its own transaction only, and a commit (`CommitRespects`) one about
each lock another may hold: while one holds the workspace's row nobody joins and
no owner goes, rows it has written are changed by nobody else, and so on. At each
commit the verdict, made on what the transaction saw under the lock, is then a verdict
on the committed state, which is a step of `Roster` (one lemma for each
operation); every other step is a stutter.

`VerdictsAlwaysStand` assumes that nothing is verified (`"verify" \notin Operations`),
and needs to: with `verify` in a run's operations TLC finds `VerdictsStand` violated.
A verification of an account that neither made nor owns the workspace finds nothing to
lock; if the account becomes its only owner before the strip reads, everybody else is
stripped without the lock, and an admin among them whose change of a role was allowed
before commits it afterwards. `Roster` is implemented all the same, since the owner,
who is there, may make that change too: what is lost is who made it. The cause is the
missing lock described above (210:37-39).

`BookmarksProofs`: `TypesKept`, `CounterIsExact`, `SlugsStayUnique`, `KeysMakeOnce`,
`CeilingNeverPassed`, `OwnersChoiceHolds`. The counter and the rows change in one step,
so `CountMatches` needs of the invariant only what the other statements read: that
bookmarks are numbered as they are made (`Numbered`) and that who has taken places
holds the workspace's row and the places stay free under the ceiling (`Sound`); lemmas
say what inserting, deleting and handing over do to the number of live rows.
`SlugsUnique` needs that the bookmarks of one departure had different slugs
(`OriginalsUnique`) and that a bookmark whose slug is being changed keeps its owner;
`OncePerKey` that a bookmark with a key has stored it (`KeysStored`) and that a key is
in the hands of one transaction (`Alone`); `OwnersChoice` that a bookmark that waits
for its event still says what its owner chose (`Departed`).

`EmailChangeProofs`: `TypesKept`, `NoticeComesFirst`, `AddressesStayReserved`,
`OlderLinksGoOn`. A confirmation that works has its link beside it whether or
not they were mailed (`Twins`), and a job comes to the confirmation after it sent the
notice (`JobSound`, `NoticeMailed`). For the reservation, whoever is about to take an
address that somebody's link would put back looked before the link was issued
(`TakingSound`), and so did whoever has a link to put it back to himself
(`ClaimsSound`). With two accounts that move, TLC refuted the first form of
`ReservationHolds`: after an older link put the address back, the account's claim is
as old as that link, not as the newest one, which `claim` in the tokens says.

`LockOrderProofs`: `TypesKept`, `OnlySecondLooks`. Kinds of rows have levels, each
plan goes up but for a second look (`PlanAscends`), and so a transaction that does
not look again holds only locks under those it wants (`InOrder`). A circle of such
transactions would be a finite set with a strict order without maximal element. That
the open transactions are finitely many is part of the invariant (`FewBusy`), so
`Txs` may be infinite. This covers the circles of three and more which the run's two
transactions cannot form.

Only model-checked: liveness (`DeletionEnds`, `PeriodEnds`, `MailArrives`), which is
out of this prover's reach, and nothing else that a run checks.

## 5. Plan

1. Done: Membership with Roster, InstanceAdmins, LockOrder, InvitationMail,
   EmailChange, Credentials, Bookmarks.
2. Done: a theorem for every safety and action property of the runs, and the
   refinement of Roster. Left: what `VerdictsStand` becomes with verifications (a
   verdict stands unless a verification has stripped its actor), and the safety half
   of the liveness properties (a job in progress always has a step it can take).
3. `UsageBuffer`: a flush whose commit succeeded and whose answer was lost is kept
   and counted again; the last flush waits for the one in progress
   (`usage/buffer.ts`).
4. `Sharing`: teams, shares, folders and the slugs members prefer. 670:2-3 says that
   a preference never outlives the access it needs; two transactions that each end one
   of two routes (a share, a membership of a team) have no lock in common, so each
   trigger may count on the other's route. The readers of a preference check the
   access again (`go.ts`).
5. `RateLimit` against the definition of a token bucket, first-run setup, the login
   states of identity providers.

The parts of point 5 are sequential but for one conditional statement each, which is
why they come last.

Not modelled, and why: search, listing, the parsing of imports, the export, page
metadata, favicons and AI suggestions are I/O, formatting or read-only; the audit log is an insert of
the transaction it records and no decision reads it; pg-boss and PostgreSQL are
external (the latter's lock modes and snapshots are modelled from how the code
uses them); web, ui, email and contracts are presentation and generated types.
