---------------------------- MODULE EmailChange ----------------------------
(***************************************************************************)
(* The change of an account's email address: the request, the mail job     *)
(* that issues the two links, the confirmation, the "this wasn't me" link  *)
(* that puts the old address back, and the addresses those links reserve.  *)
(*                                                                         *)
(* A function of the database is one step, since it works under the lock   *)
(* of its account's row, except where it reads what other accounts hold    *)
(* and writes afterwards: the confirmation and the registration look       *)
(* whether the address is free, and the unique index decides when they     *)
(* write.  The job reads the profile before it takes that lock.            *)
(*                                                                         *)
(* Tokens are numbered by the transaction that issues them, the two of one *)
(* job alike.  Both kinds work for one hour, so they expire in that order: *)
(* expired is the number of the last transaction whose tokens have.        *)
(***************************************************************************)
EXTENDS Integers, FiniteSets

CONSTANTS
    Accounts,       \* the accounts, those that may register included
    Movers,         \* the accounts that ask for a change
    Addresses,      \* the email addresses
    NoAddress,      \* a pending_email that is null; the address of no account
    Home,           \* the address an account starts with
    Proven,         \* whether who registers has proven the address already (an invitation does)
    Jobs,           \* the mail jobs that may be queued at one time (a bound)
    MaxIssued       \* how many transactions issue tokens (a bound)

ASSUME EmailAssumption ==
    /\ Accounts # {} /\ Movers \subseteq Accounts
    /\ NoAddress \notin Addresses
    /\ Home \in [Accounts -> Addresses \cup {NoAddress}]
    /\ \A a, b \in Accounts : Home[a] = Home[b] /\ Home[a] # NoAddress => a = b
    /\ Proven \subseteq BOOLEAN
    /\ MaxIssued \in Nat

VARIABLES
    email,          \* accounts.email, NoAddress before the account registers
    verified,       \* accounts.email_verified_at is set
    disabled,       \* accounts.disabled_at is set
    pending,        \* accounts.pending_email
    tokens,         \* the credential_tokens of the two purposes
    issued,         \* the number of the last transaction that issued tokens
    expired,        \* the last one whose tokens have expired
    jobs,           \* the emailChange jobs and what each has in hand
    taking,         \* the address a confirmation or a registration is about to take
    \* what has happened, for the properties
    mailed,         \* the tokens that were mailed, and to which address
    seen,           \* the last token issued when the account's claim to its address was checked
    void            \* the links redeemed while their account was disabled

account == <<email, verified, disabled, pending>>
vars == <<account, tokens, issued, expired, jobs, taking, mailed, seen, void>>

Purposes == {"change", "cancel"}
Stages == {"idle", "queued", "read", "notice", "confirm"}

\* claim, for the properties, is what seen was when the token was issued.
Token == [id : 1 .. MaxIssued, purpose : Purposes, account : Accounts, target : Addresses, used : BOOLEAN,
          claim : 0 .. MaxIssued]
Job == [stage : Stages, account : Accounts, to : Addresses \cup {NoAddress},
        issue : 0 .. MaxIssued, next : Addresses \cup {NoAddress}]

\* What confirm and registration have in hand between their check and their write.
Idle == [to |-> NoAddress, seen |-> 0]
Taking == [to : Addresses \cup {NoAddress}, seen : 0 .. MaxIssued]

TypeOK ==
    /\ email \in [Accounts -> Addresses \cup {NoAddress}]
    /\ verified \in [Accounts -> BOOLEAN]
    /\ disabled \in [Accounts -> BOOLEAN]
    /\ pending \in [Accounts -> Addresses \cup {NoAddress}]
    /\ tokens \subseteq Token
    /\ issued \in 0 .. MaxIssued
    /\ expired \in 0 .. issued
    /\ jobs \in [Jobs -> Job]
    /\ taking \in [Accounts -> Taking]
    /\ mailed \subseteq Purposes \X (1 .. MaxIssued) \X Addresses
    /\ seen \in [Accounts -> 0 .. MaxIssued]
    /\ void \subseteq 1 .. MaxIssued

Exists(a) == email[a] # NoAddress

\* Nobody holds the lock of the row: no confirmation of the account is between its check and its write.
Free(a) == Exists(a) /\ taking[a] = Idle

-----------------------------------------------------------------------------
Unused(t) == ~t.used
Live(t) == ~t.used /\ t.id > expired

\* Only who got the mail has the link.
Mailed(t) == \E e \in Addresses : <<t.purpose, t.id, e>> \in mailed

WithdrawnAll(a) == {t \in tokens : t.account = a /\ Unused(t)}

\* The tokens a new request, or its withdrawal, takes away: every unused confirmation, and the unused
\* cancel links that target the address the account holds.
Withdrawn(a) ==
    {t \in tokens : /\ t.account = a /\ Unused(t)
                    /\ t.purpose = "cancel" => t.target = email[a]}

\* The unused confirmations of the account.
Confirmations(a) == {t \in tokens : t.account = a /\ t.purpose = "change" /\ Unused(t)}

\* An address another account holds, or has reserved by a cancel link that still works.
Held(e, a) == \E o \in Accounts \ {a} : email[o] = e
Reserved(e, a) == \E t \in tokens : t.purpose = "cancel" /\ Live(t) /\ t.target = e /\ t.account # a

\* sys_credential_token_consume: the token works once, and before it expires.
Consumed(t) == (tokens \ {t}) \cup {[t EXCEPT !.used = TRUE]}

-----------------------------------------------------------------------------
CheckRegistrationNot(a, e) ==
    /\ ~Exists(a) /\ taking[a] = Idle
    /\ taking' = [taking EXCEPT ![a] = [to |-> e, seen |-> issued]]
    /\ UNCHANGED <<account, tokens, issued, expired, jobs, mailed, seen, void>>

\* Registration: the check of the reservations, and the insert, which the unique index may refuse.
CheckRegistration(a, e) ==
    /\ ~Exists(a) /\ taking[a] = Idle
    /\ ~Reserved(e, a)
    /\ taking' = [taking EXCEPT ![a] = [to |-> e, seen |-> issued]]
    /\ UNCHANGED <<account, tokens, issued, expired, jobs, mailed, seen, void>>

InsertAccount(a, proven) ==
    /\ ~Exists(a) /\ taking[a] # Idle
    /\ IF Held(taking[a].to, a)
       THEN UNCHANGED <<email, verified, seen>>
       ELSE /\ email' = [email EXCEPT ![a] = taking[a].to]
            /\ verified' = [verified EXCEPT ![a] = proven]
            /\ seen' = [seen EXCEPT ![a] = taking[a].seen]
    /\ taking' = [taking EXCEPT ![a] = Idle]
    /\ UNCHANGED <<disabled, pending, tokens, issued, expired, jobs, mailed, void>>

\* The address is verified by its own link: what a change asked for before that is taken away.
MarkVerified(a) ==
    /\ Free(a) /\ ~disabled[a] /\ ~verified[a]
    /\ verified' = [verified EXCEPT ![a] = TRUE]
    /\ pending' = [pending EXCEPT ![a] = NoAddress]
    /\ tokens' = tokens \ {t \in tokens : t.account = a /\ Unused(t)}
    /\ UNCHANGED <<email, disabled, issued, expired, jobs, taking, mailed, seen, void>>

\* An instance admin disables the account or enables it again; its tokens stay.
SetDisabled(a) ==
    /\ Free(a)
    /\ disabled' = [disabled EXCEPT ![a] = ~@]
    /\ UNCHANGED <<email, verified, pending, tokens, issued, expired, jobs, taking, mailed, seen, void>>

-----------------------------------------------------------------------------
\* The request records the address and queues the job in one transaction, if mail can be sent.
Request(a, e) ==
    /\ Free(a) /\ ~disabled[a]
    /\ pending' = [pending EXCEPT ![a] = e]
    /\ tokens' = tokens \ Withdrawn(a)
    /\ \/ UNCHANGED jobs
       \/ \E j \in Jobs :
             /\ jobs[j].stage = "idle"
             /\ jobs' = [jobs EXCEPT ![j].stage = "queued", ![j].account = a]
    /\ UNCHANGED <<email, verified, disabled, issued, expired, taking, mailed, seen, void>>

Clear(a) ==
    /\ Free(a) /\ ~disabled[a]
    /\ pending' = [pending EXCEPT ![a] = NoAddress]
    /\ tokens' = tokens \ Withdrawn(a)
    /\ UNCHANGED <<email, verified, disabled, issued, expired, jobs, taking, mailed, seen, void>>

-----------------------------------------------------------------------------
\* The job: the profile, the two tokens, the notice and then the confirmation.
Emptied(j, stage) ==
    jobs' = [jobs EXCEPT ![j] = [@ EXCEPT !.stage = stage, !.to = NoAddress, !.issue = 0, !.next = NoAddress]]

ReadProfile(j) ==
    LET a == jobs[j].account IN
    /\ jobs[j].stage = "queued"
    /\ IF verified[a] THEN jobs' = [jobs EXCEPT ![j].stage = "read", ![j].to = email[a]]
                      ELSE Emptied(j, "idle")
    /\ UNCHANGED <<account, tokens, issued, expired, taking, mailed, seen, void>>

NewToken(a, purpose, target) ==
    [id |-> issued + 1, purpose |-> purpose, account |-> a, target |-> target, used |-> FALSE, claim |-> seen[a]]

\* The cancel link records the address held, and replaces the unused ones that record it too.
IssuedCancel(a) ==
    {t \in tokens : ~(t.account = a /\ t.purpose = "cancel" /\ Unused(t) /\ t.target = email[a])}
        \cup {NewToken(a, "cancel", email[a])}

\* The confirmation is issued for an address that is neither the account's own, nor held or reserved by another.
Mailable(a) == {e \in Addresses : e # email[a] /\ ~Held(e, a) /\ ~Reserved(e, a)}

IssueTokens(j) ==
    LET a == jobs[j].account IN
    /\ jobs[j].stage = "read"
    /\ taking[a] = Idle
    /\ issued < MaxIssued
    /\ IF disabled[a] \/ ~verified[a] \/ pending[a] = NoAddress
       THEN /\ Emptied(j, "idle")
            /\ UNCHANGED <<tokens, issued>>
       ELSE /\ tokens' = (IssuedCancel(a) \ Confirmations(a)) \cup
                            {NewToken(a, "change", e) : e \in {pending[a]} \cap Mailable(a)}
            /\ issued' = issued + 1
            /\ jobs' = [jobs EXCEPT ![j] = [@ EXCEPT !.stage = "notice", !.issue = issued + 1,
                                                     !.next = IF pending[a] \in Mailable(a) THEN pending[a] ELSE NoAddress]]
    /\ UNCHANGED <<account, expired, taking, mailed, seen, void>>

SendNotice(j) ==
    /\ jobs[j].stage = "notice"
    /\ mailed' = mailed \cup {<<"cancel", jobs[j].issue, jobs[j].to>>}
    /\ IF jobs[j].next = NoAddress THEN Emptied(j, "idle") ELSE jobs' = [jobs EXCEPT ![j].stage = "confirm"]
    /\ UNCHANGED <<account, tokens, issued, expired, taking, seen, void>>

SendConfirmationFirst(j) ==
    /\ jobs[j].stage \in {"notice", "confirm"} /\ jobs[j].next # NoAddress
    /\ mailed' = mailed \cup {<<"change", jobs[j].issue, jobs[j].next>>}
    /\ \E stage \in {"idle", "queued"} : Emptied(j, stage)
    /\ UNCHANGED <<account, tokens, issued, expired, taking, seen, void>>

\* The relay may take the message and the attempt fail all the same: delivery is at least once.
SendConfirmation(j) ==
    /\ jobs[j].stage = "confirm"
    /\ mailed' = mailed \cup {<<"change", jobs[j].issue, jobs[j].next>>}
    /\ \E stage \in {"idle", "queued"} : Emptied(j, stage)
    /\ UNCHANGED <<account, tokens, issued, expired, taking, seen, void>>

\* An attempt fails and runs again from the start, or was the last one.
FailAttempt(j) ==
    /\ jobs[j].stage \in {"read", "notice", "confirm"}
    /\ \E stage \in {"idle", "queued"} : Emptied(j, stage)
    /\ UNCHANGED <<account, tokens, issued, expired, taking, mailed, seen, void>>

-----------------------------------------------------------------------------
\* The confirmation consumes the token, whatever comes of it, and looks whether the address is free.
Confirm(t) ==
    LET a == t.account IN
    /\ t \in tokens /\ t.purpose = "change" /\ Live(t)
    /\ Mailed(t)
    /\ Free(a)
    /\ tokens' = Consumed(t)
    /\ IF /\ ~disabled[a] /\ verified[a] /\ pending[a] = t.target
          /\ ~Held(t.target, a) /\ ~Reserved(t.target, a)
       THEN taking' = [taking EXCEPT ![a] = [to |-> t.target, seen |-> issued]]
       ELSE UNCHANGED taking
    /\ UNCHANGED <<account, issued, expired, jobs, mailed, seen, void>>

MoveAddress(a) ==
    /\ Exists(a) /\ taking[a] # Idle
    /\ IF Held(taking[a].to, a)
       THEN UNCHANGED <<email, pending, tokens, seen>>
       ELSE /\ email' = [email EXCEPT ![a] = taking[a].to]
            /\ pending' = [pending EXCEPT ![a] = NoAddress]
            /\ tokens' = tokens \ Confirmations(a)
            /\ seen' = [seen EXCEPT ![a] = taking[a].seen]
    /\ taking' = [taking EXCEPT ![a] = Idle]
    /\ UNCHANGED <<verified, disabled, issued, expired, jobs, mailed, void>>

\* What a redeemed link deletes: the confirmations and, if it puts an address back, the links issued after it.
Undone(t) ==
    Confirmations(t.account) \cup
        {u \in tokens : /\ t.target # email[t.account]
                        /\ u.account = t.account /\ u.purpose = "cancel" /\ Unused(u) /\ u.id > t.id}

\* The link cancels the pending change and puts the address back, unless another account holds it by now.
Cancel(t) ==
    LET a == t.account
        back == t.target # email[a] /\ ~Held(t.target, a)
    IN
    /\ t \in tokens /\ t.purpose = "cancel" /\ Live(t)
    /\ Mailed(t)
    /\ Free(a)
    /\ IF disabled[a]
       THEN /\ tokens' = Consumed(t)
            /\ void' = void \cup {t.id}
            /\ UNCHANGED <<email, pending, seen>>
       ELSE /\ tokens' = Consumed(t) \ Undone(t)
            /\ pending' = [pending EXCEPT ![a] = NoAddress]
            /\ email' = IF back THEN [email EXCEPT ![a] = t.target] ELSE email
            /\ seen' = IF back THEN [seen EXCEPT ![a] = t.claim] ELSE seen
            /\ UNCHANGED void
    /\ UNCHANGED <<verified, disabled, issued, expired, jobs, taking, mailed>>

-----------------------------------------------------------------------------
ExpireUnissued ==
    /\ expired <= issued
    /\ expired' = expired + 1
    /\ UNCHANGED <<account, tokens, issued, jobs, taking, mailed, seen, void>>

\* An hour passes for the oldest tokens, and the daily job deletes the ones that are seven days older than that.
Expire ==
    /\ expired < issued
    /\ expired' = expired + 1
    /\ UNCHANGED <<account, tokens, issued, jobs, taking, mailed, seen, void>>

Purge(n) ==
    /\ \E t \in tokens : t.id <= n
    /\ tokens' = {t \in tokens : t.id > n}
    /\ UNCHANGED <<account, issued, expired, jobs, taking, mailed, seen, void>>

Init ==
    /\ email = Home
    /\ verified \in {v \in [Accounts -> BOOLEAN] : \A a \in Accounts : v[a] => Home[a] # NoAddress}
    /\ disabled = [a \in Accounts |-> FALSE]
    /\ pending = [a \in Accounts |-> NoAddress]
    /\ tokens = {}
    /\ issued = 0
    /\ expired = 0
    /\ jobs \in [Jobs -> {[stage |-> "idle", account |-> a, to |-> NoAddress, issue |-> 0, next |-> NoAddress] :
                          a \in {CHOOSE b \in Accounts : TRUE}}]
    /\ taking = [a \in Accounts |-> Idle]
    /\ mailed = {}
    /\ seen = [a \in Accounts |-> 0]
    /\ void = {}

Next ==
    \/ \E a \in Accounts, e \in Addresses : CheckRegistration(a, e)
    \/ \E a \in Accounts, proven \in Proven : InsertAccount(a, proven)
    \/ \E a \in Movers, e \in Addresses : Request(a, e)
    \/ \E a \in Movers : Clear(a) \/ MoveAddress(a) \/ MarkVerified(a) \/ SetDisabled(a)
    \/ \E j \in Jobs : ReadProfile(j) \/ IssueTokens(j) \/ SendNotice(j) \/ SendConfirmation(j) \/ FailAttempt(j)
    \/ \E t \in tokens : Confirm(t) \/ Cancel(t)
    \/ Expire
    \/ \E n \in 1 .. expired : Purge(n)

Spec == Init /\ [][Next]_vars

-----------------------------------------------------------------------------
\* The link that was issued with a confirmation, in the transaction of one job.
Twin(c) == {t \in tokens : t.purpose = "cancel" /\ t.account = c.account /\ t.id = c.id}

(***************************************************************************)
(* A confirmation that works and has left this process has a notice that   *)
(* left before it: the link issued with it was mailed, is neither used nor *)
(* deleted, and puts back the address the account still holds, whatever    *)
(* requests, withdrawals, retried jobs and redemptions came between.  The  *)
(* one exception is a link that was used up while the account was          *)
(* disabled, which does nothing and leaves the confirmation.               *)
(* (mail-send.ts, sys_email_change_token_issue and _cancel)                *)
(***************************************************************************)
NoticeFirst ==
    \A c \in tokens :
        /\ c.purpose = "change" /\ Live(c) /\ Mailed(c) /\ c.id \notin void
        => \E t \in Twin(c) : Unused(t) /\ Mailed(t) /\ t.target = email[c.account]

(***************************************************************************)
(* An address that a working link would put back is not held by another    *)
(* account, unless that account had looked whether the address was free    *)
(* before the link was issued, be it to put the address back by a link of  *)
(* its own later.  (sys_create_account, sys_email_change_confirm,          *)
(* sys_email_change_cancel)                                                *)
(***************************************************************************)
ReservationHolds ==
    \A t \in tokens, b \in Accounts :
        /\ t.purpose = "cancel" /\ Live(t) /\ t.target # email[t.account]
        /\ b # t.account /\ email[b] = t.target
        => seen[b] < t.id

(***************************************************************************)
(* The link to an address the account has left goes on working through     *)
(* later requests, withdrawals and changes: it ends when it expires, when  *)
(* it is redeemed, or when an older link of the account is.                *)
(* (sys_email_change_request, _clear, _token_issue, _cancel)               *)
(***************************************************************************)
LinkOutlives ==
    [][\A t \in tokens :
         /\ t.purpose = "cancel" /\ Live(t) /\ t.target # email[t.account]
         => \/ t \in tokens'
            \/ \E u \in tokens : /\ u.account = t.account /\ u.purpose = "cancel" /\ u.id <= t.id
                                 /\ Live(u) /\ [u EXCEPT !.used = TRUE] \in tokens']_vars
=============================================================================
