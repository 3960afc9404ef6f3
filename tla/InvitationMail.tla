--------------------------- MODULE InvitationMail ---------------------------
(***************************************************************************)
(* The link of one invitation, from the request that makes the invitation  *)
(* to the acceptance, and the `invitation.send' jobs that mail it.         *)
(*                                                                         *)
(* The row holds the hash of a token.  Who holds the token is what matters *)
(* here: nobody (a request made the hash and dropped the value), the       *)
(* mailbox of the invited address (a job made it and mailed it), or an     *)
(* admin (it was returned as a link).  A token is the number of the hash.  *)
(*                                                                         *)
(* Every operation but the job is one transaction that the lock of the     *)
(* row orders, and one step.  A job makes its token in one transaction,    *)
(* and mails it afterwards.  Roles, seats and teams are in other modules.  *)
(***************************************************************************)
EXTENDS Integers, FiniteSets

CONSTANTS
    Mails,          \* whether the composition can send mail: both if it is configured differently when it restarts
    MaxRenewals,    \* how often admins replace the token (a bound)
    MaxTickets,     \* mail tickets ever made (a bound)
    RetryLimit,     \* DEFAULT_RETRY_POLICY.limit
    MaxFailures     \* how often a job fails at all (a bound)

ASSUME InvitationMailAssumption ==
    /\ Mails \subseteq BOOLEAN
    /\ MaxRenewals \in Nat /\ MaxTickets \in Nat
    /\ RetryLimit \in Nat /\ MaxFailures \in Nat

VARIABLES
    invitation,     \* the row of workspace_invitations
    account,        \* the account that the invited address has: none, or what a registration with the invitation made it
    jobs,           \* the job of each ticket
    sending,        \* the tokens handed to the mail port whose sending has not ended
    issued,         \* tokens made so far
    tickets,        \* mail tickets made so far
    failures,       \* failures so far
    \* what has happened, for the properties
    mailbox,        \* the tokens that have arrived in the mailbox of the invited address
    handed,         \* the tokens returned to an admin
    proof,          \* the token that made the account's address a verified one
    renewals        \* how often an admin has replaced the token

vars == <<invitation, account, jobs, sending, issued, tickets, failures, mailbox, handed, proof, renewals>>
history == <<mailbox, handed, proof>>

\* Each renewal makes a token, each job makes one, and each failure is followed by one more.
Tokens == 1 .. MaxRenewals + MaxTickets + MaxFailures
Tickets == 1 .. MaxTickets

Invitation == [status : {"none", "pending", "revoked", "accepted"},
               fresh : BOOLEAN,             \* expires_at is to come
               token : Nat,                 \* token_hash
               ticket : 0 .. MaxTickets,    \* mail_ticket, 0 for NULL
               link : BOOLEAN]              \* link_issued

\* A job of pg-boss; run is the token its current attempt has made, 0 before that.
Job == [state : {"none", "waiting", "active", "done", "failed"}, retries : 0 .. RetryLimit, run : Nat]
NoJob == [state |-> "none", retries |-> 0, run |-> 0]
Waiting == [state |-> "waiting", retries |-> 0, run |-> 0]

TypeOK ==
    /\ invitation \in Invitation
    /\ account \in {"none", "unverified", "verified"}
    /\ jobs \in [Tickets -> Job]
    /\ issued \in Nat
    /\ sending \subseteq 1 .. issued
    /\ tickets \in 0 .. MaxTickets
    /\ failures \in 0 .. MaxFailures
    /\ mailbox \subseteq 1 .. issued /\ handed \subseteq 1 .. issued
    /\ proof \in 0 .. issued
    /\ renewals \in 0 .. MaxRenewals

-----------------------------------------------------------------------------
Pending == invitation.status = "pending"
Works(k) == Pending /\ invitation.fresh /\ invitation.token = k

LinkByTicket(token, ticket) == ticket = 0
LinkForGood(token, ticket) == invitation.link \/ ticket = 0

\* workspace_invitations_track_link_issued: a hash that replaces another was returned to an admin if it has no ticket; an
\* update that keeps the hash keeps the flag.
LinkAfter(token, ticket) == IF token = invitation.token THEN invitation.link ELSE ticket = 0

\* The update of a pending row: its hash, ticket and expiry.
Renewed(token, ticket) ==
    [status |-> "pending", fresh |-> TRUE, token |-> token, ticket |-> ticket, link |-> LinkAfter(token, ticket)]

Inserted(token, ticket, link) ==
    [status |-> "pending", fresh |-> TRUE, token |-> token, ticket |-> ticket, link |-> link]

\* The job is queued in the transaction that writes its ticket.
Queue(ticket) == jobs' = [jobs EXCEPT ![ticket] = Waiting]

\* inviteMember (writePending): an address without a pending invitation gets one; a pending one is written again, and where
\* no mail can be sent it keeps the hash, and with it the link an admin has copied.
Invite(mailed) ==
    LET keep == Pending /\ ~mailed
        token == IF keep THEN invitation.token ELSE issued + 1
        ticket == tickets + 1
    IN
    /\ invitation.status # "accepted"
    /\ ticket <= MaxTickets /\ (keep \/ renewals < MaxRenewals)
    /\ invitation' = IF Pending THEN Renewed(token, ticket) ELSE Inserted(token, ticket, FALSE)
    /\ issued' = IF keep THEN issued ELSE token
    /\ renewals' = IF keep THEN renewals ELSE renewals + 1
    /\ tickets' = ticket
    /\ IF mailed THEN Queue(ticket) ELSE UNCHANGED jobs
    /\ UNCHANGED <<account, sending, failures, history>>

\* resendInvitation: refused where no mail can be sent, else the pending row gets a hash nobody has the token of.
Resend ==
    /\ Pending
    /\ renewals < MaxRenewals /\ tickets < MaxTickets
    /\ invitation' = Renewed(issued + 1, tickets + 1)
    /\ issued' = issued + 1 /\ tickets' = tickets + 1 /\ renewals' = renewals + 1
    /\ Queue(tickets + 1)
    /\ UNCHANGED <<account, sending, failures, history>>

\* createInvitationLink: the token is returned, and the row has no ticket any more.
CreateLink ==
    /\ Pending
    /\ renewals < MaxRenewals
    /\ invitation' = Renewed(issued + 1, 0)
    /\ issued' = issued + 1 /\ renewals' = renewals + 1
    /\ handed' = handed \cup {issued + 1}
    /\ UNCHANGED <<account, jobs, sending, tickets, failures, mailbox, proof>>

\* sys_instance_create_workspace and sys_instance_reissue_owner_invitation: the invitation of a first owner, with a ticket
\* and its job where mail can be sent, and else returned as a link; a pending one before it is revoked.  (Only a workspace
\* without members has one, so a member's invitation never meets it; the record stands for either.)
InviteOwner(mailed) ==
    LET token == issued + 1
        ticket == tickets + 1
    IN
    /\ invitation.status # "accepted"
    /\ renewals < MaxRenewals
    /\ issued' = token /\ renewals' = renewals + 1
    /\ IF mailed
       THEN /\ ticket <= MaxTickets
            /\ invitation' = Inserted(token, ticket, FALSE)
            /\ tickets' = ticket
            /\ Queue(ticket)
            /\ UNCHANGED handed
       ELSE /\ invitation' = Inserted(token, 0, TRUE)
            /\ handed' = handed \cup {token}
            /\ UNCHANGED <<tickets, jobs>>
    /\ UNCHANGED <<account, sending, failures, mailbox, proof>>

\* revokeInvitation; a workspace that is being deleted ends its invitations the same way.
Revoke ==
    /\ Pending
    /\ invitation' = [invitation EXCEPT !.status = "revoked"]
    /\ UNCHANGED <<account, jobs, sending, issued, tickets, failures, history, renewals>>

Expire ==
    /\ Pending /\ invitation.fresh
    /\ invitation' = [invitation EXCEPT !.fresh = FALSE]
    /\ UNCHANGED <<account, jobs, sending, issued, tickets, failures, history, renewals>>

-----------------------------------------------------------------------------
\* sys_invitation_accept_new_account: whoever has the token that works registers with the invited address, which is
\* verified unless an admin had the token first.
Register(k) ==
    /\ k \in mailbox \cup handed
    /\ Works(k) /\ account = "none"
    /\ invitation' = [invitation EXCEPT !.status = "accepted"]
    /\ account' = IF invitation.link THEN "unverified" ELSE "verified"
    /\ proof' = IF invitation.link THEN 0 ELSE k
    /\ UNCHANGED <<jobs, sending, issued, tickets, failures, mailbox, handed, renewals>>

\* sys_invitation_accept: the account that has the invited address, verified on its own, accepts.
Accept(k) ==
    /\ k \in mailbox \cup handed
    /\ Works(k) /\ account = "none"
    /\ invitation' = [invitation EXCEPT !.status = "accepted"]
    /\ UNCHANGED <<account, jobs, sending, issued, tickets, failures, history, renewals>>

-----------------------------------------------------------------------------
\* What issueToken finds: an invitation that is pending, has not expired and has the job's ticket still.
Issuable(t) == Pending /\ invitation.fresh /\ invitation.ticket = t
Runs(t, token) == jobs' = [jobs EXCEPT ![t] = [state |-> "active", retries |-> jobs[t].retries, run |-> token]]

IssueAnyTicket(t) ==
    /\ jobs[t].state = "waiting"
    /\ IF Pending /\ invitation.fresh
       THEN /\ invitation' = Renewed(issued + 1, invitation.ticket)
            /\ issued' = issued + 1
            /\ sending' = sending \cup {issued + 1}
            /\ Runs(t, issued + 1)
       ELSE /\ jobs' = [jobs EXCEPT ![t].state = "done"]
            /\ UNCHANGED <<invitation, issued, sending>>
    /\ UNCHANGED <<account, tickets, failures, history, renewals>>

IssueSpending(t) ==
    /\ jobs[t].state = "waiting"
    /\ IF Issuable(t)
       THEN /\ invitation' = [Renewed(issued + 1, t) EXCEPT !.ticket = 0]
            /\ issued' = issued + 1
            /\ sending' = sending \cup {issued + 1}
            /\ Runs(t, issued + 1)
       ELSE /\ jobs' = [jobs EXCEPT ![t].state = "done"]
            /\ UNCHANGED <<invitation, issued, sending>>
    /\ UNCHANGED <<account, tickets, failures, history, renewals>>

\* The job runs: issueToken replaces the hash, and the token goes to the mail port; or there is nothing to do any more.
Issue(t) ==
    /\ jobs[t].state = "waiting"
    /\ IF Issuable(t)
       THEN /\ invitation' = Renewed(issued + 1, t)
            /\ issued' = issued + 1
            /\ sending' = sending \cup {issued + 1}
            /\ Runs(t, issued + 1)
       ELSE /\ jobs' = [jobs EXCEPT ![t].state = "done"]
            /\ UNCHANGED <<invitation, issued, sending>>
    /\ UNCHANGED <<account, tickets, failures, history, renewals>>

\* The message arrives.
Deliver(k) ==
    /\ k \in sending
    /\ sending' = sending \ {k}
    /\ mailbox' = mailbox \cup {k}
    /\ jobs' = [t \in Tickets |-> IF jobs[t].state = "active" /\ jobs[t].run = k
                                  THEN [jobs[t] EXCEPT !.state = "done"] ELSE jobs[t]]
    /\ UNCHANGED <<invitation, account, issued, tickets, failures, handed, proof, renewals>>

RetriedOnceMore(j) ==
    IF j.retries <= RetryLimit THEN [Waiting EXCEPT !.retries = j.retries + 1] ELSE [j EXCEPT !.state = "failed"]

\* What pg-boss does with an attempt that failed.
Retried(j) ==
    IF j.retries < RetryLimit THEN [Waiting EXCEPT !.retries = j.retries + 1] ELSE [j EXCEPT !.state = "failed"]

\* An attempt fails: in the transaction (before its token), because the mail server refuses the message, because the worker
\* stops, or because it takes too long; the message may have arrived or be under way still.
Fail(t, arrived, lost) ==
    LET k == jobs[t].run IN
    /\ jobs[t].state \in {"waiting", "active"}
    /\ failures < MaxFailures
    /\ failures' = failures + 1
    /\ jobs' = [jobs EXCEPT ![t] = Retried(@)]
    /\ arrived => k # 0
    /\ mailbox' = IF arrived THEN mailbox \cup {k} ELSE mailbox
    /\ sending' = IF arrived \/ lost THEN sending \ {k} ELSE sending
    /\ UNCHANGED <<invitation, account, issued, tickets, handed, proof, renewals>>

\* A message that no job waits for any more is lost after all.
Drop(k) ==
    /\ k \in sending
    /\ \A t \in Tickets : jobs[t].state = "active" => jobs[t].run # k
    /\ sending' = sending \ {k}
    /\ UNCHANGED <<invitation, account, jobs, issued, tickets, failures, history, renewals>>

Init ==
    /\ invitation = [status |-> "none", fresh |-> FALSE, token |-> 0, ticket |-> 0, link |-> FALSE]
    /\ account = "none"
    /\ jobs = [t \in Tickets |-> NoJob]
    /\ sending = {} /\ issued = 0 /\ tickets = 0 /\ failures = 0
    /\ mailbox = {} /\ handed = {} /\ proof = 0 /\ renewals = 0

Next ==
    \/ \E mailed \in Mails : Invite(mailed) \/ InviteOwner(mailed)
    \/ TRUE \in Mails /\ Resend
    \/ CreateLink \/ Revoke \/ Expire
    \/ \E k \in Tokens : Register(k) \/ Accept(k) \/ Deliver(k) \/ Drop(k)
    \/ \E t \in Tickets : Issue(t) \/ \E arrived, lost \in BOOLEAN : Fail(t, arrived, lost)

Spec == Init /\ [][Next]_vars

\* The worker takes the jobs that wait, and the mail port answers: a message is sent or the attempt fails.
FairSpec ==
    /\ Spec
    /\ \A t \in Tickets : WF_vars(Issue(t))
    /\ \A k \in Tokens : WF_vars(Deliver(k))

-----------------------------------------------------------------------------
(***************************************************************************)
(* An address counts as verified by an invitation only if the token came   *)
(* out of its mailbox and no admin ever had it, whatever re-invitations,   *)
(* links, resends and retried jobs came before.                            *)
(* (workspace_invitations_track_link_issued,                               *)
(* sys_invitation_accept_new_account)                                      *)
(***************************************************************************)
ProofIsMail == proof # 0 => proof \in mailbox \ handed

(***************************************************************************)
(* The other way round, who registers with the token that was mailed is    *)
(* never taken for the holder of an admin's link.                          *)
(* (workspace_invitations_track_link_issued, issueToken)                   *)
(***************************************************************************)
MailIsProof == Pending /\ invitation.token \in mailbox => ~invitation.link

(***************************************************************************)
(* The link an admin was given ends with the invitation or by another      *)
(* admin's renewal: neither a job that was queued before it nor an         *)
(* invitation of the same address where no mail can be sent ends it.       *)
(* (issueToken's ticket, writePending's keepTokenHash)                     *)
(***************************************************************************)
LinkLasts == [][invitation.token \in handed /\ invitation'.token # invitation.token => renewals' > renewals]_vars

(***************************************************************************)
(* The mail of an invitation, or of a resend, arrives with a link that     *)
(* works, although attempts fail after they have replaced the hash, unless *)
(* the invitation is written again, ends or expires, or the retries are    *)
(* used up.  (invitationSendJob)                                           *)
(***************************************************************************)
MailArrives ==
    \A t \in Tickets, n \in 0 .. MaxRenewals :
        jobs[t].state = "waiting" /\ Pending /\ invitation.fresh /\ invitation.ticket = t /\ tickets = t /\ renewals = n
            ~> \/ tickets # t \/ renewals # n \/ ~Pending \/ ~invitation.fresh
               \/ jobs[t].state = "failed"
               \/ jobs[t].state = "done" /\ invitation.token \in mailbox
=============================================================================
