------------------------ MODULE InvitationMailProofs ------------------------
(***************************************************************************)
(* Proofs about InvitationMail for any bounds.  The invariant says that a  *)
(* token is in the hands of an admin or made by a job for the mailbox,     *)
(* never both, that link_issued tells the two apart for the token whose    *)
(* hash the row holds, and that no job has the ticket of a row whose token *)
(* an admin holds.                                                         *)
(***************************************************************************)
EXTENDS InvitationMail, TLAPS

\* link_issued tells whether an admin was given the token whose hash the row holds.
LinkTold == invitation.token \in 0 .. issued /\ (invitation.link <=> invitation.token \in handed)

\* What a job has made, an admin has not been given.
Apart ==
    /\ handed \cap (mailbox \cup sending) = {}
    /\ \A t \in Tickets : jobs[t].run \in (0 .. issued) \ handed

\* No job can replace the link of an admin.
LinkFree ==
    /\ \A t \in Tickets : t > tickets => jobs[t].state = "none"
    /\ invitation.link /\ invitation.ticket # 0 => jobs[invitation.ticket].state = "none"

Inv == TypeOK /\ LinkTold /\ Apart /\ LinkFree /\ ProofIsMail
-----------------------------------------------------------------------------
\* The initial state.
LEMMA InitInv == Init => Inv
  BY InvitationMailAssumption
  DEF InvitationMailAssumption, Init, Inv, TypeOK, Invitation, Job, NoJob, LinkTold, Apart, LinkFree, ProofIsMail, Tickets

\* An operation of an admin that writes a token nobody has had, for the mail.
LEMMA WriteMailed ==
  ASSUME Inv, tickets + 1 \in Tickets,
         invitation' \in Invitation,
         invitation'.token = issued + 1, invitation'.ticket = tickets + 1, invitation'.link = FALSE,
         issued' = issued + 1, tickets' = tickets + 1, renewals < MaxRenewals, renewals' = renewals + 1,
         jobs' = [jobs EXCEPT ![tickets + 1] = Waiting] \/ UNCHANGED jobs,
         UNCHANGED <<account, sending, failures, mailbox, handed, proof>>
  PROVE  Inv'
  <1>0. MaxTickets \in Nat /\ MaxRenewals \in Nat /\ RetryLimit \in Nat
    BY InvitationMailAssumption DEF InvitationMailAssumption
  <1>b. /\ issued \in Nat /\ tickets \in 0 .. MaxTickets /\ renewals \in 0 .. MaxRenewals
        /\ jobs \in [Tickets -> Job] /\ 1 .. issued \subseteq 1 .. issued' /\ 0 .. issued \subseteq 0 .. issued'
    BY DEF Inv, TypeOK
  <1>1. TypeOK'
    <2>1. Waiting \in Job
      BY <1>0 DEF Waiting, NoJob, Job
    <2>2. jobs' \in [Tickets -> Job]
      BY <1>b, <2>1
    <2>3. issued' \in Nat /\ tickets' \in 0 .. MaxTickets /\ renewals' \in 0 .. MaxRenewals
      BY <1>0, <1>b DEF Tickets
    <2> QED
      BY <1>b, <2>2, <2>3 DEF Inv, TypeOK
  <1>2. LinkTold'
    BY DEF Inv, TypeOK, LinkTold
  <1>3. Apart'
    <2>1. \A t \in Tickets : jobs'[t].run \in {0, jobs[t].run}
      BY <1>b DEF Waiting
    <2> QED
      BY <1>b, <2>1 DEF Inv, TypeOK, Apart
  <1>4. LinkFree'
    BY <1>0, <1>b DEF Inv, LinkFree, Tickets
  <1> QED
    BY <1>1, <1>2, <1>3, <1>4 DEF Inv, ProofIsMail

\* An operation of an admin that is given the token.
LEMMA WriteLink ==
  ASSUME Inv,
         invitation' \in Invitation,
         invitation'.token = issued + 1, invitation'.ticket = 0, invitation'.link = TRUE,
         issued' = issued + 1, renewals < MaxRenewals, renewals' = renewals + 1,
         handed' = handed \cup {issued + 1},
         UNCHANGED <<account, jobs, sending, tickets, failures, mailbox, proof>>
  PROVE  Inv'
  <1>0. MaxTickets \in Nat /\ MaxRenewals \in Nat
    BY InvitationMailAssumption DEF InvitationMailAssumption
  <1>b. /\ issued \in Nat /\ renewals \in 0 .. MaxRenewals
        /\ 1 .. issued \subseteq 1 .. issued' /\ 0 .. issued \subseteq 0 .. issued'
    BY DEF Inv, TypeOK
  <1>1. TypeOK'
    BY <1>0, <1>b DEF Inv, TypeOK
  <1>2. LinkTold' /\ LinkFree'
    BY DEF Inv, TypeOK, LinkTold, LinkFree
  <1>3. Apart'
    BY DEF Inv, TypeOK, Apart
  <1>4. ProofIsMail'
    BY DEF Inv, TypeOK, ProofIsMail
  <1> QED
    BY <1>1, <1>2, <1>3, <1>4 DEF Inv

\* An operation that leaves the token, the ticket and the flag alone.
LEMMA WriteStatus ==
  ASSUME Inv, invitation' \in Invitation,
         invitation'.token = invitation.token, invitation'.ticket = invitation.ticket, invitation'.link = invitation.link,
         UNCHANGED <<jobs, sending, issued, tickets, failures, mailbox, handed, renewals>>,
         account' \in {"none", "unverified", "verified"},
         proof' = proof \/ proof' = 0 \/ (proof' = invitation.token /\ proof' \in mailbox \cup handed /\ ~invitation.link)
  PROVE  Inv'
  <1>1. TypeOK'
    BY DEF Inv, TypeOK, LinkTold
  <1>2. LinkTold' /\ LinkFree' /\ Apart'
    BY DEF Inv, TypeOK, LinkTold, LinkFree, Apart
  <1>3. ProofIsMail'
    BY DEF Inv, ProofIsMail, LinkTold
  <1> QED
    BY <1>1, <1>2, <1>3 DEF Inv

\* A job makes a token: the row's ticket is the job's, so no admin holds the token it replaces.
LEMMA IssueInv ==
  ASSUME Inv, NEW t \in Tickets, Issue(t)
  PROVE  Inv'
  <1>1. CASE Issuable(t)
    <2>1. /\ jobs' = [jobs EXCEPT ![t] = [state |-> "active", retries |-> jobs[t].retries, run |-> issued + 1]]
          /\ invitation' = [status |-> "pending", fresh |-> TRUE, token |-> issued + 1, ticket |-> t, link |-> FALSE]
          /\ issued' = issued + 1 /\ sending' = sending \cup {issued + 1}
          /\ jobs[t].state = "waiting" /\ t # 0
      <3>1. t # 0 /\ issued + 1 # invitation.token
        BY DEF Inv, TypeOK, LinkTold, Tickets
      <3>2. LinkAfter(issued + 1, t) = FALSE
        BY <3>1 DEF LinkAfter
      <3> QED
        BY <1>1, <3>1, <3>2 DEF Issue, Issuable, Runs, Renewed
    <2>2. UNCHANGED <<account, tickets, failures, mailbox, handed, proof, renewals>>
      BY DEF Issue, history
    <2>3. TypeOK'
      <3>1. invitation' \in Invitation /\ issued' \in Nat
        BY <2>1, InvitationMailAssumption DEF Inv, TypeOK, Invitation, Tickets, InvitationMailAssumption
      <3>2. jobs' \in [Tickets -> Job]
        BY <2>1 DEF Inv, TypeOK, Job
      <3>3. 1 .. issued \subseteq 1 .. issued' /\ 0 .. issued \subseteq 0 .. issued' /\ issued + 1 \in 1 .. issued'
        BY <2>1 DEF Inv, TypeOK
      <3>4. sending' \subseteq 1 .. issued'
        BY <2>1, <3>3 DEF Inv, TypeOK
      <3> QED
        BY <2>2, <3>1, <3>2, <3>3, <3>4 DEF Inv, TypeOK
    <2>4. LinkTold'
      BY <2>1, <2>2 DEF Inv, TypeOK, LinkTold
    <2>5. Apart'
      BY <2>1, <2>2 DEF Inv, TypeOK, Apart
    <2>6. LinkFree'
      BY <1>1, <2>1, <2>2 DEF Inv, TypeOK, LinkFree, Invitation, Issue
    <2> QED
      BY <2>2, <2>3, <2>4, <2>5, <2>6 DEF Inv, ProofIsMail
  <1>2. CASE ~Issuable(t)
    <2>1. /\ jobs' = [jobs EXCEPT ![t].state = "done"] /\ jobs[t].state = "waiting"
          /\ UNCHANGED <<invitation, account, sending, issued, tickets, failures, mailbox, handed, proof, renewals>>
      BY <1>2 DEF Issue, history
    <2>2. TypeOK'
      BY <2>1 DEF Inv, TypeOK, Job
    <2>3. Apart' /\ LinkTold'
      BY <2>1 DEF Inv, TypeOK, Apart, LinkTold
    <2>4. LinkFree'
      BY <2>1 DEF Inv, TypeOK, LinkFree, Invitation, Tickets
    <2> QED
      BY <2>1, <2>2, <2>3, <2>4 DEF Inv, ProofIsMail
  <1> QED
    BY <1>1, <1>2

\* What becomes of a job and its message.
LEMMA JobsInv ==
  ASSUME Inv, jobs' \in [Tickets -> Job],
         \A t \in Tickets : jobs'[t].run \in {0, jobs[t].run} /\ (jobs[t].state = "none" => jobs'[t].state = "none"),
         sending' \subseteq sending, failures' \in 0 .. MaxFailures,
         mailbox' \subseteq 1 .. issued, mailbox \subseteq mailbox', mailbox' \cap handed = {},
         UNCHANGED <<invitation, account, issued, tickets, handed, proof, renewals>>
  PROVE  Inv'
  <1>1. TypeOK'
    BY DEF Inv, TypeOK
  <1>2. Apart'
    BY DEF Inv, TypeOK, Apart
  <1>3. LinkTold' /\ ProofIsMail'
    BY DEF Inv, LinkTold, ProofIsMail
  <1>4. LinkFree'
    BY DEF Inv, TypeOK, LinkFree, Invitation, Tickets
  <1> QED
    BY <1>1, <1>2, <1>3, <1>4 DEF Inv

\* Inv is inductive.
LEMMA Invariance == Spec => []Inv
  <1>1. Inv /\ [Next]_vars => Inv'
    <2> SUFFICES ASSUME Inv, [Next]_vars PROVE Inv'
      OBVIOUS
    <2>0. /\ invitation \in Invitation /\ issued \in Nat /\ tickets \in 0 .. MaxTickets
          /\ renewals \in 0 .. MaxRenewals /\ MaxTickets \in Nat /\ MaxRenewals \in Nat
          /\ invitation.token \in 0 .. issued
      BY InvitationMailAssumption DEF Inv, TypeOK, LinkTold, InvitationMailAssumption
    <2>a. \A ticket : ~(issued + 1 = invitation.token) /\ LinkAfter(issued + 1, ticket) = (ticket = 0)
      BY <2>0 DEF LinkAfter
    <2>b. \A ticket : Renewed(issued + 1, ticket) = Inserted(issued + 1, ticket, ticket = 0)
      BY <2>a DEF Renewed, Inserted
    <2>1. ASSUME NEW mailed \in Mails, Invite(mailed) PROVE Inv'
      <3>0. mailed \in BOOLEAN
        BY InvitationMailAssumption DEF InvitationMailAssumption
      <3>1. CASE Pending /\ ~mailed
        <4>1. /\ invitation' = [status |-> "pending", fresh |-> TRUE, token |-> invitation.token,
                                ticket |-> tickets + 1, link |-> invitation.link]
              /\ tickets' = tickets + 1 /\ tickets + 1 <= MaxTickets
              /\ UNCHANGED <<account, jobs, sending, issued, failures, mailbox, handed, proof, renewals>>
          BY <2>1, <3>1 DEF Invite, Renewed, LinkAfter, history
        <4>2. TypeOK'
          BY <2>0, <4>1 DEF Inv, TypeOK, Invitation
        <4>3. LinkTold' /\ Apart' /\ ProofIsMail'
          BY <4>1 DEF Inv, LinkTold, Apart, ProofIsMail
        <4>4. LinkFree'
          BY <2>0, <4>1 DEF Inv, LinkFree, Tickets
        <4> QED
          BY <4>2, <4>3, <4>4 DEF Inv
      <3>2. CASE ~(Pending /\ ~mailed)
        <4>1. tickets + 1 \in Tickets /\ tickets + 1 # 0
          BY <2>0, <2>1, <3>2 DEF Invite, Tickets
        <4>2. invitation' = Inserted(issued + 1, tickets + 1, FALSE)
          BY <2>1, <2>b, <3>2, <4>1 DEF Invite
        <4>3. /\ issued' = issued + 1 /\ tickets' = tickets + 1
              /\ renewals < MaxRenewals /\ renewals' = renewals + 1
              /\ jobs' = [jobs EXCEPT ![tickets + 1] = Waiting] \/ UNCHANGED jobs
              /\ UNCHANGED <<account, sending, failures, mailbox, handed, proof>>
          BY <2>1, <3>2 DEF Invite, history, Queue
        <4>4. /\ invitation' \in Invitation
              /\ invitation'.token = issued + 1 /\ invitation'.ticket = tickets + 1 /\ invitation'.link = FALSE
          BY <2>0, <4>1, <4>2 DEF Inserted, Invitation, Tickets
        <4> QED
          BY <4>1, <4>3, <4>4, WriteMailed
      <3> QED
        BY <3>1, <3>2
    <2>2. CASE Resend
      <3>1. tickets + 1 \in Tickets /\ tickets + 1 # 0
        BY <2>0, <2>2 DEF Resend, Tickets
      <3>2. invitation' = Inserted(issued + 1, tickets + 1, FALSE)
        BY <2>2, <2>b, <3>1 DEF Resend
      <3>3. /\ invitation' \in Invitation
            /\ invitation'.token = issued + 1 /\ invitation'.ticket = tickets + 1 /\ invitation'.link = FALSE
        BY <2>0, <3>1, <3>2 DEF Inserted, Invitation, Tickets
      <3> QED
        BY <2>2, <3>1, <3>3, WriteMailed DEF Resend, Queue, history
    <2>3. CASE CreateLink
      <3>1. invitation' = Inserted(issued + 1, 0, TRUE)
        BY <2>3, <2>b DEF CreateLink
      <3>2. /\ invitation' \in Invitation
            /\ invitation'.token = issued + 1 /\ invitation'.ticket = 0 /\ invitation'.link = TRUE
        BY <2>0, <3>1 DEF Inserted, Invitation
      <3> QED
        BY <2>3, <3>2, WriteLink DEF CreateLink
    <2>4. ASSUME NEW mailed \in Mails, InviteOwner(mailed) PROVE Inv'
      <3>1. CASE mailed
        <4>1. tickets + 1 \in Tickets
          BY <2>0, <2>4, <3>1 DEF InviteOwner, Tickets
        <4>2. /\ invitation' \in Invitation
              /\ invitation'.token = issued + 1 /\ invitation'.ticket = tickets + 1 /\ invitation'.link = FALSE
          <5>1. invitation' = Inserted(issued + 1, tickets + 1, FALSE)
            BY <2>4, <3>1 DEF InviteOwner
          <5> QED
            BY <2>0, <4>1, <5>1 DEF Inserted, Invitation, Tickets
        <4> QED
          BY <2>4, <3>1, <4>1, <4>2, WriteMailed DEF InviteOwner, Queue
      <3>2. CASE ~mailed
        <4>1. /\ invitation' \in Invitation
              /\ invitation'.token = issued + 1 /\ invitation'.ticket = 0 /\ invitation'.link = TRUE
          <5>1. invitation' = Inserted(issued + 1, 0, TRUE)
            BY <2>4, <3>2 DEF InviteOwner
          <5> QED
            BY <2>0, <5>1 DEF Inserted, Invitation
        <4> QED
          BY <2>4, <3>2, <4>1, WriteLink DEF InviteOwner
      <3> QED
        BY <3>1, <3>2
    <2>5. CASE Revoke \/ Expire
      <3>1. /\ invitation' \in Invitation
            /\ invitation'.token = invitation.token /\ invitation'.ticket = invitation.ticket
            /\ invitation'.link = invitation.link
        BY <2>0, <2>5 DEF Revoke, Expire, Invitation
      <3> QED
        BY <2>5, <3>1, WriteStatus DEF Revoke, Expire, history, Inv, TypeOK
    <2>6. ASSUME NEW k \in Tokens, Register(k) \/ Accept(k) PROVE Inv'
      <3>1. /\ invitation' \in Invitation
            /\ invitation'.token = invitation.token /\ invitation'.ticket = invitation.ticket
            /\ invitation'.link = invitation.link
        BY <2>0, <2>6 DEF Register, Accept, Invitation
      <3>2. account' \in {"none", "unverified", "verified"}
        BY <2>6 DEF Register, Accept, Inv, TypeOK
      <3>3. proof' = proof \/ proof' = 0 \/ (proof' = invitation.token /\ proof' \in mailbox \cup handed /\ ~invitation.link)
        BY <2>6 DEF Register, Accept, Works, history
      <3> QED
        BY <2>6, <3>1, <3>2, <3>3, WriteStatus DEF Register, Accept, history
    <2>7. ASSUME NEW k \in Tokens, Deliver(k) PROVE Inv'
      <3>1. /\ jobs' \in [Tickets -> Job]
            /\ \A t \in Tickets : jobs'[t].run \in {0, jobs[t].run} /\ (jobs[t].state = "none" => jobs'[t].state = "none")
        BY <2>7 DEF Deliver, Inv, TypeOK, Job
      <3>2. k \notin handed /\ k \in 1 .. issued
        BY <2>7 DEF Deliver, Inv, TypeOK, Apart
      <3> QED
        BY <2>7, <3>1, <3>2, JobsInv DEF Deliver, Inv, TypeOK, Apart
    <2>8. ASSUME NEW k \in Tokens, Drop(k) PROVE Inv'
      BY <2>8, JobsInv DEF Drop, Inv, TypeOK, Apart, history
    <2>9. ASSUME NEW t \in Tickets, Issue(t) PROVE Inv'
      BY <2>9, IssueInv
    <2>10. ASSUME NEW t \in Tickets, NEW arrived \in BOOLEAN, NEW lost \in BOOLEAN, Fail(t, arrived, lost) PROVE Inv'
      <3>1. jobs[t] \in Job /\ RetryLimit \in Nat /\ MaxFailures \in Nat
        BY InvitationMailAssumption DEF Inv, TypeOK, InvitationMailAssumption
      <3>2. Retried(jobs[t]) \in Job /\ Retried(jobs[t]).run \in {0, jobs[t].run}
        <4>1. CASE jobs[t].retries < RetryLimit
          <5>1. Retried(jobs[t]) = [state |-> "waiting", retries |-> jobs[t].retries + 1, run |-> 0]
            BY <4>1 DEF Retried, Waiting, NoJob
          <5>2. jobs[t].retries + 1 \in 0 .. RetryLimit
            BY <3>1, <4>1 DEF Job
          <5> QED
            BY <5>1, <5>2 DEF Job
        <4>2. CASE ~(jobs[t].retries < RetryLimit)
          BY <3>1, <4>2 DEF Retried, Job
        <4> QED
          BY <4>1, <4>2
      <3>3. /\ jobs' \in [Tickets -> Job]
            /\ \A u \in Tickets : jobs'[u].run \in {0, jobs[u].run} /\ (jobs[u].state = "none" => jobs'[u].state = "none")
        BY <2>10, <3>2 DEF Fail, Inv, TypeOK
      <3>4. jobs[t].run # 0 => jobs[t].run \in 1 .. issued /\ jobs[t].run \notin handed
        BY DEF Inv, TypeOK, Apart
      <3>5. mailbox' \subseteq 1 .. issued /\ mailbox \subseteq mailbox' /\ mailbox' \cap handed = {} /\ sending' \subseteq sending
        BY <2>10, <3>4 DEF Fail, Inv, TypeOK, Apart
      <3>6. failures' \in 0 .. MaxFailures
        BY <2>10, <3>1 DEF Fail, Inv, TypeOK
      <3> QED
        BY <2>10, <3>3, <3>5, <3>6, JobsInv DEF Fail
    <2>11. CASE UNCHANGED vars
      BY <2>11 DEF vars, Inv, TypeOK, LinkTold, Apart, LinkFree, ProofIsMail
    <2> QED
      BY <2>1, <2>2, <2>3, <2>4, <2>5, <2>6, <2>7, <2>8, <2>9, <2>10, <2>11 DEF Next
  <1> QED
    BY InitInv, <1>1, PTL DEF Spec
-----------------------------------------------------------------------------
\* Every reachable state is well typed: a job is never retried beyond its limit.
THEOREM TypeCorrect == Spec => []TypeOK
  BY Invariance, PTL DEF Inv

\* An invitation verifies an address only with a token out of its mailbox that no
\* admin was ever given (workspace_invitations_track_link_issued).
THEOREM OnlyMailProves == Spec => []ProofIsMail
  BY Invariance, PTL DEF Inv

\* A token that was mailed is never taken for an admin's link.
THEOREM MailAlwaysProves == Spec => []MailIsProof
  <1>1. Inv => MailIsProof
    BY DEF Inv, LinkTold, Apart, MailIsProof
  <1> QED
    BY <1>1, Invariance, PTL

\* Only an admin's renewal replaces the token of a link an admin was given: no job
\* does, and no invitation of the same address where no mail can be sent.
THEOREM LinksLast == Spec => LinkLasts
  <1>1. Inv /\ [Next]_vars =>
          [invitation.token \in handed /\ invitation'.token # invitation.token => renewals' > renewals]_vars
    <2> SUFFICES ASSUME Inv, Next, invitation'.token # invitation.token, invitation.token \in handed
                 PROVE  renewals' > renewals
      BY DEF Inv
    <2>0. /\ invitation \in Invitation /\ renewals \in Nat /\ invitation.link
          /\ MaxRenewals \in Nat
      BY InvitationMailAssumption DEF Inv, TypeOK, LinkTold, InvitationMailAssumption
    <2>1. ASSUME NEW mailed \in Mails, Invite(mailed) PROVE renewals' > renewals
      <3>1. ~(Pending /\ ~mailed)
        BY <2>1 DEF Invite, Renewed
      <3> QED
        BY <2>0, <2>1, <3>1 DEF Invite
    <2>2. ASSUME NEW mailed \in Mails, InviteOwner(mailed) PROVE renewals' > renewals
      BY <2>0, <2>2 DEF InviteOwner
    <2>3. CASE Resend \/ CreateLink
      BY <2>0, <2>3 DEF Resend, CreateLink
    <2>4. CASE Revoke \/ Expire
      BY <2>0, <2>4 DEF Revoke, Expire, Invitation
    <2>5. ASSUME NEW k \in Tokens, Register(k) \/ Accept(k) \/ Deliver(k) \/ Drop(k) PROVE FALSE
      BY <2>0, <2>5 DEF Register, Accept, Deliver, Drop, Invitation
    <2>6. ASSUME NEW t \in Tickets, Issue(t) PROVE FALSE
      <3>1. invitation.ticket = t /\ jobs[t].state = "waiting" /\ t # 0
        BY <2>6 DEF Issue, Issuable, Tickets
      <3> QED
        BY <2>0, <3>1 DEF Inv, LinkFree
    <2>7. ASSUME NEW t \in Tickets, NEW arrived \in BOOLEAN, NEW lost \in BOOLEAN, Fail(t, arrived, lost) PROVE FALSE
      BY <2>7 DEF Fail
    <2> QED
      BY <2>1, <2>2, <2>3, <2>4, <2>5, <2>6, <2>7 DEF Next
  <1> QED
    BY <1>1, Invariance, PTL DEF Spec, LinkLasts
=============================================================================
