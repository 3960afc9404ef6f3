------------------------- MODULE EmailChangeProofs -------------------------
(***************************************************************************)
(* Proofs about the change of the email address: the notice that precedes  *)
(* every confirmation, and the addresses that working links reserve, for   *)
(* any number of accounts, addresses, jobs and tokens.                     *)
(***************************************************************************)
EXTENDS EmailChange, TLAPS

\* accounts_email_key
EmailsUnique == \A a, b \in Accounts : a # b /\ email[a] = email[b] => email[a] = NoAddress

AccountsSound ==
    \A a \in Accounts :
        /\ verified[a] => Exists(a)
        /\ seen[a] <= issued
        /\ taking[a] # Idle => taking[a].to \in Addresses /\ taking[a].seen <= issued

\* Tokens are issued to verified accounts, whose claim to their address is older than the token.
TokenSound(t) == verified[t.account] /\ t.id <= issued /\ t.claim < t.id
TokensSound == \A t \in tokens : TokenSound(t)

\* A job that comes to the confirmation has sent the notice.
JobSound(q) ==
    /\ q.stage \in {"read", "notice", "confirm"} => q.to \in Addresses
    /\ q.stage \in {"notice", "confirm"} => q.issue \in 1 .. MaxIssued
    /\ q.stage = "confirm" => q.next \in Addresses /\ \E e \in Addresses : <<"cancel", q.issue, e>> \in mailed
JobsSound == \A j \in Jobs : JobSound(jobs[j])

NoticeMailed ==
    \A n \in 1 .. MaxIssued, e \in Addresses :
        <<"change", n, e>> \in mailed => \E f \in Addresses : <<"cancel", n, f>> \in mailed

\* Mailed or not, a confirmation that works has its link beside it.
Twins ==
    \A c \in tokens :
        c.purpose = "change" /\ Live(c) /\ c.id \notin void => \E t \in Twin(c) : Unused(t) /\ t.target = email[c.account]

\* A link that reserves its address against b.
Against(t, b) == t.purpose = "cancel" /\ Live(t) /\ t.account # b

\* Who is about to take a reserved address looked before the link was issued ...
TakingSound ==
    \A t \in tokens, b \in Accounts :
        Against(t, b) /\ taking[b] # Idle /\ t.target = taking[b].to => taking[b].seen < t.id

\* ... and so had who may put it back.
ClaimsSound ==
    \A t, u \in tokens :
        Against(t, u.account) /\ u.purpose = "cancel" /\ Live(u) /\ u.target = t.target => u.claim < t.id

Inv ==
    /\ TypeOK
    /\ EmailsUnique /\ AccountsSound
    /\ TokensSound /\ Twins
    /\ JobsSound /\ NoticeMailed
    /\ ReservationHolds /\ TakingSound /\ ClaimsSound

-----------------------------------------------------------------------------
LEMMA TokenFields ==
    ASSUME TypeOK, NEW t \in tokens
    PROVE  /\ t \in Token /\ t.id \in 1 .. MaxIssued /\ t.purpose \in Purposes /\ t.account \in Accounts
           /\ t.target \in Addresses /\ t.used \in BOOLEAN /\ t.claim \in 0 .. MaxIssued
  BY DEF TypeOK, Token

LEMMA JobFields ==
    ASSUME TypeOK, NEW j \in Jobs
    PROVE  /\ jobs[j] \in Job /\ jobs[j].stage \in Stages /\ jobs[j].account \in Accounts
           /\ jobs[j].to \in Addresses \cup {NoAddress} /\ jobs[j].issue \in 0 .. MaxIssued
           /\ jobs[j].next \in Addresses \cup {NoAddress}
  BY DEF TypeOK, Job

LEMMA Numbers ==
    ASSUME TypeOK
    PROVE  /\ MaxIssued \in Nat /\ issued \in Int /\ expired \in Int
           /\ \A a \in Accounts : seen[a] \in Int /\ taking[a].seen \in Int /\ taking[a] \in Taking
  BY EmailAssumption DEF EmailAssumption, TypeOK, Taking

\* A token that is consumed.
LEMMA UsedFields ==
    ASSUME NEW t \in Token
    PROVE  LET u == [t EXCEPT !.used = TRUE] IN
           /\ u \in Token /\ u.used /\ u.id = t.id /\ u.account = t.account /\ u.claim = t.claim
  BY DEF Token

\* No token is new: each was there, or there unused.
Left ==
    \A t \in tokens' : \/ t \in tokens
                       \/ t.used /\ \E u \in tokens : t = [u EXCEPT !.used = TRUE]

LEMMA ConsumedLeft ==
    ASSUME TypeOK, NEW t \in tokens, tokens' \subseteq Consumed(t)
    PROVE  Left
  <1>1. PICK r \in Token : r = [t EXCEPT !.used = TRUE]
    BY TokenFields, UsedFields
  <1>2. r.used
    BY <1>1, TokenFields, UsedFields
  <1>3. \A u \in tokens' : u \in tokens \/ u = r
    BY <1>1 DEF Consumed
  <1> QED BY <1>1, <1>2, <1>3 DEF Left

\* What holds of the tokens that are left.
LEMMA TokensLeft ==
    ASSUME Inv, Left, UNCHANGED issued, expired <= expired', expired' \in Int,
           \A a \in Accounts : verified[a] => verified'[a]
    PROVE  tokens' \subseteq Token /\ TokensSound' /\ ClaimsSound'
  <1>1. ASSUME NEW t \in tokens' PROVE t \in Token /\ TokenSound(t)'
    <2>1. CASE t \in tokens
      BY <2>1, TokenFields DEF Inv, TokensSound, TokenSound
    <2>2. CASE t \notin tokens
      <3>1. PICK u \in tokens : t = [u EXCEPT !.used = TRUE]
        BY <2>2 DEF Left
      <3>2. u \in Token /\ TokenSound(u) /\ u.account \in Accounts
        BY TokenFields DEF Inv, TokensSound
      <3>3. t \in Token /\ t.id = u.id /\ t.account = u.account /\ t.claim = u.claim
        BY <3>1, <3>2, UsedFields
      <3> QED BY <3>2, <3>3 DEF TokenSound
    <2> QED BY <2>1, <2>2
  <1>2. \A t \in tokens' : Live(t)' => t \in tokens /\ Live(t)
    BY TokenFields, Numbers DEF Inv, Left, Live
  <1>3. ClaimsSound'
    BY <1>2 DEF Inv, ClaimsSound, Against
  <1> QED BY <1>1, <1>3 DEF TokensSound

\* What holds of the addresses, when no account takes another.
LEMMA AddressesKept ==
    ASSUME Inv, Left, UNCHANGED <<email, seen>>, expired <= expired', expired' \in Int
    PROVE  /\ EmailsUnique' /\ ReservationHolds'
           /\ UNCHANGED taking => TakingSound'
  <1>1. \A t \in tokens' : Live(t)' => t \in tokens /\ Live(t)
    BY TokenFields, Numbers DEF Inv, Left, Live
  <1>2. EmailsUnique'
    BY DEF Inv, EmailsUnique
  <1>3. ReservationHolds'
    BY <1>1 DEF Inv, ReservationHolds
  <1>4. UNCHANGED taking => TakingSound'
    BY <1>1 DEF Inv, TakingSound, Against
  <1> QED BY <1>2, <1>3, <1>4

\* Nor when one takes an address that nobody holds, and was free of the links of others when it looked.
LEMMA AddressTaken ==
    ASSUME Inv, Left, UNCHANGED expired,
           NEW a \in Accounts, NEW e \in Addresses, NEW n \in 0 .. MaxIssued, ~Held(e, a),
           email' = [email EXCEPT ![a] = e], seen' = [seen EXCEPT ![a] = n],
           \A t \in tokens : Against(t, a) /\ t.target = e => n < t.id
    PROVE  EmailsUnique' /\ ReservationHolds'
  <1>1. /\ email'[a] = e /\ seen'[a] = n
        /\ \A b \in Accounts \ {a} : email'[b] = email[b] /\ email[b] # e /\ seen'[b] = seen[b]
    BY DEF Inv, TypeOK, Held
  <1>2. EmailsUnique'
    BY <1>1 DEF Inv, EmailsUnique
  <1>3. \A t \in tokens' : Live(t)' => t \in tokens /\ Live(t)
    BY DEF Left, Live
  <1>4. ReservationHolds'
    <2> SUFFICES ASSUME NEW t \in tokens', NEW b \in Accounts, t.purpose = "cancel", Live(t)',
                        t.target # email'[t.account], b # t.account, email'[b] = t.target
                 PROVE  seen'[b] < t.id
      BY DEF ReservationHolds
    <2>1. t \in tokens /\ Live(t) /\ t.account \in Accounts /\ t.target \in Addresses
      BY <1>3, TokenFields DEF Inv
    <2>2. CASE b = a
      BY <1>1, <2>1, <2>2 DEF Against
    <2>3. CASE b # a
      <3>1. t.target # email[t.account]
        BY <1>1, <2>1, <2>3, EmailAssumption DEF EmailAssumption, Inv, EmailsUnique
      <3> QED BY <1>1, <2>1, <2>3, <3>1 DEF Inv, ReservationHolds
    <2> QED BY <2>2, <2>3
  <1> QED BY <1>2, <1>4

\* A confirmation keeps its link when neither is touched, nor the address of the account.
LEMMA TwinsKept ==
    ASSUME Inv,
           \A c \in tokens' :
               c.purpose = "change" /\ Live(c)' /\ c.id \notin void' =>
                   /\ c \in tokens /\ Live(c) /\ c.id \notin void /\ email'[c.account] = email[c.account]
                   /\ \A t \in Twin(c) : Unused(t) => t \in tokens'
    PROVE  Twins'
  BY DEF Inv, Twins, Twin, Unused

-----------------------------------------------------------------------------
\* The steps of the mail job.
LEMMA JobStep ==
    ASSUME Inv, UNCHANGED <<account, tokens, issued, expired, taking, seen, void>>,
           jobs' \in [Jobs -> Job], mailed' \subseteq Purposes \X (1 .. MaxIssued) \X Addresses,
           JobsSound', NoticeMailed'
    PROVE  Inv'
  <1>1. TypeOK'
    BY DEF Inv, TypeOK, account
  <1>2. EmailsUnique' /\ AccountsSound' /\ TokensSound'
    BY DEF Inv, EmailsUnique, AccountsSound, Exists, TokensSound, TokenSound, account
  <1>3. Twins'
    BY DEF Inv, Twins, Twin, Live, Unused, account
  <1>4. ReservationHolds' /\ TakingSound' /\ ClaimsSound'
    BY DEF Inv, ReservationHolds, TakingSound, ClaimsSound, Against, Live, account
  <1> QED BY <1>1, <1>2, <1>3, <1>4 DEF Inv

\* A job that takes up q, with no notice taken back.
LEMMA JobPut ==
    ASSUME Inv, NEW j \in Jobs, NEW q \in Job, jobs' = [jobs EXCEPT ![j] = q], JobSound(q)', mailed \subseteq mailed'
    PROVE  jobs' \in [Jobs -> Job] /\ JobsSound'
  <1>1. jobs' \in [Jobs -> Job] /\ jobs'[j] = q /\ \A k \in Jobs \ {j} : jobs'[k] = jobs[k]
    BY DEF Inv, TypeOK
  <1>2. ASSUME NEW k \in Jobs PROVE JobSound(jobs[k])'
    BY <1>1 DEF Inv, JobsSound, JobSound
  <1> QED BY <1>1, <1>2 DEF JobsSound

LEMMA EmptiedSound ==
    ASSUME Inv, NEW j \in Jobs, NEW stage \in {"idle", "queued"}, Emptied(j, stage), mailed \subseteq mailed'
    PROVE  jobs' \in [Jobs -> Job] /\ JobsSound'
  <1>1. PICK r \in Job : r = jobs[j]
    BY JobFields DEF Inv
  <1>0. stage \in Stages /\ 0 \in 0 .. MaxIssued
    BY Numbers DEF Inv, Stages
  <1>2. PICK q \in Job : q = [r EXCEPT !.stage = stage, !.to = NoAddress, !.issue = 0, !.next = NoAddress]
    BY <1>0 DEF Job
  <1>3. q.stage = stage /\ jobs' = [jobs EXCEPT ![j] = q]
    BY <1>1, <1>2 DEF Emptied, Job
  <1>4. JobSound(q)'
    BY <1>3 DEF JobSound
  <1> QED BY <1>3, <1>4, JobPut

LEMMA ReadProfileInv == ASSUME Inv, NEW j \in Jobs, ReadProfile(j) PROVE Inv'
  <1> DEFINE a == jobs[j].account
  <1>1. UNCHANGED <<account, tokens, issued, expired, taking, mailed, seen, void>>
    BY DEF ReadProfile
  <1>2. jobs' \in [Jobs -> Job] /\ JobsSound'
    <2>1. CASE verified[a]
      <3>1. PICK r \in Job : r = jobs[j]
        BY JobFields DEF Inv
      <3>2. PICK e \in Addresses : e = email[a]
        BY <2>1, JobFields DEF Inv, TypeOK, AccountsSound, Exists
      <3>3. PICK q \in Job : q = [r EXCEPT !.stage = "read", !.to = e]
        BY DEF Job, Stages
      <3>4. q.stage = "read" /\ q.to = e
        BY <3>3 DEF Job
      <3>5. jobs' = [jobs EXCEPT ![j] = q]
        BY <2>1, <3>1, <3>2, <3>3 DEF ReadProfile, Inv, TypeOK
      <3>6. JobSound(q)'
        BY <3>4 DEF JobSound
      <3> QED BY <1>1, <3>5, <3>6, JobPut
    <2>2. CASE ~verified[a]
      BY <1>1, <2>2, EmptiedSound DEF ReadProfile
    <2> QED BY <2>1, <2>2
  <1>3. NoticeMailed'
    BY <1>1 DEF Inv, NoticeMailed
  <1> QED BY <1>1, <1>2, <1>3, JobStep DEF Inv, TypeOK

LEMMA SendNoticeInv == ASSUME Inv, NEW j \in Jobs, SendNotice(j) PROVE Inv'
  <1>1. /\ UNCHANGED <<account, tokens, issued, expired, taking, seen, void>>
        /\ mailed' = mailed \cup {<<"cancel", jobs[j].issue, jobs[j].to>>} /\ jobs[j].stage = "notice"
    BY DEF SendNotice
  <1>2. jobs[j].to \in Addresses /\ jobs[j].issue \in 1 .. MaxIssued
    BY <1>1 DEF Inv, JobsSound, JobSound
  <1>3. mailed' \subseteq Purposes \X (1 .. MaxIssued) \X Addresses
    BY <1>1, <1>2 DEF Inv, TypeOK, Purposes
  <1>4. jobs' \in [Jobs -> Job] /\ JobsSound'
    <2>1. CASE jobs[j].next = NoAddress
      BY <1>1, <2>1, EmptiedSound DEF SendNotice
    <2>2. CASE jobs[j].next # NoAddress
      <3>1. PICK r \in Job : r = jobs[j]
        BY JobFields DEF Inv
      <3>2. PICK q \in Job : q = [r EXCEPT !.stage = "confirm"]
        BY DEF Job, Stages
      <3>3. q.stage = "confirm" /\ q.to = r.to /\ q.issue = r.issue /\ q.next = r.next
        BY <3>2 DEF Job
      <3>4. jobs' = [jobs EXCEPT ![j] = q]
        BY <2>2, <3>1, <3>2 DEF SendNotice, Inv, TypeOK
      <3>5. q.next \in Addresses
        BY <2>2, <3>1, <3>3, JobFields DEF Inv
      <3>6. JobSound(q)'
        BY <1>1, <1>2, <3>1, <3>3, <3>5 DEF JobSound
      <3> QED BY <1>1, <3>4, <3>6, JobPut
    <2> QED BY <2>1, <2>2
  <1>5. NoticeMailed'
    BY <1>1 DEF Inv, NoticeMailed
  <1> QED BY <1>1, <1>3, <1>4, <1>5, JobStep

LEMMA SendConfirmationInv == ASSUME Inv, NEW j \in Jobs, SendConfirmation(j) PROVE Inv'
  <1>1. /\ UNCHANGED <<account, tokens, issued, expired, taking, seen, void>>
        /\ mailed' = mailed \cup {<<"change", jobs[j].issue, jobs[j].next>>} /\ jobs[j].stage = "confirm"
    BY DEF SendConfirmation
  <1>2. /\ jobs[j].next \in Addresses /\ jobs[j].issue \in 1 .. MaxIssued
        /\ \E e \in Addresses : <<"cancel", jobs[j].issue, e>> \in mailed
    BY <1>1 DEF Inv, JobsSound, JobSound
  <1>3. mailed' \subseteq Purposes \X (1 .. MaxIssued) \X Addresses
    BY <1>1, <1>2 DEF Inv, TypeOK, Purposes
  <1>4. jobs' \in [Jobs -> Job] /\ JobsSound'
    BY <1>1, EmptiedSound DEF SendConfirmation
  <1>5. NoticeMailed'
    BY <1>1, <1>2 DEF Inv, NoticeMailed
  <1> QED BY <1>1, <1>3, <1>4, <1>5, JobStep

LEMMA FailAttemptInv == ASSUME Inv, NEW j \in Jobs, FailAttempt(j) PROVE Inv'
  <1>1. UNCHANGED <<account, tokens, issued, expired, taking, mailed, seen, void>>
    BY DEF FailAttempt
  <1>2. jobs' \in [Jobs -> Job] /\ JobsSound'
    BY <1>1, EmptiedSound DEF FailAttempt
  <1>3. NoticeMailed'
    BY <1>1 DEF Inv, NoticeMailed
  <1> QED BY <1>1, <1>2, <1>3, JobStep DEF Inv, TypeOK

-----------------------------------------------------------------------------
\* A step that leaves the jobs and the mail alone.
LEMMA JobsKept == ASSUME Inv, UNCHANGED <<jobs, mailed>> PROVE JobsSound' /\ NoticeMailed'
  BY DEF Inv, JobsSound, JobSound, NoticeMailed

LEMMA CheckRegistrationInv == ASSUME Inv, NEW a \in Accounts, NEW e \in Addresses, CheckRegistration(a, e) PROVE Inv'
  <1>1. /\ taking' = [taking EXCEPT ![a] = [to |-> e, seen |-> issued]] /\ ~Reserved(e, a)
        /\ UNCHANGED <<account, tokens, issued, expired, jobs, mailed, seen, void>>
    BY DEF CheckRegistration
  <1>2. [to |-> e, seen |-> issued] \in Taking
    BY DEF Inv, TypeOK, Taking
  <1>3. TypeOK'
    BY <1>1, <1>2 DEF Inv, TypeOK, account
  <1>4. /\ taking'[a].to = e /\ taking'[a].seen = issued /\ \A b \in Accounts \ {a} : taking'[b] = taking[b]
    BY <1>1 DEF Inv, TypeOK
  <1>5. AccountsSound'
    BY <1>1, <1>4 DEF Inv, AccountsSound, Exists, account, TypeOK
  <1>6. TakingSound'
    BY <1>1, <1>4 DEF Inv, TakingSound, Against, Reserved, Live
  <1>7. EmailsUnique' /\ ReservationHolds' /\ TokensSound' /\ ClaimsSound'
    BY <1>1 DEF Inv, EmailsUnique, ReservationHolds, TokensSound, TokenSound, ClaimsSound, Against, Live, account
  <1>8. Twins'
    BY <1>1 DEF Inv, Twins, Twin, Live, Unused, account
  <1> QED BY <1>1, <1>3, <1>5, <1>6, <1>7, <1>8, JobsKept DEF Inv

LEMMA InsertAccountInv == ASSUME Inv, NEW a \in Accounts, NEW proven \in Proven, InsertAccount(a, proven) PROVE Inv'
  <1>1. /\ ~Exists(a) /\ taking[a] # Idle /\ taking' = [taking EXCEPT ![a] = Idle]
        /\ UNCHANGED <<disabled, pending, tokens, issued, expired, jobs, mailed, void>>
    BY DEF InsertAccount
  <1>2. Idle \in Taking /\ Left /\ proven \in BOOLEAN
    BY Numbers, EmailAssumption, <1>1 DEF EmailAssumption, Inv, Idle, Taking, Left
  <1>3. taking' \in [Accounts -> Taking] /\ taking'[a] = Idle /\ \A b \in Accounts \ {a} : taking'[b] = taking[b]
    BY <1>1, <1>2 DEF Inv, TypeOK
  <1>4. TakingSound'
    BY <1>1, <1>3 DEF Inv, TakingSound, Against, Live
  <1>5. ClaimsSound'
    BY <1>1 DEF Inv, ClaimsSound, Against, Live
  <1>6. \A t \in tokens : t.account \in Accounts /\ t.account # a
    BY <1>1, TokenFields DEF Inv, TokensSound, TokenSound, AccountsSound
  <1>7. CASE Held(taking[a].to, a)
    <2>1. UNCHANGED <<email, verified, seen>>
      BY <1>7 DEF InsertAccount
    <2>2. TypeOK'
      BY <1>1, <1>3, <2>1 DEF Inv, TypeOK
    <2>3. EmailsUnique' /\ ReservationHolds' /\ TokensSound' /\ AccountsSound'
      BY <1>1, <1>3, <2>1
      DEF Inv, EmailsUnique, ReservationHolds, TokensSound, TokenSound, AccountsSound, Exists, Live
    <2>4. Twins'
      BY <1>1, <2>1 DEF Inv, Twins, Twin, Live, Unused
    <2> QED BY <1>1, <1>4, <1>5, <2>2, <2>3, <2>4, JobsKept DEF Inv
  <1>8. CASE ~Held(taking[a].to, a)
    <2>1. /\ email' = [email EXCEPT ![a] = taking[a].to] /\ verified' = [verified EXCEPT ![a] = proven]
          /\ seen' = [seen EXCEPT ![a] = taking[a].seen]
      BY <1>8 DEF InsertAccount
    <2>2. PICK e \in Addresses : e = taking[a].to
      BY <1>1 DEF Inv, AccountsSound
    <2>3. PICK n \in 0 .. MaxIssued : n = taking[a].seen /\ n <= issued
      BY <1>1 DEF Inv, TypeOK, Taking, AccountsSound
    <2>4. TypeOK'
      BY <1>1, <1>2, <1>3, <2>1, <2>2, <2>3 DEF Inv, TypeOK
    <2>5. \A t \in tokens : Against(t, a) /\ t.target = e => n < t.id
      BY <1>1, <2>2, <2>3 DEF Inv, TakingSound
    <2>6. EmailsUnique' /\ ReservationHolds'
      BY <1>1, <1>2, <1>8, <2>1, <2>2, <2>3, <2>5, AddressTaken
    <2>7. AccountsSound'
      BY <1>1, <1>3, <2>1, <2>2, <2>3, EmailAssumption DEF EmailAssumption, Inv, AccountsSound, Exists, TypeOK
    <2>8. TokensSound'
      BY <1>1, <1>6, <2>1 DEF Inv, TokensSound, TokenSound, TypeOK
    <2>9. Twins'
      BY <1>1, <1>6, <2>1, TwinsKept DEF Live, Twin, Inv, TypeOK
    <2> QED BY <1>1, <1>4, <1>5, <2>4, <2>6, <2>7, <2>8, <2>9, JobsKept DEF Inv
  <1> QED BY <1>7, <1>8

\* The steps that only take tokens away, or let them expire.
LEMMA TokensStep ==
    ASSUME Inv, Left, UNCHANGED <<email, issued, seen, taking>>, expired <= expired', expired' \in Int,
           \A a \in Accounts : verified[a] => verified'[a],
           TypeOK', AccountsSound', Twins', JobsSound', NoticeMailed'
    PROVE  Inv'
  BY TokensLeft, AddressesKept DEF Inv

\* What takes away the link of a confirmation takes the confirmation away.
LEMMA TwinsLeft ==
    ASSUME Inv, Left, UNCHANGED <<email, expired>>, void \subseteq void',
           \A c \in tokens' : c.purpose = "change" /\ Live(c) /\ c.id \notin void'
                              => \A t \in Twin(c) : Unused(t) => t \in tokens'
    PROVE  Twins'
  <1>1. \A c \in tokens' : Live(c)' => c \in tokens /\ Live(c)
    BY DEF Left, Live
  <1> QED BY <1>1, TwinsKept

\* A new request, or the withdrawal of one.
LEMMA WithdrawnInv ==
    ASSUME Inv, NEW a \in Accounts, tokens' = tokens \ Withdrawn(a), pending' \in [Accounts -> Addresses \cup {NoAddress}],
           jobs' \in [Jobs -> Job], JobsSound',
           UNCHANGED <<email, verified, disabled, issued, expired, taking, mailed, seen, void>>
    PROVE  Inv'
  <1>1. Left /\ TypeOK'
    BY DEF Left, Inv, TypeOK
  <1>2. AccountsSound' /\ NoticeMailed'
    BY DEF Inv, AccountsSound, Exists, NoticeMailed
  <1>3. Twins'
    <2>1. \A c \in tokens' : c.purpose = "change" /\ Live(c) => c.account # a
      BY DEF Withdrawn, Live, Unused
    <2>2. \A c \in tokens' : c.purpose = "change" /\ Live(c) => \A t \in Twin(c) : Unused(t) => t \in tokens'
      BY <2>1 DEF Twin, Withdrawn
    <2> QED BY <1>1, <2>2, TwinsLeft
  <1> QED BY <1>1, <1>2, <1>3, TokensStep, Numbers DEF Inv

LEMMA RequestInv == ASSUME Inv, NEW a \in Movers, NEW e \in Addresses, Request(a, e) PROVE Inv'
  <1>1. a \in Accounts
    BY EmailAssumption DEF EmailAssumption
  <1>2. jobs' \in [Jobs -> Job] /\ JobsSound'
    <2>1. CASE UNCHANGED jobs
      BY <2>1 DEF Request, Inv, TypeOK, JobsSound, JobSound
    <2>2. CASE \E j \in Jobs : jobs[j].stage = "idle" /\ jobs' = [jobs EXCEPT ![j].stage = "queued", ![j].account = a]
      <3>1. PICK j \in Jobs : jobs[j].stage = "idle" /\ jobs' = [jobs EXCEPT ![j].stage = "queued", ![j].account = a]
        BY <2>2
      <3>2. PICK r \in Job : r = jobs[j]
        BY JobFields DEF Inv
      <3>3. PICK q \in Job : q = [r EXCEPT !.stage = "queued", !.account = a]
        BY <1>1 DEF Job, Stages
      <3>4. q.stage = "queued"
        BY <3>3 DEF Job
      <3>5. jobs' = [jobs EXCEPT ![j] = q]
        BY <3>1, <3>2, <3>3 DEF Inv, TypeOK
      <3>6. JobSound(q)'
        BY <3>4 DEF JobSound
      <3> QED BY <3>5, <3>6, JobPut DEF Request
    <2> QED BY <2>1, <2>2 DEF Request
  <1>3. pending' \in [Accounts -> Addresses \cup {NoAddress}]
    BY DEF Request, Inv, TypeOK
  <1> QED BY <1>1, <1>2, <1>3, WithdrawnInv DEF Request

LEMMA ClearInv == ASSUME Inv, NEW a \in Movers, Clear(a) PROVE Inv'
  <1>1. a \in Accounts /\ pending' \in [Accounts -> Addresses \cup {NoAddress}]
    BY EmailAssumption DEF EmailAssumption, Clear, Inv, TypeOK
  <1>2. jobs' \in [Jobs -> Job] /\ JobsSound'
    BY JobsKept DEF Clear, Inv, TypeOK
  <1> QED BY <1>1, <1>2, WithdrawnInv DEF Clear

\* An account that is not verified has no tokens.
LEMMA MarkVerifiedInv == ASSUME Inv, NEW a \in Movers, MarkVerified(a) PROVE Inv'
  <1>1. /\ a \in Accounts /\ Exists(a) /\ ~verified[a] /\ verified' = [verified EXCEPT ![a] = TRUE]
        /\ UNCHANGED <<email, disabled, issued, expired, jobs, taking, mailed, seen, void>>
    BY EmailAssumption DEF EmailAssumption, MarkVerified, Free
  <1>2. tokens' = tokens
    BY <1>1 DEF MarkVerified, Inv, TokensSound, TokenSound
  <1>3. Left /\ TypeOK'
    BY <1>1, <1>2 DEF Left, Inv, TypeOK, MarkVerified
  <1>4. (\A b \in Accounts : verified[b] => verified'[b]) /\ AccountsSound'
    BY <1>1 DEF Inv, TypeOK, AccountsSound, Exists
  <1>5. Twins'
    BY <1>1, <1>2 DEF Inv, Twins, Twin, Live, Unused
  <1> QED BY <1>1, <1>3, <1>4, <1>5, TokensStep, JobsKept, Numbers DEF Inv

LEMMA SetDisabledInv == ASSUME Inv, NEW a \in Movers, SetDisabled(a) PROVE Inv'
  <1>1. /\ a \in Accounts /\ disabled' = [disabled EXCEPT ![a] = ~@]
        /\ UNCHANGED <<email, verified, pending, tokens, issued, expired, jobs, taking, mailed, seen, void>>
    BY EmailAssumption DEF EmailAssumption, SetDisabled
  <1>2. Left /\ TypeOK'
    <2>1. disabled' \in [Accounts -> BOOLEAN]
      BY <1>1 DEF Inv, TypeOK
    <2> QED BY <1>1, <2>1 DEF Left, Inv, TypeOK
  <1>3. AccountsSound'
    BY <1>1 DEF Inv, AccountsSound, Exists
  <1>4. Twins'
    BY <1>1 DEF Inv, Twins, Twin, Live, Unused
  <1> QED BY <1>1, <1>2, <1>3, <1>4, TokensStep, JobsKept, Numbers DEF Inv

LEMMA ExpireInv == ASSUME Inv, Expire PROVE Inv'
  <1>1. /\ expired < issued /\ expired' = expired + 1
        /\ UNCHANGED <<account, tokens, issued, jobs, taking, mailed, seen, void>>
    BY DEF Expire
  <1>2. Left /\ TypeOK' /\ expired <= expired' /\ expired' \in Int
    BY <1>1, Numbers DEF Left, Inv, TypeOK, account
  <1>3. AccountsSound'
    BY <1>1 DEF Inv, AccountsSound, Exists, account
  <1>4. Twins'
    <2>1. \A c \in tokens : Live(c)' => Live(c)
      BY <1>1, Numbers, TokenFields DEF Live, Inv
    <2> QED BY <1>1, <2>1 DEF Inv, Twins, Twin, Unused, account
  <1> QED BY <1>1, <1>2, <1>3, <1>4, TokensStep, JobsKept DEF account, Inv, TypeOK

LEMMA PurgeInv == ASSUME Inv, NEW n \in 1 .. expired, Purge(n) PROVE Inv'
  <1>1. /\ tokens' = {t \in tokens : t.id > n}
        /\ UNCHANGED <<account, issued, expired, jobs, taking, mailed, seen, void>>
    BY DEF Purge
  <1>2. Left /\ TypeOK'
    BY <1>1 DEF Left, Inv, TypeOK, account
  <1>3. AccountsSound'
    BY <1>1 DEF Inv, AccountsSound, Exists, account
  <1>4. Twins'
    BY <1>1, <1>2, TwinsLeft DEF Twin, account
  <1> QED BY <1>1, <1>2, <1>3, <1>4, TokensStep, JobsKept, Numbers DEF Inv, account

-----------------------------------------------------------------------------
\* The steps that redeem a link.
LEMMA ConfirmInv == ASSUME Inv, NEW t \in tokens, Confirm(t) PROVE Inv'
  <1> DEFINE a == t.account
  <1>1. /\ tokens' = Consumed(t) /\ t.purpose = "change"
        /\ UNCHANGED <<account, issued, expired, jobs, mailed, seen, void>>
    BY DEF Confirm
  <1>2. Left /\ t \in Token /\ a \in Accounts /\ t.target \in Addresses
    BY <1>1, ConsumedLeft, TokenFields DEF Inv
  <1>3. tokens' \subseteq Token /\ TokensSound' /\ ClaimsSound' /\ EmailsUnique' /\ ReservationHolds'
    BY <1>1, <1>2, TokensLeft, AddressesKept, Numbers DEF Inv, account
  <1>4. Twins'
    <2>1. \A u \in tokens : u.purpose = "cancel" => u \in tokens'
      BY <1>1 DEF Consumed
    <2> QED BY <1>1, <1>2, <2>1, TwinsLeft DEF Twin, account
  <1>5. \/ UNCHANGED taking
        \/ taking' = [taking EXCEPT ![a] = [to |-> t.target, seen |-> issued]] /\ ~Reserved(t.target, a)
    BY DEF Confirm
  <1>6. taking' \in [Accounts -> Taking] /\ AccountsSound' /\ TakingSound'
    <2>1. CASE UNCHANGED taking
      BY <1>1, <1>2, <2>1, AddressesKept, Numbers DEF Inv, TypeOK, AccountsSound, Exists, account
    <2>2. CASE taking' = [taking EXCEPT ![a] = [to |-> t.target, seen |-> issued]] /\ ~Reserved(t.target, a)
      <3>1. [to |-> t.target, seen |-> issued] \in Taking
        BY <1>2 DEF Inv, TypeOK, Taking
      <3>2. /\ taking' \in [Accounts -> Taking] /\ taking'[a].to = t.target /\ taking'[a].seen = issued
            /\ \A b \in Accounts \ {a} : taking'[b] = taking[b]
        BY <1>2, <2>2, <3>1 DEF Inv, TypeOK
      <3>3. AccountsSound'
        BY <1>1, <1>2, <3>2 DEF Inv, AccountsSound, Exists, account, TypeOK
      <3>4. \A u \in tokens' : Live(u)' => u \in tokens /\ Live(u)
        BY <1>1, <1>2 DEF Left, Live
      <3>5. TakingSound'
        BY <2>2, <3>2, <3>4 DEF Inv, TakingSound, Against, Reserved
      <3> QED BY <3>2, <3>3, <3>5
    <2> QED BY <1>5, <2>1, <2>2
  <1>7. TypeOK'
    BY <1>1, <1>3, <1>6 DEF Inv, TypeOK, account
  <1> QED BY <1>1, <1>3, <1>4, <1>6, <1>7, JobsKept DEF Inv

LEMMA MoveAddressInv == ASSUME Inv, NEW a \in Movers, MoveAddress(a) PROVE Inv'
  <1>1. /\ a \in Accounts /\ Exists(a) /\ taking[a] # Idle /\ taking' = [taking EXCEPT ![a] = Idle]
        /\ UNCHANGED <<verified, disabled, issued, expired, jobs, mailed, void>>
    BY EmailAssumption DEF EmailAssumption, MoveAddress
  <1>2. Idle \in Taking
    BY Numbers DEF Inv, Idle, Taking
  <1>3. taking' \in [Accounts -> Taking] /\ taking'[a] = Idle /\ \A b \in Accounts \ {a} : taking'[b] = taking[b]
    BY <1>1, <1>2 DEF Inv, TypeOK
  <1>4. Left
    BY DEF MoveAddress, Left
  <1>5. tokens' \subseteq Token /\ TokensSound' /\ ClaimsSound'
    BY <1>1, <1>4, TokensLeft, Numbers DEF Inv
  <1>6. TakingSound'
    <2>1. \A u \in tokens' : Live(u)' => u \in tokens /\ Live(u)
      BY <1>1, <1>4 DEF Left, Live
    <2> QED BY <1>3, <2>1 DEF Inv, TakingSound, Against
  <1>7. CASE Held(taking[a].to, a)
    <2>1. UNCHANGED <<email, pending, tokens, seen>>
      BY <1>7 DEF MoveAddress
    <2>2. TypeOK'
      BY <1>1, <1>3, <2>1 DEF Inv, TypeOK
    <2>3. EmailsUnique' /\ ReservationHolds' /\ AccountsSound'
      BY <1>1, <1>3, <2>1 DEF Inv, EmailsUnique, ReservationHolds, AccountsSound, Exists, Live
    <2>4. Twins'
      BY <1>1, <2>1 DEF Inv, Twins, Twin, Live, Unused
    <2> QED BY <1>1, <1>5, <1>6, <2>2, <2>3, <2>4, JobsKept DEF Inv
  <1>8. CASE ~Held(taking[a].to, a)
    <2>1. /\ email' = [email EXCEPT ![a] = taking[a].to] /\ pending' = [pending EXCEPT ![a] = NoAddress]
          /\ seen' = [seen EXCEPT ![a] = taking[a].seen] /\ tokens' = tokens \ Confirmations(a)
      BY <1>8 DEF MoveAddress
    <2>2. PICK e \in Addresses : e = taking[a].to
      BY <1>1 DEF Inv, AccountsSound
    <2>3. PICK n \in 0 .. MaxIssued : n = taking[a].seen /\ n <= issued
      BY <1>1 DEF Inv, TypeOK, Taking, AccountsSound
    <2>4. TypeOK'
      BY <1>1, <1>3, <1>5, <2>1, <2>2, <2>3 DEF Inv, TypeOK
    <2>5. \A t \in tokens : Against(t, a) /\ t.target = e => n < t.id
      BY <1>1, <2>2, <2>3 DEF Inv, TakingSound
    <2>6. EmailsUnique' /\ ReservationHolds'
      BY <1>1, <1>4, <1>8, <2>1, <2>2, <2>3, <2>5, AddressTaken
    <2>7. AccountsSound'
      BY <1>1, <1>3, <2>1, <2>2, <2>3, EmailAssumption DEF EmailAssumption, Inv, AccountsSound, Exists, TypeOK
    <2>8. Twins'
      <3>1. \A c \in tokens' : c.purpose = "change" /\ Live(c)' => c \in tokens /\ Live(c) /\ c.account # a
        BY <1>1, <2>1 DEF Confirmations, Live, Unused
      <3>2. \A c \in tokens : c.account # a => email'[c.account] = email[c.account]
        BY <2>1, TokenFields DEF Inv, TypeOK
      <3>3. \A c \in tokens : \A t \in Twin(c) : t \in tokens'
        BY <2>1 DEF Twin, Confirmations
      <3> QED BY <1>1, <3>1, <3>2, <3>3, TwinsKept
    <2> QED BY <1>1, <1>5, <1>6, <2>4, <2>6, <2>7, <2>8, JobsKept DEF Inv
  <1> QED BY <1>7, <1>8

LEMMA CancelInv == ASSUME Inv, NEW t \in tokens, Cancel(t) PROVE Inv'
  <1> DEFINE a == t.account
             back == t.target # email[a] /\ ~Held(t.target, a)
  <1>1. /\ t.purpose = "cancel" /\ Live(t) /\ Exists(a) /\ tokens' \subseteq Consumed(t)
        /\ UNCHANGED <<verified, disabled, issued, expired, jobs, taking, mailed>>
    BY DEF Cancel, Free
  <1>2. /\ Left /\ t \in Token /\ a \in Accounts /\ t.target \in Addresses /\ t.id \in 1 .. MaxIssued
        /\ t.claim \in 0 .. MaxIssued /\ t.claim <= issued
    <2>1. t \in Token /\ a \in Accounts /\ t.target \in Addresses /\ t.id \in 1 .. MaxIssued /\ t.claim \in 0 .. MaxIssued
      BY TokenFields DEF Inv
    <2> QED BY <1>1, <2>1, ConsumedLeft, Numbers DEF Inv, TokensSound, TokenSound
  <1>3. tokens' \subseteq Token /\ TokensSound' /\ ClaimsSound'
    BY <1>1, <1>2, TokensLeft, Numbers DEF Inv
  <1>4. \A u \in tokens' : Live(u)' => u \in tokens /\ Live(u)
    BY <1>1, <1>2 DEF Left, Live
  <1>5. TakingSound'
    BY <1>1, <1>4 DEF Inv, TakingSound, Against
  <1>6. CASE disabled[a]
    <2>1. tokens' = Consumed(t) /\ void' = void \cup {t.id} /\ UNCHANGED <<email, pending, seen>>
      BY <1>6 DEF Cancel
    <2>2. TypeOK' /\ AccountsSound'
      BY <1>1, <1>2, <1>3, <2>1 DEF Inv, TypeOK, AccountsSound, Exists
    <2>3. EmailsUnique' /\ ReservationHolds'
      BY <1>1, <1>2, <2>1, AddressesKept, Numbers DEF Inv
    <2>4. Twins'
      <3>1. \A u \in tokens \ {t} : u \in tokens'
        BY <2>1 DEF Consumed
      <3>2. \A c \in tokens : c.id \notin void' => t \notin Twin(c)
        BY <2>1 DEF Twin
      <3> QED BY <1>1, <1>2, <2>1, <3>1, <3>2, TwinsLeft DEF Left, Twin, Live
    <2> QED BY <1>1, <1>3, <1>5, <2>2, <2>3, <2>4, JobsKept DEF Inv
  <1>7. CASE ~disabled[a]
    <2>1. /\ tokens' = Consumed(t) \ Undone(t) /\ pending' = [pending EXCEPT ![a] = NoAddress]
          /\ email' = IF back THEN [email EXCEPT ![a] = t.target] ELSE email
          /\ seen' = IF back THEN [seen EXCEPT ![a] = t.claim] ELSE seen
          /\ UNCHANGED void
      BY <1>7 DEF Cancel
    <2>2. TypeOK'
      BY <1>1, <1>2, <1>3, <2>1 DEF Inv, TypeOK
    <2>3. AccountsSound'
      BY <1>1, <1>2, <2>1, EmailAssumption DEF EmailAssumption, Inv, AccountsSound, Exists, TypeOK
    <2>4. EmailsUnique' /\ ReservationHolds'
      <3>1. CASE back
        <4>1. \A u \in tokens : Against(u, a) /\ u.target = t.target => t.claim < u.id
          BY <1>1 DEF Inv, ClaimsSound
        <4> QED BY <1>1, <1>2, <2>1, <3>1, <4>1, AddressTaken
      <3>2. CASE ~back
        BY <1>1, <1>2, <2>1, <3>2, AddressesKept, Numbers DEF Inv
      <3> QED BY <3>1, <3>2
    <2>5. Twins'
      <3>1. \A c \in tokens' : c.purpose = "change" /\ Live(c)' => c \in tokens /\ Live(c) /\ c.account # a
        BY <1>4, <2>1 DEF Undone, Confirmations, Live, Unused
      <3>2. \A c \in tokens : c.account # a => email'[c.account] = email[c.account]
        BY <2>1, TokenFields DEF Inv, TypeOK
      <3>3. \A u \in tokens : u.account # a => u \in tokens'
        BY <2>1 DEF Consumed, Undone, Confirmations
      <3>4. \A c \in tokens : c.account # a => \A u \in Twin(c) : u \in tokens'
        BY <3>3 DEF Twin
      <3> QED BY <2>1, <3>1, <3>2, <3>4, TwinsKept
    <2> QED BY <1>1, <1>3, <1>5, <2>2, <2>3, <2>4, <2>5, JobsKept DEF Inv
  <1> QED BY <1>6, <1>7

-----------------------------------------------------------------------------
\* The tokens of one job: the link, which nobody's claim is older than, and the confirmation beside it.
LEMMA IssueTokensInv == ASSUME Inv, NEW j \in Jobs, IssueTokens(j) PROVE Inv'
  <1> DEFINE a == jobs[j].account
  <1>1. /\ jobs[j].stage = "read" /\ issued < MaxIssued
        /\ UNCHANGED <<account, expired, taking, mailed, seen, void>>
    BY DEF IssueTokens
  <1>2. a \in Accounts /\ jobs[j].to \in Addresses
    BY <1>1, JobFields DEF Inv, JobsSound, JobSound
  <1>3. CASE disabled[a] \/ ~verified[a] \/ pending[a] = NoAddress
    <2>1. Emptied(j, "idle") /\ UNCHANGED <<tokens, issued>>
      BY <1>3 DEF IssueTokens
    <2>2. jobs' \in [Jobs -> Job] /\ JobsSound'
      BY <1>1, <2>1, EmptiedSound
    <2>3. NoticeMailed'
      BY <1>1 DEF Inv, NoticeMailed
    <2> QED BY <1>1, <2>1, <2>2, <2>3, JobStep DEF Inv, TypeOK
  <1>4. CASE ~(disabled[a] \/ ~verified[a] \/ pending[a] = NoAddress)
    <2> DEFINE k == NewToken(a, "cancel", email[a])
               new == {NewToken(a, "change", e) : e \in {pending[a]} \cap Mailable(a)}
    <2>1. /\ tokens' = (IssuedCancel(a) \ Confirmations(a)) \cup new /\ issued' = issued + 1
          /\ jobs' = [jobs EXCEPT ![j] = [@ EXCEPT !.stage = "notice", !.issue = issued + 1,
                                                   !.next = IF pending[a] \in Mailable(a) THEN pending[a] ELSE NoAddress]]
      BY <1>4 DEF IssueTokens
    <2>2. verified[a] /\ email[a] \in Addresses /\ email[a] # NoAddress /\ seen[a] \in 0 .. MaxIssued /\ seen[a] <= issued
      BY <1>2, <1>4 DEF Inv, TypeOK, AccountsSound, Exists
    <2>3. issued + 1 \in 1 .. MaxIssued /\ issued \in Int /\ expired <= issued
      BY <1>1, Numbers DEF Inv, TypeOK
    <2>4. \A p \in Purposes, e \in Addresses :
             LET t == NewToken(a, p, e) IN
             /\ t \in Token /\ t.id = issued + 1 /\ t.purpose = p /\ t.account = a /\ t.target = e /\ ~t.used
             /\ t.claim = seen[a]
      BY <1>2, <2>2, <2>3 DEF NewToken, Token
    <2>5. /\ k \in Token /\ k.id = issued + 1 /\ k.purpose = "cancel" /\ k.account = a /\ k.target = email[a] /\ ~k.used
          /\ k.claim = seen[a]
      BY <2>2, <2>4 DEF Purposes
    <2>6. \A t \in new : /\ t \in Token /\ t.id = issued + 1 /\ t.purpose = "change" /\ t.account = a /\ ~t.used
                         /\ t.claim = seen[a]
      BY <2>4 DEF Purposes, Mailable
    <2> HIDE DEF new
    <2>7. k \in tokens'
      BY <2>1, <2>5 DEF IssuedCancel, Confirmations
    <2>8. \A t \in tokens' : t \in tokens \/ t = k \/ t \in new
      BY <2>1 DEF IssuedCancel
    <2>9. \A t \in tokens : t \in Token /\ TokenSound(t) /\ t.id <= issued /\ t.claim <= issued /\ t.account \in Accounts
                            /\ t.target \in Addresses
      BY TokenFields, Numbers DEF Inv, TokensSound, TokenSound
    <2> HIDE DEF k
    <2>10. \A t \in tokens' : Live(t)' => (t \in tokens /\ Live(t)) \/ t = k \/ t \in new
      BY <1>1, <2>8 DEF Live
    <2>11. tokens' \subseteq Token /\ TokensSound'
      <3>1. \A t \in tokens' : t \in Token
        BY <2>5, <2>6, <2>8, <2>9
      <3>2. ASSUME NEW t \in tokens' PROVE TokenSound(t)'
        <4>1. CASE t \in tokens
          BY <1>1, <2>1, <2>3, <2>9, <4>1, TokenFields DEF TokenSound, account, Inv
        <4>2. CASE t = k \/ t \in new
          BY <1>1, <2>1, <2>2, <2>3, <2>5, <2>6, <4>2 DEF TokenSound, account
        <4> QED BY <2>8, <4>1, <4>2
      <3> QED BY <3>1, <3>2 DEF TokensSound
    <2>12. EmailsUnique' /\ AccountsSound'
      <3>1. \A b \in Accounts : seen[b] <= issued => seen[b] <= issued'
        BY <2>1, <2>3, Numbers DEF Inv
      <3>2. \A b \in Accounts : taking[b].seen <= issued => taking[b].seen <= issued'
        BY <2>1, <2>3, Numbers DEF Inv
      <3> QED BY <1>1, <3>1, <3>2 DEF Inv, EmailsUnique, AccountsSound, Exists, account
    <2>13. ReservationHolds'
      <3> SUFFICES ASSUME NEW t \in tokens', NEW b \in Accounts, t.purpose = "cancel", Live(t)', t.target # email[t.account],
                          b # t.account, email[b] = t.target
                   PROVE  seen[b] < t.id
        BY <1>1 DEF ReservationHolds, account
      <3>1. t # k /\ t \notin new
        BY <2>5, <2>6
      <3> QED BY <2>10, <3>1 DEF Inv, ReservationHolds
    <2>14. TakingSound'
      <3> SUFFICES ASSUME NEW t \in tokens', NEW b \in Accounts, t.purpose = "cancel", Live(t)', t.account # b, taking[b] # Idle,
                          t.target = taking[b].to
                   PROVE  taking[b].seen < t.id
        BY <1>1 DEF TakingSound, Against
      <3>1. CASE t \in tokens /\ Live(t)
        BY <3>1 DEF Inv, TakingSound, Against
      <3>2. CASE t = k
        BY <2>3, <2>5, <3>2, Numbers DEF Inv, AccountsSound
      <3> QED BY <2>6, <2>10, <3>1, <3>2
    <2>15. ClaimsSound'
      <3> SUFFICES ASSUME NEW t \in tokens', NEW u \in tokens', t.purpose = "cancel", Live(t)', t.account # u.account,
                          u.purpose = "cancel", Live(u)', u.target = t.target
                   PROVE  u.claim < t.id
        BY DEF ClaimsSound, Against
      <3>1. CASE t \in tokens /\ Live(t) /\ u \in tokens /\ Live(u)
        BY <3>1 DEF Inv, ClaimsSound, Against
      <3>2. CASE t = k /\ u \in tokens
        BY <2>3, <2>5, <2>9, <3>2, TokenFields DEF Inv
      <3>3. CASE t \in tokens /\ Live(t) /\ u = k
        <4>1. t.account # a /\ email[a] = t.target /\ t.account \in Accounts
          BY <2>5, <2>9, <3>3
        <4>2. t.target # email[t.account]
          BY <1>2, <2>2, <4>1 DEF Inv, EmailsUnique
        <4> QED BY <1>2, <2>5, <3>3, <4>1, <4>2 DEF Inv, ReservationHolds
      <3> QED BY <2>5, <2>6, <2>10, <3>1, <3>2, <3>3
    <2>16. Twins'
      <3> SUFFICES ASSUME NEW c \in tokens', c.purpose = "change", Live(c)', c.id \notin void
                   PROVE  \E t \in Twin(c)' : Unused(t) /\ t.target = email[c.account]
        BY <1>1 DEF Twins, Twin, Unused, account
      <3>1. CASE c \in new
        <4>1. k \in Twin(c)' /\ Unused(k) /\ k.target = email[c.account]
          BY <2>5, <2>6, <2>7, <3>1 DEF Twin, Unused
        <4> QED BY <4>1
      <3>2. CASE c \in tokens /\ Live(c) /\ c \notin new
        <4>1. c.account # a
          <5>1. c \notin Confirmations(a)
            BY <2>1, <3>2
          <5> QED BY <3>2, <5>1 DEF Confirmations, Live, Unused
        <4>2. PICK t \in Twin(c) : Unused(t) /\ t.target = email[c.account]
          BY <3>2 DEF Inv, Twins
        <4>3. t \in tokens' /\ t \in Twin(c)'
          BY <2>1, <4>1 DEF Twin, IssuedCancel, Confirmations
        <4> QED BY <4>2, <4>3
      <3> QED BY <2>5, <2>10, <3>1, <3>2
    <2>17. jobs' \in [Jobs -> Job] /\ JobsSound'
      <3>1. PICK r \in Job : r = jobs[j]
        BY JobFields DEF Inv
      <3>2. PICK e \in Addresses \cup {NoAddress} : e = (IF pending[a] \in Mailable(a) THEN pending[a] ELSE NoAddress)
        BY DEF Mailable
      <3>3. PICK n \in 1 .. MaxIssued : n = issued + 1
        BY <2>3
      <3>4. n \in 0 .. MaxIssued
        BY Numbers DEF Inv
      <3>5. PICK q \in Job : q = [r EXCEPT !.stage = "notice", !.issue = n, !.next = e]
        BY <3>4 DEF Job, Stages
      <3>6. q.stage = "notice" /\ q.issue = n /\ q.to = r.to
        BY <3>5 DEF Job
      <3>7. jobs' = [jobs EXCEPT ![j] = q]
        BY <2>1, <3>1, <3>2, <3>3, <3>5
      <3>8. JobSound(q)'
        BY <1>2, <3>1, <3>6 DEF JobSound
      <3> QED BY <1>1, <3>7, <3>8, JobPut
    <2>18. NoticeMailed'
      BY <1>1 DEF Inv, NoticeMailed
    <2>19. TypeOK'
      <3>1. issued' \in 0 .. MaxIssued /\ expired' \in 0 .. issued'
        BY <1>1, <2>1, <2>3 DEF Inv, TypeOK
      <3> QED BY <1>1, <2>11, <2>17, <3>1 DEF Inv, TypeOK, account
    <2> QED BY <2>11, <2>12, <2>13, <2>14, <2>15, <2>16, <2>17, <2>18, <2>19 DEF Inv
  <1> QED BY <1>3, <1>4

-----------------------------------------------------------------------------
LEMMA InitInv == Init => Inv
  <1> SUFFICES ASSUME Init PROVE Inv
    OBVIOUS
  <1>1. MaxIssued \in Nat /\ Idle \in Taking /\ (CHOOSE b \in Accounts : TRUE) \in Accounts
    BY EmailAssumption DEF EmailAssumption, Idle, Taking
  <1>2. jobs \in [Jobs -> Job] /\ \A j \in Jobs : jobs[j].stage = "idle"
    BY <1>1 DEF Init, Job, Stages
  <1>3. TypeOK
    BY <1>1, <1>2, EmailAssumption DEF EmailAssumption, Init, TypeOK
  <1>4. EmailsUnique
    BY EmailAssumption DEF EmailAssumption, Init, EmailsUnique
  <1>5. AccountsSound
    BY <1>1 DEF Init, AccountsSound, Exists
  <1>6. JobsSound
    BY <1>2 DEF JobsSound, JobSound
  <1>7. TokensSound /\ Twins /\ NoticeMailed /\ ReservationHolds /\ TakingSound /\ ClaimsSound
    BY DEF Init, TokensSound, Twins, NoticeMailed, ReservationHolds, TakingSound, ClaimsSound
  <1> QED BY <1>3, <1>4, <1>5, <1>6, <1>7 DEF Inv

LEMMA StepInv == ASSUME Inv, [Next]_vars PROVE Inv'
  <1>1. CASE Next
    <2>1. ASSUME NEW a \in Accounts, NEW e \in Addresses, CheckRegistration(a, e) PROVE Inv'
      BY <2>1, CheckRegistrationInv
    <2>2. ASSUME NEW a \in Accounts, NEW proven \in Proven, InsertAccount(a, proven) PROVE Inv'
      BY <2>2, InsertAccountInv
    <2>3. ASSUME NEW a \in Movers, NEW e \in Addresses, Request(a, e) PROVE Inv'
      BY <2>3, RequestInv
    <2>4. ASSUME NEW a \in Movers, Clear(a) \/ MoveAddress(a) \/ MarkVerified(a) \/ SetDisabled(a) PROVE Inv'
      BY <2>4, ClearInv, MoveAddressInv, MarkVerifiedInv, SetDisabledInv
    <2>5. ASSUME NEW j \in Jobs, ReadProfile(j) \/ IssueTokens(j) \/ SendNotice(j) \/ SendConfirmation(j) \/ FailAttempt(j)
          PROVE  Inv'
      BY <2>5, ReadProfileInv, IssueTokensInv, SendNoticeInv, SendConfirmationInv, FailAttemptInv
    <2>6. ASSUME NEW t \in tokens, Confirm(t) \/ Cancel(t) PROVE Inv'
      BY <2>6, ConfirmInv, CancelInv
    <2>7. ASSUME NEW n \in 1 .. expired, Purge(n) PROVE Inv'
      BY <2>7, PurgeInv
    <2> QED BY <1>1, <2>1, <2>2, <2>3, <2>4, <2>5, <2>6, <2>7, ExpireInv DEF Next
  <1>2. CASE UNCHANGED vars
    <2>1. NoticeMailed' /\ JobsSound'
      BY <1>2, JobsKept DEF vars
    <2> QED BY <1>2, <2>1, JobStep DEF vars, Inv, TypeOK
  <1> QED BY <1>1, <1>2

LEMMA Invariant == Spec => []Inv
  BY InitInv, StepInv, PTL DEF Spec

(***************************************************************************)
(* Every reachable state is of the types its variables were given.         *)
(* (accounts and credential_tokens)                                        *)
(***************************************************************************)
THEOREM TypesKept == Spec => []TypeOK
  <1>1. Inv => TypeOK
    BY DEF Inv
  <1> QED BY <1>1, Invariant, PTL

(***************************************************************************)
(* A confirmation link that works was mailed after the notice that can     *)
(* undo it, to whom the link of the notice still works for the address the *)
(* account holds: no retried job, new request, withdrawal or redemption    *)
(* parts the two.  (mail-send.ts, sys_email_change_token_issue and         *)
(* _cancel)                                                                *)
(***************************************************************************)
THEOREM NoticeComesFirst == Spec => []NoticeFirst
  <1>1. Inv => NoticeFirst
    <2> SUFFICES ASSUME Inv, NEW c \in tokens, c.purpose = "change", Live(c), Mailed(c), c.id \notin void
                 PROVE  \E t \in Twin(c) : Unused(t) /\ Mailed(t) /\ t.target = email[c.account]
      BY DEF NoticeFirst
    <2>1. PICK t \in Twin(c) : Unused(t) /\ t.target = email[c.account]
      BY DEF Inv, Twins
    <2>2. \E f \in Addresses : <<"cancel", c.id, f>> \in mailed
      BY TokenFields DEF Mailed, Inv, NoticeMailed
    <2>3. Mailed(t)
      BY <2>2 DEF Twin, Mailed
    <2> QED BY <2>1, <2>3
  <1> QED BY <1>1, Invariant, PTL

(***************************************************************************)
(* The address that a working link would put back is held by nobody who    *)
(* had not looked whether it was free before the link was issued: however  *)
(* many accounts move, register and put addresses back at once.            *)
(* (sys_create_account, sys_email_change_confirm, sys_email_change_cancel) *)
(***************************************************************************)
THEOREM AddressesStayReserved == Spec => []ReservationHolds
  <1>1. Inv => ReservationHolds
    BY DEF Inv
  <1> QED BY <1>1, Invariant, PTL

-----------------------------------------------------------------------------
\* What LinkOutlives says of one link.
GoesOn(t) ==
    \/ t \in tokens'
    \/ \E u \in tokens : /\ u.account = t.account /\ u.purpose = "cancel" /\ u.id <= t.id
                         /\ Live(u) /\ [u EXCEPT !.used = TRUE] \in tokens'

LEMMA StepKeepsLinks ==
    ASSUME Inv, Next, NEW t \in tokens, t.purpose = "cancel", Live(t), t.target # email[t.account]
    PROVE  GoesOn(t)
  <1>1. ASSUME tokens' = tokens PROVE GoesOn(t)
    BY <1>1 DEF GoesOn
  <1>2. ASSUME NEW a \in Accounts, NEW e \in Addresses, CheckRegistration(a, e) PROVE tokens' = tokens
    BY <1>2 DEF CheckRegistration
  <1>3. ASSUME NEW a \in Accounts, NEW proven \in Proven, InsertAccount(a, proven) PROVE tokens' = tokens
    BY <1>3 DEF InsertAccount
  <1>4. ASSUME NEW a \in Movers, NEW e \in Addresses, Request(a, e) PROVE GoesOn(t)
    BY <1>4 DEF Request, Withdrawn, GoesOn
  <1>5. ASSUME NEW a \in Movers, Clear(a) PROVE GoesOn(t)
    BY <1>5 DEF Clear, Withdrawn, GoesOn
  <1>6. ASSUME NEW a \in Movers, MoveAddress(a) PROVE GoesOn(t)
    BY <1>6 DEF MoveAddress, Confirmations, GoesOn
  <1>7. ASSUME NEW a \in Movers, MarkVerified(a) PROVE GoesOn(t)
    BY <1>7 DEF MarkVerified, Inv, TokensSound, TokenSound, GoesOn
  <1>8. ASSUME NEW a \in Movers, SetDisabled(a) PROVE tokens' = tokens
    BY <1>8 DEF SetDisabled
  <1>9. ASSUME NEW j \in Jobs, ReadProfile(j) \/ SendNotice(j) \/ SendConfirmation(j) \/ FailAttempt(j) PROVE tokens' = tokens
    BY <1>9 DEF ReadProfile, SendNotice, SendConfirmation, FailAttempt
  <1>10. ASSUME NEW j \in Jobs, IssueTokens(j) PROVE GoesOn(t)
    <2>1. CASE UNCHANGED tokens
      BY <1>1, <2>1
    <2>2. CASE IssuedCancel(jobs[j].account) \ Confirmations(jobs[j].account) \subseteq tokens'
      BY <2>2 DEF IssuedCancel, Confirmations, GoesOn
    <2> QED BY <1>10, <2>1, <2>2 DEF IssueTokens
  <1>11. ASSUME NEW c \in tokens, Confirm(c) PROVE GoesOn(t)
    BY <1>11 DEF Confirm, Consumed, GoesOn
  <1>12. ASSUME NEW c \in tokens, Cancel(c) PROVE GoesOn(t)
    <2>1. c.purpose = "cancel" /\ Live(c) /\ (tokens' = Consumed(c) \/ tokens' = Consumed(c) \ Undone(c))
      BY <1>12 DEF Cancel
    <2>2. PICK r \in Token : r = [c EXCEPT !.used = TRUE] /\ r.used
      BY TokenFields, UsedFields DEF Inv
    <2>3. r \in tokens'
      BY <2>1, <2>2 DEF Consumed, Undone, Confirmations, Unused
    <2>4. CASE t = c
      <3>1. t.id <= t.id
        BY TokenFields DEF Inv
      <3> QED BY <2>1, <2>2, <2>3, <2>4, <3>1 DEF GoesOn
    <2>5. CASE t # c /\ t \in Undone(c)
      <3>1. t.account = c.account /\ t.id > c.id
        BY <2>5 DEF Undone, Confirmations
      <3>2. c.id <= t.id
        BY <3>1, TokenFields DEF Inv
      <3> QED BY <2>1, <2>2, <2>3, <3>1, <3>2 DEF GoesOn
    <2>6. CASE t # c /\ t \notin Undone(c)
      BY <2>1, <2>6 DEF Consumed, GoesOn
    <2> QED BY <2>4, <2>5, <2>6
  <1>13. ASSUME Expire PROVE tokens' = tokens
    BY <1>13 DEF Expire
  <1>14. ASSUME NEW n \in 1 .. expired, Purge(n) PROVE GoesOn(t)
    <2>1. t.id > n
      BY TokenFields, Numbers DEF Inv, Live
    <2> QED BY <1>14, <2>1 DEF Purge, GoesOn
  <1> QED BY <1>1, <1>2, <1>3, <1>4, <1>5, <1>6, <1>7, <1>8, <1>9, <1>10, <1>11, <1>12, <1>13, <1>14 DEF Next

(***************************************************************************)
(* A link to an address that its account has left works until it expires   *)
(* or is redeemed, or an older one of the account is: neither requests and *)
(* withdrawals nor later changes, the links issued for them and their      *)
(* redemption end it.  (sys_email_change_request, _clear, _token_issue,    *)
(* _cancel)                                                                *)
(***************************************************************************)
THEOREM OlderLinksGoOn == Spec => LinkOutlives
  <1>1. ASSUME Inv, [Next]_vars
        PROVE  [\A t \in tokens :
                  /\ t.purpose = "cancel" /\ Live(t) /\ t.target # email[t.account]
                  => GoesOn(t)]_vars
    BY <1>1, StepKeepsLinks
  <1> QED BY <1>1, Invariant, PTL DEF Spec, LinkOutlives, GoesOn
=============================================================================
