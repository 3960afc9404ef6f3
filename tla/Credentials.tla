---------------------------- MODULE Credentials ----------------------------
(***************************************************************************)
(* The sessions, the password and the second factor of one account, used   *)
(* by requests that read, work for a while (an argon2id hash takes its     *)
(* time) and write what they decided from what they read.                  *)
(*                                                                         *)
(* The writes of a request are one transaction under the lock of the       *)
(* account's row and one step here, with two exceptions.  A password       *)
(* change dates itself, waits for nothing and deletes the other sessions   *)
(* afterwards; a session is dated, inserted and only then committed.  The  *)
(* time the two compare is counted in password changes begun: a date is    *)
(* the number of changes that had begun.                                   *)
(***************************************************************************)
EXTENDS Integers, FiniteSets

CONSTANTS
    Requests,       \* requests under way at one time (a bound)
    Kinds,          \* what requests are made
    MaxSessions,    \* sessions ever made (a bound)
    MaxChanges,     \* password changes ever begun (a bound)
    MaxSecrets,     \* enrolments ever started (a bound)
    MaxStep,        \* the last time step of the authenticator (a bound)
    MaxKey,         \* how often the key of the secret box is retired (a bound)
    MaxFailures,    \* c_max_failures, 5 in the code
    NoRequest

AllKinds == {"login", "change", "reset", "verify", "confirm", "regenerate", "disable", "reauth"}

ASSUME CredentialsAssumption ==
    /\ Kinds \subseteq AllKinds
    /\ NoRequest \notin Requests
    /\ MaxSessions \in Nat \ {0} /\ MaxChanges \in Nat /\ MaxSecrets \in Nat
    /\ MaxStep \in Nat \ {0} /\ MaxKey \in Nat /\ MaxFailures \in Nat \ {0}

VARIABLES
    changedAt,      \* accounts.password_changed_at
    begun,          \* the changes begun: the time
    locked,         \* the request that has the account's row locked between two of its steps
    factor,         \* mfa_secret as sealed (secret and key), mfa_enabled_at, mfa_last_step
    codes,          \* the unused backup codes, each the number of its set (one code stands for the ten)
    drawn,          \* secrets drawn so far
    key,            \* the current key of the secret box
    step,           \* the time step of the clock
    sessions,       \* the rows of sessions
    made,           \* sessions made so far
    requests,       \* what the requests under way have in hand
    \* what has happened, for the properties
    sets,           \* sets of backup codes made
    activations,    \* how often the factor was turned on
    proven,         \* the secret whose code the activating request had verified
    spent,          \* the codes accepted, each with the secret in force
    respent         \* the codes accepted a second time

secondFactor == <<factor, codes, drawn, key, step, sets, activations, proven, spent, respent>>
passwords == <<changedAt, begun, locked>>
vars == <<passwords, secondFactor, sessions, made, requests>>

Ids == 1 .. MaxSessions
NoBox == [secret |-> 0, key |-> 0]
Boxes == [secret : 0 .. MaxSecrets, key : 0 .. MaxKey]

Levels == {"none", "partial", "full"}
Session == [level : Levels,
            created : 0 .. MaxChanges,      \* created_at
            failures : 0 .. MaxFailures - 1, \* mfa_failures
            first : 0 .. MaxChanges,        \* created_at as it was at first, or when it last changed the password
            bare : BOOLEAN,                 \* made full by a password alone,
            epoch : Nat]                    \* after that many activations
NoSession == [level |-> "none", created |-> 0, failures |-> 0, first |-> 0, bare |-> FALSE, epoch |-> 0]

\* A request in hand; what it does not use is 0.
Request == [kind : AllKinds \cup {"idle"}, stage : {"", "checked", "levelled", "inserted", "begun", "revoked", "matched", "failed"},
            session : 0 .. MaxSessions, others : SUBSET Ids, level : Levels, date : 0 .. MaxChanges, epoch : Nat,
            box : Boxes, step : 0 .. MaxStep + 1, code : Nat]
Done == [kind |-> "idle", stage |-> "", session |-> 0, others |-> {}, level |-> "none", date |-> 0, epoch |-> 0,
         box |-> NoBox, step |-> 0, code |-> 0]

TypeOK ==
    /\ changedAt \in 0 .. begun
    /\ begun \in 0 .. MaxChanges
    /\ locked \in Requests \cup {NoRequest}
    /\ factor \in [box : Boxes, on : BOOLEAN, last : 0 .. MaxStep + 1]
    /\ codes \subseteq 1 .. sets
    /\ drawn \in 0 .. MaxSecrets
    /\ key \in 0 .. MaxKey
    /\ step \in 1 .. MaxStep
    /\ sessions \in [Ids -> Session]
    /\ made \in 0 .. MaxSessions
    /\ requests \in [Requests -> Request]
    /\ sets \in Nat /\ activations \in Nat
    /\ proven \in 0 .. MaxSecrets
    /\ respent \subseteq spent

-----------------------------------------------------------------------------
\* sys_session_lookup: a session made before the password was last changed is refused.
Usable(s) == sessions[s].level # "none" /\ sessions[s].created >= changedAt

Unlocked == locked = NoRequest

\* A session that a password change is about to delete or to renew is locked.
Free(s) == \A r \in Requests : requests[r].stage = "revoked" => s \notin requests[r].others \cup {requests[r].session}

Idle(r) == requests[r] = Done
Becomes(r, q) == requests' = [requests EXCEPT ![r] = q]
End(r) == Becomes(r, Done)
Enrolling == factor.box # NoBox /\ ~factor.on
LevelNow == IF factor.on THEN "partial" ELSE "full"

\* A session that goes on under a new token counts as created now.
Rotated(s) == [sessions EXCEPT ![s].created = begun]

-----------------------------------------------------------------------------
\* Sign-in: the password is looked up and verified, then the second factor is read, then the session is inserted.
LookUp(r) ==
    /\ "login" \in Kinds /\ Idle(r)
    /\ Becomes(r, [Done EXCEPT !.kind = "login", !.stage = "checked"])
    /\ UNCHANGED <<passwords, secondFactor, sessions, made>>

ReadLevel(r) ==
    /\ requests[r].kind = "login" /\ requests[r].stage = "checked"
    /\ Becomes(r, [requests[r] EXCEPT !.stage = "levelled", !.level = LevelNow])
    /\ UNCHANGED <<passwords, secondFactor, sessions, made>>

InsertAnyLevel(r) ==
    /\ requests[r].stage = "levelled"
    /\ made < MaxSessions
    /\ made' = made + 1
    /\ Becomes(r, [requests[r] EXCEPT !.stage = "inserted", !.session = made + 1,
                                      !.date = begun, !.epoch = activations])
    /\ UNCHANGED <<passwords, secondFactor, sessions>>

\* sys_session_create dates the session, and inserts it if its level still fits the account's second factor.
Insert(r) ==
    /\ requests[r].stage = "levelled"
    /\ made < MaxSessions
    /\ IF requests[r].level = LevelNow
       THEN /\ made' = made + 1
            /\ Becomes(r, [requests[r] EXCEPT !.stage = "inserted", !.session = made + 1,
                                              !.date = begun, !.epoch = activations])
       ELSE End(r) /\ UNCHANGED made
    /\ UNCHANGED <<passwords, secondFactor, sessions>>

\* A full session also writes the time of the sign-in to the account's row; a partial one waits only for
\* a reset, which holds the row against the foreign key.
CommitSession(r) ==
    LET q == requests[r] IN
    /\ q.stage = "inserted"
    /\ \A p \in Requests : p = locked => q.level = "partial" /\ requests[p].kind = "change"
    /\ sessions' = [sessions EXCEPT ![q.session] =
           [level |-> q.level, created |-> q.date, failures |-> 0, first |-> q.date,
            bare |-> q.level = "full", epoch |-> q.epoch]]
    /\ End(r)
    /\ UNCHANGED <<passwords, secondFactor, made>>

\* Sessions are revoked, signed out, replaced by a new sign-in, or expire; the link that undoes an email
\* change, and an admin who disables the account, end all of them.
EndSessions(gone) ==
    /\ gone # {} /\ \A s \in gone : sessions[s].level # "none" /\ Free(s)
    /\ sessions' = [s \in Ids |-> IF s \in gone THEN NoSession ELSE sessions[s]]
    /\ UNCHANGED <<passwords, secondFactor, made, requests>>

-----------------------------------------------------------------------------
\* A request made from a full session, whose password is checked against the one that was read.
AskChange(r, s) ==
    /\ "change" \in Kinds /\ Idle(r)
    /\ sessions[s].level = "full" /\ Usable(s)
    /\ Becomes(r, [Done EXCEPT !.kind = "change", !.stage = "checked", !.session = s])
    /\ UNCHANGED <<passwords, secondFactor, sessions, made>>

AskReset(r) ==
    /\ "reset" \in Kinds /\ Idle(r)
    /\ made < MaxSessions
    /\ made' = made + 1
    /\ Becomes(r, [Done EXCEPT !.kind = "reset", !.stage = "checked", !.session = made + 1])
    /\ UNCHANGED <<passwords, secondFactor, sessions>>

\* sys_password_set: the row is locked and the change is dated.
BeginChange(r) ==
    /\ requests[r].kind \in {"change", "reset"} /\ requests[r].stage = "checked"
    /\ Unlocked /\ begun < MaxChanges
    /\ begun' = begun + 1
    /\ locked' = r
    /\ Becomes(r, [requests[r] EXCEPT !.stage = "begun", !.date = begun + 1])
    /\ UNCHANGED <<changedAt, secondFactor, sessions, made>>

\* The session of the change goes on under a new token and every other one there is is deleted, once the
\* transaction commits; a change whose session has ended is rolled back.
RevokeOthers(r) ==
    LET q == requests[r] IN
    /\ q.kind = "change" /\ q.stage = "begun"
    /\ IF sessions[q.session].level = "full"
       THEN /\ Becomes(r, [q EXCEPT !.stage = "revoked",
                                        !.others = {s \in Ids \ {q.session} : sessions[s].level # "none"}])
            /\ UNCHANGED locked
       ELSE locked' = NoRequest /\ End(r)
    /\ UNCHANGED <<changedAt, begun, secondFactor, sessions, made>>

CommitChange(r) ==
    LET q == requests[r] IN
    /\ q.stage = "revoked"
    /\ changedAt' = q.date
    /\ sessions' = [s \in Ids |-> IF s \in q.others THEN NoSession
                                  ELSE IF s = q.session THEN [sessions[s] EXCEPT !.created = begun, !.first = begun]
                                  ELSE sessions[s]]
    /\ locked' = NoRequest
    /\ End(r)
    /\ UNCHANGED <<begun, secondFactor, made>>

\* A reset deletes every session and makes a new one, at the level the second factor calls for.
CommitReset(r) ==
    LET q == requests[r] IN
    /\ q.kind = "reset" /\ q.stage = "begun"
    /\ changedAt' = q.date
    /\ sessions' = [s \in Ids |-> IF s = q.session
                                  THEN [level |-> LevelNow, created |-> begun, failures |-> 0, first |-> begun,
                                        bare |-> ~factor.on, epoch |-> activations]
                                  ELSE NoSession]
    /\ locked' = NoRequest
    /\ End(r)
    /\ UNCHANGED <<begun, secondFactor, made>>

-----------------------------------------------------------------------------
\* startEnrollment: a new secret takes the place of a pending one, never of an active one.
StartEnrollment(s) ==
    /\ "confirm" \in Kinds
    /\ sessions[s].level = "full" /\ Usable(s)
    /\ Unlocked
    /\ ~factor.on /\ drawn < MaxSecrets
    /\ drawn' = drawn + 1
    /\ factor' = [box |-> [secret |-> drawn + 1, key |-> key], on |-> FALSE, last |-> 0]
    /\ UNCHANGED <<passwords, codes, key, step, sets, activations, proven, spent, respent, sessions, made, requests>>

\* The codes an authenticator shows are those of the current step and of its neighbours.
Window == {step - 1, step, step + 1} \ {0}

\* A code is verified against the secret that was read: for an enrolment, the pending one ...
ReadPending(r, s, t) ==
    /\ "confirm" \in Kinds /\ Idle(r)
    /\ sessions[s].level = "full" /\ Usable(s)
    /\ Enrolling /\ t \in Window
    /\ Becomes(r, [Done EXCEPT !.kind = "confirm", !.stage = "matched", !.session = s,
                                 !.box = factor.box, !.step = t])
    /\ UNCHANGED <<passwords, secondFactor, sessions, made>>

\* ... and otherwise that of the factor that is on, or the unused backup codes (matchingFactor).
ReadFactor(r, s, k, t, c) ==
    /\ k \in Kinds \cap {"verify", "regenerate", "disable", "reauth"} /\ Idle(r)
    /\ sessions[s].level = (IF k = "verify" THEN "partial" ELSE "full") /\ Usable(s)
    /\ factor.on
    /\ \/ t \in Window /\ c = 0
       \/ t = 0 /\ c \in codes /\ k \in {"verify", "disable"}
    /\ Becomes(r, [Done EXCEPT !.kind = k, !.stage = "matched", !.session = s,
                                 !.box = factor.box, !.step = t, !.code = c])
    /\ UNCHANGED <<passwords, secondFactor, sessions, made>>

\* A secret sealed under a retired key is sealed again, if it still is the one that was read; an
\* enrolment stops if it is not, the other requests go on.
Reseal(r) ==
    LET new == [requests[r].box EXCEPT !.key = key] IN
    /\ requests[r].stage = "matched" /\ requests[r].step # 0
    /\ requests[r].box.key # key
    /\ Unlocked
    /\ IF factor.box = requests[r].box
       THEN factor' = [factor EXCEPT !.box = new] /\ Becomes(r, [requests[r] EXCEPT !.box = new])
       ELSE /\ IF requests[r].kind = "confirm" THEN End(r) ELSE Becomes(r, [requests[r] EXCEPT !.box = new])
            /\ UNCHANGED factor
    /\ UNCHANGED <<passwords, codes, drawn, key, step, sets, activations, proven, spent, respent, sessions, made>>

ReadyToWrite(r, k) ==
    /\ requests[r].kind = k /\ requests[r].stage = "matched"
    /\ requests[r].step # 0 => requests[r].box.key = key
    /\ Unlocked

AcceptableAgain(q) ==
    IF q.step # 0 THEN factor.box # NoBox /\ factor.last <= q.step ELSE q.code \in codes

\* sys_mfa_accept_step, sys_backup_code_consume: a step newer than the last one, or an unused code.
Acceptable(q) ==
    IF q.step # 0 THEN factor.box # NoBox /\ factor.last < q.step ELSE q.code \in codes

\* What the acceptance leaves of the factor and of the codes, and what it spends.
AcceptedFactor(q) == IF q.step # 0 THEN [factor EXCEPT !.last = q.step] ELSE factor
AcceptedCodes(q) == codes \ {q.code}
Spend(q) ==
    LET code == IF q.step # 0 THEN <<factor.box.secret, q.step, 0>> ELSE <<0, 0, q.code>> IN
    /\ spent' = spent \cup {code}
    /\ respent' = respent \cup ({code} \cap spent)

ActivateWhatever(r) ==
    LET q == requests[r] IN
    /\ ReadyToWrite(r, "confirm")
    /\ IF Acceptable(q) /\ ~factor.on /\ sessions[q.session].level = "full"
       THEN /\ factor' = [AcceptedFactor(q) EXCEPT !.on = TRUE]
            /\ sets' = sets + 1
            /\ codes' = {sets + 1}
            /\ activations' = activations + 1
            /\ proven' = q.box.secret
            /\ sessions' = Rotated(q.session)
            /\ Spend(q)
       ELSE UNCHANGED <<factor, sets, codes, activations, proven, sessions, spent, respent>>
    /\ End(r)
    /\ UNCHANGED <<passwords, drawn, key, step, made>>

\* activateMfa: the step, the activation of the very secret that was verified, the codes and the session,
\* or nothing.
Activate(r) ==
    LET q == requests[r] IN
    /\ ReadyToWrite(r, "confirm")
    /\ IF Acceptable(q) /\ ~factor.on /\ factor.box = q.box /\ sessions[q.session].level = "full"
       THEN /\ factor' = [AcceptedFactor(q) EXCEPT !.on = TRUE]
            /\ sets' = sets + 1
            /\ codes' = {sets + 1}
            /\ activations' = activations + 1
            /\ proven' = q.box.secret
            /\ sessions' = Rotated(q.session)
            /\ Spend(q)
       ELSE UNCHANGED <<factor, sets, codes, activations, proven, sessions, spent, respent>>
    /\ End(r)
    /\ UNCHANGED <<passwords, drawn, key, step, made>>

PromotableAtAnyAge(s) == sessions[s].level = "partial" /\ factor.on

\* sys_session_promote: a partial session that the last password change has not outdated.
Promotable(s) == sessions[s].level = "partial" /\ factor.on /\ sessions[s].created >= changedAt

\* completeMfaSignIn: the code and the session, or nothing; a code that was used meanwhile is a failure to count.
CompleteSignIn(r) ==
    LET q == requests[r] IN
    /\ ReadyToWrite(r, "verify")
    /\ IF Acceptable(q) /\ Promotable(q.session)
       THEN /\ factor' = AcceptedFactor(q)
            /\ codes' = AcceptedCodes(q)
            /\ sessions' = [sessions EXCEPT ![q.session] =
                               [sessions[q.session] EXCEPT !.level = "full", !.created = begun, !.failures = 0]]
            /\ Spend(q)
            /\ End(r)
       ELSE /\ IF Acceptable(q) THEN End(r) ELSE Becomes(r, [requests[r] EXCEPT !.stage = "failed"])
            /\ UNCHANGED <<factor, codes, sessions, spent, respent>>
    /\ UNCHANGED <<passwords, drawn, key, step, sets, activations, proven, made>>

FailedOnceMore(s) ==
    IF sessions[s].level # "partial" THEN sessions
    ELSE IF sessions[s].failures + 1 > MaxFailures THEN [sessions EXCEPT ![s] = NoSession]
    ELSE [sessions EXCEPT ![s].failures = @ + 1]

\* sys_session_mfa_failure: the last failure a partial session is allowed deletes it.
Failed(s) ==
    IF sessions[s].level # "partial" THEN sessions
    ELSE IF sessions[s].failures + 1 >= MaxFailures THEN [sessions EXCEPT ![s] = NoSession]
    ELSE [sessions EXCEPT ![s].failures = @ + 1]

WrongCode(s) ==
    /\ "verify" \in Kinds
    /\ sessions[s].level = "partial" /\ Usable(s) /\ Free(s)
    /\ sessions' = Failed(s)
    /\ UNCHANGED <<passwords, secondFactor, made, requests>>

RecordFailure(r) ==
    /\ requests[r].stage = "failed" /\ Free(requests[r].session)
    /\ sessions' = Failed(requests[r].session)
    /\ End(r)
    /\ UNCHANGED <<passwords, secondFactor, made>>

\* regenerateBackupCodes
Regenerate(r) ==
    LET q == requests[r] IN
    /\ ReadyToWrite(r, "regenerate")
    /\ IF factor.on /\ Acceptable(q)
       THEN /\ factor' = AcceptedFactor(q)
            /\ sets' = sets + 1
            /\ codes' = {sets + 1}
            /\ Spend(q)
       ELSE UNCHANGED <<factor, sets, codes, spent, respent>>
    /\ End(r)
    /\ UNCHANGED <<passwords, drawn, key, step, activations, proven, sessions, made>>

\* The secret, the activation and the last step are forgotten.
FactorOff == [box |-> NoBox, on |-> FALSE, last |-> 0]

\* disableMfa
Disable(r) ==
    LET q == requests[r] IN
    /\ ReadyToWrite(r, "disable")
    /\ IF factor.on /\ Acceptable(q) /\ sessions[q.session].level = "full"
       THEN /\ factor' = FactorOff
            /\ codes' = {}
            /\ sessions' = Rotated(q.session)
            /\ Spend(q)
       ELSE UNCHANGED <<factor, codes, sessions, spent, respent>>
    /\ End(r)
    /\ UNCHANGED <<passwords, drawn, key, step, sets, activations, proven, made>>

\* reauthenticateWithStep: the step is accepted if the session is there to be marked.
Reauthenticate(r) ==
    LET q == requests[r] IN
    /\ ReadyToWrite(r, "reauth")
    /\ IF Acceptable(q) /\ sessions[q.session].level = "full"
       THEN factor' = AcceptedFactor(q) /\ Spend(q)
       ELSE UNCHANGED <<factor, spent, respent>>
    /\ End(r)
    /\ UNCHANGED <<passwords, codes, drawn, key, step, sets, activations, proven, sessions, made>>

\* sys_instance_reset_mfa: an instance admin turns the factor off and every session ends.
ResetFactor ==
    /\ "confirm" \in Kinds
    /\ Unlocked /\ factor.on
    /\ factor' = FactorOff
    /\ codes' = {}
    /\ sessions' = [s \in Ids |-> NoSession]
    /\ UNCHANGED <<passwords, drawn, key, step, sets, activations, proven, spent, respent, made, requests>>

Tick ==
    /\ factor.box # NoBox /\ step < MaxStep
    /\ step' = step + 1
    /\ UNCHANGED <<passwords, factor, codes, drawn, key, sets, activations, proven, spent, respent, sessions, made, requests>>

\* The operator brings in a new key for the secret box; the old one still opens what it sealed.
RetireKey ==
    /\ key < MaxKey
    /\ key' = key + 1
    /\ UNCHANGED <<passwords, factor, codes, drawn, step, sets, activations, proven, spent, respent, sessions, made, requests>>

\* The account has one full session and no second factor.
Init ==
    /\ changedAt = 0 /\ begun = 0 /\ locked = NoRequest
    /\ factor = FactorOff
    /\ codes = {} /\ drawn = 0 /\ key = 0 /\ step = 1
    /\ sets = 0 /\ activations = 0 /\ proven = 0 /\ spent = {} /\ respent = {}
    /\ sessions = [s \in Ids |-> IF s = 1 THEN [NoSession EXCEPT !.level = "full", !.bare = TRUE] ELSE NoSession]
    /\ made = 1
    /\ requests = [r \in Requests |-> Done]

Next ==
    \/ \E r \in Requests :
          \/ LookUp(r) \/ ReadLevel(r) \/ Insert(r) \/ CommitSession(r)
          \/ AskReset(r) \/ BeginChange(r) \/ RevokeOthers(r) \/ CommitChange(r) \/ CommitReset(r)
          \/ Reseal(r) \/ Activate(r) \/ CompleteSignIn(r) \/ RecordFailure(r)
          \/ Regenerate(r) \/ Disable(r) \/ Reauthenticate(r)
    \/ \E r \in Requests, s \in Ids :
          \/ AskChange(r, s)
          \/ \E t \in Window : ReadPending(r, s, t)
          \/ \E k \in Kinds, t \in Window \cup {0}, c \in codes \cup {0} : ReadFactor(r, s, k, t, c)
    \/ \E s \in Ids : StartEnrollment(s) \/ WrongCode(s)
    \/ \E gone \in SUBSET Ids : EndSessions(gone)
    \/ ResetFactor \/ Tick \/ RetireKey

Spec == Init /\ [][Next]_vars

-----------------------------------------------------------------------------
(***************************************************************************)
(* After a password change or reset, the only sessions that work are the   *)
(* one it was made from and those whose creation began after it had: not   *)
(* one that was being created meanwhile, and not one that a second factor  *)
(* completed or a new token renewed since.  (sys_session_lookup,           *)
(* sys_session_promote, sys_session_rotate, changePassword)                *)
(***************************************************************************)
OldSessionsEnd == \A s \in Ids : Usable(s) => sessions[s].first >= changedAt

(***************************************************************************)
(* The factor that is on has the secret whose code the request that turned *)
(* it on had verified, although another enrolment may have replaced the    *)
(* pending secret, and another request have sealed it again, since that    *)
(* request read it.  (confirmEnrollment, sys_mfa_set)                      *)
(***************************************************************************)
ActivatedIsVerified == factor.on => factor.box.secret = proven

(***************************************************************************)
(* A code of the authenticator, and a backup code, is accepted once while  *)
(* the secret is in force, whichever requests present it.                  *)
(* (sys_mfa_accept_step, sys_backup_code_consume)                          *)
(***************************************************************************)
CodeOnce == respent = {}

(***************************************************************************)
(* A session that a password alone made full is older than the factor that *)
(* is on: a sign-in that read that there was no factor does not make a     *)
(* full session after the factor was turned on.  (signIn,                  *)
(* sys_session_create)                                                     *)
(***************************************************************************)
LevelFits ==
    \A s \in Ids : sessions[s].level = "full" /\ sessions[s].bare /\ factor.on => sessions[s].epoch < activations
=============================================================================
