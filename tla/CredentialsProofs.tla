------------------------- MODULE CredentialsProofs -------------------------
(***************************************************************************)
(* Proofs about the sessions, the password and the second factor, for any  *)
(* number of requests, sessions, password changes, enrolments and time     *)
(* steps.                                                                  *)
(***************************************************************************)
EXTENDS Credentials, TLAPS

\* An enrolment has a secret that was drawn, and a factor that is on was one.
Drawn ==
    /\ factor.box = NoBox \/ factor.box.secret \in 1 .. drawn
    /\ factor.on => factor.box # NoBox

\* What was spent is no longer acceptable: a step that the secret in force has left behind, a code that is gone.
Worthless(e) ==
    \/ \E secret \in 1 .. drawn, t \in 1 .. MaxStep + 1 :
          e = <<secret, t, 0>> /\ (secret = factor.box.secret => t <= factor.last)
    \/ \E c \in 1 .. sets : e = <<0, 0, c>> /\ c \notin codes
AllWorthless == \A e \in spent : Worthless(e)

FactorInv == Drawn /\ AllWorthless /\ CodeOnce /\ ActivatedIsVerified

\* A session that counts is one that was made; only a code makes a partial one full, and nothing renews it before.
SessionsFit ==
    \A s \in Ids :
        /\ sessions[s].level # "none" => s <= made
        /\ sessions[s].epoch <= activations
        /\ sessions[s].level = "partial" => sessions[s].created = sessions[s].first /\ ~sessions[s].bare

SessionInv == SessionsFit /\ OldSessionsEnd /\ LevelFits

Making(q) == q.stage = "inserted" \/ q.kind = "reset"

\* What holds of q while it is what request r has in hand.
Sound(r, q) ==
    \* a code of the authenticator has the secret it is a code of, and these requests always present one
    /\ q.step # 0 => q.box.secret # 0
    /\ q.kind \in {"confirm", "reauth"} => q.step # 0
    /\ q.session <= made /\ q.date <= begun /\ q.epoch <= activations
    \* the row stays locked as long as the change lasts
    /\ q.stage \in {"begun", "revoked"} => locked = r
    \* a session that was inserted full is older than a factor turned on since
    /\ q.stage = "inserted" /\ q.level = "full" /\ factor.on => q.epoch < activations
    \* the session it makes is not there yet
    /\ Making(q) => q.session # 0 /\ sessions[q.session].level = "none"
    \* the change that deleted the other sessions leaves no full one behind
    /\ q.stage = "revoked" => \A s \in Ids : sessions[s].level = "full" => s \in q.others \cup {q.session}
    \* if the session it was made from still is full, it may go on under a new token
    /\ q.stage = "matched" =>
           \A s \in Ids : s = q.session /\ sessions[s].level = "full" => sessions[s].first >= changedAt

\* The session a request makes is no other request's.
Apart(r, q, p, other) == r # p /\ Making(q) => other.session # q.session

RequestInv ==
    /\ \A r \in Requests : Sound(r, requests[r])
    /\ \A r, p \in Requests : Apart(r, requests[r], p, requests[p])

Inv == TypeOK /\ FactorInv /\ SessionInv /\ RequestInv

-----------------------------------------------------------------------------
LEMMA Blank ==
    /\ Done \in Request /\ Done.kind = "idle" /\ Done.stage = "" /\ Done.session = 0 /\ Done.others = {}
    /\ Done.level = "none" /\ Done.date = 0 /\ Done.epoch = 0 /\ Done.box = NoBox /\ Done.step = 0 /\ Done.code = 0
  BY CredentialsAssumption DEF CredentialsAssumption, Done, Request, AllKinds, Levels, Boxes, NoBox

LEMMA BlankSession ==
    /\ NoSession \in Session /\ NoSession.level = "none" /\ NoSession.epoch = 0 /\ NoSession.created = 0
    /\ NoSession.first = 0 /\ NoSession.failures = 0
  BY CredentialsAssumption DEF CredentialsAssumption, NoSession, Session, Levels

\* The fields of what a request has in hand, and of a session.
LEMMA Fields ==
    ASSUME NEW q \in Request
    PROVE  /\ q.session \in 0 .. MaxSessions /\ q.others \subseteq Ids /\ q.level \in Levels
           /\ q.date \in 0 .. MaxChanges /\ q.epoch \in Nat /\ q.box \in Boxes /\ q.box.secret \in 0 .. MaxSecrets
           /\ q.step \in 0 .. MaxStep + 1 /\ q.code \in Nat
  BY DEF Request, Boxes

LEMMA SessionFields ==
    ASSUME TypeOK, NEW s \in Ids
    PROVE  /\ sessions[s] \in Session /\ sessions[s].level \in Levels /\ sessions[s].created \in 0 .. MaxChanges
           /\ sessions[s].failures \in 0 .. MaxFailures - 1 /\ sessions[s].first \in 0 .. MaxChanges
           /\ sessions[s].bare \in BOOLEAN /\ sessions[s].epoch \in Nat
  BY DEF TypeOK, Session

\* A request that has nothing in hand is sound in every state.
LEMMA DoneSound == ASSUME TypeOK, NEW r \in Requests PROVE Sound(r, Done)
  <1>1. made \in Nat /\ begun \in Nat /\ activations \in Nat
    BY CredentialsAssumption DEF CredentialsAssumption, TypeOK
  <1>2. 0 <= made /\ 0 <= begun /\ 0 <= activations
    BY <1>1
  <1> QED BY <1>2, Blank DEF Sound, Making

\* What the others have in hand stays as it is.
LEMMA Becoming ==
    ASSUME TypeOK, NEW r \in Requests, NEW q \in Request, Becomes(r, q)
    PROVE  /\ requests' \in [Requests -> Request] /\ requests'[r] = q
           /\ \A p \in Requests \ {r} : requests'[p] = requests[p]
  BY DEF TypeOK, Becomes

LEMMA Ending ==
    ASSUME TypeOK, NEW r \in Requests, End(r)
    PROVE  Becomes(r, Done)
  BY DEF End

\* The invariant on the requests follows from that on the one that moves and on the others in the new state.
LEMMA OneMoves ==
    ASSUME Inv, NEW r \in Requests, NEW q \in Request, Becomes(r, q),
           NEW held \in [Requests -> Request], held = requests,
           Sound(r, q)', \A p \in Requests \ {r} : Sound(p, held[p])',
           \A p \in Requests \ {r} : Apart(r, q, p, held[p]) /\ Apart(p, held[p], r, q)
    PROVE  RequestInv'
  <1>1. /\ requests' \in [Requests -> Request] /\ requests'[r] = q
        /\ \A p \in Requests \ {r} : requests'[p] = held[p]
    BY Becoming DEF Inv
  <1>2. \A p \in Requests : Sound(p, requests[p])'
    <2> SUFFICES ASSUME NEW p \in Requests PROVE Sound(p, requests[p])'
      OBVIOUS
    <2>1. CASE p = r
      BY <1>1, <2>1 DEF Sound
    <2>2. CASE p # r
      BY <1>1, <2>2 DEF Sound
    <2> QED BY <2>1, <2>2
  <1>3. \A p, o \in Requests : Apart(p, requests[p], o, requests[o])'
    BY <1>1 DEF Inv, RequestInv, Apart
  <1> QED BY <1>2, <1>3 DEF RequestInv

-----------------------------------------------------------------------------
(***************************************************************************)
(* The requests that read and decide: the factor, the sessions and the     *)
(* time of the last change stay as they are.                               *)
(***************************************************************************)
LEMMA Asked ==
    ASSUME Inv, NEW r \in Requests, NEW q \in Request, Becomes(r, q),
           UNCHANGED <<changedAt, secondFactor, sessions>>,
           made' \in made .. MaxSessions, begun' \in begun .. MaxChanges, locked' \in Requests \cup {NoRequest},
           locked' # locked => locked \in {r, NoRequest},
           Sound(r, q)',
           \A p \in Requests \ {r} : Apart(r, q, p, requests[p]) /\ Apart(p, requests[p], r, q)
    PROVE  Inv'
  <1>0. PICK held \in [Requests -> Request] : held = requests
    BY DEF Inv, TypeOK
  <1>1. TypeOK'
    <2>1. requests' \in [Requests -> Request]
      BY Becoming DEF Inv
    <2>2. changedAt' \in 0 .. begun' /\ begun' \in 0 .. MaxChanges /\ made' \in 0 .. MaxSessions
      BY CredentialsAssumption DEF CredentialsAssumption, Inv, TypeOK
    <2> QED BY <2>1, <2>2 DEF Inv, TypeOK, secondFactor
  <1>2. FactorInv'
    BY DEF Inv, FactorInv, Drawn, AllWorthless, Worthless, CodeOnce, ActivatedIsVerified, secondFactor
  <1>3. made <= made' /\ begun <= begun'
    BY CredentialsAssumption DEF CredentialsAssumption, Inv, TypeOK
  <1>4. SessionInv'
    <2>1. SessionsFit'
      <3> SUFFICES ASSUME NEW s \in Ids
                   PROVE  /\ sessions[s].level # "none" => s <= made'
                          /\ sessions[s].epoch <= activations
                          /\ sessions[s].level = "partial" => sessions[s].created = sessions[s].first /\ ~sessions[s].bare
        BY DEF SessionsFit, secondFactor
      <3>1. s \in Nat /\ made \in Nat /\ made' \in Nat
        BY CredentialsAssumption DEF CredentialsAssumption, Inv, TypeOK, Ids
      <3> QED BY <3>1, <1>3 DEF Inv, SessionInv, SessionsFit
    <2>2. OldSessionsEnd' /\ LevelFits'
      BY DEF Inv, SessionInv, OldSessionsEnd, Usable, LevelFits, secondFactor
    <2> QED BY <2>1, <2>2 DEF SessionInv
  <1>5. \A p \in Requests \ {r} : Sound(p, held[p])'
    <2> SUFFICES ASSUME NEW p \in Requests, p # r, NEW h \in Request, h = requests[p], h = held[p]
                 PROVE  Sound(p, h)'
      BY <1>0 DEF Inv, TypeOK
    <2>1. Sound(p, h)
      BY DEF Inv, RequestInv
    <2>2. h.session <= made' /\ h.date <= begun'
      <3>1. h.session <= made /\ h.date <= begun
        BY <2>1 DEF Sound
      <3>2. h.session \in Nat /\ h.date \in Nat /\ made \in Nat /\ made' \in Nat /\ begun \in Nat /\ begun' \in Nat
        BY Fields, CredentialsAssumption DEF CredentialsAssumption, Inv, TypeOK
      <3> QED BY <3>1, <3>2, <1>3
    <2>3. h.stage \in {"begun", "revoked"} => locked' = p
      BY <2>1, CredentialsAssumption DEF Sound, CredentialsAssumption
    <2> QED BY <2>1, <2>2, <2>3 DEF Sound, secondFactor
  <1>6. RequestInv'
    BY <1>0, <1>5, OneMoves
  <1> QED BY <1>1, <1>2, <1>4, <1>6 DEF Inv

\* ... and so do the counters and the lock.
LEMMA AskedQuietly ==
    ASSUME Inv, NEW r \in Requests, NEW q \in Request, Becomes(r, q),
           UNCHANGED <<passwords, secondFactor, sessions, made>>,
           ~Making(q), q.stage \notin {"begun", "revoked"},
           q.step # 0 => q.box.secret # 0, q.kind \in {"confirm", "reauth"} => q.step # 0,
           q.session <= made, q.date <= begun, q.epoch <= activations,
           q.stage = "matched" =>
               \A s \in Ids : s = q.session /\ sessions[s].level = "full" => sessions[s].first >= changedAt,
           \A p \in Requests \ {r} : Making(requests[p]) => requests[p].session # q.session
    PROVE  Inv'
  <1>1. made' \in made .. MaxSessions /\ begun' \in begun .. MaxChanges /\ locked' \in Requests \cup {NoRequest}
    BY CredentialsAssumption DEF CredentialsAssumption, Inv, TypeOK, passwords
  <1>2. Sound(r, q)'
    BY DEF Sound, Making, passwords, secondFactor
  <1>3. \A p \in Requests \ {r} : Apart(r, q, p, requests[p]) /\ Apart(p, requests[p], r, q)
    BY DEF Apart
  <1>4. locked' = locked /\ UNCHANGED <<changedAt, secondFactor, sessions>>
    BY DEF passwords
  <1> QED BY <1>1, <1>2, <1>3, <1>4, Asked

\* A session that is there was made, and is not being made.
LEMMA FullIsMade ==
    ASSUME Inv, NEW s \in Ids, sessions[s].level # "none"
    PROVE  s <= made /\ \A p \in Requests : Making(requests[p]) => requests[p].session # s
  BY DEF Inv, SessionInv, SessionsFit, RequestInv, Sound

\* Zero, what a request has in hand that has nothing, is below every counter and no session that is being made.
LEMMA Zero ==
    ASSUME Inv
    PROVE  /\ 0 <= made /\ 0 <= begun /\ 0 <= activations
           /\ \A p \in Requests : Making(requests[p]) => requests[p].session # 0
  <1>1. made \in Nat /\ begun \in Nat /\ activations \in Nat
    BY CredentialsAssumption DEF CredentialsAssumption, Inv, TypeOK
  <1> QED BY <1>1 DEF Inv, RequestInv, Sound

LEMMA LookUpKeeps == ASSUME Inv, NEW r \in Requests, LookUp(r) PROVE Inv'
  <1> DEFINE q == [Done EXCEPT !.kind = "login", !.stage = "checked"]
  <1>1. /\ q \in Request /\ q.kind = "login" /\ q.stage = "checked" /\ q.session = 0 /\ q.date = 0 /\ q.epoch = 0
        /\ q.step = 0 /\ q.level = "none"
    BY Blank DEF Request, AllKinds
  <1> HIDE DEF q
  <1>2. Becomes(r, q) /\ UNCHANGED <<passwords, secondFactor, sessions, made>>
    BY DEF LookUp, q
  <1> QED BY <1>1, <1>2, Zero, AskedQuietly DEF Making

LEMMA ReadLevelKeeps == ASSUME Inv, NEW r \in Requests, ReadLevel(r) PROVE Inv'
  <1> DEFINE q == [requests[r] EXCEPT !.stage = "levelled", !.level = LevelNow]
  <1>1. requests[r] \in Request /\ LevelNow \in Levels
    BY DEF Inv, TypeOK, LevelNow, Levels
  <1>2. /\ q \in Request /\ q.kind = "login" /\ q.stage = "levelled" /\ q.session = requests[r].session
        /\ q.date = requests[r].date /\ q.epoch = requests[r].epoch /\ q.step = requests[r].step
        /\ q.box = requests[r].box
    BY <1>1 DEF ReadLevel, Request
  <1> HIDE DEF q
  <1>3. Becomes(r, q) /\ UNCHANGED <<passwords, secondFactor, sessions, made>>
    BY DEF ReadLevel, q
  <1>4. Sound(r, requests[r]) /\ \A p \in Requests : Apart(p, requests[p], r, requests[r])
    BY DEF Inv, RequestInv
  <1>5. \A p \in Requests \ {r} : Making(requests[p]) => requests[p].session # q.session
    BY <1>2, <1>4 DEF Apart
  <1>6. ~Making(q)
    BY <1>2 DEF Making
  <1> QED BY <1>2, <1>3, <1>4, <1>5, <1>6, AskedQuietly DEF Sound

LEMMA AskChangeKeeps == ASSUME Inv, NEW r \in Requests, NEW s \in Ids, AskChange(r, s) PROVE Inv'
  <1> DEFINE q == [Done EXCEPT !.kind = "change", !.stage = "checked", !.session = s]
  <1>1. s \in 0 .. MaxSessions
    BY CredentialsAssumption DEF CredentialsAssumption, Ids
  <1>2. /\ q \in Request /\ q.kind = "change" /\ q.stage = "checked" /\ q.session = s /\ q.date = 0 /\ q.epoch = 0
        /\ q.step = 0
    BY <1>1, Blank DEF Request, AllKinds
  <1> HIDE DEF q
  <1>3. Becomes(r, q) /\ UNCHANGED <<passwords, secondFactor, sessions, made>> /\ sessions[s].level = "full"
    BY DEF AskChange, q
  <1>4. s <= made /\ \A p \in Requests : Making(requests[p]) => requests[p].session # s
    BY <1>3, FullIsMade
  <1> QED BY <1>2, <1>3, <1>4, Zero, AskedQuietly DEF Making

LEMMA ReadPendingKeeps ==
    ASSUME Inv, NEW r \in Requests, NEW s \in Ids, NEW t \in Window, ReadPending(r, s, t)
    PROVE  Inv'
  <1> DEFINE q == [Done EXCEPT !.kind = "confirm", !.stage = "matched", !.session = s, !.box = factor.box, !.step = t]
  <1>1. s \in 0 .. MaxSessions /\ t \in 0 .. MaxStep + 1 /\ factor.box \in Boxes
    BY CredentialsAssumption DEF CredentialsAssumption, Inv, TypeOK, Ids, Window
  <1>2. /\ q \in Request /\ q.kind = "confirm" /\ q.stage = "matched" /\ q.session = s /\ q.date = 0 /\ q.epoch = 0
        /\ q.box = factor.box /\ q.step = t /\ t # 0
    BY <1>1, Blank DEF Request, AllKinds, Window
  <1> HIDE DEF q
  <1>3. /\ Becomes(r, q) /\ UNCHANGED <<passwords, secondFactor, sessions, made>>
        /\ sessions[s].level = "full" /\ Usable(s) /\ factor.box # NoBox
    BY DEF ReadPending, q, Enrolling
  <1>4. s <= made /\ \A p \in Requests : Making(requests[p]) => requests[p].session # s
    BY <1>3, FullIsMade
  <1>5. q.box.secret # 0 /\ sessions[s].first >= changedAt
    BY <1>2, <1>3 DEF Inv, FactorInv, Drawn, SessionInv, OldSessionsEnd, TypeOK
  <1> QED BY <1>2, <1>3, <1>4, <1>5, Zero, AskedQuietly DEF Making

LEMMA ReadFactorKeeps ==
    ASSUME Inv, NEW r \in Requests, NEW s \in Ids, NEW k \in Kinds, NEW t \in Window \cup {0},
           NEW c \in codes \cup {0}, ReadFactor(r, s, k, t, c)
    PROVE  Inv'
  <1> DEFINE q == [Done EXCEPT !.kind = k, !.stage = "matched", !.session = s, !.box = factor.box, !.step = t, !.code = c]
  <1>1. /\ s \in 0 .. MaxSessions /\ t \in 0 .. MaxStep + 1 /\ factor.box \in Boxes /\ c \in Nat
        /\ k \in AllKinds /\ k \notin {"reset", "confirm"}
    <2>1. s \in 0 .. MaxSessions /\ factor.box \in Boxes /\ c \in Nat
      BY CredentialsAssumption DEF CredentialsAssumption, Inv, TypeOK, Ids
    <2>2. t \in 0 .. MaxStep + 1
      BY CredentialsAssumption DEF CredentialsAssumption, Inv, TypeOK, Window
    <2>3. k \in AllKinds /\ k \notin {"reset", "confirm"}
      BY CredentialsAssumption DEF CredentialsAssumption, ReadFactor
    <2> QED BY <2>1, <2>2, <2>3
  <1>2. /\ q \in Request /\ q.kind = k /\ q.stage = "matched" /\ q.session = s /\ q.date = 0 /\ q.epoch = 0
        /\ q.box = factor.box /\ q.step = t
    BY <1>1, Blank DEF Request
  <1> HIDE DEF q
  <1>3. /\ Becomes(r, q) /\ UNCHANGED <<passwords, secondFactor, sessions, made>>
        /\ sessions[s].level # "none" /\ Usable(s) /\ factor.on
    BY DEF ReadFactor, q
  <1>4. s <= made /\ \A p \in Requests : Making(requests[p]) => requests[p].session # s
    BY <1>3, FullIsMade
  <1>5. q.box.secret # 0 /\ sessions[s].first >= changedAt
    BY <1>2, <1>3 DEF Inv, FactorInv, Drawn, SessionInv, OldSessionsEnd, TypeOK
  <1>6. ~Making(q) /\ (q.kind \in {"confirm", "reauth"} => q.step # 0)
    BY <1>1, <1>2 DEF Making, ReadFactor, Window
  <1> QED BY <1>2, <1>3, <1>4, <1>5, <1>6, Zero, AskedQuietly

\* The next session is nobody's yet.
LEMMA NextIsFree ==
    ASSUME Inv, made < MaxSessions
    PROVE  /\ made + 1 \in 1 .. MaxSessions /\ sessions[made + 1].level = "none"
           /\ \A p \in Requests : requests[p].session # made + 1
  <1>1. made \in Nat /\ MaxSessions \in Nat
    BY CredentialsAssumption DEF CredentialsAssumption, Inv, TypeOK
  <1>2. made + 1 \in Ids /\ ~(made + 1 <= made)
    BY <1>1 DEF Ids
  <1>3. sessions[made + 1].level = "none"
    BY <1>2 DEF Inv, SessionInv, SessionsFit
  <1>4. \A p \in Requests : requests[p].session <= made
    BY DEF Inv, RequestInv, Sound
  <1> QED BY <1>1, <1>2, <1>3, <1>4 DEF Ids

LEMMA InsertKeeps == ASSUME Inv, NEW r \in Requests, Insert(r) PROVE Inv'
  <1> DEFINE next == [requests[r] EXCEPT !.stage = "inserted", !.session = made + 1, !.date = begun, !.epoch = activations]
  <1>0. UNCHANGED <<passwords, secondFactor, sessions>> /\ made < MaxSessions
    BY DEF Insert
  <1>1. requests[r] \in Request /\ made \in Nat /\ begun \in 0 .. MaxChanges /\ begun \in Nat /\ activations \in Nat
    BY CredentialsAssumption DEF CredentialsAssumption, Inv, TypeOK
  <1>2. CASE requests[r].level = LevelNow
    <2>1. made + 1 \in 0 .. MaxSessions
      BY <1>0, NextIsFree
    <2>9. next \in Request
      BY <1>1, <2>1 DEF Request
    <2>10. PICK q \in Request : q = next
      BY <2>9
    <2>2. /\ q.kind = requests[r].kind /\ q.stage = "inserted" /\ q.session = made + 1 /\ q.date = begun
          /\ q.epoch = activations /\ q.level = LevelNow /\ q.step = requests[r].step /\ q.box = requests[r].box
      BY <1>1, <1>2, <2>10 DEF Request
    <2>3. Becomes(r, q) /\ made' = made + 1
      BY <1>2, <2>10 DEF Insert
    <2> HIDE DEF next
    <2>4. Sound(r, requests[r])
      BY DEF Inv, RequestInv
    <2>5. Sound(r, q)'
      <3>1. q.session <= made' /\ q.date <= begun' /\ q.epoch <= activations'
        BY <1>0, <1>1, <2>2, <2>3 DEF passwords, secondFactor
      <3>2. q.session # 0 /\ sessions'[q.session].level = "none"
        BY <1>0, <1>1, <2>2, NextIsFree
      <3>3. ~(q.level = "full" /\ factor'.on)
        BY <1>0, <2>2 DEF LevelNow, secondFactor
      <3> QED BY <2>2, <2>4, <3>1, <3>2, <3>3 DEF Sound
    <2>6. \A p \in Requests \ {r} : Apart(r, q, p, requests[p]) /\ Apart(p, requests[p], r, q)
      BY <1>0, <2>2, NextIsFree DEF Apart
    <2>7. made' \in made .. MaxSessions /\ begun' \in begun .. MaxChanges /\ locked' \in Requests \cup {NoRequest}
      BY <1>0, <1>1, <2>1, <2>3, CredentialsAssumption DEF CredentialsAssumption, Inv, TypeOK, passwords
    <2>8. locked' = locked /\ UNCHANGED <<changedAt, secondFactor, sessions>>
      BY <1>0 DEF passwords
    <2> QED BY <2>2, <2>3, <2>5, <2>6, <2>7, <2>8, Asked
  <1>3. CASE requests[r].level # LevelNow
    <2>1. Becomes(r, Done) /\ made' = made
      BY <1>3 DEF Insert, End
    <2> QED BY <1>0, <2>1, Blank, Zero, AskedQuietly DEF Making
  <1> QED BY <1>2, <1>3

LEMMA AskResetKeeps == ASSUME Inv, NEW r \in Requests, AskReset(r) PROVE Inv'
  <1> DEFINE next == [Done EXCEPT !.kind = "reset", !.stage = "checked", !.session = made + 1]
  <1>0. UNCHANGED <<passwords, secondFactor, sessions>> /\ made < MaxSessions /\ made' = made + 1
    BY DEF AskReset
  <1>1. made + 1 \in 0 .. MaxSessions /\ made \in Nat /\ begun \in Nat
    BY <1>0, NextIsFree, CredentialsAssumption DEF CredentialsAssumption, Inv, TypeOK
  <1>8. next \in Request
    BY <1>1, Blank DEF Request, AllKinds
  <1>9. PICK q \in Request : q = next
    BY <1>8
  <1>2. /\ q.kind = "reset" /\ q.stage = "checked" /\ q.session = made + 1 /\ q.date = 0 /\ q.epoch = 0
        /\ q.step = 0
    BY <1>9, Blank DEF Request
  <1>3. Becomes(r, q)
    BY <1>9 DEF AskReset
  <1> HIDE DEF next
  <1>4. Sound(r, q)'
    <2>1. q.session <= made' /\ q.date <= begun' /\ q.epoch <= activations'
      BY <1>0, <1>1, <1>2, Zero DEF passwords, secondFactor
    <2>2. q.session # 0 /\ sessions'[q.session].level = "none"
      BY <1>0, <1>1, <1>2, NextIsFree
    <2> QED BY <1>2, <2>1, <2>2 DEF Sound, Making
  <1>5. \A p \in Requests \ {r} : Apart(r, q, p, requests[p]) /\ Apart(p, requests[p], r, q)
    BY <1>0, <1>2, NextIsFree DEF Apart
  <1>6. made' \in made .. MaxSessions /\ begun' \in begun .. MaxChanges /\ locked' \in Requests \cup {NoRequest}
    BY <1>0, <1>1, CredentialsAssumption DEF CredentialsAssumption, Inv, TypeOK, passwords
  <1>7. locked' = locked /\ UNCHANGED <<changedAt, secondFactor, sessions>>
    BY <1>0 DEF passwords
  <1> QED BY <1>2, <1>3, <1>4, <1>5, <1>6, <1>7, Asked

LEMMA BeginChangeKeeps == ASSUME Inv, NEW r \in Requests, BeginChange(r) PROVE Inv'
  <1> DEFINE next == [requests[r] EXCEPT !.stage = "begun", !.date = begun + 1]
  <1>0. /\ UNCHANGED <<changedAt, secondFactor, sessions, made>> /\ locked = NoRequest /\ locked' = r
        /\ begun' = begun + 1 /\ begun < MaxChanges /\ requests[r].kind \in {"change", "reset"}
        /\ requests[r].stage = "checked"
    BY DEF BeginChange, Unlocked
  <1>1. /\ requests[r] \in Request /\ made \in Nat /\ begun \in Nat /\ begun + 1 \in 0 .. MaxChanges
    BY <1>0, CredentialsAssumption DEF CredentialsAssumption, Inv, TypeOK
  <1>2. next \in Request
    BY <1>1 DEF Request
  <1>3. PICK q \in Request : q = next
    BY <1>2
  <1>4. /\ q.kind = requests[r].kind /\ q.stage = "begun" /\ q.session = requests[r].session /\ q.date = begun + 1
        /\ q.epoch = requests[r].epoch /\ q.step = requests[r].step /\ q.box = requests[r].box
    BY <1>1, <1>3 DEF Request
  <1>5. Becomes(r, q)
    BY <1>3 DEF BeginChange
  <1> HIDE DEF next
  <1>6. Sound(r, requests[r]) /\ \A p \in Requests \ {r} : Apart(r, requests[r], p, requests[p]) /\ Apart(p, requests[p], r, requests[r])
    BY DEF Inv, RequestInv
  <1>7. Making(q) => Making(requests[r])
    BY <1>4 DEF Making
  <1>8. Sound(r, q)'
    <2>1. q.session <= made' /\ q.date <= begun' /\ q.epoch <= activations'
      BY <1>0, <1>1, <1>4, <1>6 DEF Sound, secondFactor
    <2> QED BY <1>0, <1>4, <1>6, <1>7, <2>1 DEF Sound
  <1>9. \A p \in Requests \ {r} : Apart(r, q, p, requests[p]) /\ Apart(p, requests[p], r, q)
    BY <1>4, <1>6, <1>7 DEF Apart
  <1>10. made' \in made .. MaxSessions /\ begun' \in begun .. MaxChanges /\ locked' \in Requests \cup {NoRequest}
    BY <1>0, <1>1, CredentialsAssumption DEF CredentialsAssumption, Inv, TypeOK
  <1> QED BY <1>0, <1>5, <1>8, <1>9, <1>10, Asked

LEMMA RevokeOthersKeeps == ASSUME Inv, NEW r \in Requests, RevokeOthers(r) PROVE Inv'
  <1> DEFINE next == [requests[r] EXCEPT !.stage = "revoked",
                                         !.others = {s \in Ids \ {requests[r].session} : sessions[s].level # "none"}]
  <1>0. UNCHANGED <<changedAt, begun, secondFactor, sessions, made>>
    BY DEF RevokeOthers
  <1>1. requests[r] \in Request /\ requests[r].kind = "change" /\ requests[r].stage = "begun" /\ locked = r
    BY DEF Inv, TypeOK, RequestInv, Sound, RevokeOthers
  <1>2. made' \in made .. MaxSessions /\ begun' \in begun .. MaxChanges
    BY <1>0, CredentialsAssumption DEF CredentialsAssumption, Inv, TypeOK
  <1>3. CASE sessions[requests[r].session].level = "full"
    <2>1. next \in Request
      BY <1>1 DEF Request
    <2>2. PICK q \in Request : q = next
      BY <2>1
    <2>3. /\ q.kind = "change" /\ q.stage = "revoked" /\ q.session = requests[r].session
          /\ q.others = {s \in Ids \ {requests[r].session} : sessions[s].level # "none"} /\ q.date = requests[r].date
          /\ q.epoch = requests[r].epoch /\ q.step = requests[r].step /\ q.box = requests[r].box
      BY <1>1, <2>2 DEF Request
    <2>4. Becomes(r, q) /\ locked' = locked
      BY <1>3, <2>2 DEF RevokeOthers
    <2> HIDE DEF next
    <2>5. /\ Sound(r, requests[r])
          /\ \A p \in Requests \ {r} : Apart(p, requests[p], r, requests[r])
      BY DEF Inv, RequestInv
    <2>6. ~Making(q)
      BY <2>3 DEF Making
    <2>7. Sound(r, q)'
      <3>1. \A s \in Ids : sessions'[s].level = "full" => s \in q.others \cup {q.session}
        BY <1>0, <2>3
      <3>2. q.session <= made' /\ q.date <= begun' /\ q.epoch <= activations'
        BY <1>0, <2>3, <2>5 DEF Sound, secondFactor
      <3> QED BY <1>1, <2>3, <2>4, <2>5, <2>6, <3>1, <3>2 DEF Sound
    <2>8. \A p \in Requests \ {r} : Apart(r, q, p, requests[p]) /\ Apart(p, requests[p], r, q)
      BY <2>3, <2>5, <2>6 DEF Apart
    <2> QED BY <1>0, <1>1, <1>2, <2>4, <2>7, <2>8, Asked
  <1>4. CASE sessions[requests[r].session].level # "full"
    <2>1. Becomes(r, Done) /\ locked' = NoRequest
      BY <1>4 DEF RevokeOthers, End
    <2>2. PICK q \in Request : q = Done
      BY Blank
    <2>3. Sound(r, q)'
      <3>1. 0 <= made' /\ 0 <= begun' /\ 0 <= activations'
        BY <1>0, Zero DEF secondFactor
      <3> QED BY <2>2, <3>1, Blank DEF Sound, Making
    <2>4. \A p \in Requests \ {r} : Apart(r, q, p, requests[p]) /\ Apart(p, requests[p], r, q)
      BY <2>2, Zero, Blank DEF Apart, Making
    <2> QED BY <1>0, <1>1, <1>2, <2>1, <2>2, <2>3, <2>4, Asked
  <1> QED BY <1>3, <1>4

-----------------------------------------------------------------------------
(***************************************************************************)
(* The requests that write.  Each ends with its step; what the others have *)
(* in hand must fit the new state.                                         *)
(***************************************************************************)
LEMMA Leaves ==
    ASSUME Inv, TypeOK', NEW r \in Requests, End(r),
           NEW held \in [Requests -> Request], held = requests, \A p \in Requests \ {r} : Sound(p, held[p])'
    PROVE  RequestInv'
  <1>1. Sound(r, Done)'
    <2>1. made' \in Nat /\ begun' \in Nat /\ activations' \in Nat
      BY CredentialsAssumption DEF CredentialsAssumption, TypeOK
    <2>2. 0 <= made' /\ 0 <= begun' /\ 0 <= activations'
      BY <2>1
    <2> QED BY <2>2, Blank DEF Sound, Making
  <1>2. \A p \in Requests \ {r} : Apart(r, Done, p, held[p]) /\ Apart(p, held[p], r, Done)
    BY Blank, Zero DEF Apart, Making
  <1>3. Becomes(r, Done)
    BY DEF End
  <1> QED BY <1>1, <1>2, <1>3, Blank, OneMoves

\* Or no request moves.
LEMMA NoneMoves ==
    ASSUME Inv, UNCHANGED requests,
           NEW held \in [Requests -> Request], held = requests, \A p \in Requests : Sound(p, held[p])'
    PROVE  RequestInv'
  <1>1. \A p \in Requests : Sound(p, requests[p])'
    <2> SUFFICES ASSUME NEW p \in Requests PROVE Sound(p, requests[p])'
      OBVIOUS
    <2>1. requests'[p] = held[p]
      OBVIOUS
    <2> QED BY <2>1 DEF Sound
  <1>2. \A p, o \in Requests : Apart(p, requests[p], o, requests[o])'
    BY DEF Inv, RequestInv, Apart
  <1> QED BY <1>1, <1>2 DEF RequestInv

\* Sessions end, or fail once more.
Fewer ==
    /\ sessions' \in [Ids -> Session]
    /\ \A s \in Ids :
          \/ sessions'[s] = NoSession
          \/ /\ sessions'[s].level = sessions[s].level /\ sessions'[s].created = sessions[s].created
             /\ sessions'[s].first = sessions[s].first /\ sessions'[s].bare = sessions[s].bare
             /\ sessions'[s].epoch = sessions[s].epoch

LEMMA FewerKeeps ==
    ASSUME Inv, UNCHANGED <<passwords, secondFactor, made>>, Fewer,
           NEW held \in [Requests -> Request], held = requests, requests' \in [Requests -> Request]
    PROVE  TypeOK' /\ FactorInv' /\ SessionInv' /\ \A p \in Requests : Sound(p, held[p])'
  <1>1. TypeOK'
    BY DEF Inv, TypeOK, passwords, secondFactor, Fewer
  <1>2. FactorInv'
    BY DEF Inv, FactorInv, Drawn, AllWorthless, Worthless, CodeOnce, ActivatedIsVerified, secondFactor
  <1>3. SessionInv'
    <2>1. \A s \in Ids : 0 <= activations
      BY Zero
    <2>2. SessionsFit'
      BY <2>1, BlankSession DEF Inv, SessionInv, SessionsFit, Fewer, passwords, secondFactor
    <2>3. OldSessionsEnd'
      BY BlankSession DEF Inv, SessionInv, OldSessionsEnd, Usable, Fewer, passwords
    <2>4. LevelFits'
      BY BlankSession DEF Inv, SessionInv, LevelFits, Fewer, secondFactor
    <2> QED BY <2>2, <2>3, <2>4 DEF SessionInv
  <1>4. ASSUME NEW p \in Requests, NEW h \in Request, h = held[p] PROVE Sound(p, h)'
    <2>1. Sound(p, h)
      BY <1>4 DEF Inv, RequestInv
    <2>2. h.session # 0 /\ sessions[h.session].level = "none" => sessions'[h.session].level = "none"
      <3>1. h.session # 0 => h.session \in Ids
        BY Fields, CredentialsAssumption DEF CredentialsAssumption, Ids
      <3> QED BY <3>1, BlankSession DEF Fewer
    <2>3. \A s \in Ids : sessions'[s].level = "full" => sessions[s].level = "full" /\ sessions'[s].first = sessions[s].first
      BY BlankSession DEF Fewer
    <2> QED BY <2>1, <2>2, <2>3 DEF Sound, passwords, secondFactor
  <1> QED BY <1>1, <1>2, <1>3, <1>4

LEMMA EndSessionsKeeps == ASSUME Inv, NEW gone \in SUBSET Ids, EndSessions(gone) PROVE Inv'
  <1>1. PICK held \in [Requests -> Request] : held = requests
    BY DEF Inv, TypeOK
  <1>2. Fewer
    BY BlankSession DEF EndSessions, Fewer, Inv, TypeOK
  <1>3. UNCHANGED <<passwords, secondFactor, made, requests>>
    BY DEF EndSessions
  <1>4. RequestInv'
    BY <1>1, <1>2, <1>3, FewerKeeps, NoneMoves
  <1> QED BY <1>1, <1>2, <1>3, <1>4, FewerKeeps DEF Inv

LEMMA FailedIsFewer == ASSUME Inv, NEW s \in 0 .. MaxSessions, sessions' = Failed(s) PROVE Fewer
  <1>1. CASE sessions' = sessions
    BY <1>1 DEF Inv, TypeOK, Fewer
  <1>2. CASE sessions' = [sessions EXCEPT ![s] = NoSession]
    BY <1>2, BlankSession DEF Inv, TypeOK, Fewer
  <1>3. CASE sessions' = [sessions EXCEPT ![s].failures = @ + 1] /\ ~(sessions[s].failures + 1 >= MaxFailures)
    <2>1. CASE s \in Ids
      <3>1. sessions[s].failures + 1 \in 0 .. MaxFailures - 1
        BY <1>3, <2>1, SessionFields, CredentialsAssumption DEF CredentialsAssumption, Inv
      <3>2. [sessions[s] EXCEPT !.failures = sessions[s].failures + 1] \in Session
        BY <2>1, <3>1, SessionFields DEF Inv, Session
      <3> QED BY <1>3, <2>1, <3>2 DEF Inv, TypeOK, Fewer, Session
    <2>2. CASE s \notin Ids
      BY <1>3, <2>2 DEF Inv, TypeOK, Fewer
    <2> QED BY <2>1, <2>2
  <1> QED BY <1>1, <1>2, <1>3 DEF Failed

LEMMA WrongCodeKeeps == ASSUME Inv, NEW s \in Ids, WrongCode(s) PROVE Inv'
  <1>1. PICK held \in [Requests -> Request] : held = requests
    BY DEF Inv, TypeOK
  <1>2. UNCHANGED <<passwords, secondFactor, made, requests>> /\ sessions' = Failed(s) /\ s \in 0 .. MaxSessions
    BY CredentialsAssumption DEF CredentialsAssumption, WrongCode, Ids
  <1>3. Fewer
    BY <1>2, FailedIsFewer
  <1>4. RequestInv'
    BY <1>1, <1>2, <1>3, FewerKeeps, NoneMoves
  <1> QED BY <1>1, <1>2, <1>3, <1>4, FewerKeeps DEF Inv

LEMMA RecordFailureKeeps == ASSUME Inv, NEW r \in Requests, RecordFailure(r) PROVE Inv'
  <1>1. PICK held \in [Requests -> Request] : held = requests
    BY DEF Inv, TypeOK
  <1>2. /\ UNCHANGED <<passwords, secondFactor, made>> /\ sessions' = Failed(requests[r].session) /\ End(r)
        /\ requests[r].session \in 0 .. MaxSessions
    BY Fields DEF RecordFailure, Inv, TypeOK
  <1>3. Fewer
    BY <1>2, FailedIsFewer
  <1>4. requests' \in [Requests -> Request]
    BY <1>2, Ending, Becoming, Blank DEF Inv
  <1>5. RequestInv'
    BY <1>1, <1>2, <1>3, <1>4, FewerKeeps, Leaves
  <1> QED BY <1>1, <1>2, <1>3, <1>4, <1>5, FewerKeeps DEF Inv

LEMMA CommitSessionKeeps == ASSUME Inv, NEW r \in Requests, CommitSession(r) PROVE Inv'
  <1>1. PICK held \in [Requests -> Request] : held = requests
    BY DEF Inv, TypeOK
  <1>2. PICK q \in Request : q = requests[r]
    BY DEF Inv, TypeOK
  <1>3. PICK new : new = [level |-> q.level, created |-> q.date, failures |-> 0, first |-> q.date,
                          bare |-> q.level = "full", epoch |-> q.epoch]
    OBVIOUS
  <1>4. /\ q.stage = "inserted" /\ sessions' = [sessions EXCEPT ![q.session] = new] /\ End(r)
        /\ \A p \in Requests : p = locked => q.level = "partial" /\ requests[p].kind = "change"
        /\ UNCHANGED <<passwords, secondFactor, made>>
    BY <1>2, <1>3 DEF CommitSession
  <1>5. Sound(r, q) /\ Making(q) /\ \A p \in Requests \ {r} : held[p].session # q.session
    BY <1>1, <1>2, <1>4 DEF Inv, RequestInv, Making, Apart
  <1>6. q.session \in Ids /\ q.session <= made /\ q.epoch <= activations
    BY <1>5, Fields, CredentialsAssumption DEF Sound, CredentialsAssumption, Ids
  <1>7. /\ new \in Session /\ new.level = q.level /\ new.created = q.date /\ new.first = q.date
        /\ new.bare = (q.level = "full") /\ new.epoch = q.epoch
    BY <1>3, Fields, CredentialsAssumption DEF CredentialsAssumption, Session
  <1>8. sessions' \in [Ids -> Session] /\ sessions'[q.session] = new /\ \A s \in Ids \ {q.session} : sessions'[s] = sessions[s]
    BY <1>4, <1>6, <1>7 DEF Inv, TypeOK
  <1>9. requests' \in [Requests -> Request]
    BY <1>4, Ending, Becoming, Blank DEF Inv
  <1>10. TypeOK'
    BY <1>4, <1>8, <1>9 DEF Inv, TypeOK, passwords, secondFactor
  <1>11. FactorInv'
    BY <1>4 DEF Inv, FactorInv, Drawn, AllWorthless, Worthless, CodeOnce, ActivatedIsVerified, secondFactor
  <1>12. SessionInv'
    <2>1. SessionsFit'
      BY <1>4, <1>6, <1>7, <1>8 DEF Inv, SessionInv, SessionsFit, secondFactor
    <2>2. OldSessionsEnd'
      BY <1>4, <1>7, <1>8 DEF Inv, SessionInv, OldSessionsEnd, Usable, passwords
    <2>3. LevelFits'
      BY <1>4, <1>5, <1>7, <1>8 DEF Inv, SessionInv, LevelFits, Sound, secondFactor
    <2> QED BY <2>1, <2>2, <2>3 DEF SessionInv
  <1>13. ASSUME NEW p \in Requests \ {r}, NEW h \in Request, h = held[p] PROVE Sound(p, h)'
    <2>1. Sound(p, h) /\ h.session # q.session
      BY <1>1, <1>5, <1>13 DEF Inv, RequestInv
    <2>2. Making(h) => h.session # 0 /\ sessions'[h.session].level = "none"
      <3>1. h.session # 0 => h.session \in Ids
        BY Fields, CredentialsAssumption DEF CredentialsAssumption, Ids
      <3> QED BY <1>8, <2>1, <3>1 DEF Sound
    <2>3. h.stage = "revoked" => \A s \in Ids : sessions'[s].level = "full" => s \in h.others \cup {h.session}
      <3>1. h.stage = "revoked" => locked = p /\ q.level = "partial"
        BY <1>4, <2>1 DEF Sound
      <3> QED BY <1>7, <1>8, <2>1, <3>1 DEF Sound
    <2>4. h.stage = "matched" =>
              \A s \in Ids : s = h.session /\ sessions'[s].level = "full" => sessions'[s].first >= changedAt'
      BY <1>4, <1>8, <2>1 DEF Sound, passwords
    <2> QED BY <1>4, <2>1, <2>2, <2>3, <2>4 DEF Sound, passwords, secondFactor
  <1>14. RequestInv'
    BY <1>1, <1>4, <1>10, <1>13, Leaves
  <1> QED BY <1>10, <1>11, <1>12, <1>14 DEF Inv

LEMMA CommitChangeKeeps == ASSUME Inv, NEW r \in Requests, CommitChange(r) PROVE Inv'
  <1>1. PICK held \in [Requests -> Request] : held = requests
    BY DEF Inv, TypeOK
  <1>2. PICK q \in Request : q = requests[r]
    BY DEF Inv, TypeOK
  <1>3. /\ q.stage = "revoked" /\ changedAt' = q.date /\ locked' = NoRequest /\ End(r)
        /\ sessions' = [s \in Ids |-> IF s \in q.others THEN NoSession
                                      ELSE IF s = q.session THEN [sessions[s] EXCEPT !.created = begun, !.first = begun]
                                      ELSE sessions[s]]
        /\ UNCHANGED <<begun, secondFactor, made>>
    BY <1>2 DEF CommitChange
  <1>4. /\ Sound(r, q) /\ locked = r /\ q.date <= begun
        /\ \A s \in Ids : sessions[s].level = "full" => s \in q.others \cup {q.session}
    BY <1>2, <1>3 DEF Inv, RequestInv, Sound
  <1>5. /\ begun \in 0 .. MaxChanges /\ begun \in Nat /\ q.date \in Nat /\ changedAt \in Nat
    BY Fields, CredentialsAssumption DEF CredentialsAssumption, Inv, TypeOK
  \* what becomes of each session
  <1>6. ASSUME NEW s \in Ids
        PROVE  /\ sessions'[s] \in Session
               /\ \/ sessions'[s] = NoSession
                  \/ /\ sessions'[s].level = sessions[s].level /\ sessions'[s].created = begun
                     /\ sessions'[s].first = begun /\ sessions'[s].bare = sessions[s].bare
                     /\ sessions'[s].epoch = sessions[s].epoch
                  \/ sessions'[s] = sessions[s] /\ sessions[s].level # "full"
    <2>1. [sessions[s] EXCEPT !.created = begun, !.first = begun] \in Session
      BY <1>5, SessionFields DEF Inv, Session
    <2>2. CASE s \in q.others
      BY <1>3, <2>2, BlankSession
    <2>3. CASE s \notin q.others /\ s = q.session
      BY <1>3, <2>1, <2>3, SessionFields DEF Inv, Session
    <2>4. CASE s \notin q.others /\ s # q.session
      BY <1>3, <1>4, <2>4, SessionFields DEF Inv
    <2> QED BY <2>2, <2>3, <2>4
  <1>7. requests' \in [Requests -> Request]
    BY <1>3, Ending, Becoming, Blank DEF Inv
  <1>8. TypeOK'
    <2>1. sessions' \in [Ids -> Session]
      BY <1>3, <1>6
    <2>2. changedAt' \in 0 .. begun' /\ locked' \in Requests \cup {NoRequest}
      <3>1. changedAt' = q.date /\ begun' = begun /\ locked' = NoRequest
        BY <1>3
      <3>2. q.date <= begun
        BY <1>4
      <3> QED BY <1>5, <3>1, <3>2
    <2> QED BY <1>3, <1>7, <2>1, <2>2 DEF Inv, TypeOK, secondFactor
  <1>9. FactorInv'
    BY <1>3 DEF Inv, FactorInv, Drawn, AllWorthless, Worthless, CodeOnce, ActivatedIsVerified, secondFactor
  <1>10. SessionInv'
    <2>1. SessionsFit'
      BY <1>3, <1>6, BlankSession, Zero DEF Inv, SessionInv, SessionsFit, secondFactor
    <2>2. OldSessionsEnd'
      <3> SUFFICES ASSUME NEW s \in Ids, Usable(s)' PROVE sessions'[s].first >= changedAt'
        BY DEF OldSessionsEnd
      <3>1. sessions'[s].level # "none" /\ sessions'[s].created >= q.date
        BY <1>3 DEF Usable
      <3>2. CASE sessions'[s].first = begun
        BY <1>3, <1>4, <1>5, <3>2
      <3>3. CASE sessions'[s] = sessions[s] /\ sessions[s].level = "partial"
        BY <1>3, <3>1, <3>3 DEF Inv, SessionInv, SessionsFit
      <3> QED BY <1>6, <3>1, <3>2, <3>3, BlankSession, SessionFields DEF Levels, Inv
    <2>3. LevelFits'
      BY <1>3, <1>6, BlankSession DEF Inv, SessionInv, LevelFits, secondFactor
    <2> QED BY <2>1, <2>2, <2>3 DEF SessionInv
  <1>11. ASSUME NEW p \in Requests \ {r}, NEW h \in Request, h = held[p] PROVE Sound(p, h)'
    <2>1. Sound(p, h) /\ h.stage \notin {"begun", "revoked"}
      BY <1>1, <1>4, <1>11 DEF Inv, RequestInv, Sound
    <2>2. Making(h) => h.session # 0 /\ sessions'[h.session].level = "none"
      <3>1. h.session # 0 => h.session \in Ids
        BY Fields, CredentialsAssumption DEF CredentialsAssumption, Ids
      <3> QED BY <1>6, <2>1, <3>1, BlankSession DEF Sound
    <2>3. \A s \in Ids : sessions'[s].level = "full" => sessions'[s].first >= changedAt'
      BY <1>3, <1>4, <1>5, <1>6, BlankSession
    <2> QED BY <1>3, <2>1, <2>2, <2>3 DEF Sound, secondFactor
  <1>12. RequestInv'
    BY <1>1, <1>3, <1>8, <1>11, Leaves
  <1> QED BY <1>8, <1>9, <1>10, <1>12 DEF Inv

LEMMA CommitResetKeeps == ASSUME Inv, NEW r \in Requests, CommitReset(r) PROVE Inv'
  <1>1. PICK held \in [Requests -> Request] : held = requests
    BY DEF Inv, TypeOK
  <1>2. PICK q \in Request : q = requests[r]
    BY DEF Inv, TypeOK
  <1>3. PICK new : new = [level |-> LevelNow, created |-> begun, failures |-> 0, first |-> begun,
                          bare |-> ~factor.on, epoch |-> activations]
    OBVIOUS
  <1>4. /\ q.kind = "reset" /\ q.stage = "begun" /\ changedAt' = q.date /\ locked' = NoRequest /\ End(r)
        /\ sessions' = [s \in Ids |-> IF s = q.session THEN new ELSE NoSession]
        /\ UNCHANGED <<begun, secondFactor, made>>
    BY <1>2, <1>3 DEF CommitReset
  <1>5. /\ Sound(r, q) /\ locked = r /\ q.date <= begun /\ q.session <= made
        /\ \A p \in Requests \ {r} : held[p].session # q.session
    BY <1>1, <1>2, <1>4 DEF Inv, RequestInv, Sound, Apart, Making
  <1>6. begun \in 0 .. MaxChanges /\ begun \in Nat /\ q.date \in Nat /\ activations \in Nat /\ factor.on \in BOOLEAN
    BY Fields, CredentialsAssumption DEF CredentialsAssumption, Inv, TypeOK
  <1>7. /\ new \in Session /\ new.level = LevelNow /\ new.created = begun /\ new.first = begun
        /\ new.bare = ~factor.on /\ new.epoch = activations
    BY <1>3, <1>6, CredentialsAssumption DEF CredentialsAssumption, Session, LevelNow, Levels
  <1>8. sessions' \in [Ids -> Session] /\ \A s \in Ids : sessions'[s] = IF s = q.session THEN new ELSE NoSession
    BY <1>4, <1>7, BlankSession
  <1>9. requests' \in [Requests -> Request]
    BY <1>4, Ending, Becoming, Blank DEF Inv
  <1>10. TypeOK'
    <2>1. changedAt' \in 0 .. begun' /\ locked' \in Requests \cup {NoRequest}
      <3>1. changedAt' = q.date /\ begun' = begun /\ locked' = NoRequest
        BY <1>4
      <3>2. q.date <= begun
        BY <1>5
      <3> QED BY <1>6, <3>1, <3>2
    <2> QED BY <1>4, <1>8, <1>9, <2>1 DEF Inv, TypeOK, secondFactor
  <1>11. FactorInv'
    BY <1>4 DEF Inv, FactorInv, Drawn, AllWorthless, Worthless, CodeOnce, ActivatedIsVerified, secondFactor
  <1>12. SessionInv'
    <2>1. SessionsFit'
      <3> SUFFICES ASSUME NEW s \in Ids
                   PROVE  /\ sessions'[s].level # "none" => s <= made'
                          /\ sessions'[s].epoch <= activations'
                          /\ sessions'[s].level = "partial" => sessions'[s].created = sessions'[s].first /\ ~sessions'[s].bare
        BY DEF SessionsFit
      <3>1. made' = made /\ activations' = activations /\ 0 <= activations /\ activations <= activations
        BY <1>4, <1>6, Zero DEF secondFactor
      <3>2. CASE s = q.session
        BY <1>5, <1>7, <1>8, <3>1, <3>2 DEF LevelNow
      <3>3. CASE s # q.session
        BY <1>8, <3>1, <3>3, BlankSession
      <3> QED BY <3>2, <3>3
    <2>2. OldSessionsEnd'
      BY <1>4, <1>5, <1>7, <1>8, BlankSession DEF OldSessionsEnd, Usable
    <2>3. LevelFits'
      BY <1>4, <1>7, <1>8, BlankSession DEF LevelFits, LevelNow, secondFactor
    <2> QED BY <2>1, <2>2, <2>3 DEF SessionInv
  <1>13. ASSUME NEW p \in Requests \ {r}, NEW h \in Request, h = held[p] PROVE Sound(p, h)'
    <2>1. Sound(p, h) /\ h.stage \notin {"begun", "revoked"} /\ h.session # q.session
      BY <1>1, <1>5, <1>13 DEF Inv, RequestInv, Sound
    <2>2. Making(h) => h.session # 0 /\ sessions'[h.session].level = "none"
      <3>1. h.session # 0 => h.session \in Ids
        BY Fields, CredentialsAssumption DEF CredentialsAssumption, Ids
      <3> QED BY <1>8, <2>1, <3>1, BlankSession DEF Sound
    <2>3. \A s \in Ids : s = h.session => sessions'[s].level # "full"
      BY <1>8, <2>1, BlankSession
    <2> QED BY <1>4, <2>1, <2>2, <2>3 DEF Sound, secondFactor
  <1>14. RequestInv'
    BY <1>1, <1>4, <1>10, <1>13, Leaves
  <1> QED BY <1>10, <1>11, <1>12, <1>14 DEF Inv

-----------------------------------------------------------------------------
(***************************************************************************)
(* The second factor.                                                      *)
(***************************************************************************)
\* Sessions go on; one that goes on under a new token is full and young enough.
Rotation ==
    /\ sessions' \in [Ids -> Session]
    /\ \A s \in Ids :
          /\ sessions'[s].level = sessions[s].level /\ sessions'[s].first = sessions[s].first
          /\ sessions'[s].bare = sessions[s].bare /\ sessions'[s].epoch = sessions[s].epoch
          /\ \/ sessions'[s].created = sessions[s].created
             \/ sessions[s].level = "full" /\ sessions[s].first >= changedAt

LEMMA NoRotation == ASSUME Inv, UNCHANGED sessions PROVE Rotation
  BY DEF Inv, TypeOK, Rotation

LEMMA RotatedRotation ==
    ASSUME Inv, NEW r \in Requests, requests[r].stage = "matched", sessions[requests[r].session].level = "full",
           sessions' = Rotated(requests[r].session)
    PROVE  Rotation
  <1>1. PICK s \in 0 .. MaxSessions : s = requests[r].session
    BY Fields DEF Inv, TypeOK
  <1>2. begun \in 0 .. MaxChanges
    BY DEF Inv, TypeOK
  <1>3. CASE s \in Ids
    <2>1. sessions[s].first >= changedAt
      BY <1>1, <1>3 DEF Inv, RequestInv, Sound
    <2>2. [sessions[s] EXCEPT !.created = begun] \in Session
      BY <1>2, <1>3, SessionFields DEF Inv, Session
    <2> QED BY <1>1, <1>3, <2>1, <2>2 DEF Rotation, Rotated, Inv, TypeOK, Session
  <1>4. CASE s \notin Ids
    BY <1>1, <1>4 DEF Rotation, Rotated, Inv, TypeOK
  <1> QED BY <1>3, <1>4

\* What the sessions and the requests in hand need of a step of the second factor.
LEMMA FactorMoves ==
    ASSUME Inv, UNCHANGED <<passwords, made>>, Rotation,
           activations' \in {activations, activations + 1}, factor'.on => factor.on \/ activations' = activations + 1,
           NEW held \in [Requests -> Request], held = requests
    PROVE  SessionInv' /\ \A p \in Requests : Sound(p, held[p])'
  <1>0. activations \in Nat
    BY DEF Inv, TypeOK
  <1>1. SessionsFit'
    <2> SUFFICES ASSUME NEW s \in Ids
                 PROVE  /\ sessions'[s].level # "none" => s <= made
                        /\ sessions'[s].epoch <= activations'
                        /\ sessions'[s].level = "partial" => sessions'[s].created = sessions'[s].first /\ ~sessions'[s].bare
      BY DEF SessionsFit
    <2>1. sessions[s].epoch <= activations /\ sessions[s].epoch \in Nat
      BY SessionFields DEF Inv, SessionInv, SessionsFit
    <2>2. sessions'[s].epoch <= activations'
      BY <1>0, <2>1 DEF Rotation
    <2> QED BY <2>2 DEF Rotation, Inv, SessionInv, SessionsFit
  <1>2. OldSessionsEnd'
    BY DEF Rotation, Inv, SessionInv, OldSessionsEnd, Usable, passwords
  <1>3. LevelFits'
    <2> SUFFICES ASSUME NEW s \in Ids, sessions'[s].level = "full", sessions'[s].bare, factor'.on
                 PROVE  sessions'[s].epoch < activations'
      BY DEF LevelFits
    <2>1. sessions[s].epoch <= activations /\ sessions[s].epoch \in Nat /\ sessions'[s].epoch = sessions[s].epoch
      BY SessionFields DEF Inv, SessionInv, SessionsFit, Rotation
    <2>2. CASE activations' = activations + 1
      BY <1>0, <2>1, <2>2
    <2>3. CASE activations' = activations
      <3>1. factor.on
        BY <1>0, <2>3
      <3> QED BY <2>1, <2>3, <3>1 DEF Rotation, Inv, SessionInv, LevelFits
    <2> QED BY <2>2, <2>3
  <1>4. ASSUME NEW p \in Requests, NEW h \in Request, h = held[p] PROVE Sound(p, h)'
    <2>1. Sound(p, h)
      BY <1>4 DEF Inv, RequestInv
    <2>2. h.epoch <= activations /\ h.epoch \in Nat
      BY <2>1, Fields DEF Sound
    <2>3. h.epoch <= activations' /\ (activations' = activations + 1 => h.epoch < activations')
      BY <1>0, <2>2
    <2>4. h.stage = "inserted" /\ h.level = "full" /\ factor'.on => h.epoch < activations'
      BY <1>0, <2>1, <2>3 DEF Sound
    <2>5. h.session # 0 /\ sessions[h.session].level = "none" => sessions'[h.session].level = "none"
      <3>1. h.session # 0 => h.session \in Ids
        BY Fields, CredentialsAssumption DEF CredentialsAssumption, Ids
      <3> QED BY <3>1 DEF Rotation
    <2>6. \A s \in Ids : sessions'[s].level = sessions[s].level /\ sessions'[s].first = sessions[s].first
      BY DEF Rotation
    <2> QED BY <2>1, <2>3, <2>4, <2>5, <2>6 DEF Sound, passwords
  <1> QED BY <1>1, <1>2, <1>3, <1>4 DEF SessionInv

Factors == [box : Boxes, on : BOOLEAN, last : 0 .. MaxStep + 1]

LEMMA Accepted ==
    ASSUME TypeOK, NEW q \in Request, NEW f, f = AcceptedFactor(q)
    PROVE  /\ f \in Factors /\ f.box = factor.box /\ f.on = factor.on
           /\ f.last = IF q.step # 0 THEN q.step ELSE factor.last
  <1>1. factor \in Factors /\ q.step \in 0 .. MaxStep + 1
    BY Fields DEF TypeOK, Factors
  <1>2. CASE q.step # 0
    BY <1>1, <1>2 DEF AcceptedFactor, Factors
  <1>3. CASE q.step = 0
    BY <1>1, <1>3 DEF AcceptedFactor
  <1> QED BY <1>2, <1>3

\* What was spent stays worthless, as long as a secret is never drawn twice and the last step never goes back.
LEMMA StaysWorthless ==
    ASSUME Inv, NEW e, Worthless(e), drawn' \in Nat, drawn' >= drawn, sets' \in Nat, sets' >= sets,
           codes' \cap 1 .. sets \subseteq codes, factor \in Factors, factor' \in Factors,
           factor'.box.secret \in 1 .. drawn => factor'.box.secret = factor.box.secret /\ factor'.last >= factor.last
    PROVE  Worthless(e)'
  <1>0. drawn \in Nat /\ sets \in Nat
    BY CredentialsAssumption DEF CredentialsAssumption, Inv, TypeOK
  <1>1. CASE \E secret \in 1 .. drawn, t \in 1 .. MaxStep + 1 :
               e = <<secret, t, 0>> /\ (secret = factor.box.secret => t <= factor.last)
    <2>1. PICK secret \in 1 .. drawn, t \in 1 .. MaxStep + 1 :
               e = <<secret, t, 0>> /\ (secret = factor.box.secret => t <= factor.last)
      BY <1>1
    <2>2. secret \in 1 .. drawn'
      BY <1>0
    <2>3. secret = factor'.box.secret => t <= factor'.last
      <3>1. factor.last \in Nat /\ factor'.last \in Nat /\ t \in Nat
        BY CredentialsAssumption DEF CredentialsAssumption, Factors
      <3> QED BY <2>1, <3>1
    <2> QED BY <2>1, <2>2, <2>3 DEF Worthless
  <1>2. CASE \E c \in 1 .. sets : e = <<0, 0, c>> /\ c \notin codes
    <2>1. PICK c \in 1 .. sets : e = <<0, 0, c>> /\ c \notin codes
      BY <1>2
    <2>2. c \in 1 .. sets' /\ c \notin codes'
      BY <1>0, <2>1
    <2> QED BY <2>1, <2>2 DEF Worthless
  <1> QED BY <1>1, <1>2 DEF Worthless

LEMMA AllStayWorthless ==
    ASSUME Inv, UNCHANGED <<spent, respent>>, drawn' \in Nat, drawn' >= drawn, sets' \in Nat, sets' >= sets,
           codes' \cap 1 .. sets \subseteq codes, factor' \in Factors,
           factor'.box.secret \in 1 .. drawn => factor'.box.secret = factor.box.secret /\ factor'.last >= factor.last
    PROVE  AllWorthless' /\ CodeOnce'
  <1>1. factor \in Factors
    BY DEF Inv, TypeOK, Factors
  <1>2. \A e \in spent : Worthless(e)'
    BY <1>1, StaysWorthless DEF Inv, FactorInv, AllWorthless
  <1> QED BY <1>2 DEF Inv, FactorInv, AllWorthless, CodeOnce

\* The code that is accepted was not spent before, and is worthless afterwards.
LEMMA Spending ==
    ASSUME Inv, NEW q \in Request, Acceptable(q), Spend(q),
           drawn' = drawn, sets' \in Nat, sets' >= sets,
           codes' \cap 1 .. sets \subseteq codes, q.step = 0 => q.code \notin codes', factor' \in Factors,
           factor'.box.secret \in 1 .. drawn =>
               /\ factor'.box.secret = factor.box.secret /\ factor'.last >= factor.last
               /\ q.step # 0 => factor'.last = q.step
    PROVE  AllWorthless' /\ CodeOnce' /\ respent' \subseteq spent'
  <1>0. drawn \in Nat /\ sets \in Nat /\ factor \in Factors /\ codes \subseteq 1 .. sets /\ q.step \in 0 .. MaxStep + 1
    BY Fields, CredentialsAssumption DEF CredentialsAssumption, Inv, TypeOK, Factors
  <1>1. PICK code : /\ code = IF q.step # 0 THEN <<factor.box.secret, q.step, 0>> ELSE <<0, 0, q.code>>
                    /\ spent' = spent \cup {code} /\ respent' = respent \cup ({code} \cap spent)
    BY DEF Spend
  <1>2. ASSUME q.step # 0
        PROVE  code \notin spent /\ Worthless(code)'
    <2>1. factor.box.secret \in 1 .. drawn /\ factor.last < q.step /\ code = <<factor.box.secret, q.step, 0>>
      BY <1>1, <1>2 DEF Acceptable, Inv, FactorInv, Drawn
    <2>2. q.step \in 1 .. MaxStep + 1 /\ factor.last \in 0 .. MaxStep + 1
      BY <1>0, <1>2, CredentialsAssumption DEF CredentialsAssumption, Factors
    <2>3. ~Worthless(code)
      <3>1. ASSUME NEW secret \in 1 .. drawn, NEW t \in 1 .. MaxStep + 1, code = <<secret, t, 0>>,
                   secret = factor.box.secret => t <= factor.last
            PROVE  FALSE
        <4>1. secret = factor.box.secret /\ t = q.step
          BY <2>1, <3>1
        <4> QED BY <2>1, <2>2, <3>1, <4>1
      <3>2. ASSUME NEW c \in 1 .. sets, code = <<0, 0, c>> PROVE FALSE
        <4>1. q.step = 0
          BY <2>1, <3>2
        <4> QED BY <1>2, <4>1
      <3> QED BY <3>1, <3>2 DEF Worthless
    <2>4. factor.box.secret = factor'.box.secret => q.step <= factor'.last
      BY <1>2, <2>1, <2>2
    <2>5. Worthless(code)'
      <3>1. PICK secret \in 1 .. drawn' : secret = factor.box.secret
        BY <2>1
      <3>2. code = <<secret, q.step, 0>> /\ (secret = factor'.box.secret => q.step <= factor'.last)
        BY <2>1, <2>4, <3>1
      <3> QED BY <2>2, <3>2 DEF Worthless
    <2> QED BY <2>3, <2>5 DEF Inv, FactorInv, AllWorthless
  <1>3. ASSUME q.step = 0
        PROVE  code \notin spent /\ Worthless(code)'
    <2>1. q.code \in codes /\ code = <<0, 0, q.code>> /\ q.code \in 1 .. sets /\ q.code \in 1 .. sets'
      <3>1. q.code \in codes
        BY <1>3 DEF Acceptable
      <3>2. q.code \in 1 .. sets
        BY <1>0, <3>1
      <3>3. q.code \in 1 .. sets'
        BY <1>0, <3>2
      <3> QED BY <1>1, <1>3, <3>1, <3>2, <3>3
    <2>2. ~Worthless(code)
      <3>1. ASSUME NEW secret \in 1 .. drawn, NEW t \in 1 .. MaxStep + 1, code = <<secret, t, 0>> PROVE FALSE
        <4>1. secret = 0
          BY <2>1, <3>1
        <4> QED BY <4>1
      <3>2. ASSUME NEW c \in 1 .. sets, code = <<0, 0, c>>, c \notin codes PROVE FALSE
        BY <2>1, <3>2
      <3> QED BY <3>1, <3>2 DEF Worthless
    <2>3. Worthless(code)'
      BY <1>3, <2>1 DEF Worthless
    <2> QED BY <2>2, <2>3 DEF Inv, FactorInv, AllWorthless
  <1>4. code \notin spent /\ Worthless(code)'
    BY <1>2, <1>3
  <1>5. \A e \in spent : Worthless(e)'
    BY <1>0, StaysWorthless DEF Inv, FactorInv, AllWorthless
  <1>6. AllWorthless'
    BY <1>1, <1>4, <1>5 DEF AllWorthless
  <1>7. respent' = {}
    BY <1>1, <1>4 DEF Inv, FactorInv, CodeOnce
  <1> QED BY <1>6, <1>7 DEF CodeOnce

\* A step that changes nothing but that the request ends.
LEMMA RefusedKeeps ==
    ASSUME Inv, NEW r \in Requests, End(r), UNCHANGED <<passwords, secondFactor, sessions, made>>
    PROVE  Inv'
  BY Blank, Zero, Ending, AskedQuietly DEF Making, Inv

LEMMA LastGrows ==
    ASSUME Inv, NEW q \in Request, Acceptable(q), NEW f, f = AcceptedFactor(q)
    PROVE  f.last >= factor.last /\ (q.step # 0 => f.last = q.step)
  <1>1. factor.last \in Nat /\ q.step \in Nat
    BY Fields, CredentialsAssumption DEF CredentialsAssumption, Inv, TypeOK
  <1>2. f.last = IF q.step # 0 THEN q.step ELSE factor.last
    BY Accepted DEF Inv
  <1> QED BY <1>1, <1>2 DEF Acceptable

\* A step that accepts a code and ends the request.
LEMMA WrittenKeeps ==
    ASSUME Inv, NEW r \in Requests, End(r), UNCHANGED <<passwords, drawn, key, step, made>>, Rotation,
           activations' \in {activations, activations + 1}, factor'.on => factor.on \/ activations' = activations + 1,
           factor' \in Factors, codes' \subseteq 1 .. sets', sets' \in Nat, proven' \in 0 .. MaxSecrets,
           respent' \subseteq spent', FactorInv'
    PROVE  Inv'
  <1>1. PICK held \in [Requests -> Request] : held = requests
    BY DEF Inv, TypeOK
  <1>2. requests' \in [Requests -> Request]
    BY Ending, Becoming, Blank DEF Inv
  <1>3. activations' \in Nat
    BY DEF Inv, TypeOK
  <1>4. TypeOK'
    BY <1>2, <1>3 DEF Inv, TypeOK, Factors, Rotation, passwords
  <1>5. SessionInv' /\ \A p \in Requests : Sound(p, held[p])'
    BY <1>1, FactorMoves
  <1>6. RequestInv'
    BY <1>1, <1>4, <1>5, Leaves
  <1> QED BY <1>4, <1>5, <1>6 DEF Inv

LEMMA ActivateKeeps == ASSUME Inv, NEW r \in Requests, Activate(r) PROVE Inv'
  <1>1. PICK q \in Request : q = requests[r]
    BY DEF Inv, TypeOK
  <1>2. PICK f : f = AcceptedFactor(q)
    OBVIOUS
  <1> DEFINE Ok == Acceptable(q) /\ ~factor.on /\ factor.box = q.box /\ sessions[q.session].level = "full"
  <1>3. CASE Ok
    <2>1. /\ factor' = [f EXCEPT !.on = TRUE] /\ sets' = sets + 1 /\ codes' = {sets + 1} /\ activations' = activations + 1
          /\ proven' = q.box.secret /\ sessions' = Rotated(q.session) /\ Spend(q) /\ End(r)
          /\ UNCHANGED <<passwords, drawn, key, step, made>> /\ q.stage = "matched" /\ q.kind = "confirm"
      BY <1>1, <1>2, <1>3 DEF Activate, ReadyToWrite
    <2>2. Rotation
      BY <1>1, <1>3, <2>1, RotatedRotation
    <2>3. f \in Factors /\ f.box = factor.box
      BY <1>2, Accepted DEF Inv
    <2>4. factor' \in Factors /\ factor'.box = factor.box /\ factor'.on /\ factor'.last = f.last
      BY <2>1, <2>3 DEF Factors
    <2>5. sets \in Nat /\ sets' \in Nat /\ sets' >= sets /\ codes \subseteq 1 .. sets /\ codes' \subseteq 1 .. sets'
      BY <2>1 DEF Inv, TypeOK
    <2>6. codes' \cap 1 .. sets \subseteq codes /\ (q.step = 0 => q.code \notin codes')
      BY <1>3, <2>1, <2>5 DEF Acceptable
    <2>7. factor'.last >= factor.last /\ (q.step # 0 => factor'.last = q.step)
      BY <1>2, <1>3, <2>4, LastGrows
    <2>8. AllWorthless' /\ CodeOnce' /\ respent' \subseteq spent'
      BY <1>3, <2>1, <2>4, <2>5, <2>6, <2>7, Spending
    <2>9. FactorInv'
      <3>1. factor'.box # NoBox
        <4>1. q.step # 0
          BY <1>1, <2>1 DEF Inv, RequestInv, Sound
        <4> QED BY <1>3, <2>4, <4>1 DEF Acceptable
      <3>2. Drawn'
        BY <2>1, <2>4, <3>1 DEF Inv, FactorInv, Drawn
      <3>3. ActivatedIsVerified'
        BY <1>3, <2>1, <2>4 DEF ActivatedIsVerified
      <3> QED BY <2>8, <3>2, <3>3 DEF FactorInv
    <2>10. proven' \in 0 .. MaxSecrets
      BY <2>1, Fields
    <2> QED BY <2>1, <2>2, <2>4, <2>5, <2>8, <2>9, <2>10, WrittenKeeps
  <1>4. CASE ~Ok
    <2>1. End(r) /\ UNCHANGED <<passwords, secondFactor, sessions, made>>
      BY <1>1, <1>4 DEF Activate, secondFactor
    <2> QED BY <2>1, RefusedKeeps
  <1> QED BY <1>3, <1>4

LEMMA CompleteSignInKeeps == ASSUME Inv, NEW r \in Requests, CompleteSignIn(r) PROVE Inv'
  <1>1. PICK q \in Request : q = requests[r]
    BY DEF Inv, TypeOK
  <1>2. PICK f : f = AcceptedFactor(q)
    OBVIOUS
  <1>3. PICK held \in [Requests -> Request] : held = requests
    BY DEF Inv, TypeOK
  <1>4. /\ UNCHANGED <<passwords, drawn, key, step, sets, activations, proven, made>>
        /\ q.stage = "matched" /\ q.kind = "verify" /\ locked = NoRequest
    BY <1>1 DEF CompleteSignIn, ReadyToWrite, Unlocked
  <1>5. CASE Acceptable(q) /\ Promotable(q.session)
    <2>1. PICK new : new = [sessions[q.session] EXCEPT !.level = "full", !.created = begun, !.failures = 0]
      OBVIOUS
    <2>2. /\ factor' = f /\ codes' = codes \ {q.code} /\ sessions' = [sessions EXCEPT ![q.session] = new]
          /\ Spend(q) /\ End(r)
      BY <1>1, <1>2, <1>5, <2>1 DEF CompleteSignIn, AcceptedCodes
    <2>3. /\ f \in Factors /\ f.box = factor.box /\ f.on = factor.on
          /\ f.last >= factor.last /\ (q.step # 0 => f.last = q.step)
      BY <1>2, <1>5, Accepted, LastGrows DEF Inv
    <2>4. sets \in Nat /\ sets' \in Nat /\ sets' >= sets /\ codes' \subseteq 1 .. sets'
      <3>1. sets' = sets /\ codes' \subseteq codes
        BY <1>4, <2>2
      <3>2. sets \in Nat /\ codes \subseteq 1 .. sets
        BY DEF Inv, TypeOK
      <3> QED BY <3>1, <3>2
    <2>5. AllWorthless' /\ CodeOnce' /\ respent' \subseteq spent'
      BY <1>4, <1>5, <2>2, <2>3, <2>4, Spending
    <2>6. FactorInv'
      <3>1. Drawn' /\ ActivatedIsVerified'
        BY <1>4, <2>2, <2>3 DEF Inv, FactorInv, Drawn, ActivatedIsVerified
      <3> QED BY <2>5, <3>1 DEF FactorInv
    <2>7. ASSUME q.session \in Ids
          PROVE  /\ new \in Session /\ new.level = "full" /\ new.first = sessions[q.session].first /\ ~new.bare
                 /\ new.epoch = sessions[q.session].epoch /\ sessions[q.session].level = "partial"
                 /\ new.first >= changedAt
      <3>1. sessions[q.session] \in Session /\ begun \in 0 .. MaxChanges
        BY <2>7, SessionFields DEF Inv, TypeOK
      <3>2. /\ new \in Session /\ new.level = "full" /\ new.first = sessions[q.session].first
            /\ new.bare = sessions[q.session].bare /\ new.epoch = sessions[q.session].epoch
        <4>1. 0 \in 0 .. MaxFailures - 1 /\ "full" \in Levels
          BY CredentialsAssumption DEF CredentialsAssumption, Levels
        <4> QED BY <2>1, <3>1, <4>1 DEF Session
      <3>3. sessions[q.session].level = "partial" /\ sessions[q.session].created >= changedAt
        BY <1>5 DEF Promotable
      <3>4. sessions[q.session].created = sessions[q.session].first /\ ~sessions[q.session].bare
        BY <2>7, <3>3 DEF Inv, SessionInv, SessionsFit
      <3> QED BY <3>2, <3>3, <3>4
    <2>8. /\ sessions' \in [Ids -> Session]
          /\ \A s \in Ids : sessions'[s] = IF s = q.session THEN new ELSE sessions[s]
      BY <2>2, <2>7 DEF Inv, TypeOK
    <2>9. requests' \in [Requests -> Request]
      BY <2>2, Ending, Becoming, Blank DEF Inv
    <2>10. TypeOK'
      BY <1>4, <2>2, <2>3, <2>4, <2>5, <2>8, <2>9 DEF Inv, TypeOK, Factors, passwords
    <2>11. SessionInv'
      <3>1. SessionsFit'
        BY <1>4, <2>7, <2>8 DEF Inv, SessionInv, SessionsFit
      <3>2. OldSessionsEnd'
        BY <1>4, <2>7, <2>8 DEF Inv, SessionInv, OldSessionsEnd, Usable, passwords
      <3>3. LevelFits'
        BY <1>4, <2>2, <2>3, <2>7, <2>8 DEF Inv, SessionInv, LevelFits
      <3> QED BY <3>1, <3>2, <3>3 DEF SessionInv
    <2>12. ASSUME NEW p \in Requests \ {r}, NEW h \in Request, h = held[p] PROVE Sound(p, h)'
      <3>1. Sound(p, h) /\ h.stage \notin {"begun", "revoked"}
        BY <1>3, <1>4, <2>12, CredentialsAssumption DEF CredentialsAssumption, Inv, RequestInv, Sound
      <3>2. Making(h) => h.session # 0 /\ sessions'[h.session].level = "none"
        <4>1. h.session # 0 => h.session \in Ids
          BY Fields, CredentialsAssumption DEF CredentialsAssumption, Ids
        <4> QED BY <2>7, <2>8, <3>1, <4>1 DEF Sound
      <3>3. h.stage = "matched" =>
                \A s \in Ids : s = h.session /\ sessions'[s].level = "full" => sessions'[s].first >= changedAt'
        BY <1>4, <2>7, <2>8, <3>1 DEF Sound, passwords
      <3> QED BY <1>4, <2>2, <2>3, <3>1, <3>2, <3>3 DEF Sound, passwords
    <2>13. RequestInv'
      BY <1>3, <2>2, <2>10, <2>12, Leaves
    <2> QED BY <2>6, <2>10, <2>11, <2>13 DEF Inv
  <1>6. CASE Acceptable(q) /\ ~Promotable(q.session)
    <2>1. End(r) /\ UNCHANGED <<passwords, secondFactor, sessions, made>>
      BY <1>1, <1>6 DEF CompleteSignIn, secondFactor
    <2> QED BY <2>1, RefusedKeeps
  <1>7. CASE ~Acceptable(q)
    <2> DEFINE next == [q EXCEPT !.stage = "failed"]
    <2>1. Becomes(r, next) /\ UNCHANGED <<passwords, secondFactor, sessions, made>>
      BY <1>1, <1>7 DEF CompleteSignIn, secondFactor
    <2>2. /\ next \in Request /\ next.kind = "verify" /\ next.stage = "failed" /\ next.session = q.session
          /\ next.date = q.date /\ next.epoch = q.epoch /\ next.step = q.step /\ next.box = q.box
      BY <1>4 DEF Request
    <2> HIDE DEF next
    <2>3. Sound(r, q) /\ \A p \in Requests \ {r} : Making(requests[p]) => requests[p].session # q.session
      BY <1>1 DEF Inv, RequestInv, Apart
    <2>4. ~Making(next)
      BY <2>2 DEF Making
    <2> QED BY <2>1, <2>2, <2>3, <2>4, AskedQuietly DEF Sound
  <1> QED BY <1>5, <1>6, <1>7

LEMMA RegenerateKeeps == ASSUME Inv, NEW r \in Requests, Regenerate(r) PROVE Inv'
  <1>1. PICK q \in Request : q = requests[r]
    BY DEF Inv, TypeOK
  <1>2. PICK f : f = AcceptedFactor(q)
    OBVIOUS
  <1>3. CASE factor.on /\ Acceptable(q)
    <2>1. /\ factor' = f /\ sets' = sets + 1 /\ codes' = {sets + 1} /\ Spend(q) /\ End(r)
          /\ UNCHANGED <<passwords, drawn, key, step, activations, proven, sessions, made>>
      BY <1>1, <1>2, <1>3 DEF Regenerate
    <2>2. Rotation
      BY <2>1, NoRotation
    <2>3. /\ f \in Factors /\ f.box = factor.box /\ f.on = factor.on
          /\ f.last >= factor.last /\ (q.step # 0 => f.last = q.step)
      BY <1>2, <1>3, Accepted, LastGrows DEF Inv
    <2>4. sets \in Nat /\ sets' \in Nat /\ sets' >= sets /\ codes \subseteq 1 .. sets /\ codes' \subseteq 1 .. sets'
      BY <2>1 DEF Inv, TypeOK
    <2>5. codes' \cap 1 .. sets \subseteq codes /\ (q.step = 0 => q.code \notin codes')
      BY <1>3, <2>1, <2>4 DEF Acceptable
    <2>6. AllWorthless' /\ CodeOnce' /\ respent' \subseteq spent'
      BY <1>3, <2>1, <2>3, <2>4, <2>5, Spending
    <2>7. FactorInv'
      <3>1. Drawn' /\ ActivatedIsVerified'
        BY <2>1, <2>3 DEF Inv, FactorInv, Drawn, ActivatedIsVerified
      <3> QED BY <2>6, <3>1 DEF FactorInv
    <2>8. proven' \in 0 .. MaxSecrets /\ activations' = activations
      BY <2>1 DEF Inv, TypeOK
    <2> QED BY <1>3, <2>1, <2>2, <2>3, <2>4, <2>6, <2>7, <2>8, WrittenKeeps
  <1>4. CASE ~(factor.on /\ Acceptable(q))
    <2>1. End(r) /\ UNCHANGED <<passwords, secondFactor, sessions, made>>
      BY <1>1, <1>4 DEF Regenerate, secondFactor
    <2> QED BY <2>1, RefusedKeeps
  <1> QED BY <1>3, <1>4

LEMMA Off == FactorOff \in Factors /\ FactorOff.box = NoBox /\ FactorOff.box.secret = 0 /\ ~FactorOff.on
  BY CredentialsAssumption DEF CredentialsAssumption, FactorOff, Factors, Boxes, NoBox

LEMMA DisableKeeps == ASSUME Inv, NEW r \in Requests, Disable(r) PROVE Inv'
  <1>1. PICK q \in Request : q = requests[r]
    BY DEF Inv, TypeOK
  <1> DEFINE Ok == factor.on /\ Acceptable(q) /\ sessions[q.session].level = "full"
  <1>2. CASE Ok
    <2>1. /\ factor' = FactorOff /\ codes' = {} /\ sessions' = Rotated(q.session) /\ Spend(q) /\ End(r)
          /\ UNCHANGED <<passwords, drawn, key, step, sets, activations, proven, made>> /\ q.stage = "matched"
      BY <1>1, <1>2 DEF Disable, ReadyToWrite
    <2>2. Rotation
      BY <1>1, <1>2, <2>1, RotatedRotation
    <2>3. /\ factor' \in Factors /\ factor'.box = NoBox /\ ~factor'.on
          /\ factor'.box.secret \notin 1 .. drawn
      BY <2>1, Off DEF Inv, TypeOK
    <2>4. sets' \in Nat /\ sets' >= sets /\ codes' \subseteq 1 .. sets'
      BY <2>1 DEF Inv, TypeOK
    <2>5. AllWorthless' /\ CodeOnce' /\ respent' \subseteq spent'
      BY <1>2, <2>1, <2>3, <2>4, Spending
    <2>6. FactorInv'
      <3>1. Drawn' /\ ActivatedIsVerified'
        BY <2>3 DEF Drawn, ActivatedIsVerified
      <3> QED BY <2>5, <3>1 DEF FactorInv
    <2>7. proven' \in 0 .. MaxSecrets /\ activations' = activations
      BY <2>1 DEF Inv, TypeOK
    <2> QED BY <2>1, <2>2, <2>3, <2>4, <2>5, <2>6, <2>7, WrittenKeeps
  <1>3. CASE ~Ok
    <2>1. End(r) /\ UNCHANGED <<passwords, secondFactor, sessions, made>>
      BY <1>1, <1>3 DEF Disable, secondFactor
    <2> QED BY <2>1, RefusedKeeps
  <1> QED BY <1>2, <1>3

LEMMA ReauthenticateKeeps == ASSUME Inv, NEW r \in Requests, Reauthenticate(r) PROVE Inv'
  <1>1. PICK q \in Request : q = requests[r]
    BY DEF Inv, TypeOK
  <1>2. PICK f : f = AcceptedFactor(q)
    OBVIOUS
  <1> DEFINE Ok == Acceptable(q) /\ sessions[q.session].level = "full"
  <1>3. CASE Ok
    <2>1. /\ factor' = f /\ Spend(q) /\ End(r)
          /\ UNCHANGED <<passwords, codes, drawn, key, step, sets, activations, proven, sessions, made>>
          /\ q.kind = "reauth" /\ q.stage = "matched"
      BY <1>1, <1>2, <1>3 DEF Reauthenticate, ReadyToWrite
    <2>2. Rotation
      BY <2>1, NoRotation
    <2>3. /\ f \in Factors /\ f.box = factor.box /\ f.on = factor.on
          /\ f.last >= factor.last /\ (q.step # 0 => f.last = q.step)
      BY <1>2, <1>3, Accepted, LastGrows DEF Inv
    <2>4. sets' \in Nat /\ sets' >= sets /\ codes' \subseteq 1 .. sets'
      BY <2>1 DEF Inv, TypeOK
    <2>5. q.step # 0
      BY <1>1, <2>1 DEF Inv, RequestInv, Sound
    <2>6. AllWorthless' /\ CodeOnce' /\ respent' \subseteq spent'
      BY <1>3, <2>1, <2>3, <2>4, <2>5, Spending
    <2>7. FactorInv'
      <3>1. Drawn' /\ ActivatedIsVerified'
        BY <2>1, <2>3 DEF Inv, FactorInv, Drawn, ActivatedIsVerified
      <3> QED BY <2>6, <3>1 DEF FactorInv
    <2>8. proven' \in 0 .. MaxSecrets /\ activations' = activations
      BY <2>1 DEF Inv, TypeOK
    <2> QED BY <2>1, <2>2, <2>3, <2>4, <2>6, <2>7, <2>8, WrittenKeeps
  <1>4. CASE ~Ok
    <2>1. End(r) /\ UNCHANGED <<passwords, secondFactor, sessions, made>>
      BY <1>1, <1>4 DEF Reauthenticate, secondFactor
    <2> QED BY <2>1, RefusedKeeps
  <1> QED BY <1>3, <1>4

LEMMA ResealKeeps == ASSUME Inv, NEW r \in Requests, Reseal(r) PROVE Inv'
  <1>1. PICK q \in Request : q = requests[r]
    BY DEF Inv, TypeOK
  <1>2. PICK box : box = [q.box EXCEPT !.key = key]
    OBVIOUS
  <1>3. PICK next : next = [q EXCEPT !.box = box]
    OBVIOUS
  <1>4. /\ q.stage = "matched" /\ q.step # 0 /\ q.box.secret # 0
        /\ UNCHANGED <<passwords, codes, drawn, key, step, sets, activations, proven, spent, respent, sessions, made>>
    BY <1>1 DEF Reseal, Inv, RequestInv, Sound
  <1>5. box \in Boxes /\ box.secret = q.box.secret
    BY <1>2, Fields DEF Boxes, Inv, TypeOK
  <1>6. /\ next \in Request /\ next.kind = q.kind /\ next.stage = q.stage /\ next.session = q.session
        /\ next.others = q.others /\ next.date = q.date /\ next.epoch = q.epoch /\ next.step = q.step
        /\ next.level = q.level /\ next.box = box
    BY <1>3, <1>5 DEF Request
  <1>7. /\ Sound(r, q)
        /\ \A p \in Requests \ {r} : Apart(r, q, p, requests[p]) /\ Apart(p, requests[p], r, q)
    BY <1>1 DEF Inv, RequestInv
  <1>8. Making(next) = Making(q)
    BY <1>6 DEF Making
  <1>9. CASE factor.box = q.box
    <2>1. factor' = [factor EXCEPT !.box = box] /\ Becomes(r, next)
      BY <1>1, <1>2, <1>3, <1>9 DEF Reseal
    <2>2. PICK held \in [Requests -> Request] : held = requests
      BY DEF Inv, TypeOK
    <2>3. /\ factor' \in Factors /\ factor'.box = box /\ factor'.on = factor.on /\ factor'.last = factor.last
          /\ factor'.box.secret = factor.box.secret
      BY <1>5, <1>9, <2>1 DEF Inv, TypeOK, Factors
    <2>4. requests' \in [Requests -> Request]
      BY <1>6, <2>1, Becoming DEF Inv
    <2>5. TypeOK'
      BY <1>4, <2>3, <2>4 DEF Inv, TypeOK, Factors, passwords
    <2>6. FactorInv'
      <3>1. drawn' \in Nat /\ drawn' >= drawn /\ sets' \in Nat /\ sets' >= sets /\ factor.last \in Nat
        BY <1>4, CredentialsAssumption DEF CredentialsAssumption, Inv, TypeOK
      <3>2. AllWorthless' /\ CodeOnce'
        <4>1. codes' \cap 1 .. sets \subseteq codes /\ factor'.last >= factor.last
          BY <1>4, <2>3, <3>1
        <4> QED BY <1>4, <2>3, <3>1, <4>1, AllStayWorthless
      <3>3. factor'.box # NoBox /\ factor.box # NoBox
        BY <1>4, <1>5, <1>9, <2>3 DEF NoBox
      <3>4. Drawn'
        BY <1>4, <2>3, <3>3 DEF Drawn, Inv, FactorInv
      <3>5. ActivatedIsVerified'
        BY <1>4, <2>3 DEF ActivatedIsVerified, Inv, FactorInv
      <3> QED BY <3>2, <3>4, <3>5 DEF FactorInv
    <2>7. SessionInv' /\ \A p \in Requests : Sound(p, held[p])'
      <3>1. Rotation
        BY <1>4, NoRotation
      <3> QED BY <1>4, <2>2, <2>3, <3>1, FactorMoves
    <2>8. Sound(r, next)'
      <3>1. Sound(r, q)'
        BY <1>1, <2>2, <2>7
      <3> QED BY <1>4, <1>5, <1>6, <1>8, <3>1 DEF Sound
    <2>9. \A p \in Requests \ {r} : Apart(r, next, p, held[p]) /\ Apart(p, held[p], r, next)
      BY <1>6, <1>7, <1>8, <2>2 DEF Apart
    <2>10. RequestInv'
      BY <1>6, <2>1, <2>2, <2>7, <2>8, <2>9, OneMoves
    <2> QED BY <2>5, <2>6, <2>7, <2>10 DEF Inv
  <1>10. CASE factor.box # q.box /\ q.kind = "confirm"
    <2>1. End(r) /\ UNCHANGED <<passwords, secondFactor, sessions, made>>
      BY <1>1, <1>10 DEF Reseal, secondFactor
    <2> QED BY <2>1, RefusedKeeps
  <1>11. CASE factor.box # q.box /\ q.kind # "confirm"
    <2>1. Becomes(r, next) /\ UNCHANGED <<passwords, secondFactor, sessions, made>>
      BY <1>1, <1>2, <1>3, <1>11 DEF Reseal, secondFactor
    <2>2. UNCHANGED <<changedAt, secondFactor, sessions>> /\ locked' = locked
      BY <2>1 DEF passwords
    <2>3. made' \in made .. MaxSessions /\ begun' \in begun .. MaxChanges /\ locked' \in Requests \cup {NoRequest}
      BY <2>1, CredentialsAssumption DEF CredentialsAssumption, Inv, TypeOK, passwords
    <2>4. Sound(r, next)'
      BY <1>4, <1>5, <1>6, <1>7, <1>8, <2>1 DEF Sound, passwords, secondFactor
    <2>5. \A p \in Requests \ {r} : Apart(r, next, p, requests[p]) /\ Apart(p, requests[p], r, next)
      BY <1>6, <1>7, <1>8 DEF Apart
    <2> QED BY <1>6, <2>1, <2>2, <2>3, <2>4, <2>5, Asked
  <1> QED BY <1>9, <1>10, <1>11

\* A step of the second factor that no request takes.
LEMMA QuietKeeps ==
    ASSUME Inv, UNCHANGED <<passwords, sets, activations, proven, spent, respent, sessions, made, requests>>,
           factor' \in Factors, codes' = codes, drawn' \in 0 .. MaxSecrets, drawn' >= drawn, key' \in 0 .. MaxKey, step' \in 1 .. MaxStep,
           factor'.on => factor' = factor,
           \/ factor' = factor
           \/ factor'.box.secret \in 1 .. drawn' /\ factor'.box.secret \notin 1 .. drawn
    PROVE  Inv'
  <1>1. PICK held \in [Requests -> Request] : held = requests
    BY DEF Inv, TypeOK
  <1>2. TypeOK'
    BY DEF Inv, TypeOK, Factors, passwords
  <1>3. Rotation
    BY NoRotation
  <1>4. SessionInv' /\ \A p \in Requests : Sound(p, held[p])'
    BY <1>1, <1>3, FactorMoves
  <1>5. RequestInv'
    BY <1>1, <1>4, NoneMoves
  <1>6. /\ drawn \in Nat /\ drawn' \in Nat /\ sets' \in Nat /\ sets' >= sets /\ codes' \cap 1 .. sets \subseteq codes
        /\ factor.last \in Nat
    BY CredentialsAssumption DEF CredentialsAssumption, Inv, TypeOK
  <1>7. factor'.box.secret \in 1 .. drawn => factor'.box.secret = factor.box.secret /\ factor'.last >= factor.last
    BY <1>6
  <1>8. AllWorthless' /\ CodeOnce'
    BY <1>6, <1>7, AllStayWorthless
  <1>9. Drawn'
    <2>1. factor'.box = NoBox \/ factor'.box.secret \in 1 .. drawn'
      BY <1>6 DEF Inv, FactorInv, Drawn
    <2>2. factor'.on => factor'.box # NoBox
      BY DEF Inv, FactorInv, Drawn
    <2> QED BY <2>1, <2>2 DEF Drawn
  <1>10. ActivatedIsVerified'
    BY DEF Inv, FactorInv, ActivatedIsVerified
  <1> QED BY <1>2, <1>4, <1>5, <1>8, <1>9, <1>10 DEF Inv, FactorInv

LEMMA StartEnrollmentKeeps == ASSUME Inv, NEW s \in Ids, StartEnrollment(s) PROVE Inv'
  <1>1. /\ UNCHANGED <<passwords, sets, activations, proven, spent, respent, sessions, made, requests>>
        /\ UNCHANGED <<codes, key, step>> /\ drawn < MaxSecrets /\ drawn' = drawn + 1
        /\ factor' = [box |-> [secret |-> drawn + 1, key |-> key], on |-> FALSE, last |-> 0]
    BY DEF StartEnrollment
  <1>2. drawn \in Nat /\ drawn + 1 \in 0 .. MaxSecrets /\ key \in 0 .. MaxKey /\ step \in 1 .. MaxStep
    BY <1>1, CredentialsAssumption DEF CredentialsAssumption, Inv, TypeOK
  <1>3. factor' \in Factors /\ factor'.box.secret = drawn + 1 /\ ~factor'.on
    BY <1>1, <1>2, CredentialsAssumption DEF CredentialsAssumption, Factors, Boxes
  <1>4. drawn + 1 \in 1 .. drawn' /\ drawn + 1 \notin 1 .. drawn /\ drawn' >= drawn /\ drawn' \in 0 .. MaxSecrets
    BY <1>1, <1>2
  <1> QED BY <1>1, <1>2, <1>3, <1>4, QuietKeeps

LEMMA TickKeeps == ASSUME Inv, Tick PROVE Inv'
  <1>1. /\ UNCHANGED <<passwords, sets, activations, proven, spent, respent, sessions, made, requests>>
        /\ UNCHANGED <<factor, codes, key, drawn>> /\ step < MaxStep /\ step' = step + 1
    BY DEF Tick
  <1>2. step' \in 1 .. MaxStep /\ drawn \in 0 .. MaxSecrets /\ drawn' >= drawn /\ key \in 0 .. MaxKey /\ factor \in Factors
    BY <1>1, CredentialsAssumption DEF CredentialsAssumption, Inv, TypeOK, Factors
  <1> QED BY <1>1, <1>2, QuietKeeps

LEMMA RetireKeyKeeps == ASSUME Inv, RetireKey PROVE Inv'
  <1>1. /\ UNCHANGED <<passwords, sets, activations, proven, spent, respent, sessions, made, requests>>
        /\ UNCHANGED <<factor, codes, step, drawn>> /\ key < MaxKey /\ key' = key + 1
    BY DEF RetireKey
  <1>2. step \in 1 .. MaxStep /\ drawn \in 0 .. MaxSecrets /\ drawn' >= drawn /\ key' \in 0 .. MaxKey /\ factor \in Factors
    BY <1>1, CredentialsAssumption DEF CredentialsAssumption, Inv, TypeOK, Factors
  <1> QED BY <1>1, <1>2, QuietKeeps

LEMMA ResetFactorKeeps == ASSUME Inv, ResetFactor PROVE Inv'
  <1>1. PICK held \in [Requests -> Request] : held = requests
    BY DEF Inv, TypeOK
  <1>2. /\ UNCHANGED <<passwords, drawn, key, step, sets, activations, proven, spent, respent, made, requests>>
        /\ factor' = FactorOff /\ codes' = {} /\ sessions' = [s \in Ids |-> NoSession]
    BY DEF ResetFactor
  <1>3. /\ factor' \in Factors /\ factor'.box = NoBox /\ ~factor'.on /\ factor'.box.secret = 0
        /\ \A s \in Ids : sessions'[s] = NoSession
    BY <1>2, Off
  <1>4. TypeOK'
    BY <1>2, <1>3, BlankSession DEF Inv, TypeOK, Factors, passwords
  <1>5. FactorInv'
    <2>1. drawn' \in Nat /\ drawn' >= drawn /\ sets' \in Nat /\ sets' >= sets /\ 0 \notin 1 .. drawn
      BY <1>2, CredentialsAssumption DEF CredentialsAssumption, Inv, TypeOK
    <2>2. AllWorthless' /\ CodeOnce'
      BY <1>2, <1>3, <2>1, AllStayWorthless
    <2> QED BY <1>3, <2>2 DEF FactorInv, Drawn, ActivatedIsVerified
  <1>6. SessionInv'
    BY <1>2, <1>3, BlankSession, Zero DEF SessionInv, SessionsFit, OldSessionsEnd, LevelFits, Usable
  <1>7. ASSUME NEW p \in Requests, NEW h \in Request, h = held[p] PROVE Sound(p, h)'
    <2>1. Sound(p, h)
      BY <1>1, <1>7 DEF Inv, RequestInv
    <2>2. Making(h) => h.session # 0 /\ sessions'[h.session].level = "none"
      <3>1. h.session # 0 => h.session \in Ids
        BY Fields, CredentialsAssumption DEF CredentialsAssumption, Ids
      <3> QED BY <1>3, <2>1, <3>1, BlankSession DEF Sound
    <2>3. \A s \in Ids : sessions'[s].level # "full"
      BY <1>3, BlankSession
    <2> QED BY <1>2, <1>3, <2>1, <2>2, <2>3 DEF Sound, passwords
  <1>8. RequestInv'
    BY <1>1, <1>2, <1>7, NoneMoves
  <1> QED BY <1>4, <1>5, <1>6, <1>8 DEF Inv

-----------------------------------------------------------------------------
LEMMA InvInit == Init => Inv
  <1> SUFFICES ASSUME Init PROVE Inv
    OBVIOUS
  <1>1. PICK first : first = [NoSession EXCEPT !.level = "full", !.bare = TRUE]
    OBVIOUS
  <1>2. /\ first \in Session /\ first.level = "full" /\ first.bare /\ first.created = 0 /\ first.first = 0
        /\ first.epoch = 0
    BY <1>1, BlankSession DEF Session, Levels
  <1>3. /\ changedAt = 0 /\ begun = 0 /\ locked = NoRequest /\ factor = FactorOff /\ codes = {} /\ drawn = 0
        /\ key = 0 /\ step = 1 /\ sets = 0 /\ activations = 0 /\ proven = 0 /\ spent = {} /\ respent = {} /\ made = 1
        /\ sessions = [s \in Ids |-> IF s = 1 THEN first ELSE NoSession] /\ requests = [r \in Requests |-> Done]
    BY <1>1 DEF Init
  <1>4. sessions \in [Ids -> Session] /\ \A s \in Ids : sessions[s] = IF s = 1 THEN first ELSE NoSession
    BY <1>2, <1>3, BlankSession
  <1>5. TypeOK
    <2>1. requests \in [Requests -> Request]
      BY <1>3, Blank
    <2>2. factor \in [box : Boxes, on : BOOLEAN, last : 0 .. MaxStep + 1]
      BY <1>3, Off DEF Factors
    <2>3. /\ changedAt \in 0 .. begun /\ begun \in 0 .. MaxChanges /\ drawn \in 0 .. MaxSecrets /\ key \in 0 .. MaxKey
          /\ step \in 1 .. MaxStep /\ made \in 0 .. MaxSessions /\ sets \in Nat /\ activations \in Nat
          /\ proven \in 0 .. MaxSecrets
      BY <1>3, CredentialsAssumption DEF CredentialsAssumption
    <2> QED BY <1>3, <1>4, <2>1, <2>2, <2>3 DEF TypeOK
  <1>6. FactorInv
    BY <1>3, Off DEF FactorInv, Drawn, AllWorthless, CodeOnce, ActivatedIsVerified
  <1>7. SessionInv
    BY <1>2, <1>3, <1>4, BlankSession, Off DEF SessionInv, SessionsFit, OldSessionsEnd, LevelFits, Usable
  <1>8. RequestInv
    <2>1. \A r \in Requests : requests[r] = Done
      BY <1>3
    <2> QED BY <1>5, <2>1, DoneSound, Blank DEF RequestInv, Apart, Making
  <1> QED BY <1>5, <1>6, <1>7, <1>8 DEF Inv

LEMMA InvUnchanged == ASSUME Inv, UNCHANGED vars PROVE Inv'
  <1>1. UNCHANGED <<passwords, secondFactor, made, sessions, requests>>
    BY DEF vars
  <1>2. PICK held \in [Requests -> Request] : held = requests
    BY DEF Inv, TypeOK
  <1>3. Fewer /\ requests' \in [Requests -> Request]
    BY <1>1 DEF Fewer, Inv, TypeOK
  <1>4. RequestInv'
    BY <1>1, <1>2, <1>3, FewerKeeps, NoneMoves
  <1> QED BY <1>1, <1>2, <1>3, <1>4, FewerKeeps DEF Inv

LEMMA InvNext == Inv /\ [Next]_vars => Inv'
  <1> SUFFICES ASSUME Inv, [Next]_vars PROVE Inv'
    OBVIOUS
  <1>1. ASSUME NEW r \in Requests,
               \/ LookUp(r) \/ ReadLevel(r) \/ Insert(r) \/ CommitSession(r)
               \/ AskReset(r) \/ BeginChange(r) \/ RevokeOthers(r) \/ CommitChange(r) \/ CommitReset(r)
               \/ Reseal(r) \/ Activate(r) \/ CompleteSignIn(r) \/ RecordFailure(r)
               \/ Regenerate(r) \/ Disable(r) \/ Reauthenticate(r)
        PROVE  Inv'
    BY <1>1, LookUpKeeps, ReadLevelKeeps, InsertKeeps, CommitSessionKeeps, AskResetKeeps, BeginChangeKeeps,
       RevokeOthersKeeps, CommitChangeKeeps, CommitResetKeeps, ResealKeeps, ActivateKeeps, CompleteSignInKeeps,
       RecordFailureKeeps, RegenerateKeeps, DisableKeeps, ReauthenticateKeeps
  <1>2. ASSUME NEW r \in Requests, NEW s \in Ids,
               \/ AskChange(r, s)
               \/ \E t \in Window : ReadPending(r, s, t)
               \/ \E k \in Kinds, t \in Window \cup {0}, c \in codes \cup {0} : ReadFactor(r, s, k, t, c)
        PROVE  Inv'
    BY <1>2, AskChangeKeeps, ReadPendingKeeps, ReadFactorKeeps
  <1>3. ASSUME NEW s \in Ids, StartEnrollment(s) \/ WrongCode(s) PROVE Inv'
    BY <1>3, StartEnrollmentKeeps, WrongCodeKeeps
  <1>4. ASSUME NEW gone \in SUBSET Ids, EndSessions(gone) PROVE Inv'
    BY <1>4, EndSessionsKeeps
  <1>5. ASSUME ResetFactor \/ Tick \/ RetireKey PROVE Inv'
    BY <1>5, ResetFactorKeeps, TickKeeps, RetireKeyKeeps
  <1>6. CASE UNCHANGED vars
    BY <1>6, InvUnchanged
  <1> QED BY <1>1, <1>2, <1>3, <1>4, <1>5, <1>6 DEF Next

LEMMA Invariance == Spec => []Inv
  BY InvInit, InvNext, PTL DEF Spec

(***************************************************************************)
(* The account, its sessions and its requests stay well formed, whichever  *)
(* requests are under way: the counters within their bounds, no partial    *)
(* session with as many failures as end it, every unused backup code of a  *)
(* set that was made.                                                      *)
(***************************************************************************)
THEOREM TypeCorrect == Spec => []TypeOK
  BY Invariance, PTL DEF Inv

(***************************************************************************)
(* After a password change or reset only its own session and those begun   *)
(* since work, for any number of sign-ins, second factors, renewals and    *)
(* changes under way (changePassword, resetPassword, sys_session_lookup,   *)
(* sys_session_promote, sys_session_rotate).                               *)
(***************************************************************************)
THEOREM OldSessionsAlwaysEnd == Spec => []OldSessionsEnd
  <1>1. Inv => OldSessionsEnd
    BY DEF Inv, SessionInv
  <1> QED BY <1>1, Invariance, PTL

(***************************************************************************)
(* No sign-in makes a full session from a password alone once the second   *)
(* factor is on (signIn, sys_session_create).                              *)
(***************************************************************************)
THEOREM LevelAlwaysFits == Spec => []LevelFits
  <1>1. Inv => LevelFits
    BY DEF Inv, SessionInv
  <1> QED BY <1>1, Invariance, PTL

(***************************************************************************)
(* No code of the authenticator and no backup code is accepted twice       *)
(* (sys_mfa_accept_step, sys_backup_code_consume).                         *)
(***************************************************************************)
THEOREM CodeAlwaysOnce == Spec => []CodeOnce
  <1>1. Inv => CodeOnce
    BY DEF Inv, FactorInv
  <1> QED BY <1>1, Invariance, PTL

(***************************************************************************)
(* The secret that is on is the one that was verified, however many        *)
(* enrolments and keys of the secret box have come in between              *)
(* (confirmEnrollment, sys_mfa_set).                                       *)
(***************************************************************************)
THEOREM AlwaysVerified == Spec => []ActivatedIsVerified
  <1>1. Inv => ActivatedIsVerified
    BY DEF Inv, FactorInv
  <1> QED BY <1>1, Invariance, PTL
=============================================================================
