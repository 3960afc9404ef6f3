--------------------------- MODULE LockOrderProofs ---------------------------
(***************************************************************************)
(* Proofs about LockOrder: the order in which the operations lock rows     *)
(* rules out every circle of waiting but those of a second look, for any   *)
(* number of workspaces, accounts and transactions.                        *)
(*                                                                         *)
(* Every statement locks rows of one kind, the kinds have levels, and each *)
(* plan goes up the levels but for the second look of its last statement.  *)
(* So a transaction that has not come to a second look holds only locks    *)
(* that are under the ones it wants.  If none of a circle looks again,     *)
(* "wants what is under what the other wants" orders the circle strictly,  *)
(* it is finite, and its maximal element waits for nobody.                 *)
(***************************************************************************)
EXTENDS LockOrder, TLAPS, FiniteSetTheorems, WellFoundedInduction

Statements == {"spaces", "owned", "space", "codes", "rows", "share", "key"}

\* What a statement locks, and the place of that in the order.
Kind == [spaces |-> "ws", owned |-> "ws", space |-> "ws", codes |-> "codes",
         rows |-> "row", share |-> "share", key |-> "key"]

Level == [ws |-> 1, codes |-> 2, row |-> 3, share |-> 3, key |-> 4]

Busy(t) == op[t] # "none"

Current(t) == Kind[Plan[op[t]][stage[t]]]

Under(m, l) ==
    \/ Level[m[1]] < Level[l[1]]
    \/ Level[m[1]] = Level[l[1]] /\ m[2] < l[2]

\* The parts of the inductive invariant.
Shape == DOMAIN ask = Txs /\ DOMAIN stage = Txs

OfKind == \A t \in Txs : Busy(t) => \A l \in want[t] : l[1] = Current(t)

InOrder ==
    \A t \in Txs : Busy(t) /\ ~LooksAgain(t) =>
        \A m \in held[t] :
            /\ Level[m[1]] <= Level[Current(t)]
            /\ \A l \in want[t] : Under(m, l)

IdleFree == \A t \in Txs : ~Busy(t) => want[t] = {} /\ held[t] = {}

\* Requests come one at a time, so finitely many are open.
FewBusy == IsFiniteSet({t \in Txs : Busy(t)})

LInv == TypeOK /\ Shape /\ OfKind /\ InOrder /\ IdleFree /\ FewBusy
-----------------------------------------------------------------------------
(* Finite strict orders.                                                   *)

\* In a finite set that is not empty, a strict order has a maximal element.
LEMMA MaximalElement ==
  ASSUME NEW S, IsFiniteSet(S), S # {}, NEW R,
         \A t \in S : <<t, t>> \notin R,
         \A t, u, v \in S : <<t, u>> \in R /\ <<u, v>> \in R => <<t, v>> \in R
  PROVE  \E t \in S : \A u \in S : <<t, u>> \notin R
  <1> DEFINE Above(t) == {u \in S : <<t, u>> \in R}
             Aboves == {Above(t) : t \in S}
  <1>1. IsWellFoundedOn(StrictSubsetOrdering(S), SUBSET S)
    BY FS_StrictSubsetOrderingWellFounded, FS_FiniteSubsetsOfFinite
  <1>2. Aboves \subseteq SUBSET S /\ Aboves # {}
    <2>1. \A X \in Aboves : X \subseteq S
      OBVIOUS
    <2>2. PICK t \in S : TRUE
      OBVIOUS
    <2>3. Above(t) \in Aboves
      OBVIOUS
    <2> HIDE DEF Aboves
    <2> QED BY <2>1, <2>3
  <1>3. \E X \in Aboves : \A Y \in Aboves : <<Y, X>> \notin StrictSubsetOrdering(S)
    <2> HIDE DEF Aboves
    <2> QED BY <1>1, <1>2, WFMin
  <1>4. PICK t \in S : \A u \in S : <<Above(u), Above(t)>> \notin StrictSubsetOrdering(S)
    <2>1. PICK X \in Aboves : \A Y \in Aboves : <<Y, X>> \notin StrictSubsetOrdering(S)
      BY <1>3
    <2>2. PICK t \in S : X = Above(t)
      OBVIOUS
    <2>3. \A u \in S : Above(u) \in Aboves
      OBVIOUS
    <2> HIDE DEF Above, Aboves
    <2> QED BY <2>1, <2>2, <2>3
  <1>5. SUFFICES ASSUME NEW u \in S, <<t, u>> \in R PROVE FALSE
    OBVIOUS
  <1>6. Above(u) \subseteq Above(t) /\ u \in Above(t) /\ u \notin Above(u)
    BY <1>5
  <1>7. <<Above(u), Above(t)>> \in StrictSubsetOrdering(S)
    BY <1>6 DEF StrictSubsetOrdering
  <1> QED
    BY <1>4, <1>7
-----------------------------------------------------------------------------
(* Plans and what their statements find.                                   *)

\* Each plan is a list of statements that goes up the levels, but for the last
\* statement of a deletion and of a verification.
LEMMA PlanAscends ==
  ASSUME NEW o \in OperationNames
  PROVE  /\ Len(Plan[o]) \in Nat
         /\ 1 <= Len(Plan[o])
         /\ \A i \in 1 .. Len(Plan[o]) : Plan[o][i] \in Statements
         /\ \A i \in 1 .. Len(Plan[o]) :
               i < Len(Plan[o]) =>
                 \/ Level[Kind[Plan[o][i]]] < Level[Kind[Plan[o][i + 1]]]
                 \/ o \in {"deleteAccount", "verify"} /\ i + 1 = Len(Plan[o])
  <1>1. CASE o = "deleteAccount"
    BY <1>1 DEF Plan, Statements, Kind, Level
  <1>2. CASE o = "verify"
    BY <1>2 DEF Plan, Statements, Kind, Level
  <1>3. CASE o = "update"
    BY <1>3 DEF Plan, Statements, Kind, Level
  <1>4. CASE o = "factor"
    BY <1>4 DEF Plan, Statements, Kind, Level
  <1>5. CASE o = "join"
    BY <1>5 DEF Plan, Statements, Kind, Level
  <1>6. CASE o = "member"
    BY <1>6 DEF Plan, Statements, Kind, Level
  <1> QED
    BY <1>1, <1>2, <1>3, <1>4, <1>5, <1>6 DEF OperationNames, Plan

\* A lock is a kind and a number.
LEMMA LockShape ==
  ASSUME NEW l \in Locks
  PROVE  /\ l[1] \in {"ws", "codes", "row", "share", "key"}
         /\ l[2] \in Nat
         /\ l = <<l[1], l[2]>>
         /\ Level[l[1]] \in Nat
  <1>1. CASE l \in {"ws"} \X Workspaces
    <2>1. PICK n \in Workspaces : l = <<"ws", n>>
      BY <1>1
    <2> QED BY <2>1, LockAssumption DEF Level
  <1>2. CASE l \in {"codes", "row", "share"} \X Accounts
    <2>1. PICK k \in {"codes", "row", "share"}, n \in Accounts : l = <<k, n>>
      BY <1>2
    <2> QED BY <2>1, LockAssumption DEF Level
  <1>3. CASE l = <<"key", 0>>
    BY <1>3 DEF Level
  <1> QED
    BY <1>1, <1>2, <1>3 DEF Locks

\* A statement finds locks of its own kind.
LEMMA FoundKind ==
  ASSUME NEW q \in Asks, NEW s \in Statements
  PROVE  /\ Found(q, s) \subseteq Locks
         /\ \A l \in Found(q, s) : l[1] = Kind[s]
         /\ Level[Kind[s]] \in Nat
  <1>0. Level[Kind[s]] \in Nat
    BY DEF Level, Kind, Statements
  <1>q. q.actor \in Accounts /\ q.target \in Accounts /\ q.space \in Workspaces
    BY DEF Asks
  <1>1. CASE s = "spaces"
    BY <1>0, <1>1 DEF Found, Locks, Kind
  <1>2. CASE s = "owned"
    BY <1>0, <1>2 DEF Found, Locks, Kind
  <1>3. CASE s = "space"
    BY <1>0, <1>q, <1>3 DEF Found, Locks, Kind
  <1>4. CASE s = "codes"
    BY <1>0, <1>q, <1>4 DEF Found, Locks, Kind
  <1>5. CASE s = "rows"
    BY <1>0, <1>q, <1>5 DEF Found, Locks, Kind
  <1>6. CASE s = "share"
    BY <1>0, <1>q, <1>6 DEF Found, Locks, Kind
  <1>7. CASE s = "key"
    BY <1>0, <1>7 DEF Found, Locks, Kind
  <1> QED
    BY <1>1, <1>2, <1>3, <1>4, <1>5, <1>6, <1>7 DEF Statements
-----------------------------------------------------------------------------
(* The steps.                                                              *)

\* In the beginning nobody holds or wants a lock.
LEMMA InitLInv == Init => LInv
  <1> SUFFICES ASSUME Init PROVE LInv
    OBVIOUS
  <1>1. TypeOK
    BY LockAssumption DEF Init, TypeOK
  <1>2. Shape /\ OfKind /\ InOrder /\ IdleFree
    BY DEF Init, Shape, OfKind, InOrder, IdleFree, Busy
  <1>3. {t \in Txs : Busy(t)} = {}
    BY DEF Init, Busy
  <1> QED
    BY <1>1, <1>2, <1>3, FS_EmptySet DEF LInv, FewBusy

\* At most one transaction becomes busy.
LEMMA FewStayBusy ==
  ASSUME FewBusy, NEW t \in Txs,
         \A u \in Txs \ {t} : op'[u] = op[u]
  PROVE  FewBusy'
  <1>1. IsFiniteSet({u \in Txs : Busy(u)} \cup {t})
    BY FS_AddElement DEF FewBusy
  <1>2. {u \in Txs : Busy(u)'} \subseteq {u \in Txs : Busy(u)} \cup {t}
    BY DEF Busy
  <1> QED
    BY <1>1, <1>2, FS_Subset DEF FewBusy

\* A request begins with one statement and no lock.
LEMMA AskStep ==
  ASSUME LInv, NEW t \in Txs, Ask(t)
  PROVE  LInv'
  <1> USE DEF LInv
  <1>1. PICK o \in Operations, q \in Asks :
          /\ op[t] = "none"
          /\ op' = [op EXCEPT ![t] = o]
          /\ ask' = [ask EXCEPT ![t] = q]
          /\ stage' = [stage EXCEPT ![t] = 1]
          /\ want' = [want EXCEPT ![t] = Found(q, Plan[o][1])]
          /\ UNCHANGED <<role, alive, held>>
    BY DEF Ask
  <1>2. /\ o \in OperationNames /\ o # "none"
        /\ 1 \in 1 .. Len(Plan[o]) /\ Plan[o][1] \in Statements
    BY LockAssumption, PlanAscends DEF OperationNames, Plan
  <1>3. /\ Found(q, Plan[o][1]) \subseteq Locks
        /\ \A l \in Found(q, Plan[o][1]) : l[1] = Kind[Plan[o][1]]
    BY <1>2, FoundKind
  <1>4. /\ op'[t] = o /\ ask'[t] = q /\ stage'[t] = 1
        /\ want'[t] = Found(q, Plan[o][1]) /\ held'[t] = held[t]
        /\ \A u \in Txs \ {t} : /\ op'[u] = op[u] /\ ask'[u] = ask[u]
                                /\ stage'[u] = stage[u] /\ want'[u] = want[u]
                                /\ held'[u] = held[u]
    BY <1>1 DEF TypeOK, Shape
  <1>5. TypeOK'
    BY <1>1, <1>2, <1>3, <1>4 DEF TypeOK
  <1>6. Shape'
    BY <1>1 DEF Shape
  <1>7. OfKind'
    BY <1>3, <1>4 DEF OfKind, Busy, Current
  <1>8. InOrder'
    BY <1>1, <1>4 DEF InOrder, Busy, Current, LooksAgain, IdleFree
  <1>9. IdleFree' /\ FewBusy'
    BY <1>2, <1>4, FewStayBusy DEF IdleFree, Busy
  <1> QED
    BY <1>5, <1>6, <1>7, <1>8, <1>9

\* The next statement wants locks of a higher level than those held, or is a
\* second look.
LEMMA StatementStep ==
  ASSUME LInv, NEW t \in Txs, Statement(t)
  PROVE  LInv'
  <1> USE DEF LInv
  <1> DEFINE o == op[t]
             s == Plan[o][stage[t] + 1]
  <1>1. /\ o \in OperationNames /\ ask[t] \in Asks
        /\ stage[t] \in 1 .. Len(Plan[o]) /\ stage[t] < Len(Plan[o])
        /\ Len(Plan[o]) \in Nat /\ want[t] = {}
    BY PlanAscends DEF Statement, TypeOK
  <1>2. /\ stage[t] + 1 \in 1 .. Len(Plan[o])
        /\ s \in Statements /\ Plan[o][stage[t]] \in Statements
    BY <1>1, PlanAscends
  <1>3. /\ Found(ask[t], s) \subseteq Locks
        /\ \A l \in Found(ask[t], s) : l[1] = Kind[s]
        /\ Level[Kind[s]] \in Nat /\ Level[Kind[Plan[o][stage[t]]]] \in Nat
    BY <1>1, <1>2, FoundKind
  <1>4. /\ op' = op /\ ask' = ask /\ held' = held /\ role' = role /\ alive' = alive
        /\ stage'[t] = stage[t] + 1
        /\ want'[t] = Found(ask[t], s) \ held[t]
        /\ \A u \in Txs \ {t} : stage'[u] = stage[u] /\ want'[u] = want[u]
        /\ DOMAIN stage' = Txs /\ want' \in [Txs -> SUBSET Locks]
    BY <1>3 DEF Statement, TypeOK, Shape
  <1>5. TypeOK'
    BY <1>1, <1>2, <1>4 DEF TypeOK
  <1>6. Shape'
    BY <1>4 DEF Shape
  <1>7. OfKind'
    BY <1>3, <1>4 DEF OfKind, Busy, Current
  <1>8. InOrder'
    <2>1. ASSUME ~LooksAgain(t)', NEW m \in held[t]
          PROVE  /\ Level[m[1]] <= Level[Kind[s]]
                 /\ \A l \in want'[t] : Under(m, l)
      <3>1. m \in Locks /\ Level[m[1]] \in Nat
        BY LockShape DEF TypeOK
      <3>2. ~(o \in {"deleteAccount", "verify"} /\ stage[t] + 1 = Len(Plan[o]))
        BY <2>1, <1>4 DEF LooksAgain
      <3>3. Level[Kind[Plan[o][stage[t]]]] < Level[Kind[s]]
        BY <1>1, <3>2, PlanAscends
      <3>4. ~LooksAgain(t) /\ Busy(t)
        BY <1>1 DEF LooksAgain, Busy, Statement
      <3>5. Level[m[1]] <= Level[Kind[Plan[o][stage[t]]]]
        BY <3>4 DEF InOrder, Current
      <3>6. Level[m[1]] < Level[Kind[s]]
        BY <1>3, <3>1, <3>3, <3>5
      <3>7. \A l \in want'[t] : l[1] = Kind[s]
        BY <1>3, <1>4
      <3> QED
        BY <1>3, <3>1, <3>6, <3>7 DEF Under
    <2>2. Current(t)' = Kind[s]
      BY <1>4 DEF Current
    <2>3. ASSUME NEW u \in Txs \ {t}, Busy(u)', ~LooksAgain(u)', NEW m \in held'[u]
          PROVE  /\ Level[m[1]] <= Level[Current(u)']
                 /\ \A l \in want'[u] : Under(m, l)
      BY <1>4, <2>3 DEF InOrder, Busy, LooksAgain, Current
    <2>4. ASSUME NEW u \in Txs, Busy(u)', ~LooksAgain(u)', NEW m \in held'[u]
          PROVE  /\ Level[m[1]] <= Level[Current(u)']
                 /\ \A l \in want'[u] : Under(m, l)
      <3>1. CASE u = t
        BY <1>4, <2>1, <2>2, <2>4, <3>1
      <3>2. CASE u # t
        BY <2>3, <2>4, <3>2
      <3> QED BY <3>1, <3>2
    <2> QED
      BY <2>4 DEF InOrder, Under
  <1>9. IdleFree' /\ FewBusy'
    BY <1>1, <1>4 DEF IdleFree, Busy, FewBusy, OperationNames, Plan
  <1> QED
    BY <1>5, <1>6, <1>7, <1>8, <1>9

\* The lock taken is under the ones still wanted: of their kind, with a lesser
\* identifier.
LEMMA LockStep ==
  ASSUME LInv, NEW t \in Txs, Lock(t)
  PROVE  LInv'
  <1> USE DEF LInv
  <1>1. PICK l \in want[t] :
          /\ Earliest(t, l)
          /\ held' = held \/ held' = [held EXCEPT ![t] = @ \cup {l}]
          /\ want' = [want EXCEPT ![t] = @ \ {l}]
          /\ UNCHANGED <<role, alive, op, ask, stage>>
    BY DEF Lock
  <1>2. l \in Locks /\ Busy(t)
    BY <1>1 DEF TypeOK, IdleFree
  <1>3. /\ held'[t] \subseteq held[t] \cup {l} /\ want'[t] = want[t] \ {l}
        /\ \A u \in Txs \ {t} : held'[u] = held[u] /\ want'[u] = want[u]
    BY <1>1 DEF TypeOK
  <1>4. TypeOK'
    BY <1>1, <1>2 DEF TypeOK
  <1>5. Shape'
    BY <1>1 DEF Shape
  <1>6. OfKind'
    BY <1>1, <1>3 DEF OfKind, Busy, Current
  <1>7. l[1] = Current(t) /\ \A m \in want[t] : m[1] = Current(t)
    BY <1>1, <1>2 DEF OfKind
  <1>8. ASSUME NEW m \in want[t], m # l
        PROVE  Under(l, m)
    <2>1. m \in Locks
      BY DEF TypeOK
    <2>2. m[1] = l[1] /\ l[2] <= m[2]
      BY <1>1, <1>7 DEF Earliest
    <2>3. m[2] # l[2]
      BY <1>2, <1>8, <2>1, <2>2, LockShape
    <2> QED
      BY <1>2, <2>1, <2>2, <2>3, LockShape DEF Under
  <1>9. InOrder'
    <2>1. ASSUME NEW u \in Txs, Busy(u), ~LooksAgain(u), NEW m \in held'[u]
          PROVE  /\ Level[m[1]] <= Level[Current(u)]
                 /\ \A k \in want'[u] : Under(m, k)
      <3>1. CASE m \in held[u]
        BY <1>3, <2>1, <3>1 DEF InOrder
      <3>2. CASE m \notin held[u]
        <4>1. u = t /\ m = l
          BY <1>3, <2>1, <3>2
        <4>2. Level[l[1]] <= Level[Current(t)]
          BY <1>2, <1>7, LockShape
        <4> QED
          BY <1>3, <1>8, <4>1, <4>2
      <3> QED BY <3>1, <3>2
    <2>2. \A u \in Txs : /\ Busy(u)' = Busy(u) /\ LooksAgain(u)' = LooksAgain(u)
                         /\ Current(u)' = Current(u)
      BY <1>1 DEF Busy, LooksAgain, Current
    <2> QED
      BY <2>1, <2>2 DEF InOrder, Under
  <1>10. IdleFree' /\ FewBusy'
    BY <1>1, <1>2, <1>3 DEF IdleFree, Busy, FewBusy
  <1> QED
    BY <1>4, <1>5, <1>6, <1>9, <1>10

\* A transaction that ends leaves nothing behind.
LEMMA EndStep ==
  ASSUME LInv, NEW t \in Txs, End(t),
         role' \in [Workspaces -> [Accounts -> {"none", "member", "owner"}]],
         alive' \subseteq Accounts
  PROVE  LInv'
  <1> USE DEF LInv
  <1>1. /\ op'[t] = "none" /\ want'[t] = {} /\ held'[t] = {}
        /\ \A u \in Txs \ {t} : /\ op'[u] = op[u] /\ ask'[u] = ask[u]
                                /\ stage'[u] = stage[u] /\ want'[u] = want[u]
                                /\ held'[u] = held[u]
    BY DEF End, TypeOK, Shape
  <1>2. TypeOK'
    BY <1>1 DEF End, TypeOK
  <1>3. Shape'
    BY DEF End, Shape
  <1>4. OfKind'
    BY <1>1 DEF OfKind, Busy, Current
  <1>5. InOrder'
    BY <1>1 DEF InOrder, Busy, Current, LooksAgain, Under
  <1>6. IdleFree' /\ FewBusy'
    BY <1>1, FewStayBusy DEF IdleFree, Busy
  <1> QED
    BY <1>2, <1>3, <1>4, <1>5, <1>6

\* A commit changes memberships and accounts and frees its locks.
LEMMA CommitStep ==
  ASSUME LInv, NEW t \in Txs, Commit(t)
  PROVE  LInv'
  <1> DEFINE q == ask[t]
             Roles == {"none", "member", "owner"}
  <1>1. /\ q.space \in Workspaces /\ q.target \in Accounts /\ q.new \in Roles
        /\ role \in [Workspaces -> [Accounts -> Roles]] /\ alive \subseteq Accounts
    BY DEF Commit, LInv, TypeOK, Asks
  <1>2. role' \in [Workspaces -> [Accounts -> Roles]] /\ alive' \subseteq Accounts
    <2>1. CASE /\ role' = [role EXCEPT ![q.space][q.target] = q.new]
               /\ UNCHANGED alive
      BY <1>1, <2>1
    <2>2. CASE /\ alive' = alive \ {q.target}
               /\ role' = [w \in Workspaces |-> [role[w] EXCEPT ![q.target] = "none"]]
      BY <1>1, <2>2
    <2>3. CASE UNCHANGED <<role, alive>>
      BY <1>1, <2>3
    <2> QED
      BY <2>1, <2>2, <2>3 DEF Commit
  <1> QED
    BY <1>2, EndStep DEF Commit

\* A rollback frees its locks.
LEMMA RollbackStep ==
  ASSUME LInv, NEW t \in Txs, Rollback(t)
  PROVE  LInv'
  BY EndStep DEF Rollback, LInv, TypeOK

\* The invariant is inductive.
LEMMA StepLInv == LInv /\ [Next]_vars => LInv'
  <1> SUFFICES ASSUME LInv, [Next]_vars PROVE LInv'
    OBVIOUS
  <1>1. CASE UNCHANGED vars
    BY <1>1 DEF vars, LInv, TypeOK, Shape, OfKind, InOrder, IdleFree, FewBusy,
       Busy, Current, LooksAgain, Under
  <1>2. ASSUME NEW t \in Txs,
               Ask(t) \/ Statement(t) \/ Lock(t) \/ Commit(t) \/ Rollback(t)
        PROVE  LInv'
    BY <1>2, AskStep, StatementStep, LockStep, CommitStep, RollbackStep
  <1> QED
    BY <1>1, <1>2 DEF Next

\* Every reachable state satisfies the invariant: but for a second look, nobody
\* holds a lock that comes after one it is to take.
THEOREM LockInvariance == Spec => []LInv
  BY InitLInv, StepLInv, PTL DEF Spec
-----------------------------------------------------------------------------
(* The theorems.                                                           *)

\* Transactions, locks and rows (workspace_members, accounts) keep their types:
\* each transaction is at a statement of its plan and its locks are rows there are.
THEOREM TypesKept == Spec => []TypeOK
  <1>1. LInv => TypeOK
    BY DEF LInv
  <1> QED
    BY <1>1, LockInvariance, PTL

\* Locks that conflict stand at one place of the order.
LEMMA ConflictLevel ==
  ASSUME NEW l \in Locks, NEW m \in Locks, Conflict(l, m)
  PROVE  Level[l[1]] = Level[m[1]] /\ l[2] = m[2]
  BY LockShape DEF Conflict, Level

\* The transactions of a circle in which nobody looks again cannot all wait.
LEMMA NoCircle ==
  ASSUME LInv, NEW S \in SUBSET Txs, Circle(S), \A t \in S : ~LooksAgain(t)
  PROVE  FALSE
  <1> DEFINE R == {p \in S \X S : \A l \in want[p[1]], m \in want[p[2]] :
                      Earliest(p[1], l) /\ Earliest(p[2], m) => Under(l, m)}
  <1>1. \A t \in S : \E l \in want[t] : Earliest(t, l)
    BY DEF Circle, WaitsFor
  <1>2. \A t \in S : Busy(t)
    BY <1>1 DEF LInv, IdleFree
  <1>3. IsFiniteSet(S)
    <2>1. S \subseteq {t \in Txs : Busy(t)}
      BY <1>2
    <2> QED BY <2>1, FS_Subset DEF LInv, FewBusy
  <1>4. \A t \in S : want[t] \subseteq Locks /\ held[t] \subseteq Locks
    BY DEF LInv, TypeOK
  <1>5. \A t \in S : <<t, t>> \notin R
    <2> SUFFICES ASSUME NEW t \in S, <<t, t>> \in R PROVE FALSE
      OBVIOUS
    <2>1. PICK l \in want[t] : Earliest(t, l)
      BY <1>1
    <2>2. Under(l, l)
      BY <2>1
    <2> QED
      BY <1>4, <2>1, <2>2, LockShape DEF Under
  <1>6. \A t, u, v \in S : <<t, u>> \in R /\ <<u, v>> \in R => <<t, v>> \in R
    <2> SUFFICES ASSUME NEW t \in S, NEW u \in S, NEW v \in S,
                        <<t, u>> \in R, <<u, v>> \in R,
                        NEW l \in want[t], NEW n \in want[v],
                        Earliest(t, l), Earliest(v, n)
                 PROVE  Under(l, n)
      OBVIOUS
    <2>1. PICK m \in want[u] : Earliest(u, m)
      BY <1>1
    <2>2. Under(l, m) /\ Under(m, n)
      BY <2>1
    <2>3. l \in Locks /\ m \in Locks /\ n \in Locks
      BY <1>4, <2>1
    <2> QED
      BY <2>2, <2>3, LockShape DEF Under
  <1>7. S # {}
    BY DEF Circle
  <1>8. PICK t \in S : \A u \in S : <<t, u>> \notin R
    <2> HIDE DEF R
    <2> QED BY <1>3, <1>5, <1>6, <1>7, MaximalElement
  <1>9. PICK u \in S : WaitsFor(t, u)
    BY DEF Circle
  <1>10. PICK l \in want[t] : Earliest(t, l) /\ \E m \in held[u] : Conflict(l, m)
    BY <1>9 DEF WaitsFor
  <1>11. PICK m \in held[u] : Conflict(l, m)
    BY <1>10
  <1>12. Level[l[1]] = Level[m[1]] /\ l[2] = m[2]
    BY <1>4, <1>10, <1>11, ConflictLevel
  <1>13. ASSUME NEW k \in want[t], NEW n \in want[u], Earliest(t, k), Earliest(u, n)
         PROVE  Under(k, n)
    <2>1. Under(m, n)
      BY <1>2, <1>11 DEF LInv, InOrder
    <2>2. k[1] = l[1]
      BY <1>2, <1>10 DEF LInv, OfKind
    <2>3. k \in Locks /\ l \in Locks
      BY <1>4, <1>10
    <2>4. k[2] = l[2]
      BY <1>10, <1>13, <2>3, LockShape DEF Earliest
    <2> QED
      BY <1>12, <2>1, <2>2, <2>4 DEF Under
  <1>14. <<t, u>> \in R
    BY <1>13
  <1> QED
    BY <1>8, <1>14

\* Transactions wait for each other in a circle only if one of them is at the
\* last statement of a deletion or a verification, where it looks for workspaces
\* a second time with accounts locked: but for that, lockWorkspaces before backup
\* codes before accounts before the key is an order in which nobody can deadlock.
THEOREM OnlySecondLooks == Spec => []OnlySecondLooksDeadlock
  <1>1. LInv => OnlySecondLooksDeadlock
    BY NoCircle DEF OnlySecondLooksDeadlock
  <1> QED
    BY <1>1, LockInvariance, PTL
=============================================================================
