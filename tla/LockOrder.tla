----------------------------- MODULE LockOrder ------------------------------
(***************************************************************************)
(* Who waits for whom.  The transactions that change accounts and          *)
(* memberships lock rows of workspaces, backup codes and accounts, and the *)
(* advisory key of the set of instance admins.  Each is a list of locking  *)
(* statements (Plan): a statement finds rows in the snapshot it starts     *)
(* with and locks them in the order of their identifiers, so a membership  *)
(* that commits in between is found by the next statement only.  What the  *)
(* transactions decide is the subject of modules Membership and            *)
(* InstanceAdmins; a refusal, a failure and the victim of the deadlock     *)
(* detector are Rollback.                                                  *)
(***************************************************************************)
EXTENDS Integers, Sequences, FiniteSets

CONSTANTS
    Workspaces,  \* identifiers; `ORDER BY w.id' is their order
    Accounts,    \* identifiers; `ORDER BY a.id' is their order
    Admins,      \* accounts that hold the instance-admin flag
    Txs,         \* transactions that can be open at once
    Creator,     \* who created each workspace
    Operations   \* the operations that requests of this instance ask for

\* Mutant of Plan: an acceptance takes the account before the workspace.
PlanAccountFirst ==
    [deleteAccount |-> <<"spaces", "codes", "rows", "key", "spaces">>,
     verify        |-> <<"owned", "codes", "rows", "owned">>,
     update        |-> <<"rows", "key">>,
     factor        |-> <<"codes", "rows">>,
     join          |-> <<"share", "space">>,
     member        |-> <<"space">>]

\* The locking statements of each operation.
\*   deleteAccount  DELETE /me, the instance admin's deletion, the end of a period
\*   verify         the redemption of the link, the instance admin's mark
\*   update         the instance admin's change of the flag or the disabled state
\*   factor         a reset or disabling of the second factor, a sign-in by code
\*   join           an acceptance, an instance admin's join
\*   member         a change of role (a transfer of ownership) and an end
Plan == [deleteAccount |-> <<"spaces", "codes", "rows", "key", "spaces">>,
         verify        |-> <<"owned", "codes", "rows", "owned">>,
         update        |-> <<"rows", "key">>,
         factor        |-> <<"codes", "rows">>,
         join          |-> <<"space", "share">>,
         member        |-> <<"space">>]

OperationNames == DOMAIN Plan

ASSUME LockAssumption ==
    /\ Workspaces \subseteq Nat
    /\ Accounts \subseteq Nat
    /\ Admins \subseteq Accounts
    /\ Creator \in [Workspaces -> Accounts]
    /\ Operations \subseteq OperationNames

VARIABLES
    role,   \* workspace_members, committed
    alive,  \* the accounts that have a row
    op,     \* the operation of each transaction, or "none"
    ask,    \* whom and which workspace it is about
    stage,  \* the number of the locking statement it is at
    want,   \* the locks that statement has still to take
    held    \* the locks it holds

vars == <<role, alive, op, ask, stage, want, held>>

Locks == ({"ws"} \X Workspaces) \cup ({"codes", "row", "share"} \X Accounts)
            \cup {<<"key", 0>>}

Asks == [actor : Accounts, target : Accounts, space : Workspaces,
         new : {"none", "member", "owner"}]

TypeOK ==
    /\ role \in [Workspaces -> [Accounts -> {"none", "member", "owner"}]]
    /\ alive \subseteq Accounts
    /\ op \in [Txs -> OperationNames \cup {"none"}]
    /\ \A t \in Txs : op[t] # "none" =>
          ask[t] \in Asks /\ stage[t] \in 1 .. Len(Plan[op[t]])
    /\ want \in [Txs -> SUBSET Locks]
    /\ held \in [Txs -> SUBSET Locks]

NoAsk == CHOOSE q \in Asks : TRUE

Init ==
    /\ role = [w \in Workspaces |->
                [a \in Accounts |-> IF a = Creator[w] THEN "owner" ELSE "none"]]
    /\ alive = Accounts
    /\ op = [t \in Txs |-> "none"]
    /\ ask = [t \in Txs |-> NoAsk]
    /\ stage = [t \in Txs |-> 0]
    /\ want = [t \in Txs |-> {}]
    /\ held = [t \in Txs |-> {}]
-----------------------------------------------------------------------------
\* FOR SHARE conflicts with FOR UPDATE and not with itself, every other mode that
\* these statements use conflicts with itself.
Conflict(l, m) ==
    \/ l = m /\ l[1] # "share"
    \/ l[2] = m[2] /\ {l[1], m[1]} = {"row", "share"}

Free(t, l) == \A u \in Txs \ {t} : \A m \in held[u] : ~Conflict(l, m)

\* What a locking statement of the request q finds in its snapshot.
Found(q, statement) ==
    LET \* The account was created (created_by) or belongs: the deletions.
        spaces == {w \in Workspaces : Creator[w] = q.target \/ role[w][q.target] # "none"}
        \* The account was created or owns: the verification and the strip.
        owned == {w \in Workspaces : Creator[w] = q.target \/ role[w][q.target] = "owner"}
    IN CASE statement = "spaces" -> {"ws"} \X spaces
         [] statement = "owned" -> {"ws"} \X owned
         [] statement = "space" -> {<<"ws", q.space>>}
         [] statement = "codes" -> {"codes"} \X ({q.target} \cap alive)
         [] statement = "rows" -> {"row"} \X ({q.actor, q.target} \cap alive)
         [] statement = "share" -> {"share"} \X ({q.target} \cap alive)
         [] statement = "key" -> IF q.target \in Admins \cap alive THEN {<<"key", 0>>} ELSE {}

\* A request, and its first locking statement.
Ask(t) ==
    \E o \in Operations, q \in Asks :
        /\ op[t] = "none"
        /\ {q.actor, q.target} \subseteq alive
        /\ q.actor # q.target =>
              q.actor \in Admins /\ o \in {"deleteAccount", "verify", "update", "factor"}
        /\ o \notin {"join", "member"} => q.space = NoAsk.space
        /\ o = "join" => q.new = "member"
        /\ o \notin {"join", "member"} => q.new = NoAsk.new
        /\ op' = [op EXCEPT ![t] = o]
        /\ ask' = [ask EXCEPT ![t] = q]
        /\ stage' = [stage EXCEPT ![t] = 1]
        /\ want' = [want EXCEPT ![t] = Found(q, Plan[o][1])]
        /\ UNCHANGED <<role, alive, held>>

\* Mutant of Statement: the statement after the next one starts.
StatementSkipping(t) ==
    /\ op[t] # "none"
    /\ want[t] = {}
    /\ stage[t] < Len(Plan[op[t]])
    /\ stage' = [stage EXCEPT ![t] = @ + 2]
    /\ want' = [want EXCEPT ![t] = Found(ask[t], Plan[op[t]][stage[t] + 1]) \ held[t]]
    /\ UNCHANGED <<role, alive, op, ask, held>>

\* The next locking statement starts.
Statement(t) ==
    /\ op[t] # "none"
    /\ want[t] = {}
    /\ stage[t] < Len(Plan[op[t]])
    /\ stage' = [stage EXCEPT ![t] = @ + 1]
    /\ want' = [want EXCEPT ![t] = Found(ask[t], Plan[op[t]][stage[t] + 1]) \ held[t]]
    /\ UNCHANGED <<role, alive, op, ask, held>>

\* The lock that the statement takes next, in the order of the identifiers.
Earliest(t, l) == l \in want[t] /\ \A m \in want[t] : l[2] <= m[2]

\* A row that was deleted while the statement waited for it is not found.
Lock(t) ==
    \E l \in want[t] :
        /\ Earliest(t, l)
        /\ \/ l[1] \in {"codes", "row", "share"} /\ l[2] \notin alive /\ UNCHANGED held
           \/ /\ l[1] \in {"ws", "key"} \/ l[2] \in alive
              /\ Free(t, l)
              /\ held' = [held EXCEPT ![t] = @ \cup {l}]
        /\ want' = [want EXCEPT ![t] = @ \ {l}]
        /\ UNCHANGED <<role, alive, op, ask, stage>>

End(t) ==
    /\ op' = [op EXCEPT ![t] = "none"]
    /\ ask' = [ask EXCEPT ![t] = NoAsk]
    /\ stage' = [stage EXCEPT ![t] = 0]
    /\ want' = [want EXCEPT ![t] = {}]
    /\ held' = [held EXCEPT ![t] = {}]

\* A join, a change of a member and a deletion change what later statements find;
\* the other operations change nothing of that.
Commit(t) ==
    LET q == ask[t] IN
    /\ op[t] # "none"
    /\ stage[t] = Len(Plan[op[t]])
    /\ want[t] = {}
    /\ q.target \in alive
    /\ \/ /\ op[t] = "join"
          /\ role[q.space][q.target] = "none"
          /\ role' = [role EXCEPT ![q.space][q.target] = q.new]
          /\ UNCHANGED alive
       \/ /\ op[t] = "member"
          /\ role[q.space][q.target] # "none"
          /\ role' = [role EXCEPT ![q.space][q.target] = q.new]
          /\ UNCHANGED alive
       \/ /\ op[t] = "deleteAccount"
          /\ alive' = alive \ {q.target}
          /\ role' = [w \in Workspaces |-> [role[w] EXCEPT ![q.target] = "none"]]
       \/ op[t] \in {"verify", "update", "factor"} /\ UNCHANGED <<role, alive>>
    /\ End(t)

Rollback(t) ==
    /\ op[t] # "none"
    /\ End(t)
    /\ UNCHANGED <<role, alive>>

Next == \E t \in Txs : Ask(t) \/ Statement(t) \/ Lock(t) \/ Commit(t) \/ Rollback(t)

Spec == Init /\ [][Next]_vars
-----------------------------------------------------------------------------
(* Properties.                                                             *)

WaitsFor(t, u) ==
    \E l \in want[t] : Earliest(t, l) /\ \E m \in held[u] : Conflict(l, m)

\* Each of them waits for one of them.
Circle(S) == S # {} /\ \A t \in S : \E u \in S \ {t} : WaitsFor(t, u)

\* The transaction computes its scope again, or strips, and has locks already.
LooksAgain(t) == op[t] \in {"deleteAccount", "verify"} /\ stage[t] = Len(Plan[op[t]])

\* Transactions wait for each other in a circle only when one of them looks for
\* its workspaces a second time and finds one it has not locked: but for that,
\* workspaces, backup codes, accounts and then the key is an order that all keep.
OnlySecondLooksDeadlock ==
    \A S \in SUBSET Txs : Circle(S) => \E t \in S : LooksAgain(t)
=============================================================================
