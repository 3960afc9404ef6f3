---------------------------- MODULE MCLockOrder -----------------------------
(* The instances of LockOrder that TLC checks: two admins, each of whom made  *)
(* a workspace, and two overlapping transactions.                           *)
EXTENDS LockOrder, TLC

CONSTANTS t1, t2

Two == {t1, t2}

\* Workspace w was made by account w.
Creators == [w \in Workspaces |-> w]

AllOperations == OperationNames

\* The transactions are interchangeable.
Symmetry == Permutations(Two)
=============================================================================
