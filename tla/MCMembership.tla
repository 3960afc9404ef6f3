---------------------------- MODULE MCMembership ----------------------------
(* The instances of Membership that TLC checks: three accounts, of which f   *)
(* made the workspace, and two overlapping transactions.                    *)
EXTENDS Membership, TLC

CONSTANTS f, b, c, t1, t2

MCAccounts == {f, b, c}
MCPair == {f, b}
MCTxs == {t1, t2}

OneOther == {b}
Others == {b, c}
LastOne == {c}
Unproven == {f, b}

MemberOperations == {"changeRole", "transfer", "end", "adminJoin", "deleteWorkspace", "deleteAccount"}
JoinOperations == {"invite", "renew", "revoke", "accept", "signup", "end"}
VerificationOperations == {"verify", "adminJoin", "transfer", "invite"}
PurgeOperations == {"deleteWorkspace", "invite", "accept", "adminJoin", "deleteAccount"}

\* The transactions are interchangeable.
Symmetry == Permutations(MCTxs)
=============================================================================
