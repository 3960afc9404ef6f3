-------------------------- MODULE MCInstanceAdmins --------------------------
(* The instances of InstanceAdmins that TLC checks: two accounts, of which 1  *)
(* did the first-run setup, and two overlapping transactions.               *)
EXTENDS InstanceAdmins, TLC

CONSTANTS t1, t2

Two == {t1, t2}

Change(admin, disabled, verify) ==
    [admin |-> admin, disabled |-> disabled, verify |-> verify]

AdminChanges == {Change("yes", "keep", TRUE), Change("no", "no", FALSE), Change("keep", "yes", FALSE)}
StandingChanges == {Change("yes", "keep", FALSE), Change("keep", "yes", FALSE),
                    Change("keep", "no", FALSE)}

AdminOperations == {"update", "mfaOn", "mfaOff", "resetMfa", "redeem",
                    "deleteSelf", "deleteOther", "setMode", "serviceMode"}
PeriodOperations == {"mfaOn", "deleteSelf", "setMode", "end"}

\* The transactions are interchangeable.
Symmetry == Permutations(Two)
=============================================================================
