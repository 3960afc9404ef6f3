--------------------------- MODULE MCCredentials ---------------------------
\* Instances of Credentials for TLC.
EXTENDS Credentials, TLC

CONSTANTS r1, r2

Two == {r1, r2}
Symmetry == Permutations(Two)

SessionKinds == {"login", "change", "reset", "verify", "confirm"}
FactorKinds == {"confirm", "regenerate", "disable", "reauth"}
=============================================================================
