--------------------------- MODULE MCEmailChange ---------------------------
\* Instances of EmailChange for TLC.
EXTENDS EmailChange

CONSTANTS ann, bob, home, work, spare, job1

Both == {ann, bob}
Three == {home, work, spare}
OneJob == {job1}

\* One account that moves and one that registers on the addresses it leaves.
OneHome == [c \in Both |-> IF c = ann THEN home ELSE NoAddress]
=============================================================================
