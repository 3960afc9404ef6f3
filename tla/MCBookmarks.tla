---------------------------- MODULE MCBookmarks ----------------------------
\* An instance of Bookmarks for TLC.
EXTENDS Bookmarks, TLC

CONSTANTS fay, ben, t1, t2, slug1, key1

Two == {fay, ben}
Asked ==
    {[op |-> "create", key |-> key1, slug |-> slug1],
     [op |-> "create", key |-> NoKey, slug |-> NoSlug],
     [op |-> "import", key |-> NoKey, slug |-> slug1]}
TwoTxs == {t1, t2}

\* The transactions are interchangeable.
Symmetry == Permutations(TwoTxs)
=============================================================================
