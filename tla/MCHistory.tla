----------------------------- MODULE MCHistory -----------------------------
EXTENDS History, TLC

CONSTANTS s1, s2, default, other, ls, none, absent

MCOffset == {0, 1, 2}

\* Every command alone, and the pairs in which the first one decides what is
\* recorded and the second one what happens to the list.
MCLine ==
  {<<c>> : c \in Command}
    \union {<<Run(ls), c>> : c \in {History("clear"), Store(ls)}}

Shells == Permutations(Shell)

\* No file, and one that an earlier session has left.
MCFound == {absent, <<Run(ls), History("write")>>}
=============================================================================
