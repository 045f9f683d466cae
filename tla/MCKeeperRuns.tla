---------------------------- MODULE MCKeeperRuns ----------------------------
EXTENDS KeeperRuns

CONSTANTS e1, e2

Everything == {[approval |-> TRUE, commit |-> TRUE, push |-> TRUE]}

\* A commit alone, and a push without a commit, which is accepted as well.
EverythingOrPart == Everything \cup
    {[approval |-> FALSE, commit |-> c, push |-> ~c] : c \in BOOLEAN}

\* The desktop is called twice in a run that asks for everything.
Calls == [w \in Wishes |-> IF w.approval THEN 2 ELSE 1]
=============================================================================
