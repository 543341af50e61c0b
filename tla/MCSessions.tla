----------------------------- MODULE MCSessions -----------------------------
\* Small instances of Sessions for TLC.
EXTENDS Sessions, TLC

CONSTANTS root, boss, ann

\* The two admins have the same name; the second to be added is never found.
MCNameOf == [u \in Users |-> IF u \in {root, boss} THEN "root" ELSE "ann"]
MCAccounts == <<root, ann>>

\* Connections are interchangeable.
Symmetry == Permutations(Conns)
=============================================================================
