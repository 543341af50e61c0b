----------------------------- MODULE MCTransfer -----------------------------
\* Small instances of Transfer for TLC.
EXTENDS Transfer, TLC

\* Connections are interchangeable, and so are ordinary file names.
Symmetry == Permutations(Conns) \cup Permutations(Names \ (Directories \cup Paths))
=============================================================================
