---------------------------- MODULE MCDescriptors ----------------------------
\* Small instances of Descriptors for TLC.
EXTENDS Descriptors, TLC

\* Connections are interchangeable.
Symmetry == Permutations(Conns)
=============================================================================
