-------------------------- MODULE MCReadWriteLock --------------------------
\* Small instances of ReadWriteLock for TLC.
EXTENDS ReadWriteLock
=============================================================================
