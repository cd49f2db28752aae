---------------------------- MODULE MCSharedLock ----------------------------
\* Model values for TLC: see MCShared.cfg.
EXTENDS SharedLock

CONSTANTS a, b, c

\* The task that times out uses two lock futures, the others one.
MCPerTask == [t \in Tasks |-> IF t = a THEN 2 ELSE 1]
=============================================================================
