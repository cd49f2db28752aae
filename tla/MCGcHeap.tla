------------------------------ MODULE MCGcHeap ------------------------------
\* Model values for TLC: see MCGcHeap.cfg.
EXTENDS GcHeap, TLC

\* The two threads run the same program.
Symmetry == Permutations(Threads)
=============================================================================
