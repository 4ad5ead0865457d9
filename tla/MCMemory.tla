------------------------------ MODULE MCMemory ------------------------------
(* Instances of Memory for TLC.  The threads are interchangeable. *)
EXTENDS Memory, TLC

CONSTANTS t1, t2

TwoThreads == {t1, t2}
Symmetric == Permutations(Threads)
=============================================================================
