----------------------------- MODULE MCEntryMap -----------------------------
(* Instances of EntryMap for TLC.  Threads and entries are interchangeable; *)
(* keys differ by their hash.                                               *)
EXTENDS EntryMap, TLC

CONSTANTS t1, t2, k1, k2, e1, e2, e3, e4

TwoThreads == {t1, t2}
TwoKeys == {k1, k2}
FourEntries == {e1, e2, e3, e4}

(* Two keys with the same hash. *)
Collide == [k \in Keys |-> 1]

Symmetric == Permutations(Threads) \cup Permutations(Entries)
=============================================================================
