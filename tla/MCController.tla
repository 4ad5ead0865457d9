---------------------------- MODULE MCController ----------------------------
(* Instances of Controller for TLC.  Threads and entries are               *)
(* interchangeable; keys are not, only one of them has tags.               *)
EXTENDS Controller, TLC

CONSTANTS t1, t2, k1, k2, g1, e1, e2, e3

TwoThreads == {t1, t2}
OneThread == {t1}
TwoKeys == {k1, k2}
OneTag == {g1}
ThreeEntries == {e1, e2, e3}

(* All entries of k2 have the same tag, so that neither a SET that replaces *)
(* one of two duplicates nor a DEL that looks at the tags of the first can  *)
(* leave the lists wrong.                                                   *)
SameTag == {<<k1, {}>>, <<k2, Tags>>}
(* Only k2 has tags, k1 makes it move. *)
OneTagged == {<<k1, {}>>} \cup {<<k2, G>> : G \in SUBSET Tags}
OnlyOld == {"old"}
AllModes == {"all", "old", "match_none", "match_all", "match_any"}
OneEach == {{g} : g \in Tags}

(* Two keys whose probes begin at the last slot and wrap around. *)
SameSlot == [k \in Keys |-> 1]
AtOnce == {0}

Symmetric == Permutations(Threads) \cup Permutations(Entries)
=============================================================================
