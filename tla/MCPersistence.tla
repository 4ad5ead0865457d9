---------------------------- MODULE MCPersistence ----------------------------
(* Instances of Persistence for TLC: two keys that collide. *)
EXTENDS Persistence

CONSTANTS k1, k2

TwoKeys == {k1, k2}
SameHome == [k \in TwoKeys |-> 0]

(* An entry with a TTL may expire or not: one without it does nothing that *)
(* this one does not.                                                      *)
Mortal == {"ttl"}
=============================================================================
