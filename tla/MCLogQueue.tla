----------------------------- MODULE MCLogQueue -----------------------------
(* Instances of LogQueue for TLC. *)
EXTENDS LogQueue, TLC

CONSTANTS d1, d2

TwoData == {d1, d2}

(* Both workers log and compete for the logging thread, or the second one  *)
(* alone logs entries that differ, which shows their order and their       *)
(* pieces.                                                                 *)
EvenOrMixed ==
  {[w \in Workers |-> {[n \in {1, 2} |-> d1]}],
   [w \in Workers |-> IF w = 0 THEN {} ELSE Entries]}
=============================================================================
