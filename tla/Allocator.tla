------------------------------ MODULE Allocator ------------------------------
(***************************************************************************)
(* What the callers of reserve_memory and release_memory rely on, with no  *)
(* partitions, buckets, free lists or threads: a block that is handed out  *)
(* lies inside the arena, is as long as what was asked for, and shares no  *)
(* byte with any other block that has not been given back yet.             *)
(* A request that is refused leaves everything as it was (a stutter).      *)
(***************************************************************************)
EXTENDS Integers

CONSTANTS
  Arena,     \* the number of bytes main_memory was mapped with
  Requests   \* the sizes callers ask for

VARIABLE live   \* the blocks callers hold, records [base, size]

Blocks == [base : 0 .. Arena, size : Requests]

Apart(b, c) == b.base + b.size <= c.base \/ c.base + c.size <= b.base

Init == live = {}

(* A caller obtains block b: it fits the arena and overlaps no live block. *)
Reserve(b) ==
  /\ b.base + b.size <= Arena
  /\ \A c \in live : Apart(b, c)
  /\ live' = live \cup {b}

(* A caller gives back a block it holds. *)
Release(b) == b \in live /\ live' = live \ {b}

Next == (\E b \in Blocks : Reserve(b)) \/ (\E b \in live : Release(b))

Spec == Init /\ [][Next]_live
=============================================================================
