------------------------------- MODULE Memory -------------------------------
(***************************************************************************)
(* The allocator of src/src/memory.c, one atomic access per step.          *)
(*                                                                         *)
(* The arena is cut by a bump cursor (push_memory) into buckets of a fixed *)
(* set of sizes, the partitions.  Released buckets of a partition form a   *)
(* linked stack, free_buckets, whose head pointer carries a mark in its    *)
(* lowest bit: reserve_memory sets it before it pops and gives up on the   *)
(* stack when somebody else has set it; release_memory pushes with a       *)
(* compare-and-swap that can only succeed while the mark is clear.         *)
(*                                                                         *)
(* A bucket is named by the offset of its header from main_memory.         *)
(***************************************************************************)
EXTENDS Integers, FiniteSets

CONSTANTS
  Threads,      \* the threads that reserve and release
  Partitions,   \* the bucket sizes, MIN_BUCKET_SIZE .. MAX_BUCKET_SIZE
  Requests,     \* the sizes callers ask for
  Header,       \* TPADDED (Bucket)
  SystemSize,   \* total_system_size: what init_memory itself pushes
  Capacity,     \* MAX_TOTAL_MEMORY
  WordSize,     \* the u32 counters count modulo this
  MaxCursor,    \* bound: the cursor is not followed beyond this offset
  NULL

ASSUME MemoryAssumption ==
  /\ Partitions \subseteq Nat \ {0}
  /\ Requests \subseteq Nat \ {0}
  /\ Header \in Nat \ {0} /\ SystemSize \in Nat /\ Capacity \in Nat
  /\ WordSize \in Nat \ {0}
  /\ MaxCursor \in Nat /\ MaxCursor >= Capacity /\ SystemSize <= Capacity
  /\ NULL \notin Nat
  /\ IsFiniteSet(Threads)

VARIABLES
  memory_cursor,  \* offset of the first byte nobody pushed yet
  partition,      \* partition[a]: size of the bucket at a, NULL if none
  next,           \* next[a]: the bucket's link, a tagged pointer
  free_buckets,   \* free_buckets[p]: head of the stack, a tagged pointer
  num_used, num_free, num_reused,   \* statistics of each partition
  granted,        \* granted[a]: size a caller asked for and holds, or NULL
  pc,             \* what each thread does next; "failed": got NULL, idle
  size,           \* size[t]: the request of t's call
  part,           \* part[t]: the partition t's call works on
  bucket,         \* bucket[t]: local variable of both functions
  link            \* link[t]: bucket->next as read by reserve_memory

heap == <<memory_cursor, partition, next, free_buckets>>
stats == <<num_used, num_free, num_reused>>
locals == <<size, part, bucket, link>>
vars == <<memory_cursor, partition, next, free_buckets, num_used, num_free,
          num_reused, granted, pc, size, part, bucket, link>>

Addr == 0 .. Capacity
Pointer == Addr \cup {NULL}
Tagged == [ptr : Pointer, mark : BOOLEAN]
Nil == [ptr |-> NULL, mark |-> FALSE]
Word == 0 .. WordSize - 1

Labels == {"idle", "failed", "mark", "read", "unmark", "load", "store",
           "dec_free", "inc_reused", "push", "inc_used",
           "rel_link", "rel_cas", "rel_inc_free", "rel_dec_used"}

TypeOK ==
  /\ memory_cursor \in 0 .. MaxCursor
  /\ partition \in [Addr -> Partitions \cup {NULL}]
  /\ next \in [Addr -> Tagged]
  /\ free_buckets \in [Partitions -> Tagged]
  /\ num_used \in [Partitions -> Word]
  /\ num_free \in [Partitions -> Word]
  /\ num_reused \in [Partitions -> Word]
  /\ granted \in [Addr -> Requests \cup {NULL}]
  /\ pc \in [Threads -> Labels]
  /\ size \in [Threads -> Requests \cup {NULL}]
  /\ part \in [Threads -> Partitions \cup {NULL}]
  /\ bucket \in [Threads -> Pointer]
  /\ link \in [Threads -> Tagged]

(***************************************************************************)
(* Shared vocabulary.                                                      *)
(***************************************************************************)

Goto(t, label) == pc' = [pc EXCEPT ![t] = label]
At(t, label) == pc[t] = label

(* A u32 counter. *)
Add(counter, p, n) == [counter EXCEPT ![p] = (@ + n) % WordSize]

(* Defect: a bucket one byte too small passes for large enough. *)
FitsAlmost(p, n) == p + 1 >= n /\ \A q \in Partitions : q + 1 >= n => p <= q

(* No smaller partition would do.                                          *)
Fits(p, n) == p >= n /\ \A q \in Partitions : q >= n => p <= q

(* Bound: a cursor beyond MaxCursor is not told from MaxCursor.            *)
Upto(cursor) == IF cursor <= MaxCursor THEN cursor ELSE MaxCursor

Footprint(p) == Header + p
Pushed(a) == partition[a] # NULL
InUse(a) == granted[a] # NULL

(***************************************************************************)
(* reserve_memory                                                          *)
(***************************************************************************)

(* The call: the first partition, from the smallest up, that is large      *)
(* enough ...                                                              *)
ReserveCall(t, n, p) ==
  /\ pc[t] \in {"idle", "failed"}
  /\ Fits(p, n)
  /\ size' = [size EXCEPT ![t] = n]
  /\ part' = [part EXCEPT ![t] = p]
  /\ Goto(t, "mark")
  /\ UNCHANGED <<heap, stats, granted, bucket, link>>

(* ... or NULL when no bucket is as big as the request.                    *)
ReserveTooBig(t, n) ==
  /\ pc[t] \in {"idle", "failed"}
  /\ \A p \in Partitions : p < n
  /\ Goto(t, "failed")
  /\ UNCHANGED <<heap, stats, granted, locals>>

(* Defect: the answer of the fetch-or is ignored. *)
MarkAnyway(t) ==
  /\ At(t, "mark")
  /\ free_buckets' = [free_buckets EXCEPT ![part[t]].mark = TRUE]
  /\ Goto(t, "read")
  /\ UNCHANGED <<memory_cursor, partition, next, stats, granted, locals>>

(* MARK_POINTER: fetch-or of the mark; only who found it clear may pop. *)
Mark(t) ==
  /\ At(t, "mark")
  /\ free_buckets' = [free_buckets EXCEPT ![part[t]].mark = TRUE]
  /\ Goto(t, IF free_buckets[part[t]].mark THEN "push" ELSE "read")
  /\ UNCHANGED <<memory_cursor, partition, next, stats, granted, locals>>

(* bucket = READ_POINTER (free_list) *)
ReadHead(t) ==
  /\ At(t, "read")
  /\ bucket' = [bucket EXCEPT ![t] = free_buckets[part[t]].ptr]
  /\ Goto(t, IF free_buckets[part[t]].ptr # NULL THEN "load" ELSE "unmark")
  /\ UNCHANGED <<heap, stats, granted, size, part, link>>

(* UNMARK_POINTER: the stack was empty. *)
Unmark(t) ==
  /\ At(t, "unmark")
  /\ free_buckets' = [free_buckets EXCEPT ![part[t]].mark = FALSE]
  /\ Goto(t, "push")
  /\ UNCHANGED <<memory_cursor, partition, next, stats, granted, locals>>

(* The argument of WRITE_POINTER: bucket->next is read ... *)
LoadNext(t) ==
  /\ At(t, "load")
  /\ link' = [link EXCEPT ![t] = next[bucket[t]]]
  /\ Goto(t, "store")
  /\ UNCHANGED <<heap, stats, granted, size, part, bucket>>

(* ... and stored over the head, mark and all. *)
StoreHead(t) ==
  /\ At(t, "store")
  /\ free_buckets' = [free_buckets EXCEPT ![part[t]] = link[t]]
  /\ Goto(t, "dec_free")
  /\ UNCHANGED <<memory_cursor, partition, next, stats, granted, locals>>

(* Defect: a pop is not counted. *)
CountPopForgotten(t) ==
  /\ At(t, "dec_free")
  /\ Goto(t, "inc_reused")
  /\ UNCHANGED <<heap, stats, granted, locals>>

CountPop(t) ==
  /\ At(t, "dec_free")
  /\ num_free' = Add(num_free, part[t], -1)
  /\ Goto(t, "inc_reused")
  /\ UNCHANGED <<heap, num_used, num_reused, granted, locals>>

CountReuse(t) ==
  /\ At(t, "inc_reused")
  /\ num_reused' = Add(num_reused, part[t], 1)
  /\ Goto(t, "inc_used")
  /\ UNCHANGED <<heap, num_used, num_free, granted, locals>>

(* push_memory: a fetch-and-add of the cursor ...                          *)
Push(t) ==
  /\ At(t, "push")
  /\ memory_cursor + Footprint(part[t]) <= Capacity
  /\ memory_cursor' = memory_cursor + Footprint(part[t])
  /\ bucket' = [bucket EXCEPT ![t] = memory_cursor]
  /\ partition' = [partition EXCEPT ![memory_cursor] = part[t]]
  /\ Goto(t, "inc_used")
  /\ UNCHANGED <<next, free_buckets, stats, granted, size, part, link>>

(* ... which is not undone when the new end lies outside the arena.        *)
PushFails(t) ==
  /\ At(t, "push")
  /\ memory_cursor + Footprint(part[t]) > Capacity
  /\ memory_cursor' = Upto(memory_cursor + Footprint(part[t]))
  /\ Goto(t, "failed")
  /\ UNCHANGED <<partition, next, free_buckets, stats, granted, locals>>

(* The last counter, and the return of bucket->data to the caller. *)
CountUsed(t) ==
  /\ At(t, "inc_used")
  /\ num_used' = Add(num_used, part[t], 1)
  /\ granted' = [granted EXCEPT ![bucket[t]] = size[t]]
  /\ Goto(t, "idle")
  /\ UNCHANGED <<heap, num_free, num_reused, locals>>

(***************************************************************************)
(* release_memory.  Any thread may give back any block that is held: an    *)
(* entry is released by the thread that unmapped it, not by its creator.   *)
(***************************************************************************)

ReleaseCall(t, a) ==
  /\ pc[t] \in {"idle", "failed"}
  /\ InUse(a)
  /\ granted' = [granted EXCEPT ![a] = NULL]
  /\ bucket' = [bucket EXCEPT ![t] = a]
  /\ part' = [part EXCEPT ![t] = partition[a]]
  /\ Goto(t, "rel_link")
  /\ UNCHANGED <<heap, stats, size, link>>

(* bucket->next = READ_POINTER (free_list) *)
LinkNext(t) ==
  /\ At(t, "rel_link")
  /\ next' = [next EXCEPT ![bucket[t]] =
                [ptr |-> free_buckets[part[t]].ptr, mark |-> FALSE]]
  /\ Goto(t, "rel_cas")
  /\ UNCHANGED <<memory_cursor, partition, free_buckets, stats, granted, locals>>

(* Defect: the head is stored without comparing it. *)
StoreHeadBlindly(t) ==
  /\ At(t, "rel_cas")
  /\ free_buckets' = [free_buckets EXCEPT
                        ![part[t]] = [ptr |-> bucket[t], mark |-> FALSE]]
  /\ Goto(t, "rel_inc_free")
  /\ UNCHANGED <<memory_cursor, partition, next, stats, granted, locals>>

(* The weak compare-and-swap of the head against bucket->next ...          *)
CasHead(t) ==
  /\ At(t, "rel_cas")
  /\ free_buckets[part[t]] = next[bucket[t]]
  /\ free_buckets' = [free_buckets EXCEPT
                        ![part[t]] = [ptr |-> bucket[t], mark |-> FALSE]]
  /\ Goto(t, "rel_inc_free")
  /\ UNCHANGED <<memory_cursor, partition, next, stats, granted, locals>>

(* ... whose failure, spurious or not, overwrites the expected value,      *)
(* bucket->next, with the head as it is, mark included.                    *)
CasFails(t) ==
  /\ At(t, "rel_cas")
  /\ next' = [next EXCEPT ![bucket[t]] = free_buckets[part[t]]]
  /\ Goto(t, "rel_link")
  /\ UNCHANGED <<memory_cursor, partition, free_buckets, stats, granted, locals>>

CountPush(t) ==
  /\ At(t, "rel_inc_free")
  /\ num_free' = Add(num_free, part[t], 1)
  /\ Goto(t, "rel_dec_used")
  /\ UNCHANGED <<heap, num_used, num_reused, granted, locals>>

CountUnused(t) ==
  /\ At(t, "rel_dec_used")
  /\ num_used' = Add(num_used, part[t], -1)
  /\ Goto(t, "idle")
  /\ UNCHANGED <<heap, num_free, num_reused, granted, locals>>

(***************************************************************************)
(* The specification.                                                      *)
(***************************************************************************)

(* init_memory: empty stacks, zero counters, the cursor past what the      *)
(* partition table and the hash maps take.                                 *)
Init ==
  /\ memory_cursor = SystemSize
  /\ partition = [a \in Addr |-> NULL]
  /\ next = [a \in Addr |-> Nil]
  /\ free_buckets = [p \in Partitions |-> Nil]
  /\ num_used = [p \in Partitions |-> 0]
  /\ num_free = [p \in Partitions |-> 0]
  /\ num_reused = [p \in Partitions |-> 0]
  /\ granted = [a \in Addr |-> NULL]
  /\ pc = [t \in Threads |-> "idle"]
  /\ size = [t \in Threads |-> NULL]
  /\ part = [t \in Threads |-> NULL]
  /\ bucket = [t \in Threads |-> NULL]
  /\ link = [t \in Threads |-> Nil]

(* A step inside a call: the thread goes on by itself. *)
Step(t) ==
  \/ Mark(t) \/ ReadHead(t) \/ Unmark(t) \/ LoadNext(t) \/ StoreHead(t)
  \/ CountPop(t) \/ CountReuse(t) \/ Push(t) \/ PushFails(t)
  \/ CountUsed(t) \/ LinkNext(t) \/ CasHead(t) \/ CasFails(t)
  \/ CountPush(t) \/ CountUnused(t)

Next ==
  \E t \in Threads :
    \/ \E n \in Requests : ReserveTooBig(t, n) \/ \E p \in Partitions : ReserveCall(t, n, p)
    \/ \E a \in Addr : ReleaseCall(t, a)
    \/ Step(t)

Spec == Init /\ [][Next]_vars

(***************************************************************************)
(* Who a bucket belongs to.                                                *)
(***************************************************************************)

(* t has set the mark of its partition and not cleared it yet. *)
OwnsMark(t) == pc[t] \in {"read", "unmark", "load", "store"}

(* bucket[t] is off the stack and in nobody else's hands. *)
Private(t) == pc[t] \in {"dec_free", "inc_reused", "inc_used", "rel_link", "rel_cas"}

(* The bucket at a is on the stack of its partition. *)
Listed(a) == /\ Pushed(a) /\ ~InUse(a)
             /\ \A t \in Threads : Private(t) => bucket[t] # a

(***************************************************************************)
(* Properties.                                                             *)
(***************************************************************************)

(* No bucket has two owners: what a thread popped, pushed or is about to   *)
(* link is held by no caller and by no other thread (the pop of            *)
(* reserve_memory against the compare-and-swap of release_memory).         *)
ExclusiveOwnership ==
  \A t \in Threads : Private(t) =>
    /\ Pushed(bucket[t]) /\ ~InUse(bucket[t])
    /\ \A u \in Threads \ {t} : Private(u) => bucket[u] # bucket[t]

(* Buckets never overlap each other, the system area or the arena's end,   *)
(* whatever the order of racing push_memory calls.                         *)
BucketsApart ==
  \A a \in Addr : Pushed(a) =>
    /\ SystemSize <= a /\ a + Footprint(partition[a]) <= Capacity
    /\ \A b \in Addr : Pushed(b) /\ b # a =>
         \/ a + Footprint(partition[a]) <= b
         \/ b + Footprint(partition[b]) <= a

(* At most one thread pops from a partition, exactly while the mark is set *)
(* (MARK_POINTER is a try-lock).                                           *)
MarkIsLock ==
  /\ \A p \in Partitions :
       free_buckets[p].mark <=> \E t \in Threads : OwnsMark(t) /\ part[t] = p
  /\ \A t, u \in Threads :
       OwnsMark(t) /\ OwnsMark(u) /\ part[t] = part[u] => t = u

(* The mark bit never travels into a link of a stacked bucket: popping one *)
(* would leave the stack locked for ever (the failed compare-and-swap of   *)
(* release_memory does write the marked head into bucket->next).           *)
LinksUnmarked == \A a \in Addr : Listed(a) => ~next[a].mark

(* The bucket a tagged pointer leads to, if any, and those the links of S  *)
(* lead to.                                                                *)
Target(x) == {x.ptr} \ {NULL}
Successors(S) == UNION {Target(next[a]) : a \in S}

(* The buckets found by following the links from the head of p. *)
Chain(p) ==
  LET reach[n \in 0 .. Capacity] ==
        IF n = 0 THEN Target(free_buckets[p])
        ELSE reach[n - 1] \cup Successors(reach[n - 1])
  IN reach[Capacity]

(* The buckets that belong on the stack of p. *)
OnStack(p) == {a \in Addr : Listed(a) /\ partition[a] = p}

(* No bucket is ever lost, listed twice or in the wrong stack: the stack   *)
(* of p holds exactly the buckets of p that nobody owns.                   *)
StackIsExact ==
  \A p \in Partitions :
    /\ Chain(p) = OnStack(p)
    /\ \A a, b \in Chain(p) : a # b => next[a].ptr # next[b].ptr

(* The buckets of p in callers' hands, and the calls that are at certain   *)
(* points of their work on p.                                              *)
Held(p) == {a \in Addr : InUse(a) /\ partition[a] = p}
Calls(labels, p) == {t \in Threads : pc[t] \in labels /\ part[t] = p}
Returning == {"rel_link", "rel_cas", "rel_inc_free", "rel_dec_used"}

(* The statistics of a partition count what they are named for, up to the  *)
(* calls that are between changing the stack and counting it; modulo the   *)
(* width of the counter, num_free of a bucket popped before its release    *)
(* was counted being transiently -1.                                       *)
StatsAgree ==
  \A p \in Partitions :
    /\ num_used[p] = (Cardinality(Held(p)) + Cardinality(Calls(Returning, p))) % WordSize
    /\ num_free[p] = (Cardinality(OnStack(p)) + Cardinality(Calls({"dec_free"}, p))
                        - Cardinality(Calls({"rel_inc_free"}, p))) % WordSize

(***************************************************************************)
(* The inductive invariant.  "The stack is a list" is said without an      *)
(* order of its buckets: links are injective and never lead to the head,   *)
(* so that a pop leaves no second path to the popped bucket, and every set *)
(* closed under the links from the head holds the whole stack.             *)
(***************************************************************************)

(* Buckets lie below the cursor, which no later push can undercut. *)
LayoutInv ==
  /\ BucketsApart
  /\ SystemSize <= memory_cursor
  /\ \A a \in Addr : Pushed(a) => a + Footprint(partition[a]) <= memory_cursor

(* What each thread's locals mean at each label. *)
CallInv ==
  \A t \in Threads :
    /\ pc[t] \notin {"idle", "failed"} => part[t] \in Partitions
    /\ pc[t] \in {"mark", "read", "unmark", "load", "store", "dec_free",
                  "inc_reused", "push", "inc_used"}
         => size[t] \in Requests /\ size[t] <= part[t]
    /\ pc[t] \in {"load", "store"} =>
         bucket[t] # NULL /\ bucket[t] = free_buckets[part[t]].ptr
    /\ pc[t] = "store" => link[t] = next[bucket[t]]
    /\ pc[t] = "rel_cas" => ~next[bucket[t]].mark
    /\ Private(t) => bucket[t] # NULL /\ partition[bucket[t]] = part[t]

(* A held block fits its bucket. *)
GrantInv == \A a \in Addr : InUse(a) => Pushed(a) /\ granted[a] <= partition[a]

(* Heads and links stay inside the stack of their partition. *)
ListInv ==
  /\ \A p \in Partitions : free_buckets[p].ptr # NULL =>
       Listed(free_buckets[p].ptr) /\ partition[free_buckets[p].ptr] = p
  /\ \A a \in Addr : Listed(a) /\ next[a].ptr # NULL =>
       /\ Listed(next[a].ptr) /\ partition[next[a].ptr] = partition[a]
       /\ next[a].ptr # free_buckets[partition[a]].ptr

(* No two stacked buckets lead to the same one. *)
InjectiveInv ==
  \A a, b \in Addr : Listed(a) /\ Listed(b) /\ a # b /\ next[a].ptr # NULL =>
    next[a].ptr # next[b].ptr

(* No stack has two ends. *)
EndInv ==
  \A p \in Partitions : \A a, b \in OnStack(p) :
    next[a].ptr = NULL /\ next[b].ptr = NULL => a = b

(* S holds the head of p and, with a stacked bucket, the next one. *)
Covers(S, p) ==
  /\ Target(free_buckets[p]) \subseteq S
  /\ Successors(S \cap OnStack(p)) \subseteq S

(* No stacked bucket is cut off: it lies in every set that holds the head  *)
(* and is closed under the links.                                          *)
CoverInv ==
  \A p \in Partitions : \A S \in SUBSET Addr : Covers(S, p) => OnStack(p) \subseteq S

IInv ==
  /\ TypeOK /\ LayoutInv /\ CallInv /\ GrantInv /\ ExclusiveOwnership
  /\ MarkIsLock /\ LinksUnmarked /\ ListInv /\ InjectiveInv /\ EndInv /\ CoverInv

(* The blocks in callers' hands, as the abstract allocator sees them. *)
blocks == {[base |-> a + Header, size |-> granted[a]] : a \in {b \in Addr : InUse(b)}}

Abstract == INSTANCE Allocator WITH Arena <- Capacity, live <- blocks

(* The lock-free allocator keeps the promise of Allocator: blocks inside   *)
(* the arena, as long as asked, sharing no byte.                           *)
ImplementsAllocator == Abstract!Spec
=============================================================================
