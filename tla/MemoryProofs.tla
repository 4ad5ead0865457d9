---------------------------- MODULE MemoryProofs ----------------------------
(***************************************************************************)
(* Proofs about Memory for every number of threads, every set of bucket    *)
(* sizes and every arena: the inductive invariant IInv, ownership of       *)
(* buckets, and that the allocator implements Allocator.                   *)
(***************************************************************************)
EXTENDS Memory, FiniteSetTheorems, WellFoundedInduction, TLAPS

LEMMA TypeInit == Init => TypeOK
  BY MemoryAssumption DEF Init, TypeOK, Tagged, Pointer, Nil, Labels, Word

(* A bucket takes more room than its data. *)
LEMMA FootprintIsNat ==
  ASSUME NEW p \in Partitions
  PROVE  p \in Nat /\ Footprint(p) \in Nat /\ Footprint(p) > p
  BY MemoryAssumption DEF Footprint

(* A push that fits starts inside the arena and ends inside it. *)
LEMMA PushFits ==
  ASSUME NEW c \in 0 .. MaxCursor, NEW p \in Partitions, c + Footprint(p) <= Capacity
  PROVE  c \in Addr /\ c + Footprint(p) \in 0 .. MaxCursor
  BY FootprintIsNat, MemoryAssumption DEF Addr

(* The bound on the cursor never moves it back. *)
LEMMA UptoGrows ==
  ASSUME NEW c \in 0 .. MaxCursor, NEW n \in Nat
  PROVE  Upto(c + n) \in Nat /\ Upto(c + n) >= c
  BY MemoryAssumption DEF Upto

(* Counters stay u32 words. *)
LEMMA AddIsWord ==
  ASSUME NEW c \in [Partitions -> Word], NEW p \in Partitions, NEW n \in {-1, 1}
  PROVE  Add(c, p, n) \in [Partitions -> Word]
<1>1. (c[p] + n) % WordSize \in Word
  BY MemoryAssumption DEF Word
<1> QED BY <1>1 DEF Add

(* Setting or clearing the mark of a head keeps it a tagged pointer. *)
LEMMA MarkIsTagged ==
  ASSUME NEW f \in [Partitions -> Tagged], NEW p \in Partitions, NEW m \in BOOLEAN
  PROVE  [f EXCEPT ![p].mark = m] \in [Partitions -> Tagged]
<1>1. [f[p] EXCEPT !.mark = m] \in Tagged
  BY DEF Tagged
<1> QED BY <1>1

(* Which labels belong to a call that has chosen its partition. *)
LEMMA InCall ==
  ASSUME CallInv, NEW t \in Threads, pc[t] \notin {"idle", "failed"}
  PROVE  part[t] \in Partitions
  BY DEF CallInv

LEMMA TypeStep == TypeOK /\ LayoutInv /\ CallInv /\ GrantInv /\ [Next]_vars => TypeOK'
<1> SUFFICES ASSUME TypeOK, LayoutInv, CallInv, GrantInv, [Next]_vars PROVE TypeOK'
  OBVIOUS
<1> USE MemoryAssumption DEF TypeOK, Labels, Tagged, Pointer, Goto, At, heap, stats, locals
<1>1. CASE UNCHANGED vars
  BY <1>1 DEF vars
<1>2. ASSUME NEW t \in Threads, NEW n \in Requests, NEW p \in Partitions,
             ReserveCall(t, n, p)
      PROVE  TypeOK'
  BY <1>2 DEF ReserveCall
<1>17. ASSUME NEW t \in Threads, NEW n \in Requests, ReserveTooBig(t, n) PROVE TypeOK'
  BY <1>17 DEF ReserveTooBig
<1>3. ASSUME NEW t \in Threads, NEW a \in Addr, ReleaseCall(t, a) PROVE TypeOK'
  BY <1>3 DEF ReleaseCall
<1>4. ASSUME NEW t \in Threads, Mark(t) PROVE TypeOK'
  <2>1. free_buckets' \in [Partitions -> Tagged]
    BY <1>4, InCall, MarkIsTagged DEF Mark
  <2> QED BY <1>4, <2>1 DEF Mark
<1>5. ASSUME NEW t \in Threads, ReadHead(t) PROVE TypeOK'
  <2>1. bucket' \in [Threads -> Pointer]
    BY <1>5, InCall DEF ReadHead
  <2> QED BY <1>5, <2>1 DEF ReadHead
<1>6. ASSUME NEW t \in Threads, Unmark(t) PROVE TypeOK'
  <2>1. free_buckets' \in [Partitions -> Tagged]
    BY <1>6, InCall, MarkIsTagged DEF Unmark
  <2> QED BY <1>6, <2>1 DEF Unmark
<1>7. ASSUME NEW t \in Threads, LoadNext(t) PROVE TypeOK'
  <2>1. next[bucket[t]] \in Tagged
    BY <1>7 DEF LoadNext, CallInv
  <2> QED BY <1>7, <2>1 DEF LoadNext
<1>8. ASSUME NEW t \in Threads, StoreHead(t) PROVE TypeOK'
  BY <1>8, InCall DEF StoreHead
<1>9. ASSUME NEW t \in Threads, CountPop(t) PROVE TypeOK'
  <2>1. num_free' \in [Partitions -> Word]
    BY <1>9, InCall, AddIsWord DEF CountPop
  <2> QED BY <1>9, <2>1 DEF CountPop
<1>10. ASSUME NEW t \in Threads, CountReuse(t) PROVE TypeOK'
  <2>1. num_reused' \in [Partitions -> Word]
    BY <1>10, InCall, AddIsWord DEF CountReuse
  <2> QED BY <1>10, <2>1 DEF CountReuse
<1>11. ASSUME NEW t \in Threads, Push(t) PROVE TypeOK'
  <2>1. part[t] \in Partitions
    BY <1>11, InCall DEF Push
  <2>2. memory_cursor \in Addr /\ memory_cursor' \in 0 .. MaxCursor
    BY <1>11, <2>1, PushFits DEF Push
  <2> QED BY <1>11, <2>1, <2>2 DEF Push
<1>18. ASSUME NEW t \in Threads, PushFails(t) PROVE TypeOK'
  <2>1. part[t] \in Partitions
    BY <1>18, InCall DEF PushFails
  <2>2. memory_cursor' \in 0 .. MaxCursor
    BY <1>18, <2>1 DEF PushFails, Footprint, Upto
  <2> QED BY <1>18, <2>2 DEF PushFails
<1>12. ASSUME NEW t \in Threads, CountUsed(t) PROVE TypeOK'
  <2>1. num_used' \in [Partitions -> Word]
    BY <1>12, InCall, AddIsWord DEF CountUsed
  <2>2. granted' \in [Addr -> Requests \cup {NULL}]
    BY <1>12 DEF CountUsed, CallInv
  <2> QED BY <1>12, <2>1, <2>2 DEF CountUsed
<1>13. ASSUME NEW t \in Threads, LinkNext(t) PROVE TypeOK'
  <2>1. next' \in [Addr -> Tagged]
    BY <1>13, InCall DEF LinkNext, CallInv, Private
  <2> QED BY <1>13, <2>1 DEF LinkNext
<1>14. ASSUME NEW t \in Threads, CasHead(t) PROVE TypeOK'
  <2>1. part[t] \in Partitions /\ bucket[t] \in Addr
    BY <1>14, InCall DEF CasHead, CallInv, Private
  <2>2. free_buckets' \in [Partitions -> Tagged]
    BY <1>14, <2>1 DEF CasHead
  <2> QED BY <1>14, <2>2 DEF CasHead
<1>19. ASSUME NEW t \in Threads, CasFails(t) PROVE TypeOK'
  <2>1. part[t] \in Partitions /\ bucket[t] \in Addr
    BY <1>19, InCall DEF CasFails, CallInv, Private
  <2>2. next' \in [Addr -> Tagged]
    BY <1>19, <2>1 DEF CasFails
  <2> QED BY <1>19, <2>2 DEF CasFails
<1>15. ASSUME NEW t \in Threads, CountPush(t) PROVE TypeOK'
  <2>1. num_free' \in [Partitions -> Word]
    BY <1>15, InCall, AddIsWord DEF CountPush
  <2> QED BY <1>15, <2>1 DEF CountPush
<1>16. ASSUME NEW t \in Threads, CountUnused(t) PROVE TypeOK'
  <2>1. num_used' \in [Partitions -> Word]
    BY <1>16, InCall, AddIsWord DEF CountUnused
  <2> QED BY <1>16, <2>1 DEF CountUnused
<1> QED
  BY <1>1, <1>2, <1>3, <1>4, <1>5, <1>6, <1>7, <1>8, <1>9, <1>10, <1>11,
     <1>12, <1>13, <1>14, <1>15, <1>16, <1>17, <1>18, <1>19 DEF Next, Step

(***************************************************************************)
(* The stacks.  Only StoreHead and CasHead change which buckets are on     *)
(* them; every other step leaves them as they are.                         *)
(***************************************************************************)

StackInv == LinksUnmarked /\ ListInv /\ InjectiveInv /\ EndInv /\ CoverInv

LEMMA StackKept ==
  ASSUME TypeOK, StackInv,
         \A a \in Addr : Listed(a)' <=> Listed(a),
         \A a \in Addr : Listed(a) => next'[a] = next[a] /\ partition'[a] = partition[a],
         \A p \in Partitions : free_buckets'[p].ptr = free_buckets[p].ptr
  PROVE  StackInv'
<1> USE DEF StackInv
<1>1. LinksUnmarked'
  BY DEF LinksUnmarked
<1>2. \A a \in Addr : Listed(a) => partition[a] \in Partitions /\ next[a].ptr \in Pointer
  BY DEF Listed, Pushed, TypeOK, Tagged
<1>3. \A p \in Partitions : free_buckets[p].ptr \in Pointer
  BY DEF TypeOK, Tagged
<1>4. ListInv'
  BY <1>2, <1>3 DEF ListInv, Pointer
<1>5. InjectiveInv'
  BY DEF InjectiveInv
<1>6. \A p \in Partitions : OnStack(p)' = OnStack(p)
  BY DEF OnStack, Listed
<1>7. EndInv'
  BY <1>6 DEF EndInv, OnStack
<1>8. CoverInv'
  <2> SUFFICES ASSUME NEW p \in Partitions, NEW S \in SUBSET Addr, Covers(S, p)'
               PROVE  OnStack(p) \subseteq S
    BY <1>6 DEF CoverInv
  <2>1. Target(free_buckets[p]) = Target(free_buckets'[p])
    BY DEF Target
  <2>2. Target(free_buckets'[p]) \subseteq S /\ Successors(S \cap OnStack(p))' \subseteq S
    BY <1>6 DEF Covers, Target
  <2>3. Successors(S \cap OnStack(p)) \subseteq S
    BY <1>6, <2>2 DEF Successors, OnStack
  <2> QED BY <2>1, <2>2, <2>3 DEF CoverInv, Covers
<1> QED BY <1>1, <1>4, <1>5, <1>7, <1>8

LEMMA MarkStep ==
  ASSUME IInv, NEW t \in Threads, Mark(t), TypeOK'
  PROVE  IInv'
<1> USE DEF IInv
<1>0. part[t] \in Partitions
  BY InCall DEF Mark, At
<1>1. /\ pc' = [pc EXCEPT ![t] = IF free_buckets[part[t]].mark THEN "push" ELSE "read"]
      /\ \A p \in Partitions :
           free_buckets'[p] = [ptr |-> free_buckets[p].ptr,
                               mark |-> p = part[t] \/ free_buckets[p].mark]
  BY <1>0 DEF Mark, Goto, TypeOK, Tagged
<1>2. \A u \in Threads : Private(u)' <=> Private(u)
  BY <1>1 DEF Mark, At, Private, TypeOK
<1>3. LayoutInv' /\ GrantInv' /\ ExclusiveOwnership'
  BY <1>2 DEF Mark, heap, locals, LayoutInv, BucketsApart, GrantInv, ExclusiveOwnership,
              Pushed, InUse
<1>4. CallInv'
  BY <1>0, <1>1, <1>2 DEF Mark, At, locals, CallInv, TypeOK
<1>5. MarkIsLock'
  BY <1>0, <1>1 DEF Mark, At, locals, MarkIsLock, OwnsMark, TypeOK
<1>6. StackInv'
  <2>1. \A a \in Addr : Listed(a)' <=> Listed(a)
    BY <1>2 DEF Mark, locals, Listed, Pushed, InUse
  <2> QED BY <1>1, <2>1, StackKept DEF Mark, StackInv
<1> QED BY <1>3, <1>4, <1>5, <1>6 DEF StackInv

(* A call begins: no bucket is involved yet. *)
LEMMA ReserveCallStep ==
  ASSUME IInv, NEW t \in Threads, NEW n \in Requests, NEW p \in Partitions, ReserveCall(t, n, p), TypeOK'
  PROVE  IInv'
<1> USE DEF IInv, Goto, At, heap, stats, locals
<1>0. CallInv' /\ LayoutInv' /\ GrantInv'
  BY InCall DEF ReserveCall, CallInv, LayoutInv, BucketsApart, GrantInv, Pushed, InUse,
              Private, TypeOK, Fits
<1>1. ExclusiveOwnership'
  BY DEF ReserveCall, ExclusiveOwnership, Private, Pushed, InUse, TypeOK
<1>2. MarkIsLock'
  BY DEF ReserveCall, MarkIsLock, OwnsMark, TypeOK
<1>3. StackInv'
  <2>1. \A a \in Addr : Listed(a)' <=> Listed(a)
    BY DEF ReserveCall, Listed, Private, Pushed, InUse, TypeOK, ExclusiveOwnership
  <2> QED BY <2>1, StackKept DEF ReserveCall, StackInv
<1> QED BY <1>0, <1>1, <1>2, <1>3 DEF StackInv

(* A refused call changes nothing but its own label. *)
LEMMA ReserveTooBigStep ==
  ASSUME IInv, NEW t \in Threads, NEW n \in Requests, ReserveTooBig(t, n), TypeOK'
  PROVE  IInv'
<1> USE DEF IInv, Goto, At, heap, stats, locals
<1>0. CallInv' /\ LayoutInv' /\ GrantInv'
  BY InCall DEF ReserveTooBig, CallInv, LayoutInv, BucketsApart, GrantInv, Pushed, InUse,
              Private, TypeOK
<1>1. ExclusiveOwnership'
  BY DEF ReserveTooBig, ExclusiveOwnership, Private, Pushed, InUse, TypeOK
<1>2. MarkIsLock'
  BY DEF ReserveTooBig, MarkIsLock, OwnsMark, TypeOK
<1>3. StackInv'
  <2>1. \A a \in Addr : Listed(a)' <=> Listed(a)
    BY DEF ReserveTooBig, Listed, Private, Pushed, InUse, TypeOK, ExclusiveOwnership
  <2> QED BY <2>1, StackKept DEF ReserveTooBig, StackInv
<1> QED BY <1>0, <1>1, <1>2, <1>3 DEF StackInv

(* The holder of the mark learns the head. *)
LEMMA ReadHeadStep ==
  ASSUME IInv, NEW t \in Threads, ReadHead(t), TypeOK'
  PROVE  IInv'
<1> USE DEF IInv, Goto, At, heap, stats, locals
<1>0. CallInv' /\ LayoutInv' /\ GrantInv'
  BY InCall DEF ReadHead, CallInv, LayoutInv, BucketsApart, GrantInv, Pushed, InUse,
              Private, TypeOK
<1>1. ExclusiveOwnership'
  BY DEF ReadHead, ExclusiveOwnership, Private, Pushed, InUse, TypeOK
<1>2. MarkIsLock'
  BY DEF ReadHead, MarkIsLock, OwnsMark, TypeOK
<1>3. StackInv'
  <2>1. \A a \in Addr : Listed(a)' <=> Listed(a)
    BY DEF ReadHead, Listed, Private, Pushed, InUse, TypeOK, ExclusiveOwnership
  <2> QED BY <2>1, StackKept DEF ReadHead, StackInv
<1> QED BY <1>0, <1>1, <1>2, <1>3 DEF StackInv

(* The holder of the mark learns the link of the head. *)
LEMMA LoadNextStep ==
  ASSUME IInv, NEW t \in Threads, LoadNext(t), TypeOK'
  PROVE  IInv'
<1> USE DEF IInv, Goto, At, heap, stats, locals
<1>0. CallInv' /\ LayoutInv' /\ GrantInv'
  BY InCall DEF LoadNext, CallInv, LayoutInv, BucketsApart, GrantInv, Pushed, InUse,
              Private, TypeOK
<1>1. ExclusiveOwnership'
  BY DEF LoadNext, ExclusiveOwnership, Private, Pushed, InUse, TypeOK
<1>2. MarkIsLock'
  BY DEF LoadNext, MarkIsLock, OwnsMark, TypeOK
<1>3. StackInv'
  <2>1. \A a \in Addr : Listed(a)' <=> Listed(a)
    BY DEF LoadNext, Listed, Private, Pushed, InUse, TypeOK, ExclusiveOwnership
  <2> QED BY <2>1, StackKept DEF LoadNext, StackInv
<1> QED BY <1>0, <1>1, <1>2, <1>3 DEF StackInv

(* Counting a pop. *)
LEMMA CountPopStep ==
  ASSUME IInv, NEW t \in Threads, CountPop(t), TypeOK'
  PROVE  IInv'
<1> USE DEF IInv, Goto, At, heap, stats, locals
<1>0. CallInv' /\ LayoutInv' /\ GrantInv'
  BY InCall DEF CountPop, CallInv, LayoutInv, BucketsApart, GrantInv, Pushed, InUse,
              Private, TypeOK
<1>1. ExclusiveOwnership'
  BY DEF CountPop, ExclusiveOwnership, Private, Pushed, InUse, TypeOK
<1>2. MarkIsLock'
  BY DEF CountPop, MarkIsLock, OwnsMark, TypeOK
<1>3. StackInv'
  <2>1. \A a \in Addr : Listed(a)' <=> Listed(a)
    BY DEF CountPop, Listed, Private, Pushed, InUse, TypeOK, ExclusiveOwnership
  <2> QED BY <2>1, StackKept DEF CountPop, StackInv
<1> QED BY <1>0, <1>1, <1>2, <1>3 DEF StackInv

(* Counting a reuse. *)
LEMMA CountReuseStep ==
  ASSUME IInv, NEW t \in Threads, CountReuse(t), TypeOK'
  PROVE  IInv'
<1> USE DEF IInv, Goto, At, heap, stats, locals
<1>0. CallInv' /\ LayoutInv' /\ GrantInv'
  BY InCall DEF CountReuse, CallInv, LayoutInv, BucketsApart, GrantInv, Pushed, InUse,
              Private, TypeOK
<1>1. ExclusiveOwnership'
  BY DEF CountReuse, ExclusiveOwnership, Private, Pushed, InUse, TypeOK
<1>2. MarkIsLock'
  BY DEF CountReuse, MarkIsLock, OwnsMark, TypeOK
<1>3. StackInv'
  <2>1. \A a \in Addr : Listed(a)' <=> Listed(a)
    BY DEF CountReuse, Listed, Private, Pushed, InUse, TypeOK, ExclusiveOwnership
  <2> QED BY <2>1, StackKept DEF CountReuse, StackInv
<1> QED BY <1>0, <1>1, <1>2, <1>3 DEF StackInv

(* Counting a push on the stack. *)
LEMMA CountPushStep ==
  ASSUME IInv, NEW t \in Threads, CountPush(t), TypeOK'
  PROVE  IInv'
<1> USE DEF IInv, Goto, At, heap, stats, locals
<1>0. CallInv' /\ LayoutInv' /\ GrantInv'
  BY InCall DEF CountPush, CallInv, LayoutInv, BucketsApart, GrantInv, Pushed, InUse,
              Private, TypeOK
<1>1. ExclusiveOwnership'
  BY DEF CountPush, ExclusiveOwnership, Private, Pushed, InUse, TypeOK
<1>2. MarkIsLock'
  BY DEF CountPush, MarkIsLock, OwnsMark, TypeOK
<1>3. StackInv'
  <2>1. \A a \in Addr : Listed(a)' <=> Listed(a)
    BY DEF CountPush, Listed, Private, Pushed, InUse, TypeOK, ExclusiveOwnership
  <2> QED BY <2>1, StackKept DEF CountPush, StackInv
<1> QED BY <1>0, <1>1, <1>2, <1>3 DEF StackInv

(* Counting a returned bucket. *)
LEMMA CountUnusedStep ==
  ASSUME IInv, NEW t \in Threads, CountUnused(t), TypeOK'
  PROVE  IInv'
<1> USE DEF IInv, Goto, At, heap, stats, locals
<1>0. CallInv' /\ LayoutInv' /\ GrantInv'
  BY InCall DEF CountUnused, CallInv, LayoutInv, BucketsApart, GrantInv, Pushed, InUse,
              Private, TypeOK
<1>1. ExclusiveOwnership'
  BY DEF CountUnused, ExclusiveOwnership, Private, Pushed, InUse, TypeOK
<1>2. MarkIsLock'
  BY DEF CountUnused, MarkIsLock, OwnsMark, TypeOK
<1>3. StackInv'
  <2>1. \A a \in Addr : Listed(a)' <=> Listed(a)
    BY DEF CountUnused, Listed, Private, Pushed, InUse, TypeOK, ExclusiveOwnership
  <2> QED BY <2>1, StackKept DEF CountUnused, StackInv
<1> QED BY <1>0, <1>1, <1>2, <1>3 DEF StackInv

(* The cursor moves on past the arena; no bucket is cut. *)
LEMMA PushFailsStep ==
  ASSUME IInv, NEW t \in Threads, PushFails(t), TypeOK'
  PROVE  IInv'
<1> USE DEF IInv, Goto, At, heap, stats, locals
<1>0. CallInv' /\ GrantInv'
  BY InCall DEF PushFails, CallInv, GrantInv, Pushed, InUse, Private, TypeOK
<1>1. LayoutInv'
  <2>1. part[t] \in Partitions
    BY InCall DEF PushFails
  <2>2. memory_cursor' \in Nat /\ memory_cursor' >= memory_cursor
    BY <2>1, FootprintIsNat, UptoGrows DEF PushFails, TypeOK
  <2>3. \A a \in Addr : Pushed(a) => a + Footprint(partition[a]) \in Nat
    <3>1. \A a \in Addr : a \in Nat /\ (Pushed(a) => partition[a] \in Partitions)
      BY MemoryAssumption DEF Pushed, TypeOK, Addr
    <3> QED BY <3>1, FootprintIsNat
  <2>4. memory_cursor \in Nat
    BY DEF TypeOK
  <2> HIDE DEF IInv
  <2>8. BucketsApart /\ partition' = partition /\ SystemSize <= memory_cursor
    BY DEF IInv, LayoutInv, PushFails
  <2>5. BucketsApart'
    BY <2>8 DEF BucketsApart, Pushed
  <2>6. SystemSize <= memory_cursor'
    BY <2>8, <2>2, <2>4, MemoryAssumption
  <2>7. \A a \in Addr : Pushed(a)' => a + Footprint(partition'[a]) <= memory_cursor'
    <3>1. \A a \in Addr : Pushed(a) => a + Footprint(partition[a]) <= memory_cursor
      BY DEF IInv, LayoutInv
    <3> QED BY <2>8, <2>2, <2>3, <2>4, <3>1 DEF Pushed
  <2> QED BY <2>5, <2>6, <2>7 DEF LayoutInv
<1>2. ExclusiveOwnership'
  BY DEF PushFails, ExclusiveOwnership, Private, Pushed, InUse, TypeOK
<1>3. MarkIsLock'
  BY DEF PushFails, MarkIsLock, OwnsMark, TypeOK
<1>4. StackInv'
  <2>1. \A a \in Addr : Listed(a)' <=> Listed(a)
    BY DEF PushFails, Listed, Private, Pushed, InUse, TypeOK
  <2> QED BY <2>1, StackKept DEF PushFails, StackInv
<1> QED BY <1>0, <1>1, <1>2, <1>3, <1>4 DEF StackInv

(* What a thread knows of a bucket that is its own. *)
LEMMA OwnBucket ==
  ASSUME IInv, NEW t \in Threads, Private(t)
  PROVE  /\ bucket[t] \in Addr /\ part[t] \in Partitions
         /\ partition[bucket[t]] = part[t] /\ Pushed(bucket[t])
         /\ ~InUse(bucket[t]) /\ ~Listed(bucket[t])
<1>1. bucket[t] \in Addr /\ partition[bucket[t]] = part[t]
  BY DEF IInv, CallInv, TypeOK, Pointer
<1>2. part[t] \in Partitions
  BY DEF IInv, CallInv, Private
<1>3. Pushed(bucket[t]) /\ ~InUse(bucket[t])
  BY DEF IInv, ExclusiveOwnership
<1> QED BY <1>1, <1>2, <1>3 DEF Listed

(* A bucket passes from the call to the caller. *)
LEMMA CountUsedStep ==
  ASSUME IInv, NEW t \in Threads, CountUsed(t), TypeOK'
  PROVE  IInv'
<1> USE DEF IInv, Goto, At, heap, stats, locals
<1>0. Private(t)
  BY DEF CountUsed, Private
<1>1. /\ bucket[t] \in Addr /\ Pushed(bucket[t]) /\ ~InUse(bucket[t])
      /\ size[t] \in Requests /\ size[t] <= partition[bucket[t]]
  BY <1>0, OwnBucket DEF CountUsed, CallInv
<1>2. size[t] # NULL
  BY <1>1, MemoryAssumption
<1>3. /\ pc' = [pc EXCEPT ![t] = "idle"]
      /\ \A a \in Addr : granted'[a] = IF a = bucket[t] THEN size[t] ELSE granted[a]
  BY <1>1 DEF CountUsed, TypeOK
<1>4. \A u \in Threads : Private(u)' <=> Private(u) /\ u # t
  BY <1>3 DEF Private, TypeOK
<1>5. CallInv' /\ LayoutInv'
  BY <1>3, <1>4 DEF CountUsed, CallInv, LayoutInv, BucketsApart, Pushed, TypeOK
<1>6. GrantInv'
  BY <1>1, <1>3 DEF CountUsed, GrantInv, InUse, Pushed
<1>7. ExclusiveOwnership'
  BY <1>0, <1>3, <1>4 DEF CountUsed, ExclusiveOwnership, InUse, Pushed, CallInv, TypeOK, Pointer
<1>8. MarkIsLock'
  BY <1>3 DEF CountUsed, MarkIsLock, OwnsMark, TypeOK
<1>9. StackInv'
  <2>1. \A a \in Addr : InUse(a)' <=> InUse(a) \/ a = bucket[t]
    BY <1>2, <1>3 DEF InUse
  <2>2. \A a \in Addr : Listed(a)' <=> Listed(a)
    BY <1>0, <1>4, <2>1 DEF CountUsed, Listed, Pushed
  <2> QED BY <2>2, StackKept DEF CountUsed, StackInv
<1> QED BY <1>5, <1>6, <1>7, <1>8, <1>9 DEF StackInv

(* A block passes from the caller to the call. *)
LEMMA ReleaseCallStep ==
  ASSUME IInv, NEW t \in Threads, NEW a \in Addr, ReleaseCall(t, a), TypeOK'
  PROVE  IInv'
<1> USE DEF IInv, Goto, At, heap, stats, locals
<1>1. Pushed(a) /\ InUse(a) /\ partition[a] \in Partitions /\ a # NULL
  BY MemoryAssumption DEF ReleaseCall, GrantInv, Pushed, TypeOK, Addr
<1>2. /\ pc' = [pc EXCEPT ![t] = "rel_link"]
      /\ part' = [part EXCEPT ![t] = partition[a]]
      /\ bucket' = [bucket EXCEPT ![t] = a]
      /\ \A b \in Addr : InUse(b)' <=> InUse(b) /\ b # a
  BY DEF ReleaseCall, TypeOK, InUse
<1>3. ~Private(t) /\ \A u \in Threads : Private(u)' <=> Private(u) \/ u = t
  BY <1>2 DEF ReleaseCall, Private, TypeOK
<1>4. LayoutInv' /\ GrantInv'
  BY <1>2 DEF ReleaseCall, LayoutInv, BucketsApart, GrantInv, Pushed, InUse, TypeOK
<1>5. CallInv'
  BY <1>1, <1>2, <1>3 DEF ReleaseCall, CallInv, TypeOK
<1>6. ExclusiveOwnership'
  <2>1. \A u \in Threads : Private(u) => bucket[u] \in Addr /\ bucket[u] # a
    BY <1>1, OwnBucket
  <2> QED BY <1>1, <1>2, <1>3, <2>1 DEF ReleaseCall, ExclusiveOwnership, Pushed, TypeOK
<1>7. MarkIsLock'
  BY <1>2 DEF ReleaseCall, MarkIsLock, OwnsMark, TypeOK
<1>8. StackInv'
  <2>1. \A b \in Addr : Listed(b)' <=> Listed(b)
    BY <1>1, <1>2, <1>3 DEF ReleaseCall, Listed, Pushed, TypeOK
  <2> QED BY <2>1, StackKept DEF ReleaseCall, StackInv
<1> QED BY <1>4, <1>5, <1>6, <1>7, <1>8 DEF StackInv

(* A new bucket is cut from the arena and belongs to the call. *)
LEMMA PushStep ==
  ASSUME IInv, NEW t \in Threads, Push(t), TypeOK'
  PROVE  IInv'
<1> USE DEF IInv, Goto, At, heap, stats, locals
<1> DEFINE c == memory_cursor
<1>1. part[t] \in Partitions
  BY InCall DEF Push
<1>2. c \in Addr /\ c \in Nat /\ c # NULL
  BY <1>1, PushFits, MemoryAssumption DEF Push, TypeOK
<1>3. \A a \in Addr : Pushed(a) => a \in Nat /\ partition[a] \in Partitions /\ a + Footprint(partition[a]) <= c
  BY MemoryAssumption DEF LayoutInv, Pushed, TypeOK, Addr
<1>4. ~Pushed(c) /\ ~InUse(c)
  BY <1>2, <1>3, FootprintIsNat DEF GrantInv
<1>5. /\ pc' = [pc EXCEPT ![t] = "inc_used"]
      /\ bucket' = [bucket EXCEPT ![t] = c]
      /\ \A a \in Addr : partition'[a] = IF a = c THEN part[t] ELSE partition[a]
  BY <1>2 DEF Push, TypeOK
<1>6. part[t] # NULL /\ \A a \in Addr : Pushed(a)' <=> Pushed(a) \/ a = c
  BY <1>1, <1>5, MemoryAssumption DEF Pushed
<1>7. ~Private(t) /\ \A u \in Threads : Private(u)' <=> Private(u) \/ u = t
  BY <1>5 DEF Push, Private, TypeOK
<1>8. \A u \in Threads : Private(u) => bucket[u] \in Addr /\ bucket[u] # c
  BY <1>4, OwnBucket
<1>9. LayoutInv'
  <2>1. Footprint(part[t]) \in Nat /\ Footprint(part[t]) > 0
    BY <1>1, FootprintIsNat
  <2>2. \A a \in Addr : Pushed(a) => Footprint(partition[a]) \in Nat
    BY <1>3, FootprintIsNat
  <2>3. SystemSize <= c /\ SystemSize \in Nat /\ Capacity \in Nat /\ memory_cursor' = c + Footprint(part[t])
        /\ memory_cursor' <= Capacity
    BY MemoryAssumption DEF LayoutInv, Push
  <2>4. SystemSize <= memory_cursor'
    BY <1>2, <2>1, <2>3
  <2>5. \A a \in Addr : Pushed(a)' => a + Footprint(partition'[a]) <= memory_cursor'
    BY <1>2, <1>3, <1>5, <1>6, <2>1, <2>2, <2>3
  <2>6. BucketsApart'
    <3>1. ASSUME NEW a \in Addr, Pushed(a)'
          PROVE  SystemSize <= a /\ a + Footprint(partition'[a]) <= Capacity
      BY <1>2, <1>3, <1>5, <1>6, <2>1, <2>2, <2>3, <3>1 DEF LayoutInv, BucketsApart
    <3>2. ASSUME NEW a \in Addr, NEW b \in Addr, Pushed(a)', Pushed(b)', a # b
          PROVE  \/ a + Footprint(partition'[a]) <= b
                 \/ b + Footprint(partition'[b]) <= a
      BY <1>2, <1>3, <1>5, <1>6, <3>2 DEF LayoutInv, BucketsApart
    <3> QED BY <3>1, <3>2 DEF BucketsApart
  <2> QED BY <2>4, <2>5, <2>6 DEF LayoutInv
<1>10. GrantInv'
  BY <1>4, <1>5, <1>6 DEF Push, GrantInv, InUse
<1>11. CallInv'
  <2>1. \A u \in Threads \ {t} : /\ pc'[u] = pc[u] /\ part'[u] = part[u] /\ size'[u] = size[u]
                                 /\ bucket'[u] = bucket[u] /\ link'[u] = link[u]
    BY <1>5 DEF Push, TypeOK
  <2>2. next' = next /\ free_buckets' = free_buckets /\ part' = part /\ size' = size
    BY DEF Push
  <2>3. \A u \in Threads : Private(u) => partition'[bucket[u]] = partition[bucket[u]]
    BY <1>5, <1>8
  <2>4. size[t] \in Requests /\ size[t] <= part[t]
    BY DEF Push, CallInv
  <2>5. pc'[t] = "inc_used" /\ bucket'[t] = c /\ partition'[c] = part[t] /\ c # NULL
    BY <1>2, <1>5 DEF TypeOK
  <2> QED BY <1>1, <1>7, <2>1, <2>2, <2>3, <2>4, <2>5 DEF CallInv
<1>12. ExclusiveOwnership'
  <2>1. bucket'[t] = c /\ \A u \in Threads \ {t} : bucket'[u] = bucket[u]
    BY <1>5 DEF TypeOK
  <2>2. \A u \in Threads : Private(u)' => partition'[bucket'[u]] # NULL
    BY <1>2, <1>5, <1>6, <1>7, <1>8, <2>1 DEF ExclusiveOwnership, Pushed
  <2>3. \A u \in Threads : Private(u)' => granted[bucket'[u]] = NULL
    BY <1>4, <1>7, <1>8, <2>1 DEF ExclusiveOwnership, InUse
  <2>4. \A u \in Threads : \A v \in Threads \ {u} :
          Private(u)' /\ Private(v)' => bucket'[u] # bucket'[v]
    BY <1>7, <1>8, <2>1 DEF ExclusiveOwnership
  <2> QED BY <2>2, <2>3, <2>4 DEF Push, ExclusiveOwnership, Pushed, InUse
<1>13. MarkIsLock'
  BY <1>5 DEF Push, MarkIsLock, OwnsMark, TypeOK
<1>14. StackInv'
  <2>1. \A a \in Addr : Listed(a)' <=> Listed(a)
    BY <1>2, <1>4, <1>5, <1>6, <1>7, <1>8 DEF Push, Listed, InUse, TypeOK
  <2>2. \A a \in Addr : Listed(a) => partition'[a] = partition[a]
    BY <1>4, <1>5 DEF Listed
  <2> QED BY <2>1, <2>2, StackKept DEF Push, StackInv
<1> QED BY <1>9, <1>10, <1>11, <1>12, <1>13, <1>14 DEF StackInv

(* An empty stack is unmarked by the thread that marked it. *)
LEMMA UnmarkStep ==
  ASSUME IInv, NEW t \in Threads, Unmark(t), TypeOK'
  PROVE  IInv'
<1> USE DEF IInv, At, locals
<1>0. part[t] \in Partitions
  BY InCall DEF Unmark
<1>1. /\ pc' = [pc EXCEPT ![t] = "push"]
      /\ \A p \in Partitions :
           free_buckets'[p] = [ptr |-> free_buckets[p].ptr,
                               mark |-> p # part[t] /\ free_buckets[p].mark]
  BY <1>0 DEF Unmark, Goto, TypeOK, Tagged
<1>2. \A u \in Threads : Private(u)' <=> Private(u)
  BY <1>1 DEF Unmark, Private, TypeOK
<1>3. LayoutInv' /\ GrantInv' /\ ExclusiveOwnership'
  BY <1>2 DEF Unmark, LayoutInv, BucketsApart, GrantInv, ExclusiveOwnership, Pushed, InUse
<1>4. CallInv'
  BY <1>0, <1>1, <1>2 DEF Unmark, CallInv, TypeOK
<1>5. MarkIsLock'
  BY <1>0, <1>1 DEF Unmark, MarkIsLock, OwnsMark, TypeOK
<1>6. StackInv'
  <2>1. \A a \in Addr : Listed(a)' <=> Listed(a)
    BY <1>2 DEF Unmark, Listed, Pushed, InUse
  <2> QED BY <1>1, <2>1, StackKept DEF Unmark, StackInv
<1> QED BY <1>3, <1>4, <1>5, <1>6 DEF StackInv

(* Links written by LinkNext and CasFails belong to a bucket that is not   *)
(* on any stack, so they disturb none.                                     *)
LEMMA PrivateLink ==
  ASSUME IInv, NEW t \in Threads, pc[t] \in {"rel_link", "rel_cas"},
         pc' = [pc EXCEPT ![t] = "rel_link"] \/ pc' = [pc EXCEPT ![t] = "rel_cas"],
         NEW l \in Tagged, next' = [next EXCEPT ![bucket[t]] = l],
         pc'[t] = "rel_cas" => ~l.mark,
         UNCHANGED <<memory_cursor, partition, free_buckets, granted, locals>>, TypeOK'
  PROVE  IInv'
<1> USE DEF IInv, locals
<1>1. Private(t) /\ \A u \in Threads : Private(u)' <=> Private(u)
  BY DEF Private, TypeOK
<1>2. bucket[t] \in Addr /\ ~Listed(bucket[t])
  BY <1>1, OwnBucket
<1>3. \A a \in Addr : next'[a] = IF a = bucket[t] THEN l ELSE next[a]
  BY <1>2 DEF TypeOK
<1>4. LayoutInv' /\ GrantInv' /\ ExclusiveOwnership' /\ MarkIsLock'
  BY <1>1 DEF LayoutInv, BucketsApart, GrantInv, ExclusiveOwnership, MarkIsLock, OwnsMark,
              Pushed, InUse, TypeOK
<1>5. CallInv'
  <2>1. ASSUME NEW u \in Threads, u # t, pc[u] \in {"store", "rel_cas"}
        PROVE  next'[bucket[u]] = next[bucket[u]]
    <3>1. CASE pc[u] = "store"
      <4>1. bucket[u] = free_buckets[part[u]].ptr /\ bucket[u] # NULL /\ part[u] \in Partitions
        BY <3>1 DEF CallInv
      <4>2. Listed(bucket[u]) /\ bucket[u] \in Addr
        BY <4>1 DEF ListInv, TypeOK, Pointer
      <4> QED BY <1>2, <1>3, <4>2
    <3>2. CASE pc[u] = "rel_cas"
      <4>1. Private(u) /\ bucket[u] \in Addr /\ bucket[u] # bucket[t]
        BY <1>1, <2>1, <3>2, OwnBucket DEF ExclusiveOwnership, Private
      <4> QED BY <1>3, <4>1
    <3> QED BY <2>1, <3>1, <3>2
  <2>2. next'[bucket[t]] = l
    BY <1>2, <1>3
  <2>3. \A u \in Threads \ {t} : pc'[u] = pc[u]
    BY DEF TypeOK
  <2>4. pc'[t] \in {"rel_link", "rel_cas"}
    BY DEF TypeOK
  <2> QED BY <1>1, <2>1, <2>2, <2>3, <2>4 DEF CallInv
<1>6. StackInv'
  <2>1. \A a \in Addr : Listed(a)' <=> Listed(a)
    BY <1>1 DEF Listed, Pushed, InUse
  <2> QED BY <1>2, <1>3, <2>1, StackKept DEF StackInv
<1> QED BY <1>4, <1>5, <1>6 DEF StackInv

LEMMA LinkNextStep ==
  ASSUME IInv, NEW t \in Threads, LinkNext(t), TypeOK'
  PROVE  IInv'
<1> DEFINE l == [ptr |-> free_buckets[part[t]].ptr, mark |-> FALSE]
<1>1. part[t] \in Partitions
  BY InCall DEF IInv, LinkNext, At
<1>2. l \in Tagged
  BY <1>1 DEF IInv, TypeOK, Tagged
<1> QED BY <1>2, PrivateLink DEF LinkNext, At, Goto, IInv, TypeOK

LEMMA CasFailsStep ==
  ASSUME IInv, NEW t \in Threads, CasFails(t), TypeOK'
  PROVE  IInv'
<1>1. part[t] \in Partitions
  BY InCall DEF IInv, CasFails, At
<1>2. free_buckets[part[t]] \in Tagged
  BY <1>1 DEF IInv, TypeOK
<1>3. pc'[t] = "rel_link"
  BY DEF CasFails, Goto, IInv, TypeOK
<1> QED BY <1>2, <1>3, PrivateLink DEF CasFails, At, Goto

(* The pop: the head leaves the stack and becomes the caller's.  Nothing   *)
(* else leads to it, and nothing but it leads to the new head.             *)
LEMMA StoreHeadStep ==
  ASSUME IInv, NEW t \in Threads, StoreHead(t), TypeOK'
  PROVE  IInv'
<1> USE DEF IInv, At, locals
<1> DEFINE p == part[t]
           h == bucket[t]
<1>1. /\ p \in Partitions /\ h # NULL /\ h \in Addr /\ h = free_buckets[p].ptr
      /\ link[t] = next[h] /\ size[t] \in Requests /\ size[t] <= p
  BY InCall DEF StoreHead, CallInv, TypeOK, Pointer
<1>2. Listed(h) /\ partition[h] = p
  BY <1>1 DEF ListInv
<1>3. /\ pc' = [pc EXCEPT ![t] = "dec_free"]
      /\ \A q \in Partitions : free_buckets'[q] = IF q = p THEN next[h] ELSE free_buckets[q]
  BY <1>1 DEF StoreHead, Goto, TypeOK
<1>4. ~Private(t) /\ \A u \in Threads : Private(u)' <=> Private(u) \/ u = t
  BY <1>3 DEF StoreHead, Private, TypeOK
<1>5. \A u \in Threads : Private(u) => bucket[u] # h
  BY <1>2 DEF Listed
<1>6. \A u \in Threads : OwnsMark(u)' <=> OwnsMark(u) /\ u # t
  BY <1>3 DEF StoreHead, OwnsMark, TypeOK
<1>7. OwnsMark(t) /\ ~next[h].mark
  BY <1>1, <1>2 DEF StoreHead, OwnsMark, LinksUnmarked
<1>8. LayoutInv' /\ GrantInv'
  BY DEF StoreHead, LayoutInv, BucketsApart, GrantInv, Pushed, InUse
<1>9. CallInv'
  <2>1. \A u \in Threads \ {t} : pc'[u] = pc[u]
    BY <1>3 DEF TypeOK
  <2>2. \A u \in Threads \ {t} : pc[u] \in {"load", "store"} => part[u] # p /\ part[u] \in Partitions
    BY <1>7 DEF MarkIsLock, OwnsMark, CallInv
  <2>3. pc'[t] = "dec_free"
    BY <1>3 DEF TypeOK
  <2>4. UNCHANGED <<partition, next, size, part, bucket, link>>
    BY DEF StoreHead
  <2> QED BY <1>1, <1>2, <1>3, <1>4, <2>1, <2>2, <2>3, <2>4 DEF CallInv
<1>10. ExclusiveOwnership'
  BY <1>2, <1>4, <1>5 DEF StoreHead, ExclusiveOwnership, Listed, Pushed, InUse
<1>11. MarkIsLock'
  <2>1. \A q \in Partitions :
          free_buckets'[q].mark <=> \E u \in Threads : OwnsMark(u)' /\ part[u] = q
    BY <1>1, <1>3, <1>6, <1>7 DEF MarkIsLock
  <2> QED BY <1>6, <2>1 DEF StoreHead, MarkIsLock
<1>12. \A a \in Addr : Listed(a)' <=> Listed(a) /\ a # h
  BY <1>4 DEF StoreHead, Listed, Pushed, InUse
<1>13. LinksUnmarked' /\ InjectiveInv'
  BY <1>12 DEF StoreHead, LinksUnmarked, InjectiveInv
<1>14. ListInv'
  <2>1. \A a \in Addr : Listed(a) => partition[a] \in Partitions /\ next[a].ptr \in Pointer
    BY DEF Listed, Pushed, TypeOK, Tagged
  <2>2. UNCHANGED <<partition, next>>
    BY DEF StoreHead
  <2>3. ASSUME NEW q \in Partitions, free_buckets'[q].ptr # NULL
        PROVE  LET a == free_buckets'[q].ptr
               IN a \in Addr /\ Listed(a) /\ a # h /\ partition[a] = q
    <3>1. CASE q = p
      BY <1>1, <1>2, <1>3, <2>1, <2>3, <3>1 DEF ListInv, Pointer
    <3>2. CASE q # p
      BY <1>1, <1>2, <1>3, <2>3, <3>2 DEF ListInv, TypeOK, Tagged, Pointer
    <3> QED BY <3>1, <3>2
  <2>4. ASSUME NEW a \in Addr, Listed(a), a # h, next[a].ptr # NULL
        PROVE  /\ next[a].ptr \in Addr /\ Listed(next[a].ptr) /\ next[a].ptr # h
               /\ partition[next[a].ptr] = partition[a]
               /\ next[a].ptr # free_buckets'[partition[a]].ptr
    <3>1. next[a].ptr # next[h].ptr
      BY <1>1, <1>2, <2>4 DEF InjectiveInv
    <3>2. next[a].ptr # h
      <4>1. CASE partition[a] = p
        BY <1>1, <2>4, <4>1 DEF ListInv
      <4>2. CASE partition[a] # p
        BY <1>2, <2>4, <4>2 DEF ListInv
      <4> QED BY <4>1, <4>2
    <3> QED BY <1>3, <2>1, <2>4, <3>1, <3>2 DEF ListInv, Pointer
  <2> QED BY <1>12, <2>2, <2>3, <2>4 DEF ListInv
<1>15. \A q \in Partitions : OnStack(q)' = OnStack(q) \ {h}
  BY <1>12 DEF StoreHead, OnStack
<1>16. EndInv'
  BY <1>15 DEF StoreHead, EndInv, OnStack
<1>17. CoverInv'
  <2> SUFFICES ASSUME NEW q \in Partitions, NEW S \in SUBSET Addr, Covers(S, q)'
               PROVE  OnStack(q)' \subseteq S
    BY DEF CoverInv
  <2>1. Target(free_buckets'[q]) \subseteq S
    BY DEF Covers, Target
  <2>2. \A a \in (S \cap OnStack(q)) \ {h} : Target(next[a]) \subseteq S
    BY <1>15 DEF StoreHead, Covers, Successors, Target, OnStack
  <2>3. CASE q = p
    <3>1. Target(next[h]) \subseteq S
      BY <1>3, <2>1, <2>3
    <3>2. Target(free_buckets[p]) \subseteq S \cup {h}
      BY <1>1 DEF Target
    <3>3. Successors((S \cup {h}) \cap OnStack(p)) \subseteq S \cup {h}
      BY <2>2, <2>3, <3>1 DEF Successors
    <3>4. OnStack(p) \subseteq S \cup {h}
      <4> DEFINE T == S \cup {h}
      <4>1. T \in SUBSET Addr
        BY <1>1
      <4>2. Covers(T, p)
        BY <3>2, <3>3 DEF Covers
      <4> HIDE DEF T
      <4>3. OnStack(p) \subseteq T
        BY <1>1, <4>1, <4>2 DEF CoverInv
      <4> QED BY <4>3 DEF T
    <3> QED BY <1>15, <2>3, <3>4
  <2>4. CASE q # p
    <3>1. h \notin OnStack(q)
      BY <1>2, <2>4 DEF OnStack
    <3>2. Target(free_buckets[q]) \subseteq S
      BY <1>3, <2>1, <2>4
    <3>3. Successors(S \cap OnStack(q)) \subseteq S
      BY <2>2, <3>1 DEF Successors
    <3> QED BY <1>15, <3>2, <3>3 DEF CoverInv, Covers
  <2> QED BY <2>3, <2>4
<1> QED BY <1>8, <1>9, <1>10, <1>11, <1>13, <1>14, <1>16, <1>17

(* The push on a stack: the released bucket becomes the head.  Its link is *)
(* the old head, which no other stacked bucket leads to.                   *)
LEMMA CasHeadStep ==
  ASSUME IInv, NEW t \in Threads, CasHead(t), TypeOK'
  PROVE  IInv'
<1> USE DEF IInv, At, locals
<1> DEFINE p == part[t]
           h == bucket[t]
<1>0. Private(t)
  BY DEF CasHead, Private
<1>1. /\ p \in Partitions /\ h # NULL /\ h \in Addr /\ partition[h] = p
      /\ Pushed(h) /\ ~InUse(h) /\ ~Listed(h)
  BY <1>0, OwnBucket DEF CallInv
<1>2. next[h] = free_buckets[p] /\ ~next[h].mark
  BY DEF CasHead, CallInv
<1>3. /\ pc' = [pc EXCEPT ![t] = "rel_inc_free"]
      /\ \A q \in Partitions :
           free_buckets'[q] = IF q = p THEN [ptr |-> h, mark |-> FALSE] ELSE free_buckets[q]
  BY <1>1 DEF CasHead, Goto, TypeOK
<1>4. \A u \in Threads : Private(u)' <=> Private(u) /\ u # t
  BY <1>3 DEF CasHead, Private, TypeOK
<1>5. \A u \in Threads : OwnsMark(u)' <=> OwnsMark(u)
  BY <1>3 DEF CasHead, OwnsMark, TypeOK
<1>6. UNCHANGED <<memory_cursor, partition, next, granted, size, part, bucket, link>>
  BY DEF CasHead
<1>7. LayoutInv' /\ GrantInv' /\ ExclusiveOwnership'
  BY <1>4, <1>6 DEF LayoutInv, BucketsApart, GrantInv, ExclusiveOwnership, Pushed, InUse
<1>8. \A u \in Threads : OwnsMark(u) => part[u] # p
  BY <1>1, <1>2 DEF MarkIsLock
<1>9. CallInv'
  <2>1. \A u \in Threads \ {t} : pc'[u] = pc[u]
    BY <1>3 DEF TypeOK
  <2>2. pc'[t] = "rel_inc_free"
    BY <1>3 DEF TypeOK
  <2>3. \A u \in Threads \ {t} : pc[u] \in {"load", "store"} => part[u] # p /\ part[u] \in Partitions
    BY <1>8 DEF OwnsMark, CallInv
  <2> QED BY <1>1, <1>3, <1>4, <1>6, <2>1, <2>2, <2>3 DEF CallInv
<1>10. MarkIsLock'
  <2>1. \A q \in Partitions :
          free_buckets'[q].mark <=> \E u \in Threads : OwnsMark(u) /\ part[u] = q
    BY <1>2, <1>3, <1>8 DEF MarkIsLock
  <2> QED BY <1>5, <1>6, <2>1 DEF MarkIsLock
<1>11. \A a \in Addr : Listed(a)' <=> Listed(a) \/ a = h
  BY <1>0, <1>1, <1>4, <1>6 DEF Listed, Pushed, InUse, ExclusiveOwnership
<1>12. LinksUnmarked'
  BY <1>2, <1>6, <1>11 DEF LinksUnmarked
<1>13. \A a \in Addr : Listed(a) => partition[a] \in Partitions /\ next[a].ptr \in Pointer
  BY DEF Listed, Pushed, TypeOK, Tagged
<1>14. InjectiveInv'
  <2>1. ASSUME NEW a \in Addr, Listed(a), next[a].ptr # NULL
        PROVE  next[a].ptr # next[h].ptr
    <3>1. partition[next[a].ptr] = partition[a] /\ next[a].ptr # free_buckets[partition[a]].ptr
      BY <2>1 DEF ListInv
    <3>2. next[h].ptr # NULL => partition[next[h].ptr] = p
      BY <1>1, <1>2 DEF ListInv
    <3> QED BY <1>2, <2>1, <3>1, <3>2
  <2> QED BY <1>6, <1>11, <2>1 DEF InjectiveInv
<1>15. ListInv'
  <2>1. ASSUME NEW q \in Partitions, free_buckets'[q].ptr # NULL
        PROVE  LET a == free_buckets'[q].ptr
               IN a \in Addr /\ (Listed(a) \/ a = h) /\ partition[a] = q
    <3>1. CASE q = p
      BY <1>1, <1>3, <3>1
    <3>2. CASE q # p
      BY <1>1, <1>3, <2>1, <3>2 DEF ListInv, TypeOK, Tagged, Pointer
    <3> QED BY <3>1, <3>2
  <2>2. ASSUME NEW a \in Addr, Listed(a), next[a].ptr # NULL
        PROVE  /\ next[a].ptr \in Addr /\ Listed(next[a].ptr) /\ next[a].ptr # h
               /\ partition[next[a].ptr] = partition[a]
               /\ next[a].ptr # free_buckets'[partition[a]].ptr
    BY <1>1, <1>3, <1>13, <2>2 DEF ListInv, Pointer
  <2>3. ASSUME next[h].ptr # NULL
        PROVE  /\ next[h].ptr \in Addr /\ Listed(next[h].ptr)
               /\ partition[next[h].ptr] = partition[h]
               /\ next[h].ptr # free_buckets'[partition[h]].ptr
    BY <1>1, <1>2, <1>3, <2>3 DEF ListInv, TypeOK, Tagged, Pointer
  <2> QED BY <1>6, <1>11, <2>1, <2>2, <2>3 DEF ListInv
<1>16. \A q \in Partitions : OnStack(q)' = IF q = p THEN OnStack(q) \cup {h} ELSE OnStack(q)
  BY <1>1, <1>6, <1>11 DEF OnStack
<1>17. ASSUME free_buckets[p].ptr = NULL PROVE OnStack(p) = {}
  <2>1. Target(free_buckets[p]) \subseteq {} /\ Successors({} \cap OnStack(p)) \subseteq {}
    BY <1>17 DEF Target, Successors
  <2> QED BY <1>1, <2>1 DEF CoverInv, Covers
<1>18. EndInv'
  <2>1. next[h].ptr = NULL => OnStack(p) = {}
    BY <1>2, <1>17
  <2> QED BY <1>6, <1>16, <2>1 DEF EndInv
<1>19. CoverInv'
  <2> SUFFICES ASSUME NEW q \in Partitions, NEW S \in SUBSET Addr, Covers(S, q)'
               PROVE  OnStack(q)' \subseteq S
    BY DEF CoverInv
  <2>1. Target(free_buckets'[q]) \subseteq S
    BY DEF Covers, Target
  <2>2. \A a \in S \cap OnStack(q)' : Target(next[a]) \subseteq S
    BY <1>6 DEF Covers, Successors, Target
  <2>3. Successors(S \cap OnStack(q)) \subseteq S
    BY <1>16, <2>2 DEF Successors
  <2>4. CASE q = p
    <3>1. h \in S
      BY <1>1, <1>3, <2>1, <2>4 DEF Target
    <3>2. Target(free_buckets[p]) \subseteq S
      BY <1>1, <1>2, <1>16, <2>2, <2>4, <3>1
    <3>3. OnStack(p) \subseteq S
      BY <1>1, <2>3, <2>4, <3>2 DEF CoverInv, Covers
    <3> QED BY <1>16, <2>4, <3>1, <3>3
  <2>5. CASE q # p
    <3>1. Target(free_buckets[q]) \subseteq S
      BY <1>3, <2>1, <2>5
    <3> QED BY <1>16, <2>3, <2>5, <3>1 DEF CoverInv, Covers
  <2> QED BY <2>4, <2>5
<1> QED BY <1>7, <1>9, <1>10, <1>12, <1>14, <1>15, <1>18, <1>19

(***************************************************************************)
(* The inductive invariant.                                                *)
(***************************************************************************)

LEMMA InitIInv == Init => IInv
<1> SUFFICES ASSUME Init PROVE IInv
  OBVIOUS
<1> USE MemoryAssumption DEF Init
<1>1. TypeOK
  BY TypeInit
<1>2. \A a \in Addr : ~Pushed(a) /\ ~InUse(a) /\ ~Listed(a)
  BY DEF Pushed, InUse, Listed
<1>3. \A t \in Threads : ~Private(t) /\ ~OwnsMark(t)
  BY DEF Private, OwnsMark
<1>4. LayoutInv /\ GrantInv /\ ExclusiveOwnership
  BY <1>2, <1>3 DEF LayoutInv, BucketsApart, GrantInv, ExclusiveOwnership
<1>5. CallInv
  BY <1>3 DEF CallInv
<1>6. MarkIsLock
  BY <1>3 DEF MarkIsLock, Nil
<1>7. LinksUnmarked /\ ListInv /\ InjectiveInv
  BY <1>2 DEF LinksUnmarked, ListInv, InjectiveInv, Nil
<1>8. EndInv /\ CoverInv
  BY <1>2 DEF EndInv, CoverInv, OnStack
<1> QED BY <1>1, <1>4, <1>5, <1>6, <1>7, <1>8 DEF IInv

LEMMA NextIInv == IInv /\ [Next]_vars => IInv'
<1> SUFFICES ASSUME IInv, [Next]_vars PROVE IInv'
  OBVIOUS
<1>1. TypeOK'
  BY TypeStep DEF IInv
<1>2. CASE UNCHANGED vars
  <2>1. \A a \in Addr : Listed(a)' <=> Listed(a)
    BY <1>2 DEF vars, Listed, Pushed, InUse, Private
  <2>2. StackInv'
    BY <1>2, <2>1, StackKept DEF vars, IInv, StackInv
  <2> QED BY <1>1, <1>2, <2>2 DEF vars, IInv, StackInv, LayoutInv, BucketsApart, CallInv,
             GrantInv, ExclusiveOwnership, MarkIsLock, Pushed, InUse, Private, OwnsMark
<1>3. ASSUME NEW t \in Threads, NEW n \in Requests, NEW p \in Partitions, ReserveCall(t, n, p)
      PROVE  IInv'
  BY <1>1, <1>3, ReserveCallStep
<1>4. ASSUME NEW t \in Threads, NEW n \in Requests, ReserveTooBig(t, n) PROVE IInv'
  BY <1>1, <1>4, ReserveTooBigStep
<1>5. ASSUME NEW t \in Threads, NEW a \in Addr, ReleaseCall(t, a) PROVE IInv'
  BY <1>1, <1>5, ReleaseCallStep
<1>6. ASSUME NEW t \in Threads, Step(t) PROVE IInv'
  BY <1>1, <1>6, MarkStep, ReadHeadStep, UnmarkStep, LoadNextStep, StoreHeadStep,
     CountPopStep, CountReuseStep, PushStep, PushFailsStep, CountUsedStep, LinkNextStep,
     CasHeadStep, CasFailsStep, CountPushStep, CountUnusedStep DEF Step
<1> QED BY <1>2, <1>3, <1>4, <1>5, <1>6 DEF Next

THEOREM Invariance == Spec => []IInv
  BY InitIInv, NextIInv, PTL DEF Spec

(* Every variable keeps to its type; in particular no counter leaves u32   *)
(* and no pointer the arena, under any interleaving of both functions.     *)
THEOREM TypeCorrect == Spec => []TypeOK
<1>1. IInv => TypeOK
  BY DEF IInv
<1> QED BY <1>1, Invariance, PTL

(* A bucket is never in two hands: the try-lock in the head's lowest bit   *)
(* is enough to keep pops apart, and to keep pushes out of a pop.          *)
THEOREM NoSharedBucket == Spec => []ExclusiveOwnership
<1>1. IInv => ExclusiveOwnership
  BY DEF IInv
<1> QED BY <1>1, Invariance, PTL

(* The fetch-and-add of push_memory gives buckets that never overlap.      *)
THEOREM NoOverlap == Spec => []BucketsApart
<1>1. IInv => BucketsApart
  BY DEF IInv, LayoutInv
<1> QED BY <1>1, Invariance, PTL

(* The mark of a head has exactly one owner, and none when it is clear.    *)
THEOREM MarkHasOneOwner == Spec => []MarkIsLock
<1>1. IInv => MarkIsLock
  BY DEF IInv
<1> QED BY <1>1, Invariance, PTL

(* The mark never enters the links, so a pop always clears it.             *)
THEOREM MarkStaysInHead == Spec => []LinksUnmarked
<1>1. IInv => LinksUnmarked
  BY DEF IInv
<1> QED BY <1>1, Invariance, PTL

(***************************************************************************)
(* The stacks hold what they should.  Chain follows the links Capacity     *)
(* times; that this is far enough is seen by counting.                     *)
(***************************************************************************)

LEMMA Least ==
  ASSUME NEW S \in SUBSET Nat, S # {}
  PROVE  \E m \in S : \A k \in S : m <= k
<1> DEFINE R == OpToRel(<, Nat)
<1>1. IsWellFoundedOn(R, Nat)
  BY NatLessThanWellFounded
<1> HIDE DEF R
<1>2. PICK m \in S : \A k \in S : ~(<<k, m>> \in R)
  BY <1>1, WFMin
<1>3. \A k \in S : k < m => <<k, m>> \in R
  BY DEF R, OpToRel
<1>4. \A k \in S : ~(k < m)
  BY <1>2, <1>3
<1>5. \A k \in S : ~(k < m) => m <= k
  OBVIOUS
<1> QED BY <1>4, <1>5

(* Induction over the numbers of a set. *)
LEMMA SetInduction ==
  ASSUME NEW S \in SUBSET Nat, 0 \in S, \A n \in S : n + 1 \in S
  PROVE  S = Nat
<1> SUFFICES ASSUME Nat \ S # {} PROVE FALSE
  OBVIOUS
<1>1. PICK m \in Nat \ S : \A k \in Nat \ S : m <= k
  BY Least
<1> QED BY <1>1

(* r is what Chain computes on its first n rounds. *)
Rounds(r, n, p) ==
  /\ r \in [0 .. n -> SUBSET Addr]
  /\ r[0] = Target(free_buckets[p])
  /\ \A i \in 1 .. n : r[i] = r[i - 1] \cup Successors(r[i - 1])

LEMMA LinksInside ==
  ASSUME TypeOK
  PROVE  /\ \A p \in Partitions : Target(free_buckets[p]) \in SUBSET Addr
         /\ \A S \in SUBSET Addr : Successors(S) \in SUBSET Addr
  BY DEF TypeOK, Tagged, Pointer, Target, Successors

LEMMA RoundsExist ==
  ASSUME TypeOK, NEW p \in Partitions
  PROVE  \A n \in Nat : \E r : Rounds(r, n, p)
<1> DEFINE S == {n \in Nat : \E r : Rounds(r, n, p)}
<1>1. 0 \in S
  <2> DEFINE r == [i \in 0 .. 0 |-> Target(free_buckets[p])]
  <2>1. Rounds(r, 0, p)
    BY LinksInside DEF Rounds
  <2> QED BY <2>1
<1>2. ASSUME NEW n \in S PROVE n + 1 \in S
  <2>1. PICK r : Rounds(r, n, p)
    OBVIOUS
  <2> DEFINE q == [i \in 0 .. n + 1 |->
                     IF i = n + 1 THEN r[n] \cup Successors(r[n]) ELSE r[i]]
  <2>2. r[n] \in SUBSET Addr /\ Successors(r[n]) \in SUBSET Addr
    BY <2>1, LinksInside DEF Rounds
  <2>3. q \in [0 .. n + 1 -> SUBSET Addr]
    BY <2>1, <2>2 DEF Rounds
  <2>4. q[0] = Target(free_buckets[p])
    BY <2>1 DEF Rounds
  <2>5. ASSUME NEW i \in 1 .. n + 1 PROVE q[i] = q[i - 1] \cup Successors(q[i - 1])
    <3>1. CASE i = n + 1
      BY <3>1
    <3>2. CASE i # n + 1
      BY <2>1, <3>2 DEF Rounds
    <3> QED BY <3>1, <3>2
  <2> HIDE DEF q
  <2>6. Rounds(q, n + 1, p)
    BY <2>3, <2>4, <2>5 DEF Rounds
  <2> QED BY <2>6
<1> HIDE DEF S
<1>3. S = Nat
  BY <1>1, <1>2, SetInduction DEF S
<1> QED BY <1>3 DEF S

LEMMA ChainRounds ==
  ASSUME TypeOK, NEW p \in Partitions
  PROVE  \E r : Rounds(r, Capacity, p) /\ Chain(p) = r[Capacity]
<1> DEFINE Round(r) == [n \in 0 .. Capacity |-> IF n = 0 THEN Target(free_buckets[p])
                                                ELSE r[n - 1] \cup Successors(r[n - 1])]
           reach == CHOOSE r : r = Round(r)
<1>0. Capacity \in Nat
  BY MemoryAssumption
<1>1. Chain(p) = reach[Capacity]
  BY DEF Chain
<1>2. PICK q : Rounds(q, Capacity, p)
  BY <1>0, RoundsExist
<1>3. q = Round(q)
  BY <1>0, <1>2 DEF Rounds
<1> HIDE DEF Round
<1>4. reach = Round(reach)
  BY <1>3
<1> HIDE DEF reach
<1> DEFINE Body(n) == IF n = 0 THEN Target(free_buckets[p])
                      ELSE reach[n - 1] \cup Successors(reach[n - 1])
<1>5. \A n \in 0 .. Capacity : reach[n] = Body(n)
  <2> HIDE DEF Body
  <2>1. reach = [n \in 0 .. Capacity |-> Body(n)]
    BY <1>4 DEF Round, Body
  <2> QED BY <2>1
<1>6. ASSUME NEW n \in 1 .. Capacity PROVE reach[n] = reach[n - 1] \cup Successors(reach[n - 1])
  <2>1. n \in 0 .. Capacity /\ n # 0
    BY <1>0
  <2>2. Body(n) = reach[n - 1] \cup Successors(reach[n - 1])
    BY <2>1
  <2> HIDE DEF Body
  <2> QED BY <1>5, <2>1, <2>2
<1>7. reach[0] = Target(free_buckets[p])
  <2>1. 0 \in 0 .. Capacity
    BY <1>0
  <2>2. Body(0) = Target(free_buckets[p])
    OBVIOUS
  <2> HIDE DEF Body
  <2> QED BY <1>5, <2>1, <2>2
<1>8. DOMAIN reach = 0 .. Capacity /\ reach = [n \in 0 .. Capacity |-> reach[n]]
  BY <1>4 DEF Round
<1> DEFINE S == {n \in Nat : n <= Capacity => reach[n] \in SUBSET Addr}
<1>9. 0 \in S
  BY <1>7, LinksInside
<1>10. ASSUME NEW n \in S PROVE n + 1 \in S
  <2>1. SUFFICES ASSUME n + 1 <= Capacity PROVE reach[n + 1] \in SUBSET Addr
    OBVIOUS
  <2>2. reach[n] \in SUBSET Addr /\ n + 1 \in 1 .. Capacity /\ (n + 1) - 1 = n
    BY <1>0, <2>1
  <2>3. reach[n + 1] = reach[n] \cup Successors(reach[n])
    BY <1>6, <2>2
  <2> QED BY <2>2, <2>3, LinksInside
<1> HIDE DEF S
<1>11. S = Nat
  BY <1>9, <1>10, SetInduction DEF S
<1>12. \A n \in 0 .. Capacity : reach[n] \in SUBSET Addr
  BY <1>0, <1>11 DEF S
<1> QED BY <1>1, <1>6, <1>7, <1>8, <1>12 DEF Rounds

(* Following the links stays on the stack. *)
LEMMA ChainOnStack ==
  ASSUME IInv, NEW p \in Partitions, NEW r, Rounds(r, Capacity, p)
  PROVE  r[Capacity] \subseteq OnStack(p)
<1>0. Capacity \in Nat
  BY MemoryAssumption
<1> DEFINE S == {n \in Nat : n <= Capacity => r[n] \subseteq OnStack(p)}
<1>1. 0 \in S
  <2>1. Target(free_buckets[p]) \subseteq OnStack(p)
    BY DEF IInv, ListInv, Target, OnStack, TypeOK, Tagged, Pointer
  <2> QED BY <2>1 DEF Rounds
<1>2. ASSUME NEW n \in S PROVE n + 1 \in S
  <2>1. SUFFICES ASSUME n + 1 <= Capacity PROVE r[n + 1] \subseteq OnStack(p)
    OBVIOUS
  <2>2. r[n] \subseteq OnStack(p) /\ n + 1 \in 1 .. Capacity /\ (n + 1) - 1 = n
    BY <1>0, <2>1
  <2>3. r[n + 1] = r[n] \cup Successors(r[n])
    BY <2>2 DEF Rounds
  <2>4. \A a \in OnStack(p) : Target(next[a]) \subseteq OnStack(p)
    BY DEF IInv, ListInv, Target, OnStack, TypeOK, Tagged, Pointer
  <2> QED BY <2>2, <2>3, <2>4 DEF Successors
<1> HIDE DEF S
<1>3. S = Nat
  BY <1>1, <1>2, SetInduction DEF S
<1> QED BY <1>0, <1>3 DEF S

(* As long as a round adds something, there are more buckets than rounds:  *)
(* after Capacity rounds nothing is left to add.                           *)
LEMMA ChainIsClosed ==
  ASSUME TypeOK, NEW p \in Partitions, NEW r, Rounds(r, Capacity, p)
  PROVE  Successors(r[Capacity] \cap OnStack(p)) \subseteq r[Capacity]
<1>0. Capacity \in Nat
  BY MemoryAssumption
<1>1. IsFiniteSet(Addr) /\ Cardinality(Addr) = Capacity + 1
  BY <1>0, FS_Interval DEF Addr
<1>2. \A n \in 0 .. Capacity : r[n] \in SUBSET Addr /\ IsFiniteSet(r[n])
                               /\ Cardinality(r[n]) \in Nat
  BY <1>1, FS_Subset, FS_CardinalityType DEF Rounds
<1> DEFINE S == {n \in Nat : n <= Capacity =>
                   Successors(r[n]) \subseteq r[n] \/ Cardinality(r[n]) >= n + 1}
<1>3. 0 \in S
  <2>1. CASE r[0] = {}
    BY <2>1 DEF Successors
  <2>2. CASE r[0] # {}
    <3>1. Cardinality(r[0]) # 0
      BY <1>0, <1>2, <2>2, FS_EmptySet
    <3> QED BY <1>0, <1>2, <3>1
  <2> QED BY <2>1, <2>2
<1>4. ASSUME NEW n \in S PROVE n + 1 \in S
  <2>1. SUFFICES ASSUME n + 1 <= Capacity
                 PROVE  \/ Successors(r[n + 1]) \subseteq r[n + 1]
                        \/ Cardinality(r[n + 1]) >= n + 2
    OBVIOUS
  <2>2. n \in 0 .. Capacity /\ n + 1 \in 1 .. Capacity /\ n + 1 \in 0 .. Capacity /\ (n + 1) - 1 = n
    BY <1>0, <2>1
  <2>3. r[n + 1] = r[n] \cup Successors(r[n])
    BY <2>2 DEF Rounds
  <2>4. CASE Successors(r[n]) \subseteq r[n]
    <3>1. r[n + 1] = r[n]
      BY <2>3, <2>4
    <3> QED BY <2>4, <3>1
  <2>5. CASE ~(Successors(r[n]) \subseteq r[n])
    <3>1. Cardinality(r[n]) >= n + 1
      BY <2>1, <2>2, <2>5
    <3>2. PICK x \in Successors(r[n]) : x \notin r[n]
      BY <2>5
    <3>3. IsFiniteSet(r[n] \cup {x}) /\ Cardinality(r[n] \cup {x}) = Cardinality(r[n]) + 1
      BY <1>2, <2>2, <3>2, FS_AddElement
    <3>4. r[n] \cup {x} \subseteq r[n + 1]
      BY <2>3, <3>2
    <3>5. Cardinality(r[n] \cup {x}) <= Cardinality(r[n + 1])
      BY <1>2, <2>2, <3>4, FS_Subset
    <3> QED BY <1>2, <2>2, <3>1, <3>3, <3>5
  <2> QED BY <2>4, <2>5
<1> HIDE DEF S
<1>5. S = Nat
  BY <1>3, <1>4, SetInduction DEF S
<1>6. CASE Successors(r[Capacity]) \subseteq r[Capacity]
  BY <1>6 DEF Successors
<1>7. CASE Cardinality(r[Capacity]) >= Capacity + 1
  <2>1. r[Capacity] \in SUBSET Addr /\ Cardinality(r[Capacity]) \in Nat
    BY <1>0, <1>2
  <2>2. Cardinality(r[Capacity]) = Cardinality(Addr)
    BY <1>0, <1>1, <1>7, <2>1, FS_Subset
  <2>3. r[Capacity] = Addr
    BY <1>1, <2>1, <2>2, FS_Subset
  <2>4. Successors(r[Capacity] \cap OnStack(p)) \in SUBSET Addr
    BY LinksInside DEF OnStack
  <2> QED BY <2>3, <2>4
<1>8. Successors(r[Capacity]) \subseteq r[Capacity] \/ Cardinality(r[Capacity]) >= Capacity + 1
  BY <1>0, <1>5 DEF S
<1> QED BY <1>6, <1>7, <1>8

LEMMA ChainIsExact ==
  ASSUME IInv, NEW p \in Partitions
  PROVE  Chain(p) = OnStack(p)
<1>1. PICK r : Rounds(r, Capacity, p) /\ Chain(p) = r[Capacity]
  BY ChainRounds DEF IInv
<1>2. Chain(p) \subseteq OnStack(p)
  BY <1>1, ChainOnStack
<1>3. Successors(Chain(p) \cap OnStack(p)) \subseteq Chain(p)
  BY <1>1, ChainIsClosed DEF IInv
<1>4. Target(free_buckets[p]) \subseteq Chain(p) /\ Chain(p) \in SUBSET Addr
  <2>0. Capacity \in Nat
    BY MemoryAssumption
  <2> DEFINE S == {n \in Nat : n <= Capacity => r[0] \subseteq r[n]}
  <2>1. 0 \in S
    OBVIOUS
  <2>2. ASSUME NEW n \in S PROVE n + 1 \in S
    <3>1. SUFFICES ASSUME n + 1 <= Capacity PROVE r[0] \subseteq r[n + 1]
      OBVIOUS
    <3>2. r[0] \subseteq r[n] /\ n + 1 \in 1 .. Capacity /\ (n + 1) - 1 = n
      BY <2>0, <3>1
    <3>3. r[n + 1] = r[n] \cup Successors(r[n])
      BY <1>1, <3>2 DEF Rounds
    <3> QED BY <3>2, <3>3
  <2> HIDE DEF S
  <2>3. S = Nat
    BY <2>1, <2>2, SetInduction DEF S
  <2>4. r[0] \subseteq r[Capacity]
    BY <2>0, <2>3 DEF S
  <2>5. r[Capacity] \in SUBSET Addr
    BY <1>1, <2>0 DEF Rounds
  <2> QED BY <1>1, <2>4, <2>5 DEF Rounds
<1>5. Covers(Chain(p), p)
  BY <1>3, <1>4 DEF Covers
<1>6. OnStack(p) \subseteq Chain(p)
  BY <1>4, <1>5 DEF IInv, CoverInv
<1> QED BY <1>2, <1>6

(* No bucket is lost, listed twice or on a wrong stack: following the      *)
(* links of memory.c from the head of a partition finds exactly the        *)
(* buckets of that size which no thread and no caller holds.               *)
THEOREM NothingLost == Spec => []StackIsExact
<1>1. ASSUME IInv, NEW p \in Partitions, NEW a \in OnStack(p), NEW b \in OnStack(p), a # b
      PROVE  next[a].ptr # next[b].ptr
  <2>1. CASE next[a].ptr = NULL
    BY <1>1, <2>1 DEF IInv, EndInv
  <2>2. CASE next[a].ptr # NULL
    BY <1>1, <2>2 DEF IInv, InjectiveInv, OnStack
  <2> QED BY <2>1, <2>2
<1>2. IInv => StackIsExact
  BY <1>1, ChainIsExact DEF StackIsExact
<1> QED BY <1>2, Invariance, PTL

(***************************************************************************)
(* The statistics.  Cardinalities of the sets of buckets and calls that    *)
(* the counters stand for change by one with the step that counts them.    *)
(***************************************************************************)

LEMMA Remainder ==
  ASSUME NEW w \in Nat \ {0}, NEW q \in Int, NEW r \in 0 .. w - 1
  PROVE  (w * q + r) % w = r
  BY SMTT(30)

(* A counter that wraps counts on as if it did not.                        *)
LEMMA CountsOn ==
  ASSUME NEW c \in Int, NEW w \in Nat \ {0}, NEW n \in {-1, 1}
  PROVE  ((c % w) + n) % w = (c + n) % w
<1> DEFINE q == c \div w
           r == c % w
<1>1. q \in Int /\ r \in 0 .. w - 1 /\ c = w * q + r
  OBVIOUS
<1> HIDE DEF q, r
<1>2. CASE r + n \in 0 .. w - 1
  <2>1. w * q + (r + n) = c + n /\ w * 0 + (r + n) = r + n
    BY <1>1
  <2>2. (w * q + (r + n)) % w = r + n /\ (w * 0 + (r + n)) % w = r + n
    BY <1>1, <1>2, Remainder
  <2> QED BY <2>1, <2>2 DEF r
<1>3. CASE r + n = w
  <2>1. w * (q + 1) = w * q + w
    BY <1>1
  <2>2. w * (q + 1) + 0 = c + n /\ w * 1 + 0 = r + n
    BY <1>1, <1>3, <2>1
  <2>3. (w * (q + 1) + 0) % w = 0 /\ (w * 1 + 0) % w = 0
    BY <1>1, Remainder
  <2> QED BY <2>2, <2>3 DEF r
<1>4. CASE r + n = -1
  <2>1. w * (q - 1) = w * q - w
    BY <1>1
  <2>2. w * (q - 1) + (w - 1) = c + n /\ w * (-1) + (w - 1) = r + n
    BY <1>1, <1>4, <2>1
  <2>3. (w * (q - 1) + (w - 1)) % w = w - 1 /\ (w * (-1) + (w - 1)) % w = w - 1
    BY <1>1, Remainder
  <2> QED BY <2>2, <2>3 DEF r
<1>5. r + n \in 0 .. w - 1 \/ r + n = w \/ r + n = -1
  BY <1>1
<1> QED BY <1>2, <1>3, <1>4, <1>5

(* Subsets of a finite set, counted; and one element more.                 *)
LEMMA Counted ==
  ASSUME NEW U, IsFiniteSet(U), NEW S \in SUBSET U
  PROVE  /\ Cardinality(S) \in Nat
         /\ \A x \in U \ S : Cardinality(S \cup {x}) = Cardinality(S) + 1
         /\ \A x \in S : Cardinality(S \ {x}) = Cardinality(S) - 1
<1>1. IsFiniteSet(S)
  BY FS_Subset
<1> QED BY <1>1, FS_CardinalityType, FS_AddElement, FS_RemoveElement

LEMMA Finite == IsFiniteSet(Addr) /\ IsFiniteSet(Threads)
<1>1. Capacity \in Nat
  BY MemoryAssumption
<1> QED BY <1>1, MemoryAssumption, FS_Interval DEF Addr

LEMMA SetsOfStats ==
  \A p \in Partitions : \A L :
    /\ Held(p) \in SUBSET Addr
    /\ OnStack(p) \in SUBSET Addr
    /\ Calls(L, p) \in SUBSET Threads
  BY DEF Held, OnStack, Calls

(* What the counters of p should show. *)
Used(p) == Cardinality(Held(p)) + Cardinality(Calls(Returning, p))
Free(p) == Cardinality(OnStack(p)) + Cardinality(Calls({"dec_free"}, p))
             - Cardinality(Calls({"rel_inc_free"}, p))

LEMMA UsedAndFree == \A p \in Partitions : Used(p) \in Int /\ Free(p) \in Int
  BY Finite, SetsOfStats, Counted DEF Used, Free

LEMMA AgreeDef ==
  StatsAgree <=> \A p \in Partitions : /\ num_used[p] = Used(p) % WordSize
                                       /\ num_free[p] = Free(p) % WordSize
  BY DEF StatsAgree, Used, Free

(* A step of t moves t between the sets of calls, and nobody else.         *)
LEMMA CallsMove ==
  ASSUME TypeOK, NEW t \in Threads, NEW x, pc' = [pc EXCEPT ![t] = x],
         \A u \in Threads \ {t} : part'[u] = part[u], NEW p \in Partitions, NEW L
  PROVE  Calls(L, p)' = IF x \in L /\ part'[t] = p THEN Calls(L, p) \cup {t}
                        ELSE Calls(L, p) \ {t}
  BY DEF TypeOK, Calls

Counting == Returning \cup {"dec_free", "rel_inc_free"}

(* A step that leaves its caller where the statistics see it.              *)
LEMMA StatsKept ==
  ASSUME TypeOK, StatsAgree, NEW t \in Threads, NEW x, pc' = [pc EXCEPT ![t] = x],
         \A u \in Threads \ {t} : part'[u] = part[u],
         pc[t] \notin {"dec_free", "rel_inc_free"}, x \notin {"dec_free", "rel_inc_free"},
         pc[t] \in Returning <=> x \in Returning,
         pc[t] \in Returning => part'[t] = part[t],
         \A p \in Partitions : Held(p)' = Held(p) /\ OnStack(p)' = OnStack(p),
         UNCHANGED <<num_used, num_free>>
  PROVE  StatsAgree'
<1>1. ASSUME NEW p \in Partitions
      PROVE  /\ Calls(Returning, p)' = Calls(Returning, p)
             /\ Calls({"dec_free"}, p)' = Calls({"dec_free"}, p)
             /\ Calls({"rel_inc_free"}, p)' = Calls({"rel_inc_free"}, p)
  BY DEF Calls, TypeOK
<1> QED BY <1>1 DEF StatsAgree

(* The steps that touch no bucket, and those that work on a private one.   *)
LEMMA QuietStats ==
  ASSUME IInv, StatsAgree, NEW t \in Threads,
         \/ Mark(t) \/ ReadHead(t) \/ Unmark(t) \/ LoadNext(t) \/ CountReuse(t)
         \/ PushFails(t) \/ LinkNext(t) \/ CasFails(t)
         \/ \E n \in Requests : ReserveTooBig(t, n) \/ \E p \in Partitions : ReserveCall(t, n, p)
  PROVE  StatsAgree'
<1> USE DEF IInv, At, heap, stats, locals, Goto
<1>1. PICK x \in Labels : pc' = [pc EXCEPT ![t] = x]
  BY DEF Mark, ReadHead, Unmark, LoadNext, CountReuse, PushFails, LinkNext, CasFails,
         ReserveTooBig, ReserveCall, Labels
<1>2. /\ \A u \in Threads \ {t} : part'[u] = part[u]
      /\ pc[t] \in Returning => part'[t] = part[t]
  BY DEF Mark, ReadHead, Unmark, LoadNext, CountReuse, PushFails, LinkNext, CasFails,
         ReserveTooBig, ReserveCall, Returning, TypeOK
<1>3. pc'[t] = x
  BY <1>1 DEF TypeOK
<1>4. /\ pc[t] \notin {"dec_free", "rel_inc_free"} /\ x \notin {"dec_free", "rel_inc_free"}
      /\ pc[t] \in Returning <=> x \in Returning
      /\ Private(t) <=> x \in {"inc_used", "rel_link", "rel_cas"}
      /\ x # "dec_free" /\ x # "inc_reused"
  BY <1>1, <1>3 DEF Mark, ReadHead, Unmark, LoadNext, CountReuse, PushFails, LinkNext, CasFails,
         ReserveTooBig, ReserveCall, Returning, Private, TypeOK
<1>5. \A u \in Threads : Private(u)' <=> Private(u)
  BY <1>1, <1>4 DEF Private, TypeOK
<1>6. UNCHANGED <<partition, granted, num_used, num_free>>
  BY DEF Mark, ReadHead, Unmark, LoadNext, CountReuse, PushFails, LinkNext, CasFails,
         ReserveTooBig, ReserveCall
<1>7. \A u \in Threads : Private(u) => bucket'[u] = bucket[u]
  BY DEF Mark, ReadHead, Unmark, LoadNext, CountReuse, PushFails, LinkNext, CasFails,
         ReserveTooBig, ReserveCall, Private, TypeOK
<1>8. \A p \in Partitions : Held(p)' = Held(p) /\ OnStack(p)' = OnStack(p)
  BY <1>5, <1>6, <1>7 DEF Held, OnStack, Listed, Pushed, InUse
<1> QED BY <1>1, <1>2, <1>4, <1>6, <1>8, StatsKept

(* A new bucket is on no stack and in no caller's hands yet.               *)
LEMMA PushStats ==
  ASSUME IInv, StatsAgree, NEW t \in Threads, Push(t)
  PROVE  StatsAgree'
<1> USE DEF IInv, At, stats, Goto
<1> DEFINE c == memory_cursor
<1>1. part[t] \in Partitions /\ part[t] # NULL
  BY InCall, MemoryAssumption DEF Push
<1>2. c \in Addr /\ c # NULL
  <2>1. c \in 0 .. MaxCursor /\ c + Footprint(part[t]) <= Capacity
    BY DEF Push, TypeOK
  <2>2. c \in Addr
    BY <1>1, <2>1, PushFits
  <2>3. c \in Nat
    BY <2>1, MemoryAssumption
  <2> QED BY <2>2, <2>3, MemoryAssumption
<1>3. ~Pushed(c) /\ ~InUse(c)
  <2>1. \A a \in Addr : Pushed(a) => a \in Nat /\ partition[a] \in Partitions /\ a + Footprint(partition[a]) <= c
    BY MemoryAssumption DEF LayoutInv, Pushed, TypeOK, Addr
  <2> QED BY <1>2, <2>1, FootprintIsNat DEF GrantInv
<1>4. /\ \A a \in Addr : partition'[a] = IF a = c THEN part[t] ELSE partition[a]
      /\ pc' = [pc EXCEPT ![t] = "inc_used"] /\ bucket' = [bucket EXCEPT ![t] = c]
  BY <1>2 DEF Push, TypeOK
<1>5. ~Private(t) /\ \A u \in Threads : Private(u)' <=> Private(u) \/ u = t
  BY <1>4 DEF Push, Private, TypeOK
<1>6. \A u \in Threads : bucket'[u] = IF u = t THEN c ELSE bucket[u]
  BY <1>4 DEF TypeOK
<1>7. \A p \in Partitions : Held(p)' = Held(p)
  BY <1>3, <1>4 DEF Push, Held, InUse
<1>8. \A p \in Partitions : OnStack(p)' = OnStack(p)
  BY <1>3, <1>4, <1>5, <1>6 DEF Push, OnStack, Listed, InUse, Pushed
<1>9. /\ pc[t] = "push" /\ part' = part
      /\ UNCHANGED <<num_used, num_free>>
  BY DEF Push
<1>10. pc[t] \notin Returning /\ "inc_used" \notin Returning
  BY <1>9 DEF Returning
<1> QED BY <1>4, <1>7, <1>8, <1>9, <1>10, StatsKept

(* A step that counts, and one that changes what is counted.               *)
LEMMA StatsChange ==
  ASSUME TypeOK, StatsAgree, NEW q \in Partitions, NEW i \in {-1, 0, 1}, NEW j \in {-1, 0, 1},
         \A p \in Partitions \ {q} : Used(p)' = Used(p) /\ Free(p)' = Free(p),
         Used(q)' = Used(q) + i, Free(q)' = Free(q) + j,
         num_used' = IF i = 0 THEN num_used ELSE Add(num_used, q, i),
         num_free' = IF j = 0 THEN num_free ELSE Add(num_free, q, j)
  PROVE  StatsAgree'
<1>1. WordSize \in Nat \ {0}
  BY MemoryAssumption
<1>2. ASSUME NEW p \in Partitions \ {q}
      PROVE  num_used'[p] = num_used[p] /\ num_free'[p] = num_free[p]
  BY DEF TypeOK, Add
<1>3. num_used'[q] = Used(q)' % WordSize
  <2>1. num_used[q] = Used(q) % WordSize /\ Used(q) \in Int
    BY AgreeDef, UsedAndFree
  <2>2. CASE i = 0
    BY <2>1, <2>2
  <2>3. CASE i \in {-1, 1}
    <3>1. num_used'[q] = (num_used[q] + i) % WordSize
      BY <2>3 DEF TypeOK, Add
    <3>2. ((Used(q) % WordSize) + i) % WordSize = (Used(q) + i) % WordSize
      BY <1>1, <2>1, <2>3, CountsOn
    <3> QED BY <2>1, <3>1, <3>2
  <2> QED BY <2>2, <2>3
<1>4. num_free'[q] = Free(q)' % WordSize
  <2>1. num_free[q] = Free(q) % WordSize /\ Free(q) \in Int
    BY AgreeDef, UsedAndFree
  <2>2. CASE j = 0
    BY <2>1, <2>2
  <2>3. CASE j \in {-1, 1}
    <3>1. num_free'[q] = (num_free[q] + j) % WordSize
      BY <2>3 DEF TypeOK, Add
    <3>2. ((Free(q) % WordSize) + j) % WordSize = (Free(q) + j) % WordSize
      BY <1>1, <2>1, <2>3, CountsOn
    <3> QED BY <2>1, <3>1, <3>2
  <2> QED BY <2>2, <2>3
<1>5. ASSUME NEW p \in Partitions
      PROVE  num_used'[p] = Used(p)' % WordSize /\ num_free'[p] = Free(p)' % WordSize
  BY <1>2, <1>3, <1>4, AgreeDef
<1> QED BY <1>5 DEF StatsAgree, Used, Free

LEMMA CallsCount ==
  ASSUME TypeOK, NEW t \in Threads, NEW x, pc' = [pc EXCEPT ![t] = x],
         \A u \in Threads \ {t} : part'[u] = part[u], NEW p \in Partitions, NEW L
  PROVE  Cardinality(Calls(L, p))' = Cardinality(Calls(L, p))
           + (IF x \in L /\ part'[t] = p THEN 1 ELSE 0)
           - (IF pc[t] \in L /\ part[t] = p THEN 1 ELSE 0)
<1> DEFINE C == Calls(L, p)
           into == x \in L /\ part'[t] = p
           out == pc[t] \in L /\ part[t] = p
<1>1. Calls(L, p)' = IF into THEN C \cup {t} ELSE C \ {t}
  BY CallsMove
<1>2. C \in SUBSET Threads /\ (t \in C <=> out)
  BY SetsOfStats DEF Calls
<1>3. /\ Cardinality(C) \in Nat
      /\ t \notin C => Cardinality(C \cup {t}) = Cardinality(C) + 1
      /\ t \in C => Cardinality(C \ {t}) = Cardinality(C) - 1
  BY <1>2, Finite, Counted
<1> HIDE DEF C
<1>4. /\ t \in C => C \cup {t} = C
      /\ t \notin C => C \ {t} = C
  OBVIOUS
<1>5. Cardinality(Calls(L, p)') = Cardinality(C) + (IF into THEN 1 ELSE 0) - (IF out THEN 1 ELSE 0)
  <2> HIDE DEF into, out
  <2>1. CASE into /\ out
    <3>1. Calls(L, p)' = C
      BY <1>1, <1>2, <1>4, <2>1
    <3>2. Cardinality(C) = Cardinality(C) + 1 - 1
      BY <1>3
    <3> QED BY <2>1, <3>1, <3>2
  <2>2. CASE into /\ ~out
    BY <1>1, <1>2, <1>3, <2>2
  <2>3. CASE ~into /\ out
    BY <1>1, <1>2, <1>3, <2>3
  <2>4. CASE ~into /\ ~out
    BY <1>1, <1>2, <1>3, <1>4, <2>4
  <2> QED BY <2>1, <2>2, <2>3, <2>4
<1> QED BY <1>5 DEF C

(* In(l, L): 1 when a call at label l counts for L.                        *)
In(l, L) == IF l \in L THEN 1 ELSE 0

(* The sets of buckets and of calls, counted after a step.                 *)
LEMMA CountedStep ==
  ASSUME TypeOK, NEW t \in Threads, NEW x \in Labels, pc' = [pc EXCEPT ![t] = x],
         \A u \in Threads \ {t} : part'[u] = part[u],
         NEW q \in Partitions, part'[t] = q, pc[t] \in Counting => part[t] = q,
         \A p \in Partitions \ {q} : Held(p)' = Held(p) /\ OnStack(p)' = OnStack(p)
  PROVE  /\ \A p \in Partitions \ {q} : Used(p)' = Used(p) /\ Free(p)' = Free(p)
         /\ Used(q)' - Used(q) = Cardinality(Held(q))' - Cardinality(Held(q))
              + In(x, Returning) - In(pc[t], Returning)
         /\ Free(q)' - Free(q) = Cardinality(OnStack(q))' - Cardinality(OnStack(q))
              + In(x, {"dec_free"}) - In(pc[t], {"dec_free"})
              - In(x, {"rel_inc_free"}) + In(pc[t], {"rel_inc_free"})
<1>1. ASSUME NEW p \in Partitions
      PROVE  /\ Used(p)' = Cardinality(Held(p))' + Cardinality(Calls(Returning, p))'
             /\ Free(p)' = Cardinality(OnStack(p))' + Cardinality(Calls({"dec_free"}, p))'
                             - Cardinality(Calls({"rel_inc_free"}, p))'
  BY DEF Used, Free
<1>2. ASSUME NEW p \in Partitions \ {q}
      PROVE  /\ Calls(Returning, p)' = Calls(Returning, p)
             /\ Calls({"dec_free"}, p)' = Calls({"dec_free"}, p)
             /\ Calls({"rel_inc_free"}, p)' = Calls({"rel_inc_free"}, p)
  BY DEF Calls, TypeOK, Counting
<1>3. ASSUME NEW L, L \subseteq Counting
      PROVE  Cardinality(Calls(L, q))' = Cardinality(Calls(L, q))
               + (IF x \in L THEN 1 ELSE 0) - (IF pc[t] \in L THEN 1 ELSE 0)
  <2>1. pc[t] \in L /\ part[t] = q <=> pc[t] \in L
    BY <1>3
  <2>2. x \in L /\ part'[t] = q <=> x \in L
    OBVIOUS
  <2>3. Cardinality(Calls(L, q))' = Cardinality(Calls(L, q))
           + (IF x \in L /\ part'[t] = q THEN 1 ELSE 0)
           - (IF pc[t] \in L /\ part[t] = q THEN 1 ELSE 0)
    BY CallsCount
  <2> QED BY <2>1, <2>2, <2>3
<1>4. /\ Cardinality(Calls(Returning, q))' = Cardinality(Calls(Returning, q))
           + (IF x \in Returning THEN 1 ELSE 0) - (IF pc[t] \in Returning THEN 1 ELSE 0)
      /\ Cardinality(Calls({"dec_free"}, q))' = Cardinality(Calls({"dec_free"}, q))
           + (IF x = "dec_free" THEN 1 ELSE 0) - (IF pc[t] = "dec_free" THEN 1 ELSE 0)
      /\ Cardinality(Calls({"rel_inc_free"}, q))' = Cardinality(Calls({"rel_inc_free"}, q))
           + (IF x = "rel_inc_free" THEN 1 ELSE 0) - (IF pc[t] = "rel_inc_free" THEN 1 ELSE 0)
  <2>1. Returning \subseteq Counting /\ {"dec_free"} \subseteq Counting /\ {"rel_inc_free"} \subseteq Counting
    BY DEF Counting
  <2>2. Cardinality(Calls({"dec_free"}, q))' = Cardinality(Calls({"dec_free"}, q))
          + (IF x \in {"dec_free"} THEN 1 ELSE 0) - (IF pc[t] \in {"dec_free"} THEN 1 ELSE 0)
    BY <1>3, <2>1
  <2>3. Cardinality(Calls({"rel_inc_free"}, q))' = Cardinality(Calls({"rel_inc_free"}, q))
          + (IF x \in {"rel_inc_free"} THEN 1 ELSE 0) - (IF pc[t] \in {"rel_inc_free"} THEN 1 ELSE 0)
    BY <1>3, <2>1
  <2>4. Cardinality(Calls(Returning, q))' = Cardinality(Calls(Returning, q))
           + (IF x \in Returning THEN 1 ELSE 0) - (IF pc[t] \in Returning THEN 1 ELSE 0)
    BY <1>3, <2>1
  <2> QED BY <2>2, <2>3, <2>4
<1>5. /\ Cardinality(Held(q)) \in Int /\ Cardinality(OnStack(q)) \in Int
      /\ \A L : Cardinality(Calls(L, q)) \in Int
  BY Finite, SetsOfStats, Counted
<1>6. Cardinality(Held(q))' \in Int /\ Cardinality(OnStack(q))' \in Int
  <2>1. Held(q)' \in SUBSET Addr /\ OnStack(q)' \in SUBSET Addr
    BY DEF Held, OnStack
  <2> QED BY <2>1, Finite, Counted
<1>7. ASSUME NEW p \in Partitions \ {q} PROVE Used(p)' = Used(p) /\ Free(p)' = Free(p)
  BY <1>2 DEF Used, Free
<1>8. Used(q)' - Used(q) = Cardinality(Held(q))' - Cardinality(Held(q))
              + In(x, Returning) - In(pc[t], Returning)
  BY <1>1, <1>4, <1>5, <1>6 DEF Used, In
<1>9. Free(q)' - Free(q) = Cardinality(OnStack(q))' - Cardinality(OnStack(q))
              + In(x, {"dec_free"}) - In(pc[t], {"dec_free"})
              - In(x, {"rel_inc_free"}) + In(pc[t], {"rel_inc_free"})
  BY <1>1, <1>4, <1>5, <1>6 DEF Free, In
<1> QED BY <1>7, <1>8, <1>9

LEMMA Tally ==
  ASSUME TypeOK, StatsAgree, NEW t \in Threads, NEW x \in Labels, pc' = [pc EXCEPT ![t] = x],
         \A u \in Threads \ {t} : part'[u] = part[u],
         NEW q \in Partitions, part'[t] = q, pc[t] \in Counting => part[t] = q,
         \A p \in Partitions \ {q} : Held(p)' = Held(p) /\ OnStack(p)' = OnStack(p),
         NEW h \in Int, Cardinality(Held(q))' = Cardinality(Held(q)) + h,
         NEW o \in Int, Cardinality(OnStack(q))' = Cardinality(OnStack(q)) + o,
         NEW i \in {-1, 0, 1}, i = h + In(x, Returning) - In(pc[t], Returning),
         NEW j \in {-1, 0, 1}, j = o + In(x, {"dec_free"}) - In(pc[t], {"dec_free"})
                                  - In(x, {"rel_inc_free"}) + In(pc[t], {"rel_inc_free"}),
         num_used' = IF i = 0 THEN num_used ELSE Add(num_used, q, i),
         num_free' = IF j = 0 THEN num_free ELSE Add(num_free, q, j)
  PROVE  StatsAgree'
<1>1. /\ \A p \in Partitions \ {q} : Used(p)' = Used(p) /\ Free(p)' = Free(p)
      /\ Used(q)' - Used(q) = Cardinality(Held(q))' - Cardinality(Held(q))
           + In(x, Returning) - In(pc[t], Returning)
      /\ Free(q)' - Free(q) = Cardinality(OnStack(q))' - Cardinality(OnStack(q))
           + In(x, {"dec_free"}) - In(pc[t], {"dec_free"})
           - In(x, {"rel_inc_free"}) + In(pc[t], {"rel_inc_free"})
  BY CountedStep
<1>2. Cardinality(Held(q)) \in Int /\ Cardinality(OnStack(q)) \in Int
  BY Finite, SetsOfStats, Counted
<1>3. Used(q) \in Int /\ Free(q) \in Int
  BY UsedAndFree
<1>4. Used(q)' \in Int /\ Free(q)' \in Int
  <2>1. /\ Held(q)' \in SUBSET Addr /\ OnStack(q)' \in SUBSET Addr
        /\ Calls(Returning, q)' \in SUBSET Threads /\ Calls({"dec_free"}, q)' \in SUBSET Threads
        /\ Calls({"rel_inc_free"}, q)' \in SUBSET Threads
    BY DEF Held, OnStack, Calls
  <2>2. /\ Cardinality(Held(q)') \in Int /\ Cardinality(OnStack(q)') \in Int
        /\ Cardinality(Calls(Returning, q)') \in Int /\ Cardinality(Calls({"dec_free"}, q)') \in Int
        /\ Cardinality(Calls({"rel_inc_free"}, q)') \in Int
    BY <2>1, Finite, Counted
  <2> QED BY <2>2 DEF Used, Free
<1>7. \A l, L : In(l, L) \in Int
  BY DEF In
<1>5. Used(q)' = Used(q) + i
  BY <1>1, <1>2, <1>3, <1>4, <1>7
<1>6. Free(q)' = Free(q) + j
  BY <1>1, <1>2, <1>3, <1>4, <1>7
<1> QED BY <1>1, <1>5, <1>6, StatsChange

(* Sets that stay, and sets of one more or less.                           *)
LEMMA HeldSame ==
  ASSUME NEW q \in Partitions, Held(q)' = Held(q)
  PROVE  Cardinality(Held(q))' = Cardinality(Held(q)) + 0
<1>1. Cardinality(Held(q)) \in Int
  BY Finite, SetsOfStats, Counted
<1>2. Cardinality(Held(q)) = Cardinality(Held(q)) + 0
  BY <1>1
<1> QED BY <1>2

LEMMA OnStackSame ==
  ASSUME NEW q \in Partitions, OnStack(q)' = OnStack(q)
  PROVE  Cardinality(OnStack(q))' = Cardinality(OnStack(q)) + 0
<1>1. Cardinality(OnStack(q)) \in Int
  BY Finite, SetsOfStats, Counted
<1>2. Cardinality(OnStack(q)) = Cardinality(OnStack(q)) + 0
  BY <1>1
<1> QED BY <1>2

LEMMA HeldMoves ==
  ASSUME NEW q \in Partitions, NEW a \in Addr
  PROVE  /\ a \notin Held(q) /\ Held(q)' = Held(q) \cup {a}
              => Cardinality(Held(q))' = Cardinality(Held(q)) + 1
         /\ a \in Held(q) /\ Held(q)' = Held(q) \ {a}
              => Cardinality(Held(q))' = Cardinality(Held(q)) + (-1)
<1>1. Held(q) \in SUBSET Addr
  BY SetsOfStats
<1>2. /\ Cardinality(Held(q)) \in Nat
      /\ a \notin Held(q) => Cardinality(Held(q) \cup {a}) = Cardinality(Held(q)) + 1
      /\ a \in Held(q) => Cardinality(Held(q) \ {a}) = Cardinality(Held(q)) - 1
  BY <1>1, Finite, Counted
<1>3. Cardinality(Held(q)) - 1 = Cardinality(Held(q)) + (-1)
  BY <1>2
<1> QED BY <1>2, <1>3

LEMMA OnStackMoves ==
  ASSUME NEW q \in Partitions, NEW a \in Addr
  PROVE  /\ a \notin OnStack(q) /\ OnStack(q)' = OnStack(q) \cup {a}
              => Cardinality(OnStack(q))' = Cardinality(OnStack(q)) + 1
         /\ a \in OnStack(q) /\ OnStack(q)' = OnStack(q) \ {a}
              => Cardinality(OnStack(q))' = Cardinality(OnStack(q)) + (-1)
<1>1. OnStack(q) \in SUBSET Addr
  BY SetsOfStats
<1>2. /\ Cardinality(OnStack(q)) \in Nat
      /\ a \notin OnStack(q) => Cardinality(OnStack(q) \cup {a}) = Cardinality(OnStack(q)) + 1
      /\ a \in OnStack(q) => Cardinality(OnStack(q) \ {a}) = Cardinality(OnStack(q)) - 1
  BY <1>1, Finite, Counted
<1>3. Cardinality(OnStack(q)) - 1 = Cardinality(OnStack(q)) + (-1)
  BY <1>2
<1> QED BY <1>2, <1>3

LEMMA CountPopStats ==
  ASSUME IInv, StatsAgree, NEW t \in Threads, CountPop(t)
  PROVE  StatsAgree'
<1>1. PICK q \in Partitions : q = part[t]
  BY InCall DEF IInv, CountPop, At
<1>2. /\ pc[t] = "dec_free" /\ pc' = [pc EXCEPT ![t] = "inc_reused"]
      /\ num_used' = num_used /\ num_free' = Add(num_free, q, -1)
      /\ UNCHANGED <<partition, granted, part, bucket>>
  BY <1>1 DEF CountPop, At, Goto, heap, locals
<1>3. \A u \in Threads : Private(u)' <=> Private(u)
  BY <1>2 DEF Private, IInv, TypeOK
<1>4. \A p \in Partitions : Held(p)' = Held(p) /\ OnStack(p)' = OnStack(p)
  BY <1>2, <1>3 DEF Held, OnStack, Listed, Pushed, InUse
<1>5. /\ Cardinality(Held(q))' = Cardinality(Held(q)) + 0
      /\ Cardinality(OnStack(q))' = Cardinality(OnStack(q)) + 0
  BY <1>1, <1>4, HeldSame, OnStackSame
<1>6. /\ 0 = 0 + In("inc_reused", Returning) - In(pc[t], Returning)
      /\ (-1) = 0 + In("inc_reused", {"dec_free"}) - In(pc[t], {"dec_free"})
                - In("inc_reused", {"rel_inc_free"}) + In(pc[t], {"rel_inc_free"})
  BY <1>2 DEF In, Returning
<1>7. TypeOK /\ "inc_reused" \in Labels
  BY DEF IInv, Labels
<1>8. part'[t] = q /\ \A u \in Threads \ {t} : part'[u] = part[u]
  BY <1>1, <1>2
<1>9. /\ num_used' = IF 0 = 0 THEN num_used ELSE Add(num_used, q, 0)
      /\ num_free' = IF (-1) = 0 THEN num_free ELSE Add(num_free, q, (-1))
  BY <1>2
<1>10. 0 \in {-1, 0, 1} /\ (-1) \in {-1, 0, 1} /\ 0 \in Int
  OBVIOUS
<1> QED BY <1>1, <1>2, <1>4, <1>5, <1>6, <1>7, <1>8, <1>9, <1>10, Tally

LEMMA CountPushStats ==
  ASSUME IInv, StatsAgree, NEW t \in Threads, CountPush(t)
  PROVE  StatsAgree'
<1>1. PICK q \in Partitions : q = part[t]
  BY InCall DEF IInv, CountPush, At
<1>2. /\ pc[t] = "rel_inc_free" /\ pc' = [pc EXCEPT ![t] = "rel_dec_used"]
      /\ num_used' = num_used /\ num_free' = Add(num_free, q, 1)
      /\ UNCHANGED <<partition, granted, part, bucket>>
  BY <1>1 DEF CountPush, At, Goto, heap, locals
<1>3. \A u \in Threads : Private(u)' <=> Private(u)
  BY <1>2 DEF Private, IInv, TypeOK
<1>4. \A p \in Partitions : Held(p)' = Held(p) /\ OnStack(p)' = OnStack(p)
  BY <1>2, <1>3 DEF Held, OnStack, Listed, Pushed, InUse
<1>5. /\ Cardinality(Held(q))' = Cardinality(Held(q)) + 0
      /\ Cardinality(OnStack(q))' = Cardinality(OnStack(q)) + 0
  BY <1>1, <1>4, HeldSame, OnStackSame
<1>6. /\ 0 = 0 + In("rel_dec_used", Returning) - In(pc[t], Returning)
      /\ 1 = 0 + In("rel_dec_used", {"dec_free"}) - In(pc[t], {"dec_free"})
                - In("rel_dec_used", {"rel_inc_free"}) + In(pc[t], {"rel_inc_free"})
  BY <1>2 DEF In, Returning
<1>7. TypeOK /\ "rel_dec_used" \in Labels
  BY DEF IInv, Labels
<1>8. part'[t] = q /\ \A u \in Threads \ {t} : part'[u] = part[u]
  BY <1>1, <1>2
<1>9. /\ num_used' = IF 0 = 0 THEN num_used ELSE Add(num_used, q, 0)
      /\ num_free' = IF 1 = 0 THEN num_free ELSE Add(num_free, q, 1)
  BY <1>2
<1>10. 0 \in {-1, 0, 1} /\ 1 \in {-1, 0, 1} /\ 0 \in Int
  OBVIOUS
<1> QED BY <1>1, <1>2, <1>4, <1>5, <1>6, <1>7, <1>8, <1>9, <1>10, Tally

LEMMA CountUnusedStats ==
  ASSUME IInv, StatsAgree, NEW t \in Threads, CountUnused(t)
  PROVE  StatsAgree'
<1>1. PICK q \in Partitions : q = part[t]
  BY InCall DEF IInv, CountUnused, At
<1>2. /\ pc[t] = "rel_dec_used" /\ pc' = [pc EXCEPT ![t] = "idle"]
      /\ num_used' = Add(num_used, q, -1) /\ num_free' = num_free
      /\ UNCHANGED <<partition, granted, part, bucket>>
  BY <1>1 DEF CountUnused, At, Goto, heap, locals
<1>3. \A u \in Threads : Private(u)' <=> Private(u)
  BY <1>2 DEF Private, IInv, TypeOK
<1>4. \A p \in Partitions : Held(p)' = Held(p) /\ OnStack(p)' = OnStack(p)
  BY <1>2, <1>3 DEF Held, OnStack, Listed, Pushed, InUse
<1>5. /\ Cardinality(Held(q))' = Cardinality(Held(q)) + 0
      /\ Cardinality(OnStack(q))' = Cardinality(OnStack(q)) + 0
  BY <1>1, <1>4, HeldSame, OnStackSame
<1>6. /\ (-1) = 0 + In("idle", Returning) - In(pc[t], Returning)
      /\ 0 = 0 + In("idle", {"dec_free"}) - In(pc[t], {"dec_free"})
                - In("idle", {"rel_inc_free"}) + In(pc[t], {"rel_inc_free"})
  BY <1>2 DEF In, Returning
<1>7. TypeOK /\ "idle" \in Labels
  BY DEF IInv, Labels
<1>8. part'[t] = q /\ \A u \in Threads \ {t} : part'[u] = part[u]
  BY <1>1, <1>2
<1>9. /\ num_used' = IF (-1) = 0 THEN num_used ELSE Add(num_used, q, (-1))
      /\ num_free' = IF 0 = 0 THEN num_free ELSE Add(num_free, q, 0)
  BY <1>2
<1>10. (-1) \in {-1, 0, 1} /\ 0 \in {-1, 0, 1} /\ 0 \in Int
  OBVIOUS
<1> QED BY <1>1, <1>2, <1>4, <1>5, <1>6, <1>7, <1>8, <1>9, <1>10, Tally

LEMMA CountUsedStats ==
  ASSUME IInv, StatsAgree, NEW t \in Threads, CountUsed(t)
  PROVE  StatsAgree'
<1>0. /\ part[t] \in Partitions /\ bucket[t] \in Addr /\ partition[bucket[t]] = part[t]
      /\ ~InUse(bucket[t]) /\ size[t] # NULL /\ Private(t)
  <2>1. Private(t)
    BY DEF CountUsed, At, Private
  <2>2. size[t] \in Requests
    BY DEF CountUsed, At, IInv, CallInv
  <2> QED BY <2>1, <2>2, OwnBucket, MemoryAssumption
<1>13. PICK q \in Partitions, a \in Addr : q = part[t] /\ a = bucket[t]
  BY <1>0
<1>1. /\ q \in Partitions /\ a \in Addr /\ partition[a] = q /\ ~InUse(a)
      /\ size[t] # NULL /\ Private(t)
  BY <1>0, <1>13
<1>2. /\ pc[t] = "inc_used" /\ pc' = [pc EXCEPT ![t] = "idle"]
      /\ num_used' = Add(num_used, q, 1) /\ num_free' = num_free
      /\ UNCHANGED <<partition, part, bucket>>
      /\ granted' = [granted EXCEPT ![a] = size[t]]
  BY <1>13 DEF CountUsed, At, Goto, heap, locals
<1>3. \A u \in Threads : Private(u)' <=> Private(u) /\ u # t
  BY <1>2 DEF Private, IInv, TypeOK
<1>4. \A b \in Addr : InUse(b)' <=> InUse(b) \/ b = a
  BY <1>1, <1>2, <1>13 DEF InUse, IInv, TypeOK
<1>5. \A p \in Partitions : OnStack(p)' = OnStack(p)
  <2>1. \A b \in Addr : Listed(b)' <=> Listed(b)
    BY <1>1, <1>2, <1>13, <1>3, <1>4 DEF Listed, Pushed
  <2> QED BY <1>2, <2>1 DEF OnStack
<1>8. /\ \A p \in Partitions \ {q} : Held(p)' = Held(p)
      /\ Held(q)' = Held(q) \cup {a} /\ a \notin Held(q)
  BY <1>1, <1>2, <1>13, <1>4 DEF Held
<1>6. /\ 1 = 1 + In("idle", Returning) - In(pc[t], Returning)
      /\ 0 = 0 + In("idle", {"dec_free"}) - In(pc[t], {"dec_free"})
                - In("idle", {"rel_inc_free"}) + In(pc[t], {"rel_inc_free"})
  BY <1>2 DEF In, Returning
<1>7. TypeOK /\ "idle" \in Labels
  BY DEF IInv, Labels
<1>9. /\ num_used' = IF 1 = 0 THEN num_used ELSE Add(num_used, q, 1)
      /\ num_free' = IF 0 = 0 THEN num_free ELSE Add(num_free, q, 0)
  BY <1>2
<1>10. 1 \in {-1, 0, 1} /\ 0 \in {-1, 0, 1} /\ 1 \in Int /\ 0 \in Int
  OBVIOUS
<1>11. /\ Cardinality(Held(q))' = Cardinality(Held(q)) + 1
       /\ Cardinality(OnStack(q))' = Cardinality(OnStack(q)) + 0
  BY <1>1, <1>5, <1>8, HeldMoves, OnStackSame
<1>14. part'[t] = q /\ part[t] = q /\ \A u \in Threads \ {t} : part'[u] = part[u]
  BY <1>2, <1>13
<1> QED BY <1>1, <1>2, <1>5, <1>6, <1>7, <1>8, <1>9, <1>10, <1>11, <1>14, Tally

LEMMA ReleaseCallStats ==
  ASSUME IInv, StatsAgree, NEW t \in Threads, NEW a \in Addr, ReleaseCall(t, a)
  PROVE  StatsAgree'
<1>0. partition[a] \in Partitions /\ Pushed(a) /\ InUse(a)
  BY DEF ReleaseCall, IInv, GrantInv, Pushed, TypeOK
<1>13. PICK q \in Partitions : q = partition[a]
  BY <1>0
<1>1. q \in Partitions /\ partition[a] = q /\ Pushed(a) /\ InUse(a)
  BY <1>0, <1>13
<1>2. /\ pc[t] \in {"idle", "failed"} /\ pc' = [pc EXCEPT ![t] = "rel_link"]
      /\ num_used' = num_used /\ num_free' = num_free /\ partition' = partition
      /\ part' = [part EXCEPT ![t] = q] /\ bucket' = [bucket EXCEPT ![t] = a]
      /\ granted' = [granted EXCEPT ![a] = NULL]
  BY <1>13 DEF ReleaseCall, Goto, heap, stats
<1>3. ~Private(t) /\ \A u \in Threads : Private(u)' <=> Private(u) \/ u = t
  BY <1>2 DEF Private, IInv, TypeOK
<1>4. \A b \in Addr : InUse(b)' <=> InUse(b) /\ b # a
  BY <1>1, <1>2 DEF InUse, IInv, TypeOK
<1>5. \A p \in Partitions : OnStack(p)' = OnStack(p)
  <2>1. \A u \in Threads : bucket'[u] = IF u = t THEN a ELSE bucket[u]
    BY <1>2 DEF IInv, TypeOK
  <2>2. \A b \in Addr : Listed(b)' <=> Listed(b)
    BY <1>1, <1>2, <1>3, <1>4, <2>1 DEF Listed, Pushed
  <2> QED BY <1>2, <2>2 DEF OnStack
<1>8. /\ \A p \in Partitions \ {q} : Held(p)' = Held(p)
      /\ Held(q)' = Held(q) \ {a} /\ a \in Held(q)
  BY <1>1, <1>2, <1>4 DEF Held
<1>6. /\ 0 = (-1) + In("rel_link", Returning) - In(pc[t], Returning)
      /\ 0 = 0 + In("rel_link", {"dec_free"}) - In(pc[t], {"dec_free"})
                - In("rel_link", {"rel_inc_free"}) + In(pc[t], {"rel_inc_free"})
  BY <1>2 DEF In, Returning
<1>7. TypeOK /\ "rel_link" \in Labels
  BY DEF IInv, Labels
<1>9. /\ num_used' = IF 0 = 0 THEN num_used ELSE Add(num_used, q, 0)
      /\ num_free' = IF 0 = 0 THEN num_free ELSE Add(num_free, q, 0)
  BY <1>2
<1>10. 0 \in {-1, 0, 1} /\ 0 \in {-1, 0, 1} /\ (-1) \in Int /\ 0 \in Int
  OBVIOUS
<1>11. /\ Cardinality(Held(q))' = Cardinality(Held(q)) + (-1)
       /\ Cardinality(OnStack(q))' = Cardinality(OnStack(q)) + 0
  BY <1>1, <1>5, <1>8, HeldMoves, OnStackSame
<1>12. /\ part'[t] = q /\ \A u \in Threads \ {t} : part'[u] = part[u]
       /\ pc[t] \notin Counting
  BY <1>2 DEF IInv, TypeOK, Counting, Returning
<1>14. /\ pc' = [pc EXCEPT ![t] = "rel_link"] /\ (pc[t] \in Counting => part[t] = q)
       /\ \A p \in Partitions \ {q} : Held(p)' = Held(p) /\ OnStack(p)' = OnStack(p)
  BY <1>2, <1>5, <1>8, <1>12
<1> QED BY <1>1, <1>6, <1>7, <1>9, <1>10, <1>11, <1>12, <1>14, Tally

LEMMA StoreHeadStats ==
  ASSUME IInv, StatsAgree, NEW t \in Threads, StoreHead(t)
  PROVE  StatsAgree'
<1>0. /\ part[t] \in Partitions /\ bucket[t] \in Addr /\ Listed(bucket[t])
      /\ partition[bucket[t]] = part[t]
  <2>1. /\ part[t] \in Partitions /\ bucket[t] # NULL /\ bucket[t] \in Addr
        /\ bucket[t] = free_buckets[part[t]].ptr
    BY InCall DEF StoreHead, At, IInv, CallInv, TypeOK, Pointer
  <2> QED BY <2>1 DEF IInv, ListInv
<1>13. PICK q \in Partitions, a \in Addr : q = part[t] /\ a = bucket[t]
  BY <1>0
<1>1. q \in Partitions /\ a \in Addr /\ Listed(a) /\ partition[a] = q
  BY <1>0, <1>13
<1>2. /\ pc[t] = "store" /\ pc' = [pc EXCEPT ![t] = "dec_free"]
      /\ num_used' = num_used /\ num_free' = num_free
      /\ UNCHANGED <<partition, granted, part, bucket>>
  BY <1>13 DEF StoreHead, At, Goto, stats, locals
<1>3. ~Private(t) /\ \A u \in Threads : Private(u)' <=> Private(u) \/ u = t
  BY <1>2 DEF Private, IInv, TypeOK
<1>4. \A b \in Addr : Listed(b)' <=> Listed(b) /\ b # a
  BY <1>2, <1>3, <1>13 DEF Listed, Pushed, InUse
<1>5. /\ \A p \in Partitions \ {q} : OnStack(p)' = OnStack(p)
      /\ OnStack(q)' = OnStack(q) \ {a} /\ a \in OnStack(q)
  BY <1>1, <1>2, <1>13, <1>4 DEF OnStack
<1>8. \A p \in Partitions : Held(p)' = Held(p)
  BY <1>2 DEF Held, InUse
<1>6. /\ 0 = 0 + In("dec_free", Returning) - In(pc[t], Returning)
      /\ 0 = (-1) + In("dec_free", {"dec_free"}) - In(pc[t], {"dec_free"})
                - In("dec_free", {"rel_inc_free"}) + In(pc[t], {"rel_inc_free"})
  BY <1>2 DEF In, Returning
<1>7. TypeOK /\ "dec_free" \in Labels
  BY DEF IInv, Labels
<1>9. /\ num_used' = IF 0 = 0 THEN num_used ELSE Add(num_used, q, 0)
      /\ num_free' = IF 0 = 0 THEN num_free ELSE Add(num_free, q, 0)
  BY <1>2
<1>10. 0 \in {-1, 0, 1} /\ 0 \in {-1, 0, 1} /\ 0 \in Int /\ (-1) \in Int
  OBVIOUS
<1>11. /\ Cardinality(Held(q))' = Cardinality(Held(q)) + 0
       /\ Cardinality(OnStack(q))' = Cardinality(OnStack(q)) + (-1)
  BY <1>1, <1>5, <1>8, HeldSame, OnStackMoves
<1>14. part'[t] = q /\ part[t] = q /\ \A u \in Threads \ {t} : part'[u] = part[u]
  BY <1>2, <1>13
<1> QED BY <1>1, <1>2, <1>5, <1>6, <1>7, <1>8, <1>9, <1>10, <1>11, <1>14, Tally

LEMMA CasHeadStats ==
  ASSUME IInv, StatsAgree, NEW t \in Threads, CasHead(t)
  PROVE  StatsAgree'
<1>0. /\ part[t] \in Partitions /\ bucket[t] \in Addr /\ partition[bucket[t]] = part[t]
      /\ Private(t) /\ Pushed(bucket[t]) /\ ~InUse(bucket[t]) /\ ~Listed(bucket[t])
  <2>1. Private(t)
    BY DEF CasHead, At, Private
  <2> QED BY <2>1, OwnBucket
<1>13. PICK q \in Partitions, a \in Addr : q = part[t] /\ a = bucket[t]
  BY <1>0
<1>1. /\ q \in Partitions /\ a \in Addr /\ partition[a] = q /\ Private(t)
      /\ Pushed(a) /\ ~InUse(a) /\ ~Listed(a)
  BY <1>0, <1>13
<1>2. /\ pc[t] = "rel_cas" /\ pc' = [pc EXCEPT ![t] = "rel_inc_free"]
      /\ num_used' = num_used /\ num_free' = num_free
      /\ UNCHANGED <<partition, granted, part, bucket>>
  BY <1>13 DEF CasHead, At, Goto, stats, locals
<1>3. \A u \in Threads : Private(u)' <=> Private(u) /\ u # t
  BY <1>2 DEF Private, IInv, TypeOK
<1>4. \A b \in Addr : Listed(b)' <=> Listed(b) \/ b = a
  BY <1>1, <1>2, <1>13, <1>3 DEF Listed, Pushed, InUse, IInv, ExclusiveOwnership
<1>5. /\ \A p \in Partitions \ {q} : OnStack(p)' = OnStack(p)
      /\ OnStack(q)' = OnStack(q) \cup {a} /\ a \notin OnStack(q)
  BY <1>1, <1>2, <1>13, <1>4 DEF OnStack
<1>8. \A p \in Partitions : Held(p)' = Held(p)
  BY <1>2 DEF Held, InUse
<1>6. /\ 0 = 0 + In("rel_inc_free", Returning) - In(pc[t], Returning)
      /\ 0 = 1 + In("rel_inc_free", {"dec_free"}) - In(pc[t], {"dec_free"})
                - In("rel_inc_free", {"rel_inc_free"}) + In(pc[t], {"rel_inc_free"})
  BY <1>2 DEF In, Returning
<1>7. TypeOK /\ "rel_inc_free" \in Labels
  BY DEF IInv, Labels
<1>9. /\ num_used' = IF 0 = 0 THEN num_used ELSE Add(num_used, q, 0)
      /\ num_free' = IF 0 = 0 THEN num_free ELSE Add(num_free, q, 0)
  BY <1>2
<1>10. 0 \in {-1, 0, 1} /\ 0 \in {-1, 0, 1} /\ 0 \in Int /\ 1 \in Int
  OBVIOUS
<1>11. /\ Cardinality(Held(q))' = Cardinality(Held(q)) + 0
       /\ Cardinality(OnStack(q))' = Cardinality(OnStack(q)) + 1
  BY <1>1, <1>5, <1>8, HeldSame, OnStackMoves
<1>14. part'[t] = q /\ part[t] = q /\ \A u \in Threads \ {t} : part'[u] = part[u]
  BY <1>2, <1>13
<1> QED BY <1>1, <1>2, <1>5, <1>6, <1>7, <1>8, <1>9, <1>10, <1>11, <1>14, Tally

LEMMA StatsInit == Init => StatsAgree
<1> SUFFICES ASSUME Init, NEW p \in Partitions
             PROVE  num_used[p] = Used(p) % WordSize /\ num_free[p] = Free(p) % WordSize
  BY AgreeDef
<1>1. Held(p) = {} /\ OnStack(p) = {}
  BY DEF Init, Held, OnStack, InUse, Listed, Pushed
<1>2. Calls(Returning, p) = {} /\ Calls({"dec_free"}, p) = {} /\ Calls({"rel_inc_free"}, p) = {}
  BY DEF Init, Calls, Returning
<1>3. Used(p) = 0 /\ Free(p) = 0
  BY <1>1, <1>2, FS_EmptySet DEF Used, Free
<1>4. WordSize * 0 + 0 = 0 /\ (WordSize * 0 + 0) % WordSize = 0
  BY MemoryAssumption, Remainder
<1>5. 0 % WordSize = 0
  BY <1>4
<1> QED BY <1>3, <1>5 DEF Init

(* num_used and num_free of a partition always say how many buckets are in *)
(* callers' hands and on the stack, up to the calls between the two steps  *)
(* of memory.c that change the stack and that count it, modulo the width   *)
(* of the counters and for any number of threads.                          *)
THEOREM CountersAgree == Spec => []StatsAgree
<1>1. IInv /\ StatsAgree /\ [Next]_vars => StatsAgree'
  <2> SUFFICES ASSUME IInv, StatsAgree, [Next]_vars PROVE StatsAgree'
    OBVIOUS
  <2>1. CASE UNCHANGED vars
    BY <2>1 DEF vars, StatsAgree, Held, OnStack, Calls, Listed, Pushed, InUse, Private
  <2>2. ASSUME NEW t \in Threads, NEW a \in Addr, ReleaseCall(t, a) PROVE StatsAgree'
    BY <2>2, ReleaseCallStats
  <2>3. ASSUME NEW t \in Threads, Step(t) PROVE StatsAgree'
    BY <2>3, QuietStats, PushStats, CountPopStats, CountPushStats, CountUnusedStats,
       CountUsedStats, StoreHeadStats, CasHeadStats DEF Step
  <2>4. ASSUME NEW t \in Threads, NEW n \in Requests,
               ReserveTooBig(t, n) \/ \E p \in Partitions : ReserveCall(t, n, p)
        PROVE  StatsAgree'
    BY <2>4, QuietStats
  <2> QED BY <2>1, <2>2, <2>3, <2>4 DEF Next
<1> QED BY <1>1, StatsInit, Invariance, PTL DEF Spec

(***************************************************************************)
(* The allocator keeps its promise.                                        *)
(***************************************************************************)

LEMMA Naturals ==
  /\ \A a \in Addr : a \in Nat
  /\ \A n \in Requests : n \in Nat /\ n # NULL
  /\ \A p \in Partitions : p \in Nat
  /\ Header \in Nat /\ Capacity \in Nat
<1>1. \A a \in Addr : a \in Nat
  BY MemoryAssumption DEF Addr
<1>2. \A n \in Requests : n \in Nat /\ n # NULL
  BY MemoryAssumption
<1> QED BY <1>1, <1>2, MemoryAssumption

LEMMA InUseBlock ==
  ASSUME IInv, NEW a \in Addr, InUse(a)
  PROVE  /\ a \in Nat /\ granted[a] \in Nat /\ granted[a] \in Requests /\ partition[a] \in Nat
         /\ granted[a] <= partition[a] /\ Header \in Nat
         /\ Footprint(partition[a]) = Header + partition[a]
<1>1. Pushed(a) /\ granted[a] <= partition[a]
  BY DEF IInv, GrantInv
<1>2. granted[a] \in Requests /\ partition[a] \in Partitions
  BY <1>1 DEF IInv, TypeOK, InUse, Pushed
<1> QED BY <1>1, <1>2, Naturals DEF Footprint

(* The last step of reserve_memory is the abstract reservation.            *)
LEMMA CountUsedReserves ==
  ASSUME IInv, IInv', NEW t \in Threads, CountUsed(t)
  PROVE  \E b \in Abstract!Blocks : Abstract!Reserve(b)
<1> DEFINE h == bucket[t]
           new == [base |-> h + Header, size |-> size[t]]
<1>1. /\ h \in Addr /\ Pushed(h) /\ ~InUse(h) /\ partition[h] = part[t]
      /\ size[t] \in Requests /\ size[t] <= partition[h] /\ part[t] \in Partitions
  <2>1. Private(t)
    BY DEF CountUsed, At, Private
  <2> QED BY <2>1, OwnBucket DEF CountUsed, At, IInv, CallInv
<1>2. /\ h \in Nat /\ size[t] \in Nat /\ partition[h] \in Nat /\ Header \in Nat /\ Capacity \in Nat
      /\ Footprint(partition[h]) = Header + partition[h] /\ size[t] # NULL
  BY <1>1, Naturals DEF Footprint
<1>3. BucketsApart
  BY DEF IInv, LayoutInv
<1>4. new.base + new.size <= Capacity /\ new \in Abstract!Blocks
  BY <1>1, <1>2, <1>3 DEF BucketsApart, Abstract!Blocks
<1>5. ASSUME NEW a \in Addr, InUse(a)
      PROVE  Abstract!Apart(new, [base |-> a + Header, size |-> granted[a]])
  <2>1. Pushed(a) /\ a # h
    BY <1>1, <1>5 DEF IInv, GrantInv
  <2>2. \/ a + Footprint(partition[a]) <= h
        \/ h + Footprint(partition[h]) <= a
    BY <1>1, <1>3, <2>1 DEF BucketsApart
  <2> QED BY <1>1, <1>2, <1>5, <2>2, InUseBlock DEF Abstract!Apart
<1>6. blocks' = blocks \cup {new}
  <2>1. \A a \in Addr : granted'[a] = IF a = h THEN size[t] ELSE granted[a]
    BY <1>1 DEF CountUsed, IInv, TypeOK
  <2>2. \A a \in Addr : InUse(a)' <=> InUse(a) \/ a = h
    BY <1>2, <2>1 DEF InUse
  <2> QED BY <1>1, <2>1, <2>2 DEF blocks
<1> QED BY <1>4, <1>5, <1>6 DEF blocks, Abstract!Reserve

(* The first step of release_memory is the abstract release.               *)
LEMMA ReleaseCallReleases ==
  ASSUME IInv, NEW t \in Threads, NEW a \in Addr, ReleaseCall(t, a)
  PROVE  \E b \in blocks : Abstract!Release(b)
<1> DEFINE old == [base |-> a + Header, size |-> granted[a]]
<1>1. old \in blocks
  BY DEF ReleaseCall, blocks
<1>2. \A b \in Addr : (InUse(b)' <=> InUse(b) /\ b # a) /\ (b # a => granted'[b] = granted[b])
  BY DEF ReleaseCall, InUse, IInv, TypeOK
<1>3. ASSUME NEW b \in Addr, b # a
      PROVE  [base |-> b + Header, size |-> granted[b]] # old
  BY <1>3, MemoryAssumption DEF Addr
<1>4. blocks' = blocks \ {old}
  BY <1>2, <1>3 DEF blocks
<1> QED BY <1>1, <1>4 DEF blocks, Abstract!Release

(* Steps that grant and return nothing are stutters of the abstract        *)
(* allocator.                                                              *)
LEMMA OthersStutter == UNCHANGED granted => UNCHANGED blocks
  BY DEF blocks, InUse

(* Under every interleaving callers obtain blocks inside the arena, at     *)
(* least as long as asked and sharing no byte with a block still held.     *)
THEOREM Refinement == Spec => ImplementsAllocator
<1>1. Init => Abstract!Init
  BY DEF Init, InUse, blocks, Abstract!Init
<1>2. IInv /\ IInv' /\ [Next]_vars => [Abstract!Next]_blocks
  <2> SUFFICES ASSUME IInv, IInv', [Next]_vars PROVE [Abstract!Next]_blocks
    OBVIOUS
  <2>1. ASSUME NEW t \in Threads, CountUsed(t) PROVE Abstract!Next
    BY <2>1, CountUsedReserves DEF Abstract!Next
  <2>2. ASSUME NEW t \in Threads, NEW a \in Addr, ReleaseCall(t, a) PROVE Abstract!Next
    BY <2>2, ReleaseCallReleases DEF Abstract!Next, blocks
  <2>3. ASSUME NEW t \in Threads, Step(t), ~CountUsed(t) PROVE UNCHANGED granted
    BY <2>3 DEF Step, Mark, ReadHead, Unmark, LoadNext, StoreHead, CountPop, CountReuse,
                Push, PushFails, LinkNext, CasHead, CasFails, CountPush, CountUnused
  <2>4. ASSUME NEW t \in Threads, NEW n \in Requests, NEW p \in Partitions,
               ReserveCall(t, n, p) \/ ReserveTooBig(t, n)
        PROVE  UNCHANGED granted
    BY <2>4 DEF ReserveCall, ReserveTooBig
  <2>5. ASSUME NEW t \in Threads, NEW n \in Requests, ReserveTooBig(t, n) PROVE UNCHANGED granted
    BY <2>5 DEF ReserveTooBig
  <2>6. CASE UNCHANGED vars
    BY <2>6, OthersStutter DEF vars
  <2> QED BY <2>1, <2>2, <2>3, <2>4, <2>5, <2>6, OthersStutter DEF Next
<1> QED BY <1>1, <1>2, Invariance, PTL DEF Spec, ImplementsAllocator, Abstract!Spec
=============================================================================
