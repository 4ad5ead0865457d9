--------------------------- MODULE EntryMapProofs ---------------------------
(***************************************************************************)
(* Proofs about EntryMap for every number of threads, keys, entries and    *)
(* slots, and every hash function: what the two kinds of locks protect,    *)
(* and that taking them never closes a circle.                             *)
(***************************************************************************)
EXTENDS EntryMap, TLAPS

(***************************************************************************)
(* Types.                                                                  *)
(***************************************************************************)

LEMMA RoundTheMap ==
  /\ \A s \in Slots : (s + 1) % Size \in Slots
  /\ \A k \in Keys : Slot(k) \in Slots
  /\ 0 \in Slots
<1>1. \A n \in Nat : n % Size \in Slots
  BY MapAssumption DEF Slots
<1>2. \A s \in Slots : s + 1 \in Nat
  BY MapAssumption DEF Slots
<1>3. \A k \in Keys : Hash[k] \in Nat
  BY MapAssumption
<1>4. 0 \in Slots
  BY MapAssumption DEF Slots
<1> QED BY <1>1, <1>2, <1>3, <1>4 DEF Slot

LEMMA InitIInv == Init => IInv
<1> SUFFICES ASSUME Init PROVE IInv
  OBVIOUS
<1> USE MapAssumption DEF Init
<1>1. TypeOK
  BY RoundTheMap DEF TypeOK, Labels, Ops
<1>2. \A t \in Threads : Holds(t) = {} /\ Unmapped(t) = {}
  BY DEF Holds, Unmapped, At
<1>3. \A s \in Slots : ~Settled(s)
  BY DEF Settled
<1>4. SlotInv /\ GuardInv
  BY <1>2 DEF SlotInv, GuardInv
<1>5. CallInv
  BY <1>2 DEF CallInv
<1>6. MapInv
  BY <1>2, <1>3 DEF MapInv
<1> QED BY <1>1, <1>4, <1>5, <1>6 DEF IInv

(* What a step of t leaves alone. *)
Others(t) ==
  \A u \in Threads \ {t} :
    /\ pc'[u] = pc[u] /\ op'[u] = op[u] /\ want'[u] = want[u] /\ pos'[u] = pos[u]
    /\ entry'[u] = entry[u] /\ occupant'[u] = occupant[u]

LEMMA TypeStep == IInv /\ [Next]_vars => TypeOK'
<1> SUFFICES ASSUME IInv, [Next]_vars PROVE TypeOK'
  OBVIOUS
<1> USE RoundTheMap DEF IInv, TypeOK, Labels, Ops, Goto, At, shared, locals
<1>1. CASE UNCHANGED vars
  BY <1>1 DEF vars
<1>2. ASSUME NEW t \in Threads, NEW k \in Keys, NEW f \in {"get", "unset"}, LookupCall(t, f, k)
      PROVE  TypeOK'
  <2>1. {entries[s] : s \in Holding(k)} \subseteq Entries
    BY DEF Holding, Settled
  <2> QED BY <1>2, <2>1 DEF LookupCall, Probe
<1>3. ASSUME NEW t \in Threads, NEW k \in Keys, NEW e \in Entries, SetCall(t, k, e) PROVE TypeOK'
  BY <1>3 DEF SetCall, Probe
<1>4. ASSUME NEW t \in Threads, WalkCall(t) PROVE TypeOK'
  BY <1>4 DEF WalkCall
<1>5. ASSUME NEW t \in Threads, LockSlot(t) PROVE TypeOK'
  BY <1>5 DEF LockSlot
<1>6. ASSUME NEW t \in Threads, SkipSlot(t) PROVE TypeOK'
  BY <1>6 DEF SkipSlot, NextSlot
<1>7. ASSUME NEW t \in Threads, MustCompare(t) PROVE TypeOK'
  BY <1>7 DEF MustCompare
<1>8. ASSUME NEW t \in Threads, LockEntry(t) PROVE TypeOK'
  BY <1>8 DEF LockEntry, Here
<1>9. ASSUME NEW t \in Threads, SkipEntry(t) PROVE TypeOK'
  BY <1>9 DEF SkipEntry, NextSlot, UnlockEntry
<1>10. ASSUME NEW t \in Threads, GetMatch(t) PROVE TypeOK'
  BY <1>10 DEF GetMatch, Matches
<1>11. ASSUME NEW t \in Threads, GetReturn(t) PROVE TypeOK'
  BY <1>11 DEF GetReturn, Here
<1>12. ASSUME NEW t \in Threads, UnlockGot(t) PROVE TypeOK'
  BY <1>12 DEF UnlockGot, UnlockEntry, Leave
<1>13. ASSUME NEW t \in Threads, UnsetMatch(t) PROVE TypeOK'
  BY <1>13 DEF UnsetMatch, Matches, Forget
<1>14. ASSUME NEW t \in Threads, Drop(t) PROVE TypeOK'
  BY <1>14 DEF Drop, UnlockAndRelease, UnlockEntry, Leave
<1>15. ASSUME NEW t \in Threads, SetEmpty(t) PROVE TypeOK'
  BY <1>15 DEF SetEmpty, Store
<1>16. ASSUME NEW t \in Threads, SetMatch(t) PROVE TypeOK'
  BY <1>16 DEF SetMatch, Matches, Store
<1>17. ASSUME NEW t \in Threads, DropOld(t) PROVE TypeOK'
  BY <1>17 DEF DropOld, UnlockAndRelease, UnlockEntry
<1>18. ASSUME NEW t \in Threads, Publish(t) PROVE TypeOK'
  BY <1>18 DEF Publish, UnlockEntry, Leave
<1>19. ASSUME NEW t \in Threads, SetFull(t) PROVE TypeOK'
  BY <1>19 DEF SetFull, UnlockAndRelease, UnlockEntry, Leave
<1>20. ASSUME NEW t \in Threads, End(t) PROVE TypeOK'
  BY <1>20 DEF End, Leave
<1>21. ASSUME NEW t \in Threads, WalkKeep(t) PROVE TypeOK'
  BY <1>21 DEF WalkKeep, NextSlot, UnlockEntry
<1>22. ASSUME NEW t \in Threads, WalkClear(t) PROVE TypeOK'
  BY <1>22 DEF WalkClear, UnlockAndRelease, UnlockEntry, Forget
<1>23. ASSUME NEW t \in Threads, WalkUnmap(t) PROVE TypeOK'
  BY <1>23 DEF WalkUnmap, NextSlot
<1> QED
  BY <1>1, <1>2, <1>3, <1>4, <1>5, <1>6, <1>7, <1>8, <1>9, <1>10, <1>11, <1>12, <1>13,
     <1>14, <1>15, <1>16, <1>17, <1>18, <1>19, <1>20, <1>21, <1>22, <1>23 DEF Next, Step
LEMMA SlotStep == IInv /\ [Next]_vars => SlotInv'
<1> SUFFICES ASSUME IInv, [Next]_vars PROVE SlotInv'
  OBVIOUS
<1> USE RoundTheMap, MapAssumption DEF IInv, TypeOK, SlotInv, Goto, At, shared, locals
<1>1. CASE UNCHANGED vars
  BY <1>1 DEF vars
<1>2. ASSUME NEW t \in Threads, NEW k \in Keys, NEW f \in {"get", "unset"}, LookupCall(t, f, k) PROVE SlotInv'
  BY <1>2 DEF LookupCall, Probe
<1>3. ASSUME NEW t \in Threads, NEW k \in Keys, NEW e \in Entries, SetCall(t, k, e) PROVE SlotInv'
  BY <1>3 DEF SetCall, Probe
<1>4. ASSUME NEW t \in Threads, WalkCall(t) PROVE SlotInv'
  BY <1>4 DEF WalkCall
<1>5. ASSUME NEW t \in Threads, LockSlot(t) PROVE SlotInv'
  BY <1>5 DEF LockSlot
<1>6. ASSUME NEW t \in Threads, SkipSlot(t) PROVE SlotInv'
  BY <1>6 DEF SkipSlot, NextSlot
<1>7. ASSUME NEW t \in Threads, MustCompare(t) PROVE SlotInv'
  BY <1>7 DEF MustCompare
<1>8. ASSUME NEW t \in Threads, LockEntry(t) PROVE SlotInv'
  BY <1>8 DEF LockEntry
<1>9. ASSUME NEW t \in Threads, SkipEntry(t) PROVE SlotInv'
  BY <1>9 DEF SkipEntry, NextSlot, UnlockEntry
<1>10. ASSUME NEW t \in Threads, GetMatch(t) PROVE SlotInv'
  BY <1>10 DEF GetMatch, Matches
<1>11. ASSUME NEW t \in Threads, GetReturn(t) PROVE SlotInv'
  BY <1>11 DEF GetReturn
<1>12. ASSUME NEW t \in Threads, UnlockGot(t) PROVE SlotInv'
  BY <1>12 DEF UnlockGot, UnlockEntry, Leave
<1>13. ASSUME NEW t \in Threads, UnsetMatch(t) PROVE SlotInv'
  BY <1>13 DEF UnsetMatch, Matches, Forget
<1>14. ASSUME NEW t \in Threads, Drop(t) PROVE SlotInv'
  BY <1>14 DEF Drop, UnlockAndRelease, UnlockEntry, Leave
<1>15. ASSUME NEW t \in Threads, SetEmpty(t) PROVE SlotInv'
  BY <1>15 DEF SetEmpty, Store
<1>16. ASSUME NEW t \in Threads, SetMatch(t) PROVE SlotInv'
  BY <1>16 DEF SetMatch, Matches, Store
<1>17. ASSUME NEW t \in Threads, DropOld(t) PROVE SlotInv'
  BY <1>17 DEF DropOld, UnlockAndRelease, UnlockEntry
<1>18. ASSUME NEW t \in Threads, Publish(t) PROVE SlotInv'
  BY <1>18 DEF Publish, UnlockEntry, Leave
<1>19. ASSUME NEW t \in Threads, SetFull(t) PROVE SlotInv'
  BY <1>19 DEF SetFull, UnlockAndRelease, UnlockEntry, Leave
<1>20. ASSUME NEW t \in Threads, End(t) PROVE SlotInv'
  BY <1>20 DEF End, Leave
<1>21. ASSUME NEW t \in Threads, WalkKeep(t) PROVE SlotInv'
  BY <1>21 DEF WalkKeep, NextSlot, UnlockEntry
<1>22. ASSUME NEW t \in Threads, WalkClear(t) PROVE SlotInv'
  BY <1>22 DEF WalkClear, UnlockAndRelease, UnlockEntry, Forget
<1>23. ASSUME NEW t \in Threads, WalkUnmap(t) PROVE SlotInv'
  BY <1>23 DEF WalkUnmap, NextSlot
<1> QED
  BY <1>1, <1>2, <1>3, <1>4, <1>5, <1>6, <1>7, <1>8, <1>9, <1>10, <1>11, <1>12,
     <1>13, <1>14, <1>15, <1>16, <1>17, <1>18, <1>19, <1>20, <1>21, <1>22, <1>23 DEF Next, Step

LEMMA GuardStep == IInv /\ [Next]_vars => GuardInv'
<1> SUFFICES ASSUME IInv, [Next]_vars PROVE GuardInv'
  OBVIOUS
<1> USE RoundTheMap, MapAssumption DEF IInv, TypeOK, GuardInv, Holds, Goto, At, shared, locals
<1>1. CASE UNCHANGED vars
  BY <1>1 DEF vars
<1>2. ASSUME NEW t \in Threads, NEW k \in Keys, NEW f \in {"get", "unset"}, LookupCall(t, f, k) PROVE GuardInv'
  BY <1>2 DEF LookupCall, Probe
<1>3. ASSUME NEW t \in Threads, NEW k \in Keys, NEW e \in Entries, SetCall(t, k, e) PROVE GuardInv'
  BY <1>3 DEF SetCall, Probe, CallInv, Here
<1>4. ASSUME NEW t \in Threads, WalkCall(t) PROVE GuardInv'
  BY <1>4 DEF WalkCall
<1>5. ASSUME NEW t \in Threads, LockSlot(t) PROVE GuardInv'
  BY <1>5 DEF LockSlot
<1>6. ASSUME NEW t \in Threads, SkipSlot(t) PROVE GuardInv'
  BY <1>6 DEF SkipSlot, NextSlot
<1>7. ASSUME NEW t \in Threads, MustCompare(t) PROVE GuardInv'
  BY <1>7 DEF MustCompare
<1>8. ASSUME NEW t \in Threads, LockEntry(t) PROVE GuardInv'
  BY <1>8 DEF LockEntry
<1>9. ASSUME NEW t \in Threads, SkipEntry(t) PROVE GuardInv'
  BY <1>9 DEF SkipEntry, NextSlot, UnlockEntry, CallInv, Here
<1>10. ASSUME NEW t \in Threads, GetMatch(t) PROVE GuardInv'
  BY <1>10 DEF GetMatch, Matches
<1>11. ASSUME NEW t \in Threads, GetReturn(t) PROVE GuardInv'
  BY <1>11 DEF GetReturn, CallInv, Here
<1>12. ASSUME NEW t \in Threads, UnlockGot(t) PROVE GuardInv'
  BY <1>12 DEF UnlockGot, UnlockEntry, Leave, CallInv, Here
<1>13. ASSUME NEW t \in Threads, UnsetMatch(t) PROVE GuardInv'
  BY <1>13 DEF UnsetMatch, Matches, Forget
<1>14. ASSUME NEW t \in Threads, Drop(t) PROVE GuardInv'
  BY <1>14 DEF Drop, UnlockAndRelease, UnlockEntry, Leave
<1>15. ASSUME NEW t \in Threads, SetEmpty(t) PROVE GuardInv'
  BY <1>15 DEF SetEmpty, Store
<1>16. ASSUME NEW t \in Threads, SetMatch(t) PROVE GuardInv'
  BY <1>16 DEF SetMatch, Matches, Store
<1>17. ASSUME NEW t \in Threads, DropOld(t) PROVE GuardInv'
  BY <1>17 DEF DropOld, UnlockAndRelease, UnlockEntry, CallInv, Here
<1>18. ASSUME NEW t \in Threads, Publish(t) PROVE GuardInv'
  BY <1>18 DEF Publish, UnlockEntry, Leave, CallInv, Here
<1>19. ASSUME NEW t \in Threads, SetFull(t) PROVE GuardInv'
  BY <1>19 DEF SetFull, UnlockAndRelease, UnlockEntry, Leave
<1>20. ASSUME NEW t \in Threads, End(t) PROVE GuardInv'
  BY <1>20 DEF End, Leave
<1>21. ASSUME NEW t \in Threads, WalkKeep(t) PROVE GuardInv'
  BY <1>21 DEF WalkKeep, NextSlot, UnlockEntry, CallInv, Here
<1>22. ASSUME NEW t \in Threads, WalkClear(t) PROVE GuardInv'
  BY <1>22 DEF WalkClear, UnlockAndRelease, UnlockEntry, Forget, CallInv, Here
<1>23. ASSUME NEW t \in Threads, WalkUnmap(t) PROVE GuardInv'
  BY <1>23 DEF WalkUnmap, NextSlot
<1> QED
  BY <1>1, <1>2, <1>3, <1>4, <1>5, <1>6, <1>7, <1>8, <1>9, <1>10, <1>11, <1>12,
     <1>13, <1>14, <1>15, <1>16, <1>17, <1>18, <1>19, <1>20, <1>21, <1>22, <1>23 DEF Next, Step

LEMMA CallStep == IInv /\ [Next]_vars => CallInv'
<1> SUFFICES ASSUME IInv, [Next]_vars PROVE CallInv'
  OBVIOUS
<1> USE RoundTheMap, MapAssumption DEF IInv, TypeOK, CallInv, GuardInv, SlotInv, MapInv, Holds, Settled, Here, Goto, At, shared, locals
<1>1. CASE UNCHANGED vars
  BY <1>1 DEF vars
<1>2. ASSUME NEW t \in Threads, NEW k \in Keys, NEW f \in {"get", "unset"}, LookupCall(t, f, k) PROVE CallInv'
  BY <1>2 DEF LookupCall, Probe
<1>3. ASSUME NEW t \in Threads, NEW k \in Keys, NEW e \in Entries, SetCall(t, k, e) PROVE CallInv'
  BY <1>3 DEF SetCall, Probe
<1>4. ASSUME NEW t \in Threads, WalkCall(t) PROVE CallInv'
  BY <1>4 DEF WalkCall
<1>5. ASSUME NEW t \in Threads, LockSlot(t) PROVE CallInv'
  BY <1>5 DEF LockSlot
<1>6. ASSUME NEW t \in Threads, SkipSlot(t) PROVE CallInv'
  BY <1>6 DEF SkipSlot, NextSlot
<1>7. ASSUME NEW t \in Threads, MustCompare(t) PROVE CallInv'
  BY <1>7 DEF MustCompare, Candidate
<1>8. ASSUME NEW t \in Threads, LockEntry(t) PROVE CallInv'
  BY <1>8 DEF LockEntry, Unmapped
<1>9. ASSUME NEW t \in Threads, SkipEntry(t) PROVE CallInv'
  BY <1>9 DEF SkipEntry, NextSlot, UnlockEntry
<1>10. ASSUME NEW t \in Threads, GetMatch(t) PROVE CallInv'
  BY <1>10 DEF GetMatch, Matches
<1>11. ASSUME NEW t \in Threads, GetReturn(t) PROVE CallInv'
  BY <1>11 DEF GetReturn
<1>12. ASSUME NEW t \in Threads, UnlockGot(t) PROVE CallInv'
  BY <1>12 DEF UnlockGot, UnlockEntry, Leave
<1>13. ASSUME NEW t \in Threads, UnsetMatch(t) PROVE CallInv'
  BY <1>13 DEF UnsetMatch, Matches, Forget
<1>14. ASSUME NEW t \in Threads, Drop(t) PROVE CallInv'
  BY <1>14 DEF Drop, UnlockAndRelease, UnlockEntry, Leave
<1>15. ASSUME NEW t \in Threads, SetEmpty(t) PROVE CallInv'
  BY <1>15 DEF SetEmpty, Store
<1>16. ASSUME NEW t \in Threads, SetMatch(t) PROVE CallInv'
  BY <1>16 DEF SetMatch, Matches, Store
<1>17. ASSUME NEW t \in Threads, DropOld(t) PROVE CallInv'
  BY <1>17 DEF DropOld, UnlockAndRelease, UnlockEntry
<1>18. ASSUME NEW t \in Threads, Publish(t) PROVE CallInv'
  BY <1>18 DEF Publish, UnlockEntry, Leave
<1>19. ASSUME NEW t \in Threads, SetFull(t) PROVE CallInv'
  BY <1>19 DEF SetFull, UnlockAndRelease, UnlockEntry, Leave
<1>20. ASSUME NEW t \in Threads, End(t) PROVE CallInv'
  BY <1>20 DEF End, Leave
<1>21. ASSUME NEW t \in Threads, WalkKeep(t) PROVE CallInv'
  BY <1>21 DEF WalkKeep, NextSlot, UnlockEntry
<1>22. ASSUME NEW t \in Threads, WalkClear(t) PROVE CallInv'
  BY <1>22 DEF WalkClear, UnlockAndRelease, UnlockEntry, Forget
<1>23. ASSUME NEW t \in Threads, WalkUnmap(t) PROVE CallInv'
  BY <1>23 DEF WalkUnmap, NextSlot
<1> HIDE DEF IInv, TypeOK, CallInv, GuardInv, SlotInv, MapInv, Holds, Settled, Here, Goto, At, shared, locals
<1> QED
  BY <1>1, <1>2, <1>3, <1>4, <1>5, <1>6, <1>7, <1>8, <1>9, <1>10, <1>11, <1>12,
     <1>13, <1>14, <1>15, <1>16, <1>17, <1>18, <1>19, <1>20, <1>21, <1>22, <1>23 DEF Next, Step

(***************************************************************************)
(* MapInv: the map, the entries outside it and the entries reserved.  Most *)
(* steps change none of the three.                                         *)
(***************************************************************************)

(* What an entry's single flag says about the threads that hold it. *)
LEMMA HeldByOne ==
  ASSUME IInv
  PROVE  /\ \A t \in Threads : Unmapped(t) \subseteq Holds(t) /\ Holds(t) \subseteq reserved
         /\ \A t, u \in Threads : t # u => Holds(t) \cap Holds(u) = {}
  BY MapAssumption DEF IInv, TypeOK, CallInv, GuardInv, Unmapped, Holds, At

LEMMA OthersKeep ==
  ASSUME NEW t \in Threads, Others(t)
  PROVE  \A u \in Threads \ {t} : Unmapped(u)' = Unmapped(u)
  BY DEF Others, Unmapped, At

LEMMA SettledKept ==
  ASSUME NEW t \in Threads, Others(t), entries' = entries, ~At(t, "unmap"), ~At(t, "unmap")'
  PROVE  \A s \in Slots : Settled(s)' = Settled(s)
  BY DEF Others, Settled, At

LEMMA MapKept ==
  ASSUME IInv, NEW t \in Threads, Others(t), entries' = entries, reserved' = reserved,
         \A s \in Slots : Settled(s)' = Settled(s), Unmapped(t)' = Unmapped(t)
  PROVE  MapInv'
  BY OthersKeep DEF IInv, MapInv

(* An entry outside the map is given back. *)
LEMMA MapReleased ==
  ASSUME IInv, NEW t \in Threads, Others(t), entries' = entries,
         \A s \in Slots : Settled(s)' = Settled(s),
         NEW e, Unmapped(t) = {e}, Unmapped(t)' = {}, reserved' = reserved \ {e}
  PROVE  MapInv'
<1>1. \A u \in Threads \ {t} : Unmapped(u)' = Unmapped(u) /\ e \notin Unmapped(u)
  BY OthersKeep, HeldByOne
<1> QED BY <1>1 DEF IInv, MapInv

(* Slot s gives up what it held and takes new instead. *)
LEMMA MapStored ==
  ASSUME IInv, NEW t \in Threads, Others(t), NEW s \in Slots, NEW new,
         entries' = [entries EXCEPT ![s] = new], reserved' = reserved,
         \A r \in Slots \ {s} : Settled(r)' = Settled(r),
         Settled(s)' <=> new # NULL,
         Unmapped(t) = IF new = NULL THEN {} ELSE {new},
         Unmapped(t)' = IF Settled(s) THEN {entries[s]} ELSE {}
  PROVE  MapInv'
<1>1. /\ entries'[s] = new
      /\ \A r \in Slots \ {s} : entries'[r] = entries[r]
  BY DEF IInv, TypeOK
<1>2. \A u \in Threads \ {t} : Unmapped(u)' = Unmapped(u) /\ (new # NULL => new \notin Unmapped(u))
  BY OthersKeep, HeldByOne
<1>3. new # NULL => new \in reserved
  BY HeldByOne
<1>4. \A r \in Slots : Settled(r)' => entries'[r] \in reserved'
  BY <1>1, <1>3 DEF IInv, MapInv
<1>5. \A q, r \in Slots : Settled(q)' /\ Settled(r)' /\ entries'[q] = entries'[r] => q = r
  BY <1>1 DEF IInv, MapInv
<1>6. \A u \in Threads : \A e \in Unmapped(u)' : \A r \in Slots : Settled(r)' => entries'[r] # e
  <2> SUFFICES ASSUME NEW u \in Threads, NEW e \in Unmapped(u)', NEW r \in Slots, Settled(r)'
               PROVE  entries'[r] # e
    OBVIOUS
  <2>1. CASE u = t
    BY <2>1, <1>1 DEF IInv, MapInv
  <2>2. CASE u # t
    BY <2>2, <1>1, <1>2 DEF IInv, MapInv
  <2> QED BY <2>1, <2>2
<1>7. \A e \in reserved' : \/ \E r \in Slots : Settled(r)' /\ entries'[r] = e
                           \/ \E u \in Threads : e \in Unmapped(u)'
  <2> SUFFICES ASSUME NEW e \in reserved
               PROVE  \/ \E r \in Slots : Settled(r)' /\ entries'[r] = e
                      \/ \E u \in Threads : e \in Unmapped(u)'
    OBVIOUS
  <2>1. CASE \E r \in Slots : Settled(r) /\ entries[r] = e
    BY <2>1, <1>1
  <2>2. CASE \E u \in Threads : e \in Unmapped(u)
    BY <2>2, <1>1, <1>2
  <2> QED BY <2>1, <2>2 DEF IInv, MapInv
<1> QED BY <1>4, <1>5, <1>6, <1>7 DEF MapInv

(* A thread reserves an entry and keeps it out of the map for now. *)
LEMMA MapTakes ==
  ASSUME IInv, NEW t \in Threads, entries' = entries,
         \A s \in Slots : Settled(s)' = Settled(s),
         NEW e, Unmapped(t) = {}, Unmapped(t)' = {e},
         \A u \in Threads \ {t} : Unmapped(u)' = Unmapped(u) /\ e \notin Unmapped(u),
         e \notin reserved, reserved' = reserved \cup {e}
  PROVE  MapInv'
<1>1. \A s \in Slots : Settled(s)' => entries'[s] \in reserved'
  BY DEF IInv, MapInv
<1>2. \A r, s \in Slots : Settled(r)' /\ Settled(s)' /\ entries'[r] = entries'[s] => r = s
  BY DEF IInv, MapInv
<1>3. \A u \in Threads : \A f \in Unmapped(u)' : \A s \in Slots : Settled(s)' => entries'[s] # f
  BY DEF IInv, MapInv
<1>4. \A f \in reserved' : \/ \E s \in Slots : Settled(s)' /\ entries'[s] = f
                           \/ \E u \in Threads : f \in Unmapped(u)'
  BY DEF IInv, MapInv
<1> QED BY <1>1, <1>2, <1>3, <1>4 DEF MapInv

LEMMA MapStep == IInv /\ [Next]_vars => MapInv'
<1> SUFFICES ASSUME IInv, [Next]_vars PROVE MapInv'
  OBVIOUS
<1> USE RoundTheMap, MapAssumption DEF IInv, TypeOK, Goto, At, shared, locals
<1>1. CASE UNCHANGED vars
  BY <1>1 DEF vars, MapInv, Settled, Unmapped
<1>2. ASSUME NEW t \in Threads, NEW k \in Keys, NEW f \in {"get", "unset"}, LookupCall(t, f, k) PROVE MapInv'
  <2>1. Others(t)
    BY <1>2 DEF Others, LookupCall, Probe
  <2>2. \A s \in Slots : Settled(s)' = Settled(s)
    BY <1>2, <2>1, SettledKept DEF LookupCall, Probe
  <2>3. Unmapped(t)' = Unmapped(t)
    BY <1>2 DEF Unmapped, CallInv, Here, LookupCall, Probe
  <2> QED BY <1>2, <2>1, <2>2, <2>3, MapKept DEF LookupCall, Probe
<1>3. ASSUME NEW t \in Threads, NEW k \in Keys, NEW e \in Entries, SetCall(t, k, e) PROVE MapInv'
  <2>1. Others(t)
    BY <1>3 DEF Others, SetCall, Probe
  <2>2. \A s \in Slots : Settled(s)' = Settled(s)
    BY <1>3, <2>1, SettledKept DEF SetCall, Probe
  <2>3. Unmapped(t) = {} /\ Unmapped(t)' = {e}
    BY <1>3 DEF Unmapped, SetCall, Probe
  <2>4. \A u \in Threads \ {t} : Unmapped(u)' = Unmapped(u) /\ e \notin Unmapped(u)
    BY <1>3, <2>1, OthersKeep, HeldByOne DEF SetCall, Probe
  <2>5. /\ entries' = entries
        /\ e \notin reserved
        /\ reserved' = reserved \cup {e}
    BY <1>3 DEF SetCall, Probe
  <2> QED BY <2>2, <2>3, <2>4, <2>5, MapTakes
<1>4. ASSUME NEW t \in Threads, WalkCall(t) PROVE MapInv'
  <2>1. Others(t)
    BY <1>4 DEF Others, WalkCall
  <2>2. \A s \in Slots : Settled(s)' = Settled(s)
    BY <1>4, <2>1, SettledKept DEF WalkCall
  <2>3. Unmapped(t)' = Unmapped(t)
    BY <1>4 DEF Unmapped, CallInv, Here, WalkCall
  <2> QED BY <1>4, <2>1, <2>2, <2>3, MapKept DEF WalkCall
<1>5. ASSUME NEW t \in Threads, LockSlot(t) PROVE MapInv'
  <2>1. Others(t)
    BY <1>5 DEF Others, LockSlot
  <2>2. \A s \in Slots : Settled(s)' = Settled(s)
    BY <1>5, <2>1, SettledKept DEF LockSlot
  <2>3. Unmapped(t)' = Unmapped(t)
    BY <1>5 DEF Unmapped, CallInv, Here, LockSlot
  <2> QED BY <1>5, <2>1, <2>2, <2>3, MapKept DEF LockSlot
<1>6. ASSUME NEW t \in Threads, SkipSlot(t) PROVE MapInv'
  <2>1. Others(t)
    BY <1>6 DEF Others, SkipSlot, NextSlot
  <2>2. \A s \in Slots : Settled(s)' = Settled(s)
    BY <1>6, <2>1, SettledKept DEF SkipSlot, NextSlot
  <2>3. Unmapped(t)' = Unmapped(t)
    BY <1>6 DEF Unmapped, CallInv, Here, SkipSlot, NextSlot
  <2> QED BY <1>6, <2>1, <2>2, <2>3, MapKept DEF SkipSlot, NextSlot
<1>7. ASSUME NEW t \in Threads, MustCompare(t) PROVE MapInv'
  <2>1. Others(t)
    BY <1>7 DEF Others, MustCompare
  <2>2. \A s \in Slots : Settled(s)' = Settled(s)
    BY <1>7, <2>1, SettledKept DEF MustCompare
  <2>3. Unmapped(t)' = Unmapped(t)
    BY <1>7 DEF Unmapped, CallInv, Here, MustCompare
  <2> QED BY <1>7, <2>1, <2>2, <2>3, MapKept DEF MustCompare
<1>8. ASSUME NEW t \in Threads, LockEntry(t) PROVE MapInv'
  <2>1. Others(t)
    BY <1>8 DEF Others, LockEntry
  <2>2. \A s \in Slots : Settled(s)' = Settled(s)
    BY <1>8, <2>1, SettledKept DEF LockEntry
  <2>3. Unmapped(t)' = Unmapped(t)
    BY <1>8 DEF Unmapped, CallInv, Here, LockEntry
  <2> QED BY <1>8, <2>1, <2>2, <2>3, MapKept DEF LockEntry
<1>9. ASSUME NEW t \in Threads, SkipEntry(t) PROVE MapInv'
  <2>1. Others(t)
    BY <1>9 DEF Others, SkipEntry, NextSlot, UnlockEntry
  <2>2. \A s \in Slots : Settled(s)' = Settled(s)
    BY <1>9, <2>1, SettledKept DEF SkipEntry, NextSlot, UnlockEntry
  <2>3. Unmapped(t)' = Unmapped(t)
    BY <1>9 DEF Unmapped, CallInv, Here, SkipEntry, NextSlot, UnlockEntry
  <2> QED BY <1>9, <2>1, <2>2, <2>3, MapKept DEF SkipEntry, NextSlot, UnlockEntry
<1>10. ASSUME NEW t \in Threads, GetMatch(t) PROVE MapInv'
  <2>1. Others(t)
    BY <1>10 DEF Others, GetMatch, Matches
  <2>2. \A s \in Slots : Settled(s)' = Settled(s)
    BY <1>10, <2>1, SettledKept DEF GetMatch, Matches
  <2>3. Unmapped(t)' = Unmapped(t)
    BY <1>10 DEF Unmapped, CallInv, Here, GetMatch, Matches
  <2> QED BY <1>10, <2>1, <2>2, <2>3, MapKept DEF GetMatch, Matches
<1>11. ASSUME NEW t \in Threads, GetReturn(t) PROVE MapInv'
  <2>1. Others(t)
    BY <1>11 DEF Others, GetReturn
  <2>2. \A s \in Slots : Settled(s)' = Settled(s)
    BY <1>11, <2>1, SettledKept DEF GetReturn
  <2>3. Unmapped(t)' = Unmapped(t)
    BY <1>11 DEF Unmapped, CallInv, Here, GetReturn
  <2> QED BY <1>11, <2>1, <2>2, <2>3, MapKept DEF GetReturn
<1>12. ASSUME NEW t \in Threads, UnlockGot(t) PROVE MapInv'
  <2>1. Others(t)
    BY <1>12 DEF Others, UnlockGot, UnlockEntry, Leave
  <2>2. \A s \in Slots : Settled(s)' = Settled(s)
    BY <1>12, <2>1, SettledKept DEF UnlockGot, UnlockEntry, Leave
  <2>3. Unmapped(t)' = Unmapped(t)
    BY <1>12 DEF Unmapped, CallInv, Here, UnlockGot, UnlockEntry, Leave
  <2> QED BY <1>12, <2>1, <2>2, <2>3, MapKept DEF UnlockGot, UnlockEntry, Leave
<1>13. ASSUME NEW t \in Threads, UnsetMatch(t) PROVE MapInv'
  <2>1. Others(t)
    BY <1>13 DEF Others, UnsetMatch, Matches, Forget
  <2>2. PICK s \in Slots : s = pos[t]
    OBVIOUS
  <2>3. entries' = [entries EXCEPT ![s] = NULL] /\ reserved' = reserved
    BY <1>13, <2>2 DEF UnsetMatch, Matches, Forget
  <2>4. \A r \in Slots \ {s} : Settled(r)' = Settled(r)
    BY <1>13, <2>1, <2>2, <2>3 DEF Others, Settled, UnsetMatch, Matches, Forget
  <2>5. ~Settled(s)'
    BY <1>13, <2>1, <2>2, <2>3 DEF Others, Settled, UnsetMatch, Matches, Forget
  <2>6. Unmapped(t) = {}
    BY <1>13 DEF Unmapped, UnsetMatch, Matches, Forget
  <2>7. Unmapped(t)' = IF Settled(s) THEN {entries[s]} ELSE {}
    BY <1>13, <2>2, <2>3 DEF Unmapped, Settled, SlotInv, CallInv, Here, UnsetMatch, Matches, Forget
  <2> QED BY <2>1, <2>3, <2>4, <2>5, <2>6, <2>7, MapStored
<1>14. ASSUME NEW t \in Threads, Drop(t) PROVE MapInv'
  <2>1. Others(t)
    BY <1>14 DEF Others, Drop, UnlockAndRelease, UnlockEntry, Leave
  <2>2. \A s \in Slots : Settled(s)' = Settled(s)
    BY <1>14, <2>1, SettledKept DEF Drop, UnlockAndRelease, UnlockEntry, Leave
  <2>3. Unmapped(t) = {occupant[t]} /\ Unmapped(t)' = {}
    BY <1>14 DEF Unmapped, Drop, UnlockAndRelease, UnlockEntry, Leave
  <2> QED BY <1>14, <2>1, <2>2, <2>3, MapReleased DEF Drop, UnlockAndRelease, UnlockEntry, Leave
<1>15. ASSUME NEW t \in Threads, SetEmpty(t) PROVE MapInv'
  <2>1. Others(t)
    BY <1>15 DEF Others, SetEmpty, Store
  <2>2. PICK s \in Slots : s = pos[t]
    OBVIOUS
  <2>3. entries' = [entries EXCEPT ![s] = entry[t]] /\ reserved' = reserved
    BY <1>15, <2>2 DEF SetEmpty, Store
  <2>4. \A r \in Slots \ {s} : Settled(r)' = Settled(r)
    BY <1>15, <2>1, <2>2, <2>3 DEF Others, Settled, SetEmpty, Store
  <2>5. entry[t] # NULL /\ Settled(s)'
    BY <1>15, <2>1, <2>2, <2>3 DEF Others, Settled, SlotInv, CallInv, Holds, SetEmpty, Store
  <2>6. Unmapped(t) = {entry[t]}
    BY <1>15 DEF Unmapped, SetEmpty, Store
  <2>7. Unmapped(t)' = IF Settled(s) THEN {entries[s]} ELSE {}
    BY <1>15, <2>2, <2>3 DEF Unmapped, Settled, SlotInv, CallInv, Here, SetEmpty, Store
  <2> QED BY <2>1, <2>3, <2>4, <2>5, <2>6, <2>7, MapStored
<1>16. ASSUME NEW t \in Threads, SetMatch(t) PROVE MapInv'
  <2>1. Others(t)
    BY <1>16 DEF Others, SetMatch, Matches, Store
  <2>2. PICK s \in Slots : s = pos[t]
    OBVIOUS
  <2>3. entries' = [entries EXCEPT ![s] = entry[t]] /\ reserved' = reserved
    BY <1>16, <2>2 DEF SetMatch, Matches, Store
  <2>4. \A r \in Slots \ {s} : Settled(r)' = Settled(r)
    BY <1>16, <2>1, <2>2, <2>3 DEF Others, Settled, SetMatch, Matches, Store
  <2>5. entry[t] # NULL /\ Settled(s)'
    BY <1>16, <2>1, <2>2, <2>3 DEF Others, Settled, SlotInv, CallInv, Holds, SetMatch, Matches, Store
  <2>6. Unmapped(t) = {entry[t]}
    BY <1>16 DEF Unmapped, SetMatch, Matches, Store
  <2>7. Unmapped(t)' = IF Settled(s) THEN {entries[s]} ELSE {}
    BY <1>16, <2>2, <2>3 DEF Unmapped, Settled, SlotInv, CallInv, Here, SetMatch, Matches, Store
  <2> QED BY <2>1, <2>3, <2>4, <2>5, <2>6, <2>7, MapStored
<1>17. ASSUME NEW t \in Threads, DropOld(t) PROVE MapInv'
  <2>1. Others(t)
    BY <1>17 DEF Others, DropOld, UnlockAndRelease, UnlockEntry
  <2>2. \A s \in Slots : Settled(s)' = Settled(s)
    BY <1>17, <2>1, SettledKept DEF DropOld, UnlockAndRelease, UnlockEntry
  <2>3. Unmapped(t) = {occupant[t]} /\ Unmapped(t)' = {}
    BY <1>17 DEF Unmapped, DropOld, UnlockAndRelease, UnlockEntry
  <2> QED BY <1>17, <2>1, <2>2, <2>3, MapReleased DEF DropOld, UnlockAndRelease, UnlockEntry
<1>18. ASSUME NEW t \in Threads, Publish(t) PROVE MapInv'
  <2>1. Others(t)
    BY <1>18 DEF Others, Publish, UnlockEntry, Leave
  <2>2. \A s \in Slots : Settled(s)' = Settled(s)
    BY <1>18, <2>1, SettledKept DEF Publish, UnlockEntry, Leave
  <2>3. Unmapped(t)' = Unmapped(t)
    BY <1>18 DEF Unmapped, CallInv, Here, Publish, UnlockEntry, Leave
  <2> QED BY <1>18, <2>1, <2>2, <2>3, MapKept DEF Publish, UnlockEntry, Leave
<1>19. ASSUME NEW t \in Threads, SetFull(t) PROVE MapInv'
  <2>1. Others(t)
    BY <1>19 DEF Others, SetFull, UnlockAndRelease, UnlockEntry, Leave
  <2>2. \A s \in Slots : Settled(s)' = Settled(s)
    BY <1>19, <2>1, SettledKept DEF SetFull, UnlockAndRelease, UnlockEntry, Leave
  <2>3. Unmapped(t) = {entry[t]} /\ Unmapped(t)' = {}
    BY <1>19 DEF Unmapped, SetFull, UnlockAndRelease, UnlockEntry, Leave
  <2> QED BY <1>19, <2>1, <2>2, <2>3, MapReleased DEF SetFull, UnlockAndRelease, UnlockEntry, Leave
<1>20. ASSUME NEW t \in Threads, End(t) PROVE MapInv'
  <2>1. Others(t)
    BY <1>20 DEF Others, End, Leave
  <2>2. \A s \in Slots : Settled(s)' = Settled(s)
    BY <1>20, <2>1, SettledKept DEF End, Leave
  <2>3. Unmapped(t)' = Unmapped(t)
    BY <1>20 DEF Unmapped, CallInv, Here, End, Leave
  <2> QED BY <1>20, <2>1, <2>2, <2>3, MapKept DEF End, Leave
<1>21. ASSUME NEW t \in Threads, WalkKeep(t) PROVE MapInv'
  <2>1. Others(t)
    BY <1>21 DEF Others, WalkKeep, NextSlot, UnlockEntry
  <2>2. \A s \in Slots : Settled(s)' = Settled(s)
    BY <1>21, <2>1, SettledKept DEF WalkKeep, NextSlot, UnlockEntry
  <2>3. Unmapped(t)' = Unmapped(t)
    BY <1>21 DEF Unmapped, CallInv, Here, WalkKeep, NextSlot, UnlockEntry
  <2> QED BY <1>21, <2>1, <2>2, <2>3, MapKept DEF WalkKeep, NextSlot, UnlockEntry
<1>22. ASSUME NEW t \in Threads, WalkClear(t) PROVE MapInv'
  <2>1. Others(t)
    BY <1>22 DEF Others, WalkClear, UnlockAndRelease, UnlockEntry, Forget
  <2>2. PICK s \in Slots : s = pos[t]
    OBVIOUS
  <2>3. Settled(s) /\ entries[s] = occupant[t]
    BY <1>22, <2>2 DEF Settled, SlotInv, CallInv, Here, WalkClear, UnlockAndRelease, UnlockEntry, Forget
  <2>4. ~Settled(s)' /\ \A r \in Slots \ {s} : Settled(r)' = Settled(r)
    BY <1>22, <2>1, <2>2 DEF Others, Settled, WalkClear, UnlockAndRelease, UnlockEntry, Forget
  <2>5. \A u \in Threads : Unmapped(u)' = Unmapped(u)
    BY <1>22, <2>1, OthersKeep DEF Unmapped, WalkClear, UnlockAndRelease, UnlockEntry, Forget
  <2>6. entries' = entries /\ reserved' = reserved \ {occupant[t]}
    BY <1>22 DEF WalkClear, UnlockAndRelease, UnlockEntry, Forget
  <2>7. /\ \A r \in Slots : Settled(r)' => Settled(r) /\ r # s
        /\ \A r, q \in Slots : Settled(r) /\ Settled(q) /\ entries[r] = entries[q] => r = q
        /\ \A r \in Slots : Settled(r) => entries[r] \in reserved
    BY <2>4 DEF MapInv
  <2>8. /\ \A u \in Threads : \A e \in Unmapped(u) : \A r \in Slots : Settled(r) => entries[r] # e
        /\ \A e \in reserved : \/ \E r \in Slots : Settled(r) /\ entries[r] = e
                               \/ \E u \in Threads : e \in Unmapped(u)
    BY DEF MapInv
  <2> HIDE DEF IInv, TypeOK, Settled, Goto, At, shared, locals
  <2>9. \A r \in Slots : Settled(r)' => entries'[r] \in reserved'
    BY <2>3, <2>6, <2>7
  <2>10. \A e \in reserved' : \/ \E r \in Slots : Settled(r)' /\ entries'[r] = e
                             \/ \E u \in Threads : e \in Unmapped(u)'
    BY <2>3, <2>4, <2>5, <2>6, <2>8
  <2> QED BY <2>5, <2>6, <2>7, <2>8, <2>9, <2>10 DEF MapInv
<1>23. ASSUME NEW t \in Threads, WalkUnmap(t) PROVE MapInv'
  <2>1. Others(t)
    BY <1>23 DEF Others, WalkUnmap, NextSlot
  <2>2. PICK s \in Slots : s = pos[t]
    OBVIOUS
  <2>3. entries' = [entries EXCEPT ![s] = NULL] /\ reserved' = reserved
    BY <1>23, <2>2 DEF WalkUnmap, NextSlot
  <2>4. \A r \in Slots \ {s} : Settled(r)' = Settled(r)
    BY <1>23, <2>1, <2>2, <2>3 DEF Others, Settled, WalkUnmap, NextSlot
  <2>5. ~Settled(s)'
    BY <1>23, <2>1, <2>2, <2>3 DEF Others, Settled, WalkUnmap, NextSlot
  <2>6. Unmapped(t) = {}
    BY <1>23 DEF Unmapped, WalkUnmap, NextSlot
  <2>7. Unmapped(t)' = IF Settled(s) THEN {entries[s]} ELSE {}
    BY <1>23, <2>2, <2>3 DEF Unmapped, Settled, SlotInv, CallInv, Here, WalkUnmap, NextSlot
  <2> QED BY <2>1, <2>3, <2>4, <2>5, <2>6, <2>7, MapStored
<1> QED
  BY <1>1, <1>2, <1>3, <1>4, <1>5, <1>6, <1>7, <1>8, <1>9, <1>10, <1>11, <1>12,
     <1>13, <1>14, <1>15, <1>16, <1>17, <1>18, <1>19, <1>20, <1>21, <1>22, <1>23 DEF Next, Step

(***************************************************************************)
(* The theorems.                                                           *)
(***************************************************************************)

(* The two kinds of flags protect what they should in every reachable      *)
(* state, whatever the threads call and in whatever order they run.        *)
THEOREM Invariance == Spec => []IInv
<1>1. Init => IInv
  BY InitIInv
<1>2. IInv /\ [Next]_vars => IInv'
  BY TypeStep, SlotStep, GuardStep, CallStep, MapStep DEF IInv
<1> QED BY <1>1, <1>2, PTL DEF Spec

(* The variables of entry.c keep their types; no probe leaves the map.     *)
THEOREM TypeCorrect == Spec => []TypeOK
<1>1. IInv => TypeOK
  BY DEF IInv
<1> QED BY <1>1, Invariance, PTL

(* An entry that get, unset, set or a callback works on (entry.c:62-251)   *)
(* is reserved and locked by the thread that does so.                      *)
THEOREM NoUseAfterRelease == Spec => []HeldIsLocked
<1>1. IInv => HeldIsLocked
  BY DEF IInv, CallInv, GuardInv, TypeOK, HeldIsLocked
<1> QED BY <1>1, Invariance, PTL

(* A slot that t has locked holds a settled entry or none. *)
LEMMA GuardedSlot ==
  ASSUME IInv, NEW t \in Threads, pc[t] \in {"lock_entry", "compare"}
  PROVE  pos[t] \in Slots /\ Settled(pos[t])
  BY DEF IInv, TypeOK, SlotInv, CallInv, Settled, Here, At

(* LOCK_ENTRY_AND_LOG_SPIN (entry.c:14-22) spins on entries that are       *)
(* reserved as long as it spins.                                           *)
THEOREM SpinsSafely == Spec => []SpinsOnLiveEntry
<1>1. IInv => SpinsOnLiveEntry
  BY GuardedSlot DEF IInv, MapInv, SpinsOnLiveEntry, At, Here
<1> QED BY <1>1, Invariance, PTL

(* get may read the slot again without its guard (entry.c:84-85): the      *)
(* entry's own flag keeps the entry there.                                 *)
THEOREM UnguardedReadIsStable == Spec => []GetReturnsItsMatch
<1>1. IInv => GetReturnsItsMatch
  BY DEF IInv, CallInv, GetReturnsItsMatch, At, Here
<1> QED BY <1>1, Invariance, PTL

(* No entry is leaked or mapped twice by entry.c and its callers.          *)
THEOREM NothingLeaks == Spec => []EntriesAccountedFor
<1> SUFFICES ASSUME IInv PROVE EntriesAccountedFor
  BY Invariance, PTL
<1> USE DEF IInv, MapInv
<1>1. reserved = {entries[s] : s \in {r \in Slots : Settled(r)}} \cup UNION {Holds(t) : t \in Threads}
  BY HeldByOne
<1>2. \A t \in Threads, s \in Slots :
        op[t] = "set" /\ pc[t] \in {"lock_slot", "examine", "lock_entry", "compare", "end"}
          => ~(Settled(s) /\ entries[s] = entry[t])
  BY DEF Unmapped
<1> QED BY <1>1, <1>2 DEF EntriesAccountedFor

(***************************************************************************)
(* Lookups.  Whatever other threads do to the map, an entry that has been  *)
(* under the key all along stays in its slot, and a lookup that passes the *)
(* slot would have found it.                                               *)
(***************************************************************************)

LEMMA NextBetween ==
  ASSUME NEW h \in Slots, NEW p \in Slots
  PROVE  /\ Between(h, h) \cap Slots = {}
         /\ (p + 1) % Size = h => \A s \in Slots : s \in Between(h, p) \/ s = p
         /\ (p + 1) % Size # h =>
              \A s \in Slots : s \in Between(h, (p + 1) % Size) => s \in Between(h, p) \/ s = p
<1>1. Size \in Nat \ {0} /\ h \in Int /\ p \in Int /\ 0 <= h /\ h < Size /\ 0 <= p /\ p < Size
  BY MapAssumption DEF Slots
<1>2. \A s \in Slots : s \in Int /\ 0 <= s /\ s < Size
  BY MapAssumption DEF Slots
<1>3. (p + 1) % Size = IF p = Size - 1 THEN 0 ELSE p + 1
  BY <1>1
<1>4. Between(h, h) \cap Slots = {}
  BY <1>1 DEF Between
<1> DEFINE n == IF p = Size - 1 THEN 0 ELSE p + 1
<1>5. n = h => \A s \in Slots : s \in Between(h, p) \/ s = p
  BY <1>1, <1>2 DEF Between
<1>6. n # h => \A s \in Slots : s \in Between(h, n) => s \in Between(h, p) \/ s = p
  BY <1>1, <1>2 DEF Between
<1> QED BY <1>3, <1>4, <1>5, <1>6

LEMMA AheadKept ==
  ASSUME IInv, AheadInv, NEW t \in Threads, Others(t), NEW G,
         \A u \in Threads \ {t} : present'[u] \subseteq present[u] \ G,
         \A s \in Slots : Settled(s) /\ entries[s] \notin G =>
           Settled(s)' /\ entries'[s] = entries[s] /\ key'[entries[s]] = key[entries[s]],
         Looking(t)' =>
           /\ Looking(t) /\ want'[t] = want[t] /\ present'[t] \subseteq present[t] \ G
           /\ \A s \in Slots : s \in Passed(t)' =>
                \/ s \in Passed(t)
                \/ s = pos[t] /\ ~(Settled(s) /\ key[entries[s]] = want[t])
  PROVE  AheadInv'
<1> SUFFICES ASSUME NEW u \in Threads, Looking(u)', NEW e \in present'[u]
             PROVE  \E s \in Slots \ Passed(u)' :
                      Settled(s)' /\ entries'[s] = e /\ key'[e] = want'[u]
  BY DEF AheadInv
<1>1. Looking(u) /\ want'[u] = want[u] /\ e \in present[u] /\ e \notin G
  BY DEF Others, Looking, At
<1>2. PICK s \in Slots \ Passed(u) : Settled(s) /\ entries[s] = e /\ key[e] = want[u]
  BY <1>1 DEF AheadInv
<1>3. s \notin Passed(u)'
  <2>1. CASE u = t
    BY <1>1, <1>2, <2>1
  <2>2. CASE u # t
    <3>1. Passed(u)' = Passed(u)
      BY <2>2 DEF Others, Passed, At
    <3> QED BY <1>2, <3>1
  <2> QED BY <2>1, <2>2
<1>4. Settled(s)' /\ entries'[s] = e /\ key'[e] = want'[u]
  BY <1>1, <1>2
<1> QED BY <1>2, <1>3, <1>4

(* NextSlot passes one slot, which holds nothing under the key. *)
LEMMA AheadMoves ==
  ASSUME IInv, NEW t \in Threads, NextSlot(t), op'[t] = op[t], want'[t] = want[t],
         pc[t] \in {"examine", "compare"}, Looking(t)
  PROVE  \A s \in Slots : s \in Passed(t)' => s \in Passed(t) \/ s = pos[t]
<1> DEFINE h == Slot(want[t])
           p == pos[t]
<1>1. h \in Slots /\ p \in Slots /\ want[t] \in Keys
  BY RoundTheMap DEF IInv, CallInv, Looking, TypeOK
<1>2. /\ pos'[t] = (p + 1) % Size
      /\ pc'[t] = IF (p + 1) % Size = h THEN "end" ELSE "lock_slot"
  BY DEF NextSlot, LastSlot, Goto, IInv, TypeOK, Looking
<1>3. Passed(t) = Between(h, p)
  BY DEF Passed, At
<1>4. Passed(t)' = IF (p + 1) % Size = h THEN Slots ELSE Between(h, (p + 1) % Size)
  BY <1>2 DEF Passed, At, Slot, Slots
<1> HIDE DEF h, p
<1> QED BY <1>1, <1>3, <1>4, NextBetween DEF p

(* The same when nothing leaves the map. *)
LEMMA AheadSame ==
  ASSUME IInv, AheadInv, NEW t \in Threads, Others(t),
         \A u \in Threads \ {t} : present'[u] \subseteq present[u],
         entries' = entries, \A s \in Slots : Settled(s)' = Settled(s),
         \A s \in Slots : Settled(s) => key'[entries[s]] = key[entries[s]],
         Looking(t)' =>
           /\ Looking(t) /\ want'[t] = want[t] /\ present'[t] \subseteq present[t]
           /\ \A s \in Slots : s \in Passed(t)' =>
                \/ s \in Passed(t)
                \/ s = pos[t] /\ ~(Settled(s) /\ key[entries[s]] = want[t])
  PROVE  AheadInv'
<1> DEFINE G == {}
<1>1. \A u \in Threads : present'[u] \subseteq present[u] => present'[u] \subseteq present[u] \ G
  OBVIOUS
<1> HIDE DEF G
<1> QED BY <1>1, AheadKept

LEMMA AheadInit == Init => AheadInv
  BY DEF Init, AheadInv, Looking

(* The steps that leave the map as it is, and those that move on in it.    *)
LEMMA AheadQuiet ==
  ASSUME IInv, AheadInv, NEW t \in Threads,
         \/ LockSlot(t) \/ MustCompare(t) \/ LockEntry(t)
         \/ GetMatch(t) \/ GetReturn(t) \/ UnlockGot(t) \/ Publish(t) \/ End(t)
         \/ WalkKeep(t) \/ WalkCall(t)
  PROVE  AheadInv'
<1> USE DEF IInv, TypeOK, Goto, At, shared, locals
<1>1. Others(t) /\ \A u \in Threads \ {t} : present'[u] \subseteq present[u]
  BY DEF LockSlot, MustCompare, LockEntry, GetMatch, GetReturn, UnlockGot, Publish, End,
         WalkKeep, WalkCall, NextSlot, Leave, Others
<1>2. entries' = entries /\ key' = key /\ pc[t] # "unmap" /\ pc'[t] # "unmap"
  BY DEF LockSlot, MustCompare, LockEntry, GetMatch, GetReturn, UnlockGot, Publish, End,
         WalkKeep, WalkCall, NextSlot, Leave, Matches
<1>3. \A s \in Slots : Settled(s)' = Settled(s)
  BY <1>1, <1>2, SettledKept
<1>4. Looking(t)' => LockSlot(t) \/ MustCompare(t) \/ LockEntry(t)
  BY DEF LockSlot, MustCompare, LockEntry, GetMatch, GetReturn, UnlockGot, Publish, End,
         WalkKeep, WalkCall, NextSlot, Leave, Matches, Looking
<1>5. Looking(t)' => /\ Looking(t) /\ want'[t] = want[t] /\ present'[t] \subseteq present[t]
                     /\ \A s \in Slots : s \in Passed(t)' => s \in Passed(t)
  BY <1>4 DEF LockSlot, MustCompare, LockEntry, Looking, Passed
<1> QED BY <1>1, <1>2, <1>3, <1>5, AheadSame

LEMMA AheadSkips ==
  ASSUME IInv, AheadInv, NEW t \in Threads, SkipSlot(t) \/ SkipEntry(t)
  PROVE  AheadInv'
<1> USE DEF IInv, TypeOK, At
<1>1. Others(t) /\ present' = present
  BY DEF SkipSlot, SkipEntry, NextSlot, Goto, Others
<1>2. /\ entries' = entries /\ key' = key /\ pc[t] \in {"examine", "compare"}
      /\ pc'[t] \in {"end", "lock_slot"} /\ op' = op /\ want' = want /\ NextSlot(t)
  BY DEF SkipSlot, SkipEntry, NextSlot, Goto
<1>3. \A s \in Slots : Settled(s)' = Settled(s)
  BY <1>1, <1>2, SettledKept
<1>4. ASSUME Looking(t)'
      PROVE  /\ Looking(t)
             /\ \A s \in Slots : s \in Passed(t)' => s \in Passed(t) \/ s = pos[t]
             /\ ~(Settled(pos[t]) /\ key[entries[pos[t]]] = want[t])
  <2>1. Looking(t)
    BY <1>2, <1>4 DEF Looking
  <2>2. \A s \in Slots : s \in Passed(t)' => s \in Passed(t) \/ s = pos[t]
    BY <1>2, <2>1, AheadMoves
  <2>3. CASE SkipSlot(t)
    BY <2>1, <2>2, <2>3 DEF SkipSlot, Candidate, Here, Settled, Looking
  <2>4. CASE SkipEntry(t)
    BY <2>1, <2>2, <2>4 DEF SkipEntry, CallInv, Here
  <2> QED BY <2>3, <2>4
<1>5. Looking(t)' =>
        /\ Looking(t) /\ want'[t] = want[t] /\ present'[t] \subseteq present[t]
        /\ \A s \in Slots : s \in Passed(t)' =>
             \/ s \in Passed(t)
             \/ s = pos[t] /\ ~(Settled(s) /\ key[entries[s]] = want[t])
  BY <1>1, <1>2, <1>4
<1> QED BY <1>1, <1>2, <1>3, <1>5, AheadSame

(* A key is written into memory that is in no slot, or wiped there.        *)
LEMMA AheadOutside ==
  ASSUME IInv, AheadInv, NEW t \in Threads, Others(t), entries' = entries,
         pc[t] # "unmap", pc'[t] # "unmap", ~Looking(t)',
         \A u \in Threads \ {t} : present'[u] \subseteq present[u],
         NEW e, \A s \in Slots : Settled(s) => entries[s] # e,
         NEW k, key' = [key EXCEPT ![e] = k]
  PROVE  AheadInv'
<1>1. \A s \in Slots : Settled(s)' = Settled(s)
  BY SettledKept DEF At
<1>2. \A s \in Slots : Settled(s) => key'[entries[s]] = key[entries[s]]
  BY DEF IInv, TypeOK, Settled
<1> QED BY <1>1, <1>2, AheadSame

LEMMA AheadWrites ==
  ASSUME IInv, AheadInv, NEW t \in Threads,
         \/ Drop(t) \/ DropOld(t) \/ SetFull(t)
         \/ \E k \in Keys, e \in Entries : SetCall(t, k, e)
  PROVE  AheadInv'
<1> USE DEF IInv, TypeOK, Goto, At, shared, locals
<1>1. /\ Others(t) /\ \A u \in Threads \ {t} : present'[u] \subseteq present[u]
      /\ entries' = entries /\ pc[t] # "unmap" /\ pc'[t] # "unmap" /\ ~Looking(t)'
  BY DEF Drop, DropOld, SetFull, SetCall, Probe, UnlockAndRelease, Leave, Others, Looking
<1>2. CASE Drop(t) \/ DropOld(t)
  <2>1. key' = [key EXCEPT ![occupant[t]] = NULL] /\ occupant[t] \in Unmapped(t)
    BY <1>2 DEF Drop, DropOld, UnlockAndRelease, Unmapped
  <2>2. \A s \in Slots : Settled(s) => entries[s] # occupant[t]
    BY <2>1 DEF MapInv
  <2> QED BY <1>1, <2>1, <2>2, AheadOutside
<1>3. CASE SetFull(t)
  <2>1. key' = [key EXCEPT ![entry[t]] = NULL] /\ entry[t] \in Unmapped(t)
    BY <1>3 DEF SetFull, UnlockAndRelease, Unmapped
  <2>2. \A s \in Slots : Settled(s) => entries[s] # entry[t]
    BY <2>1 DEF MapInv
  <2> QED BY <1>1, <2>1, <2>2, AheadOutside
<1>4. ASSUME NEW k \in Keys, NEW e \in Entries, SetCall(t, k, e) PROVE AheadInv'
  <2>1. key' = [key EXCEPT ![e] = k] /\ \A s \in Slots : Settled(s) => entries[s] # e
    BY <1>4 DEF SetCall, MapInv
  <2> QED BY <1>1, <2>1, AheadOutside
<1> QED BY <1>2, <1>3, <1>4

(* What leaves a slot is no longer in any present; an empty slot is filled *)
(* at nobody's expense.                                                    *)
LEMMA AheadStores ==
  ASSUME IInv, AheadInv, NEW t \in Threads, UnsetMatch(t) \/ SetEmpty(t) \/ SetMatch(t)
  PROVE  AheadInv'
<1> USE DEF IInv, TypeOK, Goto, At, locals
<1> DEFINE G == IF SetEmpty(t) THEN {} ELSE {occupant[t]}
<1>1. Others(t) /\ pc[t] # "unmap" /\ pc'[t] \in {"drop", "publish"} /\ key' = key
  BY DEF UnsetMatch, SetEmpty, SetMatch, Matches, Store, Others
<1>2. \A u \in Threads \ {t} : present'[u] \subseteq present[u] \ G
  BY DEF UnsetMatch, SetEmpty, SetMatch, Matches, Forget
<1>3. ~Looking(t)'
  BY <1>1 DEF Looking
<1>4. \A s \in Slots \ {pos[t]} : entries'[s] = entries[s]
  BY DEF UnsetMatch, SetEmpty, SetMatch, Matches, Store
<1>5. Settled(pos[t]) => entries[pos[t]] \in G
  BY DEF UnsetMatch, SetEmpty, SetMatch, Matches, CallInv, Here, Settled
<1>6. \A s \in Slots : Settled(s) /\ entries[s] \notin G =>
        Settled(s)' /\ entries'[s] = entries[s] /\ key'[entries[s]] = key[entries[s]]
  BY <1>1, <1>4, <1>5 DEF Settled, Others
<1> HIDE DEF G
<1> QED BY <1>1, <1>2, <1>3, <1>6, AheadKept

LEMMA AheadClears ==
  ASSUME IInv, AheadInv, NEW t \in Threads, WalkClear(t) \/ WalkUnmap(t)
  PROVE  AheadInv'
<1> USE DEF IInv, TypeOK, At, locals
<1> DEFINE G == IF WalkClear(t) THEN {occupant[t]} ELSE {}
<1>1. Others(t) /\ op[t] = "walk" /\ op' = op
  BY DEF WalkClear, WalkUnmap, NextSlot, Goto, Others, CallInv
<1>2. \A u \in Threads \ {t} : present'[u] \subseteq present[u] \ G
  BY DEF WalkClear, WalkUnmap, Forget
<1>3. ~Looking(t)'
  BY <1>1 DEF Looking
<1>4. ASSUME NEW s \in Slots, Settled(s), entries[s] \notin G
      PROVE  Settled(s)' /\ entries'[s] = entries[s] /\ key'[entries[s]] = key[entries[s]]
  <2>1. CASE WalkClear(t)
    <3>1. occupant[t] = entries[pos[t]] /\ entries' = entries
          /\ key' = [key EXCEPT ![occupant[t]] = NULL] /\ pos' = pos
      BY <2>1 DEF WalkClear, CallInv, Here, UnlockAndRelease
    <3>2. s # pos[t] /\ entries[s] # occupant[t]
      BY <1>4, <2>1, <3>1
    <3> QED BY <1>1, <1>4, <3>1, <3>2 DEF Settled, Others
  <2>2. CASE WalkUnmap(t)
    <3>1. /\ entries' = [entries EXCEPT ![pos[t]] = NULL] /\ key' = key /\ pc[t] = "unmap"
          /\ pc'[t] # "unmap"
      BY <2>2 DEF WalkUnmap, NextSlot, Goto
    <3>2. s # pos[t]
      BY <1>4, <3>1 DEF Settled
    <3> QED BY <1>1, <1>4, <3>1, <3>2 DEF Settled, Others
  <2> QED BY <2>1, <2>2
<1> HIDE DEF G
<1> QED BY <1>1, <1>2, <1>3, <1>4, AheadKept

(* A lookup begins with everything ahead of it.                            *)
LEMMA AheadBegins ==
  ASSUME IInv, AheadInv, NEW t \in Threads, NEW k \in Keys, NEW f \in {"get", "unset"},
         LookupCall(t, f, k)
  PROVE  AheadInv'
<1> USE DEF IInv, TypeOK, At, Goto, shared
<1>1. /\ Others(t) /\ pc[t] # "unmap" /\ entries' = entries /\ key' = key
      /\ pc'[t] = "lock_slot" /\ want'[t] = k /\ pos'[t] = Slot(k)
      /\ present'[t] = {entries[s] : s \in Holding(k)}
      /\ \A u \in Threads \ {t} : present'[u] = present[u]
  BY DEF LookupCall, Probe, Others
<1>2. \A s \in Slots : Settled(s)' = Settled(s)
  BY <1>1, SettledKept
<1>3. Passed(t)' \cap Slots = {}
  <2>1. Passed(t)' = Between(Slot(k), Slot(k))
    BY <1>1 DEF Passed, Slot
  <2> QED BY <2>1, RoundTheMap, NextBetween
<1>4. ASSUME NEW e \in present'[t]
      PROVE  \E s \in Slots \ Passed(t)' : Settled(s)' /\ entries'[s] = e /\ key'[e] = want'[t]
  <2>1. PICK s \in Holding(k) : e = entries[s]
    BY <1>1
  <2>2. s \in Slots \ Passed(t)' /\ Settled(s)' /\ entries'[s] = e /\ key'[e] = want'[t]
    BY <1>1, <1>2, <1>3, <2>1 DEF Holding
  <2> QED BY <2>2
<1>5. ASSUME NEW u \in Threads \ {t}, Looking(u)', NEW e \in present'[u]
      PROVE  \E s \in Slots \ Passed(u)' : Settled(s)' /\ entries'[s] = e /\ key'[e] = want'[u]
  <2>1. Looking(u) /\ Passed(u)' = Passed(u) /\ want'[u] = want[u] /\ e \in present[u]
    BY <1>1, <1>5 DEF Others, Looking, Passed
  <2>2. PICK s \in Slots \ Passed(u) : Settled(s) /\ entries[s] = e /\ key[e] = want[u]
    BY <2>1 DEF AheadInv
  <2> QED BY <1>1, <1>2, <2>1, <2>2
<1> QED BY <1>4, <1>5 DEF AheadInv

(* A lookup that reaches the end has passed every slot: what was under the *)
(* key all along (entry.c:62-127) would still have to lie ahead of it.     *)
THEOREM MissesAreReal == Spec => []NoFalseMiss
<1>1. IInv /\ AheadInv /\ [Next]_vars => AheadInv'
  <2> SUFFICES ASSUME IInv, AheadInv, [Next]_vars PROVE AheadInv'
    OBVIOUS
  <2>1. CASE UNCHANGED vars
    BY <2>1 DEF vars, AheadInv, Looking, Passed, Settled, At
  <2>2. ASSUME NEW t \in Threads, Step(t) PROVE AheadInv'
    BY <2>2, AheadQuiet, AheadSkips, AheadWrites, AheadStores, AheadClears DEF Step
  <2>3. ASSUME NEW t \in Threads, WalkCall(t) PROVE AheadInv'
    BY <2>3, AheadQuiet
  <2>4. ASSUME NEW t \in Threads, NEW k \in Keys, NEW e \in Entries, SetCall(t, k, e) PROVE AheadInv'
    BY <2>4, AheadWrites
  <2>5. ASSUME NEW t \in Threads, NEW k \in Keys, NEW f \in {"get", "unset"}, LookupCall(t, f, k)
        PROVE  AheadInv'
    BY <2>5, AheadBegins
  <2> QED BY <2>1, <2>2, <2>3, <2>4, <2>5 DEF Next
<1>2. AheadInv => NoFalseMiss
  BY DEF AheadInv, NoFalseMiss, Looking, Passed, At
<1> QED BY <1>1, <1>2, AheadInit, Invariance, PTL DEF Spec

(* No set of threads waits only for its own members: among threads that    *)
(* all spin, the one that spins on an entry waits for nobody who spins,    *)
(* because who spins has locked at most one slot and, in a set, an entry   *)
(* that no slot names.                                                     *)
LEMMA NoCircle == ASSUME IInv PROVE NoCircularWait
<1> SUFFICES ASSUME NEW S \in SUBSET Threads, S # {}
             PROVE  \E t \in S : WaitsFor(t) \cap S = {}
  BY DEF NoCircularWait
<1> DEFINE Spins(t) == pc[t] \in {"lock_slot", "lock_entry"}
<1>1. CASE \E t \in S : ~Spins(t)
  BY <1>1 DEF WaitsFor, At
<1>2. CASE (\A t \in S : Spins(t)) /\ \E t \in S : At(t, "lock_entry")
  <2>1. PICK t \in S : At(t, "lock_entry")
    BY <1>2
  <2>2. ASSUME NEW u \in S, guard[Here(t)] = u PROVE FALSE
    <3>1. Settled(pos[t]) /\ pos[t] \in Slots /\ Here(t) \in Entries
      BY <2>1, GuardedSlot DEF IInv, TypeOK, At, Here, Settled
    <3>2. Here(t) \in Holds(u)
      BY <2>2, <3>1 DEF IInv, GuardInv
    <3>3. Here(t) \in Unmapped(u)
      BY <3>2, <1>2 DEF Holds, Unmapped
    <3> QED BY <3>1, <3>3 DEF IInv, MapInv, Here
  <2> QED BY <2>1, <2>2 DEF WaitsFor, At
<1>3. CASE \A t \in S : At(t, "lock_slot")
  BY <1>3 DEF IInv, TypeOK, SlotInv, WaitsFor, At
<1> QED BY <1>1, <1>2, <1>3 DEF At

(* The order slot before entry, and the lock that a set keeps on its own   *)
(* new entry meanwhile, never end in a circle of spinning threads.         *)
THEOREM NoDeadlock == Spec => []NoCircularWait
BY NoCircle, Invariance, PTL
=============================================================================
