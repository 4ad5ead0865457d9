------------------------------ MODULE EntryMap ------------------------------
(***************************************************************************)
(* One hash map of src/src/entry.c, shared by the threads that serve       *)
(* clients, one lock operation per step.                                   *)
(*                                                                         *)
(* A slot is protected by its guard in the map, an entry by the guard in   *)
(* the entry.  A probe locks the slot first and the entry it finds second; *)
(* get and unset give the entry, still locked, to their caller.  The       *)
(* actions marked "caller" are what controller.c does with it.             *)
(*                                                                         *)
(* mask and hashes are written together with entries under the guard of    *)
(* the slot and are derived from it: mask[s] is entries[s] # NULL, and     *)
(* hashes[s] the hash of the key of entries[s].                            *)
(***************************************************************************)
EXTENDS Integers

CONSTANTS
  Threads,   \* the threads that use the map
  Keys,      \* the keys that fall into this map
  Entries,   \* the blocks of memory that entries are reserved from
  Size,      \* CACHE_ENTRY_MAP_SIZE
  Hash,      \* Hash[k]: get_key_hash
  NULL

ASSUME MapAssumption ==
  /\ Size \in Nat \ {0}
  /\ Hash \in [Keys -> Nat]
  /\ NULL \notin Threads \cup Keys \cup Entries

VARIABLES
  guards,     \* guards[s]: the thread that set the flag of slot s, or NULL
  entries,    \* entries[s]: the entry in slot s, or NULL
  guard,      \* guard[e]: the thread that set the flag of entry e, or NULL
  key,        \* key[e]: the key written into entry e
  reserved,   \* the entries not given back to the allocator
  pc,         \* what each thread does next
  op,         \* the function each thread is in
  want,       \* want[t]: the key t looks for
  pos,        \* pos[t]: the slot t is at
  entry,      \* entry[t]: the new entry of a set
  occupant,   \* occupant[t]: the entry t found and locked
  present     \* history: entries under want[t] ever since t's call began

shared == <<guards, entries, guard, key, reserved>>
locals == <<op, want, pos, entry, occupant>>
vars == <<guards, entries, guard, key, reserved, pc, op, want, pos, entry,
          occupant, present>>

Slots == 0 .. Size - 1
Ops == {"get", "unset", "set", "walk"}
Labels == {"idle", "lock_slot", "examine", "lock_entry", "compare", "return",
           "use", "drop", "publish", "unmap", "end"}

TypeOK ==
  /\ guards \in [Slots -> Threads \cup {NULL}]
  /\ entries \in [Slots -> Entries \cup {NULL}]
  /\ guard \in [Entries -> Threads \cup {NULL}]
  /\ key \in [Entries -> Keys \cup {NULL}]
  /\ reserved \subseteq Entries
  /\ pc \in [Threads -> Labels]
  /\ op \in [Threads -> Ops]
  /\ want \in [Threads -> Keys \cup {NULL}]
  /\ pos \in [Threads -> Slots]
  /\ entry \in [Threads -> Entries \cup {NULL}]
  /\ occupant \in [Threads -> Entries \cup {NULL}]
  /\ present \in [Threads -> SUBSET Entries]

(***************************************************************************)
(* Shared vocabulary.                                                      *)
(***************************************************************************)

Goto(t, label) == pc' = [pc EXCEPT ![t] = label]
At(t, label) == pc[t] = label
Slot(k) == Hash[k] % Size
Here(t) == entries[pos[t]]

(* The entry in slot s; a slot whose entry a walk has already released is  *)
(* as good as empty: its guard is held until entries[s] is cleared.        *)
Settled(s) == /\ entries[s] # NULL
              /\ \A t \in Threads : ~(At(t, "unmap") /\ pos[t] = s)
Holding(k) == {s \in Slots : Settled(s) /\ key[entries[s]] = k}

(* UNLOCK_SLOT, ++pos with wrap, and the test that ends the loop.          *)
LastSlot(t) == IF op[t] = "walk" THEN pos[t] = Size - 1
               ELSE (pos[t] + 1) % Size = Slot(want[t])

(* Defect: the position is not wrapped around. *)
NextSlotUnwrapped(t) ==
  /\ guards' = [guards EXCEPT ![pos[t]] = NULL]
  /\ pos' = [pos EXCEPT ![t] = @ + 1]
  /\ Goto(t, IF LastSlot(t) THEN "end" ELSE "lock_slot")

NextSlot(t) ==
  /\ guards' = [guards EXCEPT ![pos[t]] = NULL]
  /\ pos' = [pos EXCEPT ![t] = (@ + 1) % Size]
  /\ Goto(t, IF LastSlot(t) THEN "end" ELSE "lock_slot")

(* The call is over and its local variables are gone. *)
Leave(t) ==
  /\ Goto(t, "idle")
  /\ op' = [op EXCEPT ![t] = "get"]
  /\ want' = [want EXCEPT ![t] = NULL]
  /\ pos' = [pos EXCEPT ![t] = 0]
  /\ entry' = [entry EXCEPT ![t] = NULL]
  /\ occupant' = [occupant EXCEPT ![t] = NULL]
  /\ present' = [present EXCEPT ![t] = {}]

(* UNLOCK_ENTRY, and release_memory: nothing is left of the key. *)
UnlockEntry(e) == guard' = [guard EXCEPT ![e] = NULL]

UnlockAndRelease(e) ==
  /\ UnlockEntry(e)
  /\ reserved' = reserved \ {e}
  /\ key' = [key EXCEPT ![e] = NULL]

(* e leaves the map. *)
Forget(e) == present' = [t \in Threads |-> present[t] \ {e}]

(***************************************************************************)
(* The calls.                                                              *)
(***************************************************************************)

Probe(t, f, k) ==
  /\ At(t, "idle")
  /\ op' = [op EXCEPT ![t] = f]
  /\ want' = [want EXCEPT ![t] = k]
  /\ pos' = [pos EXCEPT ![t] = Slot(k)]
  /\ Goto(t, "lock_slot")

(* lock_and_get_cache_entry, lock_and_unset_cache_entry *)
LookupCall(t, f, k) ==
  /\ f \in {"get", "unset"}
  /\ Probe(t, f, k)
  /\ present' = [present EXCEPT ![t] = {entries[s] : s \in Holding(k)}]
  /\ UNCHANGED <<shared, entry, occupant>>

(* caller: reserve_and_lock_entry, which initialises the guard whatever it *)
(* was; then set_locked_cache_entry.                                       *)
SetCall(t, k, e) ==
  /\ e \notin reserved
  /\ Probe(t, "set", k)
  /\ reserved' = reserved \cup {e}
  /\ guard' = [guard EXCEPT ![e] = t]
  /\ key' = [key EXCEPT ![e] = k]
  /\ entry' = [entry EXCEPT ![t] = e]
  /\ UNCHANGED <<guards, entries, occupant, present>>

(* walk_entries *)
WalkCall(t) ==
  /\ At(t, "idle")
  /\ op' = [op EXCEPT ![t] = "walk"]
  /\ want' = [want EXCEPT ![t] = NULL]
  /\ pos' = [pos EXCEPT ![t] = 0]
  /\ Goto(t, "lock_slot")
  /\ UNCHANGED <<shared, entry, occupant, present>>

(***************************************************************************)
(* The probe.                                                              *)
(***************************************************************************)

(* LOCK_SLOT: spins while the flag is set. *)
LockSlot(t) ==
  /\ At(t, "lock_slot")
  /\ guards[pos[t]] = NULL
  /\ guards' = [guards EXCEPT ![pos[t]] = t]
  /\ Goto(t, "examine")
  /\ UNCHANGED <<entries, guard, key, reserved, locals, present>>

(* A walk stops at every entry, the others at those with the same hash. *)
Candidate(t) ==
  Here(t) # NULL /\ (op[t] # "walk" => Hash[key[Here(t)]] = Hash[want[t]])

(* Defect: a lookup ends at the first empty slot. *)
SkipSlotStops(t) ==
  /\ At(t, "examine")
  /\ ~Candidate(t)
  /\ ~(op[t] = "set" /\ Here(t) = NULL)
  /\ IF Here(t) = NULL /\ op[t] # "walk"
     THEN /\ guards' = [guards EXCEPT ![pos[t]] = NULL]
          /\ Goto(t, "end")
          /\ UNCHANGED pos
     ELSE NextSlot(t)
  /\ UNCHANGED <<entries, guard, key, reserved, op, want, entry, occupant, present>>

SkipSlot(t) ==
  /\ At(t, "examine")
  /\ ~Candidate(t)
  /\ ~(op[t] = "set" /\ Here(t) = NULL)
  /\ NextSlot(t)
  /\ UNCHANGED <<entries, guard, key, reserved, op, want, entry, occupant, present>>

(* Defect: the slot is unlocked before the entry is locked. *)
MustCompareUnguarded(t) ==
  /\ At(t, "examine")
  /\ Candidate(t)
  /\ guards' = [guards EXCEPT ![pos[t]] = NULL]
  /\ Goto(t, "lock_entry")
  /\ UNCHANGED <<entries, guard, key, reserved, locals, present>>

MustCompare(t) ==
  /\ At(t, "examine")
  /\ Candidate(t)
  /\ Goto(t, "lock_entry")
  /\ UNCHANGED <<shared, locals, present>>

(* Defect: one failed attempt is taken for success. *)
LockEntryAnyway(t) ==
  /\ At(t, "lock_entry")
  /\ guard' = [guard EXCEPT ![Here(t)] = t]
  /\ occupant' = [occupant EXCEPT ![t] = Here(t)]
  /\ Goto(t, "compare")
  /\ UNCHANGED <<guards, entries, key, reserved, op, want, pos, entry, present>>

(* LOCK_ENTRY_AND_LOG_SPIN: spins while the flag is set. *)
LockEntry(t) ==
  /\ At(t, "lock_entry")
  /\ guard[Here(t)] = NULL
  /\ guard' = [guard EXCEPT ![Here(t)] = t]
  /\ occupant' = [occupant EXCEPT ![t] = Here(t)]
  /\ Goto(t, "compare")
  /\ UNCHANGED <<guards, entries, key, reserved, op, want, pos, entry, present>>

Matches(t, f) == At(t, "compare") /\ op[t] = f /\ key[occupant[t]] = want[t]

(* Defect: the entry of another key stays locked. *)
SkipEntryLocked(t) ==
  /\ At(t, "compare")
  /\ op[t] # "walk"
  /\ key[occupant[t]] # want[t]
  /\ NextSlot(t)
  /\ UNCHANGED <<entries, guard, key, reserved, op, want, entry, occupant, present>>

(* Same hash, another key: unlock the entry and go on. *)
SkipEntry(t) ==
  /\ At(t, "compare")
  /\ op[t] # "walk"
  /\ key[occupant[t]] # want[t]
  /\ UnlockEntry(occupant[t])
  /\ NextSlot(t)
  /\ UNCHANGED <<entries, key, reserved, op, want, entry, occupant, present>>

(***************************************************************************)
(* lock_and_get_cache_entry                                                *)
(***************************************************************************)

(* Defect: the entry is unlocked together with the slot. *)
GetMatchUnlocked(t) ==
  /\ Matches(t, "get")
  /\ guards' = [guards EXCEPT ![pos[t]] = NULL]
  /\ UnlockEntry(occupant[t])
  /\ Goto(t, "return")
  /\ UNCHANGED <<entries, key, reserved, locals, present>>

GetMatch(t) ==
  /\ Matches(t, "get")
  /\ guards' = [guards EXCEPT ![pos[t]] = NULL]
  /\ Goto(t, "return")
  /\ UNCHANGED <<entries, guard, key, reserved, locals, present>>

(* return map->entries[pos]: the slot is read again without its guard. *)
GetReturn(t) ==
  /\ At(t, "return")
  /\ occupant' = [occupant EXCEPT ![t] = Here(t)]
  /\ Goto(t, "use")
  /\ UNCHANGED <<shared, op, want, pos, entry, present>>

(* caller: UNLOCK_ENTRY once the value is copied. *)
UnlockGot(t) ==
  /\ At(t, "use")
  /\ UnlockEntry(occupant[t])
  /\ Leave(t)
  /\ UNCHANGED <<guards, entries, key, reserved>>

(***************************************************************************)
(* lock_and_unset_cache_entry                                              *)
(***************************************************************************)

UnsetMatch(t) ==
  /\ Matches(t, "unset")
  /\ entries' = [entries EXCEPT ![pos[t]] = NULL]
  /\ guards' = [guards EXCEPT ![pos[t]] = NULL]
  /\ Forget(occupant[t])
  /\ Goto(t, "drop")
  /\ UNCHANGED <<guard, key, reserved, locals>>

(* caller: UNLOCK_ENTRY and release_memory of the entry taken out. *)
Drop(t) ==
  /\ At(t, "drop") /\ op[t] = "unset"
  /\ UnlockAndRelease(occupant[t])
  /\ Leave(t)
  /\ UNCHANGED <<guards, entries>>

(***************************************************************************)
(* set_locked_cache_entry                                                  *)
(***************************************************************************)

Store(t) ==
  /\ entries' = [entries EXCEPT ![pos[t]] = entry[t]]
  /\ guards' = [guards EXCEPT ![pos[t]] = NULL]

(* The first empty slot is taken, whatever lies behind it. *)
SetEmpty(t) ==
  /\ At(t, "examine") /\ op[t] = "set" /\ Here(t) = NULL
  /\ Store(t)
  /\ Goto(t, "publish")
  /\ UNCHANGED <<guard, key, reserved, locals, present>>

(* Defect: the entry replaced is not handed to the caller. *)
SetMatchLeaks(t) ==
  /\ Matches(t, "set")
  /\ Store(t)
  /\ present' = [u \in Threads |-> present[u] \ {occupant[t]}]
  /\ Goto(t, "publish")
  /\ UNCHANGED <<guard, key, reserved, locals>>

(* The occupant is replaced and stays locked for the caller: *old_entry. *)
SetMatch(t) ==
  /\ Matches(t, "set")
  /\ Store(t)
  /\ present' = [u \in Threads |-> present[u] \ {occupant[t]}]
  /\ Goto(t, "drop")
  /\ UNCHANGED <<guard, key, reserved, locals>>

(* caller: UNLOCK_ENTRY and release_memory of the entry replaced. *)
DropOld(t) ==
  /\ At(t, "drop") /\ op[t] = "set"
  /\ UnlockAndRelease(occupant[t])
  /\ Goto(t, "publish")
  /\ UNCHANGED <<guards, entries, locals, present>>

(* caller: UNLOCK_ENTRY of the new entry. *)
Publish(t) ==
  /\ At(t, "publish")
  /\ UnlockEntry(entry[t])
  /\ Leave(t)
  /\ UNCHANGED <<guards, entries, key, reserved>>

(* No slot found.  caller: UNLOCK_ENTRY and release_memory. *)
SetFull(t) ==
  /\ At(t, "end") /\ op[t] = "set"
  /\ UnlockAndRelease(entry[t])
  /\ Leave(t)
  /\ UNCHANGED <<guards, entries>>

(* get and unset return NULL, a walk has seen every slot. *)
End(t) ==
  /\ At(t, "end") /\ op[t] # "set"
  /\ Leave(t)
  /\ UNCHANGED <<shared>>

(***************************************************************************)
(* walk_entries; the callback chooses between keeping the entry and        *)
(* clearing it (clear_all_callback and its like).                          *)
(***************************************************************************)

WalkKeep(t) ==
  /\ At(t, "compare") /\ op[t] = "walk"
  /\ UnlockEntry(occupant[t])
  /\ NextSlot(t)
  /\ UNCHANGED <<entries, key, reserved, op, want, entry, occupant, present>>

(* caller: the callback unlocks and releases the entry while the slot      *)
(* still names it.                                                         *)
WalkClear(t) ==
  /\ At(t, "compare") /\ op[t] = "walk"
  /\ UnlockAndRelease(occupant[t])
  /\ Forget(occupant[t])
  /\ Goto(t, "unmap")
  /\ UNCHANGED <<guards, entries, locals>>

WalkUnmap(t) ==
  /\ At(t, "unmap")
  /\ entries' = [entries EXCEPT ![pos[t]] = NULL]
  /\ NextSlot(t)
  /\ UNCHANGED <<guard, key, reserved, op, want, entry, occupant, present>>

(***************************************************************************)
(* The specification.                                                      *)
(***************************************************************************)

(* init_cache_entry_map *)
Init ==
  /\ guards = [s \in Slots |-> NULL]
  /\ entries = [s \in Slots |-> NULL]
  /\ guard = [e \in Entries |-> NULL]
  /\ key = [e \in Entries |-> NULL]
  /\ reserved = {}
  /\ pc = [t \in Threads |-> "idle"]
  /\ op = [t \in Threads |-> "get"]
  /\ want = [t \in Threads |-> NULL]
  /\ pos = [t \in Threads |-> 0]
  /\ entry = [t \in Threads |-> NULL]
  /\ occupant = [t \in Threads |-> NULL]
  /\ present = [t \in Threads |-> {}]

Step(t) ==
  \/ LockSlot(t) \/ SkipSlot(t) \/ MustCompare(t) \/ LockEntry(t) \/ SkipEntry(t)
  \/ GetMatch(t) \/ GetReturn(t) \/ UnlockGot(t)
  \/ UnsetMatch(t) \/ Drop(t) \/ DropOld(t)
  \/ SetEmpty(t) \/ SetMatch(t) \/ Publish(t) \/ SetFull(t) \/ End(t)
  \/ WalkKeep(t) \/ WalkClear(t) \/ WalkUnmap(t)

Next ==
  \E t \in Threads :
    \/ \E k \in Keys, f \in {"get", "unset"} : LookupCall(t, f, k)
    \/ \E k \in Keys, e \in Entries : SetCall(t, k, e)
    \/ WalkCall(t)
    \/ Step(t)

Spec == Init /\ [][Next]_vars

(***************************************************************************)
(* Properties.                                                             *)
(***************************************************************************)

(* The entries a thread may read, write or free at its label. *)
Holds(t) ==
  (IF pc[t] \in {"compare", "return", "use", "drop"} THEN {occupant[t]} ELSE {})
  \cup (IF op[t] = "set" /\ pc[t] # "idle" THEN {entry[t]} ELSE {})

(* An entry in use is never given back or handed out again by somebody     *)
(* else, and its flag is set by the thread that uses it: unset, replace    *)
(* and clear against a get that still reads the value.                     *)
HeldIsLocked == \A t \in Threads : \A e \in Holds(t) : e \in reserved /\ guard[e] = t

(* A spinning thread never spins on the flag of released memory, which the *)
(* allocator may be handing out to somebody else.                          *)
SpinsOnLiveEntry ==
  \A t \in Threads : At(t, "lock_entry") => Here(t) \in reserved

(* get returns the entry it has compared and locked although it reads the  *)
(* slot again after giving up its guard (entry.c:84-85).                   *)
GetReturnsItsMatch ==
  \A t \in Threads : At(t, "return") => Here(t) = occupant[t] /\ key[Here(t)] = want[t]

(* Every entry that is not free is in one slot or in one thread's hands:   *)
(* nothing leaks, nothing is mapped twice, no entry being set is mapped    *)
(* before its store (the ALREADY SET case of set never arises).            *)
EntriesAccountedFor ==
  /\ reserved = {entries[s] : s \in {r \in Slots : Settled(r)}} \cup UNION {Holds(t) : t \in Threads}
  /\ \A r, s \in Slots : Settled(r) /\ Settled(s) /\ entries[r] = entries[s] => r = s
  /\ \A t \in Threads, s \in Slots :
       op[t] = "set" /\ pc[t] \in {"lock_slot", "examine", "lock_entry", "compare", "end"}
         => ~(Settled(s) /\ entries[s] = entry[t])

(* The threads t spins for. *)
WaitsFor(t) ==
  {u \in Threads : \/ At(t, "lock_slot") /\ guards[pos[t]] = u
                   \/ At(t, "lock_entry") /\ guard[Here(t)] = u}

(* Slot guards and entry guards are taken in an order that never closes a  *)
(* circle, the lock of a set's own new entry included.                     *)
NoCircularWait ==
  \A S \in (SUBSET Threads) \ {{}} : \E t \in S : WaitsFor(t) \cap S = {}

(* get and unset report a miss only if no entry was under the key all      *)
(* along, however slots before or behind it changed meanwhile.             *)
NoFalseMiss ==
  \A t \in Threads : At(t, "end") /\ op[t] \in {"get", "unset"} => present[t] = {}

(***************************************************************************)
(* The inductive invariant: what the two kinds of flags protect.           *)
(***************************************************************************)

(* Exactly the thread between LOCK_SLOT and UNLOCK_SLOT has set the flag.  *)
SlotInv ==
  \A t \in Threads, s \in Slots :
    guards[s] = t <=> pc[t] \in {"examine", "lock_entry", "compare", "unmap"} /\ pos[t] = s

(* Exactly the holder of an entry has set its flag. *)
GuardInv == \A t \in Threads, e \in Entries : guard[e] = t <=> e \in Holds(t)

(* Labels and functions go together, and the locals mean what they should. *)
CallInv ==
  \A t \in Threads :
    /\ pc[t] \in {"return", "use"} => op[t] = "get"
    /\ pc[t] = "drop" => op[t] \in {"unset", "set"}
    /\ pc[t] = "publish" => op[t] = "set"
    /\ pc[t] = "unmap" => op[t] = "walk"
    /\ pc[t] # "idle" /\ op[t] # "walk" => want[t] \in Keys
    /\ Holds(t) \subseteq reserved
    /\ pc[t] \in {"lock_entry", "compare", "return"} => Here(t) # NULL
    /\ pc[t] \in {"compare", "return"} => Here(t) = occupant[t]
    /\ pc[t] \in {"compare", "drop"} /\ op[t] = "set" => entry[t] # occupant[t]
    /\ pc[t] = "return" => Settled(pos[t]) /\ key[occupant[t]] = want[t]

(* An entry that t holds and no slot names: not stored yet, or taken out. *)
Unmapped(t) ==
  (IF op[t] = "set" /\ pc[t] \in {"lock_slot", "examine", "lock_entry", "compare", "end"}
   THEN {entry[t]} ELSE {})
  \cup (IF At(t, "drop") THEN {occupant[t]} ELSE {})

MapInv ==
  /\ \A s \in Slots : Settled(s) => entries[s] \in reserved
  /\ \A r, s \in Slots : Settled(r) /\ Settled(s) /\ entries[r] = entries[s] => r = s
  /\ \A t \in Threads : \A e \in Unmapped(t) : \A s \in Slots : Settled(s) => entries[s] # e
  /\ \A e \in reserved : \/ \E s \in Slots : Settled(s) /\ entries[s] = e
                         \/ \E t \in Threads : e \in Unmapped(t)

IInv == TypeOK /\ SlotInv /\ GuardInv /\ CallInv /\ MapInv

(* The slots a lookup has passed, from the one its key hashes to, h, round *)
(* the map to the one before p; all of them when it has ended.             *)
Between(h, p) == IF p >= h THEN h .. p - 1 ELSE Slots \ (p .. h - 1)
Passed(t) == IF At(t, "end") THEN Slots ELSE Between(Slot(want[t]), pos[t])

Looking(t) == /\ op[t] \in {"get", "unset"}
              /\ pc[t] \in {"lock_slot", "examine", "lock_entry", "compare", "end"}

(* A second invariant, on top of IInv: what was under the key from the     *)
(* beginning lies ahead of the lookup.                                     *)
AheadInv ==
  \A t \in Threads : Looking(t) => \A e \in present[t] :
    \E s \in Slots \ Passed(t) : Settled(s) /\ entries[s] = e /\ key[e] = want[t]
=============================================================================
