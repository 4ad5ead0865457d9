----------------------------- MODULE Controller -----------------------------
(***************************************************************************)
(* The requests of src/src/controller.c: GET, SET, DEL and CLR as the      *)
(* sequences of map and tag operations they are, run by threads that       *)
(* serve different clients.                                                *)
(*                                                                         *)
(* Map and index are taken at the level that EntryMap and TagIndex show    *)
(* them to have.  A visit of a slot, with the lock of the slot and of the  *)
(* entry in it, is one step; an entry is locked exactly while a thread     *)
(* holds it; a key is added to or removed from a tag's list in one step.   *)
(* A slot stays locked from one step to the next only while the callback   *)
(* of a walk works on its entry.  Two keys with the same hash value are    *)
(* left to EntryMap, so that a lookup stops at its own key only.           *)
(***************************************************************************)
EXTENDS Integers

CONSTANTS
  Threads,    \* the workers
  Keys,       \* the keys that fall into one map
  Tags,       \* the tags of entries and requests
  Entries,    \* the blocks of memory that entries are reserved from
  Size,       \* CACHE_ENTRY_MAP_SIZE
  Hash,       \* Hash[k]: get_key_hash
  Sets,       \* bound: the keys and sets of tags that SET requests name
  Modes,      \* bound: the modes in which CLR is used
  Requests,   \* bound: the sets of tags that CLR requests name
  TTLs,       \* the times to live that SET asks for
  MaxClock,   \* bound: the clock stops there
  Never,      \* CACHE_EXPIRES_INIT
  MayFail,    \* whether insert_if_unique may run out of memory
  NULL

ASSUME ControllerAssumption ==
  /\ Size \in Nat \ {0}
  /\ Hash \in [Keys -> Nat]
  /\ Sets \subseteq Keys \X SUBSET Tags
  /\ Modes \subseteq {"all", "old", "match_none", "match_all", "match_any"}
  /\ Requests \subseteq SUBSET Tags
  /\ TTLs \subseteq Nat \cup {Never}
  /\ MaxClock \in Nat
  /\ MayFail \in BOOLEAN
  /\ Never \notin Nat
  /\ NULL \notin Threads \cup Keys \cup Entries

VARIABLES
  slots,     \* slots[s]: the entry in slot s, or NULL
  content,   \* content[e]: what entry e holds, NULL if it is not reserved
  index,     \* the pairs <<g, k>> such that key k is in the list of tag g
  clock,     \* time (NULL)
  pc,        \* what each thread does next
  op,        \* the request each thread serves
  want,      \* want[t]: the key of the request or of the list element
  pos,       \* pos[t]: the slot t visits next
  entry,     \* entry[t]: the entry t found or is about to set, locked by t
  old,       \* old[t]: the entry that t's SET replaced, locked by t
  todo,      \* todo[t]: the tags t's present loop has not come to
  keys,      \* keys[t]: the list of keys that a CLR works on
  wanted,    \* wanted[t]: the tags of a CLR request
  found,     \* found[t]: delete_entry_by_key has unset an entry
  now,       \* now[t]: the time read when a CLR OLD began
  doomed,    \* history: entries that must be gone when t's request ends
  steady,    \* history: want[t] was under one entry throughout t's GET
  mixed      \* history: keys whose updates overlapped or lost a tag

store == <<slots, content, index>>
locals == <<op, want, entry, old, todo, keys, wanted, found, now>>
vars == <<slots, content, index, clock, pc, op, want, pos, entry, old, todo,
          keys, wanted, found, now, doomed, steady, mixed>>

Slots == 0 .. Size - 1
Walks == {"all", "old", "match_none"}
Matches == {"match_all", "match_any"}
Ops == {"get", "renew", "set", "del"} \cup Walks \cup Matches
Labels == {"idle", "value", "probe", "use", "copy", "untag", "tag"}
Times == (0 .. MaxClock) \cup {c + ttl : c \in 0 .. MaxClock, ttl \in TTLs \ {Never}} \cup {Never}
Contents == [key : Keys, tags : SUBSET Tags, expires : Times]

ASSUME ContentAssumption == NULL \notin Contents

TypeOK ==
  /\ slots \in [Slots -> Entries \cup {NULL}]
  /\ content \in [Entries -> Contents \cup {NULL}]
  /\ index \subseteq Tags \X Keys
  /\ clock \in 0 .. MaxClock
  /\ pc \in [Threads -> Labels]
  /\ op \in [Threads -> Ops]
  /\ want \in [Threads -> Keys \cup {NULL}]
  /\ pos \in [Threads -> Slots]
  /\ entry \in [Threads -> Entries \cup {NULL}]
  /\ old \in [Threads -> Entries \cup {NULL}]
  /\ todo \in [Threads -> SUBSET Tags]
  /\ keys \in [Threads -> SUBSET Keys]
  /\ wanted \in [Threads -> SUBSET Tags]
  /\ found \in [Threads -> BOOLEAN]
  /\ now \in [Threads -> 0 .. MaxClock]
  /\ doomed \in [Threads -> SUBSET Entries]
  /\ steady \in [Threads -> BOOLEAN]
  /\ mixed \subseteq Keys

(***************************************************************************)
(* Shared vocabulary.                                                      *)
(***************************************************************************)

Goto(t, label) == pc' = [pc EXCEPT ![t] = label]
At(t, label) == pc[t] = label
Start(k) == Hash[k] % Size
Here(t) == slots[pos[t]]
Walking(t) == op[t] \in Walks
Deleting(t) == op[t] \in {"del"} \cup Matches

Mapped == {slots[s] : s \in Slots} \ {NULL}
Under(k) == {e \in Mapped : content[e].key = k}
Listed(g) == {k \in Keys : <<g, k>> \in index}

Held(t) == {entry[t], old[t]} \ {NULL}
Unlocked(e) == \A t \in Threads : e \notin Held(t)
SlotFree(s) == \A t \in Threads : ~(At(t, "untag") /\ Walking(t) /\ pos[t] = s)

(* The request is answered, its local variables are gone. *)
Leave(t) ==
  /\ op' = [op EXCEPT ![t] = "get"]
  /\ want' = [want EXCEPT ![t] = NULL]
  /\ pos' = [pos EXCEPT ![t] = 0]
  /\ entry' = [entry EXCEPT ![t] = NULL]
  /\ old' = [old EXCEPT ![t] = NULL]
  /\ todo' = [todo EXCEPT ![t] = {}]
  /\ keys' = [keys EXCEPT ![t] = {}]
  /\ wanted' = [wanted EXCEPT ![t] = {}]
  /\ found' = [found EXCEPT ![t] = FALSE]
  /\ now' = [now EXCEPT ![t] = 0]
  /\ Goto(t, "idle")

(* release_memory *)
Release(e) == content' = [content EXCEPT ![e] = NULL]

Expired(e, time) == content[e].expires # Never /\ content[e].expires < time

(* What the callbacks of walk_all_entries want removed. *)
Clears(t, e) ==
  CASE op[t] = "all" -> TRUE
    [] op[t] = "old" -> Expired(e, now[t])
    [] op[t] = "match_none" -> content[e].tags \cap wanted[t] = {}

(***************************************************************************)
(* The requests.                                                           *)
(***************************************************************************)

Begin(t, request, k) ==
  /\ At(t, "idle")
  /\ op' = [op EXCEPT ![t] = request]
  /\ want' = [want EXCEPT ![t] = k]

ProbeFor(t, k) ==
  /\ pos' = [pos EXCEPT ![t] = Start(k)]
  /\ Goto(t, "probe")

(* handle_get_request, and SET with SET_FLAG_ONLY_TTL *)
LookupCall(t, request, k) ==
  /\ request \in {"get", "renew"}
  /\ Begin(t, request, k)
  /\ ProbeFor(t, k)
  /\ UNCHANGED <<store, clock, entry, old, todo, keys, wanted, found, now>>

(* handle_set_request up to the point where the value has to be read. *)
SetCall(t, k, G, e) ==
  /\ <<k, G>> \in Sets
  /\ content[e] = NULL
  /\ Begin(t, "set", k)
  /\ entry' = [entry EXCEPT ![t] = e]
  /\ content' = [content EXCEPT ![e] = [key |-> k, tags |-> G, expires |-> Never]]
  /\ Goto(t, "value")
  /\ UNCHANGED <<slots, index, clock, pos, old, todo, keys, wanted, found, now>>

(* The connection fails: UNLOCK_ENTRY and release_memory. *)
ReadFails(t) ==
  /\ At(t, "value")
  /\ Release(entry[t])
  /\ Leave(t)
  /\ UNCHANGED <<slots, index, clock>>

ExpiryOf(ttl) == IF ttl = Never THEN Never ELSE clock + ttl

(* The value has arrived: mtime and expires are set, then the map. *)
ReadValue(t, ttl) ==
  /\ At(t, "value")
  /\ content' = [content EXCEPT ![entry[t]].expires = ExpiryOf(ttl)]
  /\ ProbeFor(t, want[t])
  /\ UNCHANGED <<slots, index, clock, locals>>

(* handle_del_request *)
DelCall(t, k) ==
  /\ Begin(t, "del", k)
  /\ ProbeFor(t, k)
  /\ UNCHANGED <<store, clock, entry, old, todo, keys, wanted, found, now>>

(* handle_clr_request, CLEAR_MODE_ALL, _OLD and _MATCH_NONE *)
ClearCall(t, mode, G) ==
  /\ mode \in Walks \cap Modes
  /\ IF mode = "match_none" THEN G \in Requests ELSE G = {}
  /\ Begin(t, mode, NULL)
  /\ wanted' = [wanted EXCEPT ![t] = G]
  /\ now' = [now EXCEPT ![t] = IF mode = "old" THEN clock ELSE 0]
  /\ pos' = [pos EXCEPT ![t] = 0]
  /\ Goto(t, "probe")
  /\ UNCHANGED <<store, clock, entry, old, todo, keys, found>>

(* handle_clr_request, CLEAR_MODE_MATCH_ALL and _MATCH_ANY.  Without tags  *)
(* the list is empty; an intersection begins with all keys.                *)
MatchCall(t, mode, G) ==
  /\ mode \in Matches \cap Modes
  /\ G \in Requests
  /\ Begin(t, mode, NULL)
  /\ todo' = [todo EXCEPT ![t] = G]
  /\ keys' = [keys EXCEPT ![t] = IF mode = "match_all" /\ G # {} THEN Keys ELSE {}]
  /\ Goto(t, "copy")
  /\ UNCHANGED <<store, clock, pos, entry, old, wanted, found, now>>

(***************************************************************************)
(* The visits of slots.                                                    *)
(***************************************************************************)

(* LOCK_SLOT spins while a walk's callback has the slot. *)
Visits(t) == At(t, "probe") /\ SlotFree(pos[t])
(* Defect: an entry that cannot be locked at once is taken for another's. *)
AtMatchTries(t) == /\ Visits(t) /\ ~Walking(t) /\ Here(t) # NULL
                   /\ content[Here(t)].key = want[t] /\ Unlocked(Here(t))

AtMatch(t) == Visits(t) /\ ~Walking(t) /\ Here(t) # NULL /\ content[Here(t)].key = want[t]

LastSlot(t) == IF Walking(t) THEN pos[t] = Size - 1
               ELSE (pos[t] + 1) % Size = Start(want[t])

(* Defect: the position is not wrapped around. *)
NextSlotUnwrapped(t) == pos' = [pos EXCEPT ![t] = @ + 1] /\ Goto(t, "probe")

NextSlot(t) == pos' = [pos EXCEPT ![t] = (@ + 1) % Size] /\ Goto(t, "probe")

(* Nothing to do here: no entry or another key's; for a walk, no entry or  *)
(* one that the callback, with the entry locked, wants to keep.            *)
Passes(t) ==
  /\ Visits(t)
  /\ ~AtMatch(t)
  /\ op[t] = "set" => Here(t) # NULL
  /\ Walking(t) /\ Here(t) # NULL => Unlocked(Here(t)) /\ ~Clears(t, Here(t))

SkipSlot(t) ==
  /\ Passes(t)
  /\ ~LastSlot(t)
  /\ NextSlot(t)
  /\ UNCHANGED <<store, clock, locals>>

(* GET and DEL answer STATUS_NOT_FOUND, a DEL that has deleted something   *)
(* and a walk STATUS_OK.                                                   *)
ProbeEnds(t) ==
  /\ Passes(t)
  /\ LastSlot(t)
  /\ op[t] \in {"get", "renew", "del"} \cup Walks
  /\ Leave(t)
  /\ UNCHANGED <<store, clock>>

(* No slot for the new entry: UNLOCK_ENTRY and release_memory. *)
SetFull(t) ==
  /\ Passes(t)
  /\ LastSlot(t)
  /\ op[t] = "set"
  /\ Release(entry[t])
  /\ Leave(t)
  /\ UNCHANGED <<slots, index, clock>>

(* One element of a CLR's list is done. *)
KeyEnds(t) ==
  /\ Passes(t)
  /\ LastSlot(t)
  /\ op[t] \in Matches
  /\ want' = [want EXCEPT ![t] = NULL]
  /\ found' = [found EXCEPT ![t] = FALSE]
  /\ pos' = [pos EXCEPT ![t] = 0]
  /\ Goto(t, "copy")
  /\ UNCHANGED <<store, clock, op, entry, old, todo, keys, wanted, now>>

(***************************************************************************)
(* GET and SET_FLAG_ONLY_TTL                                               *)
(***************************************************************************)

GetMatch(t) ==
  /\ AtMatch(t)
  /\ op[t] \in {"get", "renew"}
  /\ Unlocked(Here(t))
  /\ entry' = [entry EXCEPT ![t] = Here(t)]
  /\ Goto(t, "use")
  /\ UNCHANGED <<store, clock, op, want, pos, old, todo, keys, wanted, found, now>>

(* The value is copied, or has expired; UNLOCK_ENTRY. *)
Serve(t) ==
  /\ At(t, "use")
  /\ op[t] = "get"
  /\ Leave(t)
  /\ UNCHANGED <<store, clock>>

Renew(t, ttl) ==
  /\ At(t, "use")
  /\ op[t] = "renew"
  /\ content' = [content EXCEPT ![entry[t]].expires = ExpiryOf(ttl)]
  /\ Leave(t)
  /\ UNCHANGED <<slots, index, clock>>

(***************************************************************************)
(* SET                                                                     *)
(***************************************************************************)

Store(t) == slots' = [slots EXCEPT ![pos[t]] = entry[t]]

(* The first empty slot is taken, whatever lies behind it. *)
SetEmpty(t) ==
  /\ Visits(t)
  /\ op[t] = "set"
  /\ Here(t) = NULL
  /\ Store(t)
  /\ todo' = [todo EXCEPT ![t] = content[entry[t]].tags]
  /\ pos' = [pos EXCEPT ![t] = 0]
  /\ Goto(t, "tag")
  /\ UNCHANGED <<content, index, clock, op, want, entry, old, keys, wanted, found, now>>

(* Defect: of the old tags those missing in the new entry are kept. *)
SetMatchKeepsTags(t) ==
  /\ AtMatch(t)
  /\ op[t] = "set"
  /\ Unlocked(Here(t))
  /\ Store(t)
  /\ old' = [old EXCEPT ![t] = Here(t)]
  /\ todo' = [todo EXCEPT ![t] = content[Here(t)].tags \cap content[entry[t]].tags]
  /\ pos' = [pos EXCEPT ![t] = 0]
  /\ Goto(t, "untag")
  /\ UNCHANGED <<content, index, clock, op, want, entry, keys, wanted, found, now>>

SetMatch(t) ==
  /\ AtMatch(t)
  /\ op[t] = "set"
  /\ Unlocked(Here(t))
  /\ Store(t)
  /\ old' = [old EXCEPT ![t] = Here(t)]
  /\ todo' = [todo EXCEPT ![t] = content[Here(t)].tags]
  /\ pos' = [pos EXCEPT ![t] = 0]
  /\ Goto(t, "untag")
  /\ UNCHANGED <<content, index, clock, op, want, entry, keys, wanted, found, now>>

(* remove_key_from_tag for a tag of the entry that goes. *)
Going(t) == IF op[t] = "set" THEN old[t] ELSE entry[t]

Untag(t, g) ==
  /\ At(t, "untag")
  /\ g \in todo[t]
  /\ index' = index \ {<<g, content[Going(t)].key>>}
  /\ todo' = [todo EXCEPT ![t] = @ \ {g}]
  /\ UNCHANGED <<slots, content, clock, pc, op, want, pos, entry, old, keys, wanted, found, now>>

Untagged(t) == At(t, "untag") /\ todo[t] = {}

(* Defect: only tags missing in the old entry are added. *)
DropOldAddsFewer(t) ==
  /\ Untagged(t)
  /\ op[t] = "set"
  /\ Release(old[t])
  /\ old' = [old EXCEPT ![t] = NULL]
  /\ todo' = [todo EXCEPT ![t] = content[entry[t]].tags \ content[old[t]].tags]
  /\ Goto(t, "tag")
  /\ UNCHANGED <<slots, index, clock, op, want, pos, entry, keys, wanted, found, now>>

DropOld(t) ==
  /\ Untagged(t)
  /\ op[t] = "set"
  /\ Release(old[t])
  /\ old' = [old EXCEPT ![t] = NULL]
  /\ todo' = [todo EXCEPT ![t] = content[entry[t]].tags]
  /\ Goto(t, "tag")
  /\ UNCHANGED <<slots, index, clock, op, want, pos, entry, keys, wanted, found, now>>

(* add_key_to_tag for a tag of the new entry. *)
Tag(t, g) ==
  /\ At(t, "tag")
  /\ g \in todo[t]
  /\ index' = index \cup {<<g, want[t]>>}
  /\ todo' = [todo EXCEPT ![t] = @ \ {g}]
  /\ UNCHANGED <<slots, content, clock, pc, op, want, pos, entry, old, keys, wanted, found, now>>

(* The caller of add_key_to_tag ignores that it had no memory. *)
TagFails(t, g) ==
  /\ MayFail
  /\ At(t, "tag")
  /\ g \in todo[t]
  /\ <<g, want[t]>> \notin index
  /\ todo' = [todo EXCEPT ![t] = @ \ {g}]
  /\ UNCHANGED <<store, clock, pc, op, want, pos, entry, old, keys, wanted, found, now>>

(* UNLOCK_ENTRY: only now may others have the new entry. *)
Publish(t) ==
  /\ At(t, "tag")
  /\ todo[t] = {}
  /\ Leave(t)
  /\ UNCHANGED <<store, clock>>

(***************************************************************************)
(* delete_entry_by_key                                                     *)
(***************************************************************************)

(* lock_and_unset_cache_entry; only the first entry's tags are looked at.  *)
Unset(t) ==
  /\ AtMatch(t)
  /\ Deleting(t)
  /\ Unlocked(Here(t))
  /\ slots' = [slots EXCEPT ![pos[t]] = NULL]
  /\ entry' = [entry EXCEPT ![t] = Here(t)]
  /\ todo' = [todo EXCEPT ![t] = IF found[t] THEN {} ELSE content[Here(t)].tags]
  /\ found' = [found EXCEPT ![t] = TRUE]
  /\ pos' = [pos EXCEPT ![t] = 0]
  /\ Goto(t, "untag")
  /\ UNCHANGED <<content, index, clock, op, want, old, keys, wanted, now>>

(* Defect: DEL does not look for duplicates. *)
DropUnsetOnce(t) ==
  /\ Untagged(t)
  /\ Deleting(t)
  /\ Release(entry[t])
  /\ IF op[t] = "del" THEN Leave(t)
     ELSE /\ entry' = [entry EXCEPT ![t] = NULL]
          /\ ProbeFor(t, want[t])
          /\ UNCHANGED <<op, want, old, todo, keys, wanted, found, now>>
  /\ UNCHANGED <<slots, index, clock>>

(* UNLOCK_ENTRY, release_memory, and once more from the start. *)
DropUnset(t) ==
  /\ Untagged(t)
  /\ Deleting(t)
  /\ Release(entry[t])
  /\ entry' = [entry EXCEPT ![t] = NULL]
  /\ ProbeFor(t, want[t])
  /\ UNCHANGED <<slots, index, clock, op, want, old, todo, keys, wanted, found, now>>

(***************************************************************************)
(* The other modes of CLR.                                                 *)
(***************************************************************************)

(* The callback wants the entry removed. *)
Take(t) ==
  /\ Visits(t)
  /\ Walking(t)
  /\ Here(t) # NULL
  /\ Unlocked(Here(t))
  /\ Clears(t, Here(t))
  /\ entry' = [entry EXCEPT ![t] = Here(t)]
  /\ todo' = [todo EXCEPT ![t] = content[Here(t)].tags]
  /\ Goto(t, "untag")
  /\ UNCHANGED <<store, clock, op, want, pos, old, keys, wanted, found, now>>

(* UNLOCK_ENTRY and release_memory in the callback, then the walk clears   *)
(* the slot, which has been locked all the time.                           *)
DropTaken(t) ==
  /\ Untagged(t)
  /\ Walking(t)
  /\ Release(entry[t])
  /\ slots' = [slots EXCEPT ![pos[t]] = NULL]
  /\ IF LastSlot(t) THEN Leave(t)
     ELSE /\ NextSlot(t)
          /\ entry' = [entry EXCEPT ![t] = NULL]
          /\ UNCHANGED <<op, want, old, todo, keys, wanted, found, now>>
  /\ UNCHANGED <<index, clock>>

(* get_key_list_copy_by_tag, and the union or intersection with the lists  *)
(* copied before.                                                          *)
CopyKeys(t, g) ==
  /\ At(t, "copy")
  /\ g \in todo[t]
  /\ keys' = [keys EXCEPT ![t] = IF op[t] = "match_any" THEN @ \cup Listed(g)
                                 ELSE @ \cap Listed(g)]
  /\ todo' = [todo EXCEPT ![t] = @ \ {g}]
  /\ UNCHANGED <<store, clock, pc, op, want, pos, entry, old, wanted, found, now>>

(* delete_entry_by_key for the next element of the list. *)
NextKey(t, k) ==
  /\ At(t, "copy")
  /\ todo[t] = {}
  /\ k \in keys[t]
  /\ keys' = [keys EXCEPT ![t] = @ \ {k}]
  /\ want' = [want EXCEPT ![t] = k]
  /\ ProbeFor(t, k)
  /\ UNCHANGED <<store, clock, op, entry, old, todo, wanted, found, now>>

(* release_key_list *)
ListEnds(t) ==
  /\ At(t, "copy")
  /\ todo[t] = {}
  /\ keys[t] = {}
  /\ Leave(t)
  /\ UNCHANGED <<store, clock>>

Tick ==
  /\ clock < MaxClock
  /\ clock' = clock + 1
  /\ UNCHANGED <<store, pc, pos, locals>>

(***************************************************************************)
(* The history variables, which follow every step.                         *)
(***************************************************************************)

(* An entry that t's walk or t's delete_entry_by_key is to remove. *)
Condemned(t, e) ==
  IF Walking(t) THEN Clears(t, e) ELSE Deleting(t) /\ content[e].key = want[t]

(* k is in two slots, or has been set while a delete_entry_by_key is past  *)
(* its first entry and will not look at tags again.                        *)
Overlaps(k) ==
  \/ \E d, e \in Under(k) : d # e
  \/ Under(k) # {} /\ \E t \in Threads : found[t] /\ want[t] = k

(* This step is a TagFails for k. *)
Unlisted(k) ==
  \E t \in Threads : /\ At(t, "tag") /\ want[t] = k
                      /\ \E g \in todo[t] \ todo'[t] : <<g, k>> \notin index'

(* Nothing is left of k anywhere. *)
Traceless(k) ==
  /\ \A e \in Entries : content[e] # NULL => content[e].key # k
  /\ \A g \in Tags : <<g, k>> \notin index
  /\ \A t \in Threads : want[t] # k

Between(t) == pc[t] \in {"idle", "copy"}

History ==
  /\ doomed' = [t \in Threads |->
       IF Between(t)' THEN {}
       ELSE {e \in IF Between(t) THEN Mapped' ELSE doomed[t] : e \in Mapped' /\ Condemned(t, e)'}]
  /\ mixed' = {k \in Keys : Overlaps(k)' \/ Unlisted(k) \/ (k \in mixed /\ ~Traceless(k)')}
  /\ steady' = [t \in Threads |->
       /\ op'[t] = "get" /\ pc'[t] = "probe"
       /\ At(t, "idle") \/ steady[t]
       /\ Under(want[t])' # {} /\ want'[t] \notin mixed']

(***************************************************************************)
(* The specification.                                                      *)
(***************************************************************************)

Init ==
  /\ slots = [s \in Slots |-> NULL]
  /\ content = [e \in Entries |-> NULL]
  /\ index = {}
  /\ clock = 0
  /\ pc = [t \in Threads |-> "idle"]
  /\ op = [t \in Threads |-> "get"]
  /\ want = [t \in Threads |-> NULL]
  /\ pos = [t \in Threads |-> 0]
  /\ entry = [t \in Threads |-> NULL]
  /\ old = [t \in Threads |-> NULL]
  /\ todo = [t \in Threads |-> {}]
  /\ keys = [t \in Threads |-> {}]
  /\ wanted = [t \in Threads |-> {}]
  /\ found = [t \in Threads |-> FALSE]
  /\ now = [t \in Threads |-> 0]
  /\ doomed = [t \in Threads |-> {}]
  /\ steady = [t \in Threads |-> FALSE]
  /\ mixed = {}

Call(t) ==
  \/ \E k \in Keys, f \in {"get", "renew"} : LookupCall(t, f, k)
  \/ \E k \in Keys, G \in SUBSET Tags, e \in Entries : SetCall(t, k, G, e)
  \/ \E k \in Keys : DelCall(t, k)
  \/ \E mode \in Modes, G \in SUBSET Tags : ClearCall(t, mode, G) \/ MatchCall(t, mode, G)

Step(t) ==
  \/ ReadFails(t) \/ \E ttl \in TTLs : ReadValue(t, ttl) \/ Renew(t, ttl)
  \/ SkipSlot(t) \/ ProbeEnds(t) \/ SetFull(t) \/ KeyEnds(t)
  \/ GetMatch(t) \/ Serve(t)
  \/ SetEmpty(t) \/ SetMatch(t) \/ DropOld(t) \/ Publish(t)
  \/ \E g \in Tags : Untag(t, g) \/ Tag(t, g) \/ TagFails(t, g) \/ CopyKeys(t, g)
  \/ Unset(t) \/ DropUnset(t)
  \/ Take(t) \/ DropTaken(t)
  \/ \E k \in Keys : NextKey(t, k)
  \/ ListEnds(t)

Next == (Tick \/ \E t \in Threads : Call(t) \/ Step(t)) /\ History

Spec == Init /\ [][Next]_vars

(***************************************************************************)
(* Properties.                                                             *)
(***************************************************************************)

(* CLR in the modes ALL, OLD and MATCH_NONE and every delete_entry_by_key  *)
(* end with all the entries gone that were in the map when they began and  *)
(* that they were to remove: none escapes by being a duplicate, by being   *)
(* stored again or because other slots change meanwhile.                   *)
EndsCleared == \A t \in Threads : ~Between(t) /\ Between(t)' => doomed[t] \cap Mapped' = {}

ClearsAreComplete == [][EndsCleared]_vars

(* Whoever can find an entry can also clear it by its tags: an entry that  *)
(* another thread can get at is in the list of each of its tags, unless    *)
(* updates of its key have overlapped.  SET keeps its entry locked until   *)
(* that is so (controller.c:299-302).                                      *)
MappedIsListed ==
  \A e \in Mapped : content[e].key \notin mixed =>
    \/ \E t \in Threads : e \in Held(t) /\ pc[t] \in {"tag", "untag"}
    \/ \A g \in content[e].tags : <<g, content[e].key>> \in index

(* A tag lists a key only for an entry with that tag which is in the map   *)
(* or which a thread is about to take from the list, with that exception.  *)
ListedIsReal ==
  \A g \in Tags : \A k \in Listed(g) \ mixed :
    \/ \E e \in Under(k) : g \in content[e].tags
    \/ \E t \in Threads : At(t, "untag") /\ g \in todo[t] /\ content[Going(t)].key = k

(* A GET misses a key only if the key had no entry at some time during the *)
(* GET, with that exception: a SET that replaces an entry never makes its  *)
(* key disappear.                                                          *)
MissesTruly == \A t \in Threads : op[t] = "get" /\ At(t, "probe") /\ At(t, "idle")' => ~steady[t]

MissesAreTrue == [][MissesTruly]_vars

(* "This inconsistency has to be handled in a higher layer for now" says   *)
(* entry.c:190-191 of duplicates, and DEL claims to: between requests, the *)
(* tags list exactly the keys of the entries that have them.               *)
HandledAbove ==
  (\A t \in Threads : At(t, "idle"))
    => index = UNION {content[e].tags \X {content[e].key} : e \in Mapped}

(***************************************************************************)
(* The inductive invariant: what a thread holds at each point of a request *)
(* and how far the tags are with it.                                       *)
(***************************************************************************)

(* The local variables of thread t fit the point it is at. *)
LocalOf(t) ==
  /\ pc[t] = "idle" => op[t] = "get"
  /\ pc[t] \in {"value", "tag"} => op[t] = "set"
  /\ pc[t] = "use" => op[t] \in {"get", "renew"}
  /\ pc[t] = "untag" => op[t] \notin {"get", "renew"}
  /\ pc[t] = "copy" => op[t] \in Matches
  /\ want[t] # NULL <=> ~Between(t) /\ ~Walking(t)
  /\ entry[t] # NULL <=> op[t] = "set" \/ pc[t] \in {"use", "untag"}
  /\ old[t] # NULL <=> op[t] = "set" /\ pc[t] = "untag"
  /\ Deleting(t) /\ pc[t] = "untag" => found[t]

LocalInv == \A t \in Threads : LocalOf(t)

(* No entry is in two slots or with two threads, or free while it is used. *)
OwnInv ==
  /\ \A s \in Slots : slots[s] # NULL => content[slots[s]] # NULL
  /\ \A r, s \in Slots : slots[r] = slots[s] /\ slots[s] # NULL => r = s
  /\ \A t, u \in Threads : Held(t) \cap Held(u) # {} => t = u
  /\ \A t \in Threads : \A e \in Held(t) : content[e] # NULL

(* An entry is in the map while it is being tagged or cleared by a walk,   *)
(* and is not while it is new, has been replaced or has been unset.        *)
HeldOf(t) ==
  /\ entry[t] # NULL /\ want[t] # NULL => content[entry[t]].key = want[t]
  /\ old[t] # NULL => content[old[t]].key = want[t] /\ old[t] \notin Mapped /\ old[t] # entry[t]
  /\ op[t] = "set" /\ pc[t] \in {"value", "probe"} => entry[t] \notin Mapped
  /\ op[t] = "set" /\ pc[t] \in {"untag", "tag"} => entry[t] \in Mapped
  /\ Deleting(t) /\ pc[t] = "untag" => entry[t] \notin Mapped
  /\ Walking(t) /\ pc[t] = "untag" => entry[t] = Here(t)
  /\ pc[t] = "tag" => todo[t] \subseteq content[entry[t]].tags

HeldInv == \A t \in Threads : HeldOf(t)

MixedInv == \A k \in Keys : Overlaps(k) => k \in mixed

(* MappedIsListed with what the thread has listed so far. *)
IsListed(e) ==
  \/ \E t \in Threads : e \in Held(t) /\ pc[t] = "untag"
  \/ \E t \in Threads :
       /\ entry[t] = e /\ pc[t] = "tag"
       /\ \A g \in content[e].tags \ todo[t] : <<g, content[e].key>> \in index
  \/ \A g \in content[e].tags : <<g, content[e].key>> \in index

(* ListedIsReal, of which a walk that clears the entry leaves the tags in  *)
(* its todo only.                                                          *)
Clearing(e) == \E t \in Threads : Walking(t) /\ pc[t] = "untag" /\ entry[t] = e

IsReal(g, k) ==
  \/ \E e \in Under(k) : g \in content[e].tags /\ ~Clearing(e)
  \/ \E t \in Threads : At(t, "untag") /\ g \in todo[t] /\ content[Going(t)].key = k

TagInv ==
  /\ \A e \in Mapped : content[e].key \notin mixed => IsListed(e)
  /\ \A g \in Tags : \A k \in Listed(g) \ mixed : IsReal(g, k)

(* The slots that the loop of thread t has not passed. *)
Turns(a, s) == IF s >= a THEN s - a ELSE s - a + Size
Ahead(t, s) ==
  IF Walking(t) THEN s >= pos[t]
  ELSE Turns(Start(want[t]), s) >= Turns(Start(want[t]), pos[t])

(* What is to be removed, and the key a GET must find, are ahead. *)
AheadOf(t) ==
  /\ doomed[t] \subseteq {e \in Mapped : Condemned(t, e)}
  /\ pc[t] = "probe" \/ (Walking(t) /\ pc[t] = "untag") =>
       \A s \in Slots : slots[s] \in doomed[t] => Ahead(t, s)
  /\ steady[t] =>
       /\ op[t] = "get" /\ pc[t] = "probe" /\ want[t] \notin mixed
       /\ \E s \in Slots : /\ slots[s] # NULL /\ content[slots[s]].key = want[t]
                           /\ Ahead(t, s)

AheadInv == \A t \in Threads : AheadOf(t)

IInv == TypeOK /\ LocalInv /\ OwnInv /\ HeldInv /\ MixedInv /\ TagInv /\ AheadInv
=============================================================================
