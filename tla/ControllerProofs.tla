--------------------------- MODULE ControllerProofs ---------------------------
(***************************************************************************)
(* Theorems about Controller, for every number of threads, keys, tags,     *)
(* entries and slots, and every hash function.                             *)
(***************************************************************************)
EXTENDS Controller, TLAPS

(***************************************************************************)
(* Constants.                                                              *)
(***************************************************************************)

LEMMA Constants ==
  /\ 0 \in Slots /\ NULL \notin Threads /\ NULL \notin Keys /\ NULL \notin Entries
  /\ 0 \in 0 .. MaxClock
  /\ \A e \in Entries : e # NULL
  /\ Never \in Times
BY ControllerAssumption DEF Slots, Times

LEMMA StartInSlots == ASSUME NEW k \in Keys PROVE Start(k) \in Slots
BY ControllerAssumption DEF Start, Slots

LEMMA NextInSlots ==
  ASSUME NEW p \in Slots
  PROVE  (p + 1) % Size = (IF p = Size - 1 THEN 0 ELSE p + 1) /\ (p + 1) % Size \in Slots
BY ControllerAssumption DEF Slots

(* clock + ttl is one of Times. *)
LEMMA ExpiryInTimes ==
  ASSUME clock \in 0 .. MaxClock, NEW ttl \in TTLs
  PROVE  ExpiryOf(ttl) \in Times
BY DEF ExpiryOf, Times

(***************************************************************************)
(* Types.                                                                  *)
(***************************************************************************)

(* What a step of t does to the content of an entry. *)
LEMMA ContentRelease ==
  ASSUME TypeOK, NEW e \in Entries, Release(e)
  PROVE  content' \in [Entries -> Contents \cup {NULL}]
BY DEF TypeOK, Release

LEMMA ContentExpires ==
  ASSUME TypeOK, NEW e \in Entries, content[e] # NULL, NEW time \in Times,
         content' = [content EXCEPT ![e].expires = time]
  PROVE  content' \in [Entries -> Contents \cup {NULL}]
<1>1. content[e] \in Contents
  BY DEF TypeOK
<1>2. [content[e] EXCEPT !.expires = time] \in Contents
  BY <1>1 DEF Contents
<1> QED BY <1>2 DEF TypeOK

LEMMA LeaveTypes ==
  ASSUME TypeOK, NEW t \in Threads, Leave(t)
  PROVE  /\ pc' \in [Threads -> Labels] /\ op' \in [Threads -> Ops]
         /\ want' \in [Threads -> Keys \cup {NULL}] /\ pos' \in [Threads -> Slots]
         /\ entry' \in [Threads -> Entries \cup {NULL}] /\ old' \in [Threads -> Entries \cup {NULL}]
         /\ todo' \in [Threads -> SUBSET Tags] /\ keys' \in [Threads -> SUBSET Keys]
         /\ wanted' \in [Threads -> SUBSET Tags] /\ found' \in [Threads -> BOOLEAN]
         /\ now' \in [Threads -> 0 .. MaxClock]
<1> USE Constants DEF TypeOK, Leave, Goto
<1>1. "idle" \in Labels /\ "get" \in Ops
  BY DEF Labels, Ops
<1>2. pc' \in [Threads -> Labels] /\ op' \in [Threads -> Ops]
  BY <1>1
<1>3. found' \in [Threads -> BOOLEAN]
  OBVIOUS
<1>4. now' \in [Threads -> 0 .. MaxClock]
  OBVIOUS
<1>5. /\ want' \in [Threads -> Keys \cup {NULL}] /\ pos' \in [Threads -> Slots]
      /\ entry' \in [Threads -> Entries \cup {NULL}] /\ old' \in [Threads -> Entries \cup {NULL}]
  OBVIOUS
<1>6. /\ todo' \in [Threads -> SUBSET Tags] /\ keys' \in [Threads -> SUBSET Keys]
      /\ wanted' \in [Threads -> SUBSET Tags]
  OBVIOUS
<1> QED BY <1>2, <1>3, <1>4, <1>5, <1>6

LEMMA HistoryTypes ==
  ASSUME TypeOK, History, slots' \in [Slots -> Entries \cup {NULL}]
  PROVE  /\ doomed' \in [Threads -> SUBSET Entries]
         /\ steady' \in [Threads -> BOOLEAN]
         /\ mixed' \subseteq Keys
<1>1. Mapped' \subseteq Entries
  BY DEF Mapped
<1>2. \A t \in Threads : doomed[t] \subseteq Entries
  BY DEF TypeOK
<1>3. doomed' \in [Threads -> SUBSET Entries]
  BY <1>1, <1>2 DEF History
<1>4. mixed' \subseteq Keys
  BY DEF History
<1>5. steady' \in [Threads -> BOOLEAN]
  BY Zenon DEF History
<1> QED BY <1>3, <1>4, <1>5

(* All variables but those of the history. *)
Types ==
  /\ slots \in [Slots -> Entries \cup {NULL}]
  /\ content \in [Entries -> Contents \cup {NULL}]
  /\ index \subseteq Tags \X Keys
  /\ clock \in 0 .. MaxClock
  /\ pc \in [Threads -> Labels]
  /\ op \in [Threads -> Ops]
  /\ want \in [Threads -> Keys \cup {NULL}]
  /\ pos \in [Threads -> Slots]
  /\ entry \in [Threads -> Entries \cup {NULL}]
  /\ old \in [Threads -> Entries \cup {NULL}]
  /\ todo \in [Threads -> SUBSET Tags]
  /\ keys \in [Threads -> SUBSET Keys]
  /\ wanted \in [Threads -> SUBSET Tags]
  /\ found \in [Threads -> BOOLEAN]
  /\ now \in [Threads -> 0 .. MaxClock]

LEMMA CallTypes ==
  ASSUME TypeOK, NEW t \in Threads, Call(t)
  PROVE  Types'
<1> USE Constants, StartInSlots DEF TypeOK, Types, Goto, At, Begin, ProbeFor, store, Labels, Ops, Walks, Matches
<1>1. ASSUME NEW k \in Keys, NEW f \in {"get", "renew"}, LookupCall(t, f, k) PROVE Types'
  BY <1>1 DEF LookupCall
<1>2. ASSUME NEW k \in Keys, NEW G \in SUBSET Tags, NEW e \in Entries, SetCall(t, k, G, e) PROVE Types'
  <2>1. [key |-> k, tags |-> G, expires |-> Never] \in Contents
    BY DEF Contents
  <2> QED BY <1>2, <2>1 DEF SetCall
<1>3. ASSUME NEW k \in Keys, DelCall(t, k) PROVE Types'
  BY <1>3 DEF DelCall
<1>4. ASSUME NEW mode \in Modes, NEW G \in SUBSET Tags, ClearCall(t, mode, G) PROVE Types'
  BY <1>4 DEF ClearCall
<1>5. ASSUME NEW mode \in Modes, NEW G \in SUBSET Tags, MatchCall(t, mode, G) PROVE Types'
  BY <1>5 DEF MatchCall
<1> HIDE DEF Types, TypeOK
<1> QED BY <1>1, <1>2, <1>3, <1>4, <1>5 DEF Call

LEMMA StepTypes ==
  ASSUME TypeOK, LocalInv, OwnInv, NEW t \in Threads, Step(t)
  PROVE  Types'
<1> USE Constants, StartInSlots, LeaveTypes DEF TypeOK, Types, At, store, locals
<1>0. \A e \in Held(t) : e \in Entries /\ content[e] # NULL
  BY DEF Held, OwnInv
<1>1. CASE ReadFails(t)
  <2>1. entry[t] \in Entries
    BY <1>1, <1>0 DEF ReadFails, LocalInv, LocalOf, Held
  <2> QED BY <1>1, <2>1, ContentRelease DEF ReadFails
<1>2. ASSUME NEW ttl \in TTLs, ReadValue(t, ttl) \/ Renew(t, ttl) PROVE Types'
  <2>1. entry[t] \in Entries /\ content[entry[t]] # NULL
    BY <1>2, <1>0 DEF ReadValue, Renew, LocalInv, LocalOf, Held
  <2>2. content' \in [Entries -> Contents \cup {NULL}]
    BY <1>2, <2>1, ExpiryInTimes, ContentExpires DEF ReadValue, Renew
  <2>3. CASE ReadValue(t, ttl)
    <3>1. want[t] \in Keys
      BY <2>3 DEF ReadValue, LocalInv, LocalOf, Between, Walking, Walks
    <3> QED BY <2>2, <2>3, <3>1 DEF ReadValue, ProbeFor, Goto, Labels
  <2>4. CASE Renew(t, ttl)
    BY <2>2, <2>4 DEF Renew
  <2> QED BY <1>2, <2>3, <2>4
<1>3. CASE SkipSlot(t)
  <2>1. (pos[t] + 1) % Size \in Slots
    BY NextInSlots
  <2> QED BY <1>3, <2>1 DEF SkipSlot, NextSlot, Goto, Labels
<1>4. CASE ProbeEnds(t) \/ Serve(t) \/ Publish(t) \/ ListEnds(t)
  BY <1>4 DEF ProbeEnds, Serve, Publish, ListEnds
<1>5. CASE SetFull(t)
  <2>1. entry[t] \in Entries
    BY <1>5, <1>0 DEF SetFull, LocalInv, LocalOf, Held
  <2> QED BY <1>5, <2>1, ContentRelease DEF SetFull
<1>6. CASE KeyEnds(t)
  BY <1>6 DEF KeyEnds, Goto, Labels
<1>7. CASE GetMatch(t) \/ SetEmpty(t)
  <2>1. Here(t) \in Entries \cup {NULL}
    BY DEF Here
  <2>2. SetEmpty(t) => entry[t] \in Entries /\ content[entry[t]].tags \subseteq Tags
    BY <1>0 DEF SetEmpty, LocalInv, LocalOf, Held, Contents
  <2> QED BY <1>7, <2>1, <2>2 DEF GetMatch, SetEmpty, Store, Goto, Labels
<1>8. CASE SetMatch(t) \/ Unset(t) \/ Take(t)
  <2>1. Here(t) \in Entries /\ content[Here(t)].tags \subseteq Tags
    BY <1>8 DEF SetMatch, Unset, Take, AtMatch, Here, OwnInv, Contents
  <2>2. CASE SetMatch(t)
    <3>1. entry[t] \in Entries
      BY <2>2, <1>0 DEF SetMatch, LocalInv, LocalOf, Held
    <3> QED BY <2>1, <2>2, <3>1 DEF SetMatch, Store, Goto, Labels
  <2>3. CASE Unset(t)
    BY <2>1, <2>3 DEF Unset, Goto, Labels
  <2>4. CASE Take(t)
    BY <2>1, <2>4 DEF Take, Goto, Labels
  <2> QED BY <1>8, <2>2, <2>3, <2>4
<1>9. CASE DropOld(t)
  <2>1. entry[t] \in Entries /\ old[t] \in Entries /\ content[entry[t]].tags \subseteq Tags
    BY <1>9, <1>0 DEF DropOld, Untagged, LocalInv, LocalOf, Held, Contents
  <2> QED BY <1>9, <2>1, ContentRelease DEF DropOld, Goto, Labels
<1>10. ASSUME NEW g \in Tags, Untag(t, g) \/ Tag(t, g) \/ TagFails(t, g) \/ CopyKeys(t, g) PROVE Types'
  <2>1. Tag(t, g) => want[t] \in Keys
    BY DEF Tag, LocalInv, LocalOf, Between, Walking, Walks
  <2>2. CASE Untag(t, g) \/ Tag(t, g)
    BY <2>1, <2>2 DEF Untag, Tag
  <2>3. CASE TagFails(t, g)
    BY <2>3 DEF TagFails
  <2>4. CASE CopyKeys(t, g)
    BY <2>4 DEF CopyKeys, Listed
  <2> QED BY <1>10, <2>2, <2>3, <2>4
<1>11. CASE DropUnset(t)
  <2>1. entry[t] \in Entries /\ want[t] \in Keys
    BY <1>11, <1>0 DEF DropUnset, Untagged, LocalInv, LocalOf, Held, Deleting, Between, Walking, Walks, Matches
  <2> QED BY <1>11, <2>1, ContentRelease DEF DropUnset, ProbeFor, Goto, Labels
<1>12. CASE DropTaken(t)
  <2>1. entry[t] \in Entries /\ (pos[t] + 1) % Size \in Slots
    BY <1>12, <1>0, NextInSlots DEF DropTaken, Untagged, LocalInv, LocalOf, Held
  <2>2. content' \in [Entries -> Contents \cup {NULL}]
    BY <1>12, <2>1, ContentRelease DEF DropTaken
  <2>3. CASE Leave(t)
    BY <1>12, <2>2, <2>3 DEF DropTaken
  <2>4. CASE ~Leave(t)
    BY <1>12, <2>1, <2>2, <2>4 DEF DropTaken, NextSlot, Goto, Labels
  <2> QED BY <2>3, <2>4
<1>13. ASSUME NEW k \in Keys, NextKey(t, k) PROVE Types'
  BY <1>13 DEF NextKey, ProbeFor, Goto, Labels
<1> QED BY <1>1, <1>2, <1>3, <1>4, <1>5, <1>6, <1>7, <1>8, <1>9, <1>10, <1>11, <1>12, <1>13 DEF Step

LEMMA TypeStep == IInv /\ [Next]_vars => TypeOK'
<1> SUFFICES ASSUME IInv, [Next]_vars PROVE TypeOK'
  OBVIOUS
<1>1. CASE UNCHANGED vars
  BY <1>1 DEF vars, IInv, TypeOK
<1>2. CASE Tick /\ History
  <2>1. clock' \in 0 .. MaxClock
    BY <1>2, ControllerAssumption DEF Tick, IInv, TypeOK
  <2>2. UNCHANGED <<slots, content, index, pc, op, want, pos, entry, old, todo, keys, wanted, found, now>>
    BY <1>2 DEF Tick, store, locals
  <2> QED BY <1>2, <2>1, <2>2, HistoryTypes DEF IInv, TypeOK
<1>3. ASSUME NEW t \in Threads, Call(t) \/ Step(t), History PROVE TypeOK'
  <2>1. Types'
    BY <1>3, CallTypes, StepTypes DEF IInv
  <2> QED BY <1>3, <2>1, HistoryTypes DEF Types, TypeOK, IInv
<1> QED BY <1>1, <1>2, <1>3 DEF Next

(***************************************************************************)
(* The other threads of a step.                                            *)
(***************************************************************************)

Stays(u) ==
  /\ pc'[u] = pc[u] /\ op'[u] = op[u] /\ want'[u] = want[u] /\ pos'[u] = pos[u]
  /\ entry'[u] = entry[u] /\ old'[u] = old[u] /\ todo'[u] = todo[u] /\ keys'[u] = keys[u]
  /\ wanted'[u] = wanted[u] /\ found'[u] = found[u] /\ now'[u] = now[u]

LEMMA Others ==
  ASSUME TypeOK, NEW t \in Threads, Call(t) \/ Step(t), NEW u \in Threads \ {t}
  PROVE  Stays(u)
<1> USE DEF TypeOK, Stays, Goto, ProbeFor, Begin, store, locals, Leave
<1>1. ASSUME NEW k \in Keys, NEW f \in {"get", "renew"}, LookupCall(t, f, k) PROVE Stays(u)
  BY <1>1 DEF LookupCall
<1>2. ASSUME NEW k \in Keys, NEW G \in SUBSET Tags, NEW e \in Entries, SetCall(t, k, G, e) PROVE Stays(u)
  BY <1>2 DEF SetCall
<1>3. ASSUME NEW k \in Keys, DelCall(t, k) PROVE Stays(u)
  BY <1>3 DEF DelCall
<1>4. ASSUME NEW mode \in Modes, NEW G \in SUBSET Tags, ClearCall(t, mode, G) \/ MatchCall(t, mode, G)
      PROVE  Stays(u)
  BY <1>4 DEF ClearCall, MatchCall
<1>5. CASE ReadFails(t) \/ SkipSlot(t) \/ ProbeEnds(t) \/ SetFull(t) \/ KeyEnds(t)
  BY <1>5 DEF ReadFails, SkipSlot, NextSlot, ProbeEnds, SetFull, KeyEnds
<1>6. ASSUME NEW ttl \in TTLs, ReadValue(t, ttl) \/ Renew(t, ttl) PROVE Stays(u)
  BY <1>6 DEF ReadValue, Renew
<1>7. CASE GetMatch(t) \/ Serve(t) \/ SetEmpty(t) \/ SetMatch(t) \/ DropOld(t) \/ Publish(t)
  BY <1>7 DEF GetMatch, Serve, SetEmpty, SetMatch, DropOld, Publish
<1>8. ASSUME NEW g \in Tags, Untag(t, g) \/ Tag(t, g) \/ TagFails(t, g) \/ CopyKeys(t, g) PROVE Stays(u)
  BY <1>8 DEF Untag, Tag, TagFails, CopyKeys
<1>9. CASE Unset(t) \/ DropUnset(t) \/ Take(t)
  BY <1>9 DEF Unset, DropUnset, Take
<1>10. CASE DropTaken(t)
  BY <1>10 DEF DropTaken, NextSlot
<1>11. ASSUME NEW k \in Keys, NextKey(t, k) PROVE Stays(u)
  BY <1>11 DEF NextKey
<1>12. CASE ListEnds(t)
  BY <1>12 DEF ListEnds
<1> HIDE DEF TypeOK, Stays
<1> QED BY <1>1, <1>2, <1>3, <1>4, <1>5, <1>6, <1>7, <1>8, <1>9, <1>10, <1>11, <1>12 DEF Call, Step

(***************************************************************************)
(* The local variables.                                                    *)
(***************************************************************************)

LEMMA LocalStep == IInv /\ [Next]_vars => LocalInv'
<1> SUFFICES ASSUME IInv, [Next]_vars, NEW v \in Threads PROVE LocalOf(v)'
  BY DEF LocalInv
<1> USE Constants DEF IInv, TypeOK, Goto, ProbeFor, Begin, At, store, locals, Leave, Between, Walking, Deleting,
        Walks, Matches
<1>0. LocalOf(v)
  BY DEF LocalInv
<1>1. CASE UNCHANGED vars
  BY <1>0, <1>1 DEF vars, LocalOf
<1>2. CASE Tick
  BY <1>0, <1>2 DEF Tick, LocalOf
<1>3. ASSUME NEW t \in Threads, Call(t) \/ Step(t) PROVE LocalOf(v)'
  <2>1. CASE v # t
    <3>1. Stays(v)
      BY <1>3, <2>1, Others
    <3> QED BY <1>0, <3>1 DEF Stays, LocalOf
  <2>2. CASE v = t
    <3> USE <2>2 DEF LocalOf
    <3>1. ASSUME NEW k \in Keys, NEW f \in {"get", "renew"}, LookupCall(t, f, k) PROVE LocalOf(t)'
      BY <1>0, <3>1 DEF LookupCall
    <3>2. ASSUME NEW k \in Keys, NEW G \in SUBSET Tags, NEW e \in Entries, SetCall(t, k, G, e) PROVE LocalOf(t)'
      BY <1>0, <3>2 DEF SetCall
    <3>3. ASSUME NEW k \in Keys, DelCall(t, k) PROVE LocalOf(t)'
      BY <1>0, <3>3 DEF DelCall
    <3>4. ASSUME NEW mode \in Modes, NEW G \in SUBSET Tags, ClearCall(t, mode, G) \/ MatchCall(t, mode, G)
          PROVE  LocalOf(t)'
      BY <1>0, <3>4 DEF ClearCall, MatchCall
    <3>5. CASE ReadFails(t) \/ ProbeEnds(t) \/ SetFull(t) \/ Serve(t) \/ Publish(t) \/ ListEnds(t)
      BY <1>0, <3>5 DEF ReadFails, ProbeEnds, SetFull, Serve, Publish, ListEnds
    <3>6. ASSUME NEW ttl \in TTLs, ReadValue(t, ttl) \/ Renew(t, ttl) PROVE LocalOf(t)'
      BY <1>0, <3>6 DEF ReadValue, Renew
    <3>7. CASE SkipSlot(t) \/ KeyEnds(t)
      BY <1>0, <3>7 DEF SkipSlot, KeyEnds, NextSlot, Passes, Visits
    <3>8. CASE GetMatch(t) \/ SetEmpty(t) \/ SetMatch(t)
      BY <1>0, <3>8 DEF GetMatch, SetEmpty, SetMatch, AtMatch, Visits
    <3>9. CASE DropOld(t) \/ DropUnset(t)
      BY <1>0, <3>9 DEF DropOld, DropUnset, Untagged
    <3>10. ASSUME NEW g \in Tags, Untag(t, g) \/ Tag(t, g) \/ TagFails(t, g) \/ CopyKeys(t, g) PROVE LocalOf(t)'
      BY <1>0, <3>10 DEF Untag, Tag, TagFails, CopyKeys
    <3>11. CASE Unset(t) \/ Take(t)
      BY <1>0, <3>11 DEF Unset, Take, AtMatch, Visits
    <3>12. CASE DropTaken(t)
      BY <1>0, <3>12 DEF DropTaken, NextSlot, Untagged
    <3>13. ASSUME NEW k \in Keys, NextKey(t, k) PROVE LocalOf(t)'
      BY <1>0, <3>13 DEF NextKey
    <3> HIDE DEF LocalOf, IInv, TypeOK
    <3> QED BY <1>3, <3>1, <3>2, <3>3, <3>4, <3>5, <3>6, <3>7, <3>8, <3>9, <3>10, <3>11, <3>12, <3>13 DEF Call, Step
  <2> QED BY <2>1, <2>2
<1> QED BY <1>1, <1>2, <1>3 DEF Next

(***************************************************************************)
(* Slots and contents.                                                     *)
(***************************************************************************)

LEMMA InMap == \A e : e \in Mapped <=> e # NULL /\ \E s \in Slots : slots[s] = e
BY DEF Mapped

LEMMA InMapPrimed == \A e : e \in Mapped' <=> e # NULL /\ \E s \in Slots : slots'[s] = e
BY DEF Mapped

(* A slot is changed by a thread that has its lock: it puts its new entry   *)
(* there, or takes away an entry that nobody else has.                      *)
Puts(t, s) == slots'[s] = entry[t] /\ entry[t] # NULL /\ op[t] = "set" /\ At(t, "probe")
MayLose(t, s) == slots[s] = NULL \/ Unlocked(slots[s]) \/ slots[s] = entry[t]

LEMMA SlotsStep ==
  ASSUME IInv, NEW t \in Threads, Call(t) \/ Step(t), NEW s \in Slots
  PROVE  slots'[s] = slots[s] \/ (s = pos[t] /\ MayLose(t, s) /\ (slots'[s] = NULL \/ Puts(t, s)))
<1> DEFINE Goal == slots'[s] = slots[s] \/ (s = pos[t] /\ MayLose(t, s) /\ (slots'[s] = NULL \/ Puts(t, s)))
<1>1. CASE slots' = slots
  BY <1>1
<1>2. CASE SetEmpty(t) \/ SetMatch(t)
  <2>1. /\ slots' = [slots EXCEPT ![pos[t]] = entry[t]] /\ op[t] = "set" /\ At(t, "probe")
        /\ slots[pos[t]] = NULL \/ Unlocked(slots[pos[t]])
    BY <1>2 DEF SetEmpty, SetMatch, Store, AtMatch, Visits, Here
  <2>2. entry[t] # NULL
    BY <2>1 DEF IInv, LocalInv, LocalOf
  <2> QED BY <2>1, <2>2 DEF MayLose, Puts, IInv, TypeOK
<1>3. CASE Unset(t)
  BY <1>3 DEF Unset, Here, MayLose, IInv, TypeOK
<1>4. CASE DropTaken(t)
  <2>1. slots[pos[t]] = entry[t] /\ slots' = [slots EXCEPT ![pos[t]] = NULL]
    BY <1>4 DEF DropTaken, Untagged, At, Here, IInv, HeldInv, HeldOf
  <2> QED BY <2>1 DEF MayLose, IInv, TypeOK
<1>5. ASSUME Call(t) PROVE slots' = slots
  BY <1>5 DEF Call, LookupCall, SetCall, DelCall, ClearCall, MatchCall, store
<1>6. ASSUME Step(t) PROVE slots' = slots \/ SetEmpty(t) \/ SetMatch(t) \/ Unset(t) \/ DropTaken(t)
  BY <1>6 DEF Step, ReadFails, ReadValue, Renew, SkipSlot, ProbeEnds, SetFull, KeyEnds, GetMatch, Serve,
     DropOld, Publish, Untag, Tag, TagFails, CopyKeys, DropUnset, Take, NextKey, ListEnds, store
<1> QED BY <1>1, <1>2, <1>3, <1>4, <1>5, <1>6

(* An entry keeps its key and its tags as long as it has a content. *)
Same(e) ==
  /\ content'[e] = NULL <=> content[e] = NULL
  /\ content[e] # NULL => content'[e].key = content[e].key /\ content'[e].tags = content[e].tags

Reserves(t, e) == content[e] = NULL /\ content'[e] # NULL /\ entry'[t] = e /\ pc'[t] = "value"
Releases(t, e) == e \in Held(t) /\ e \notin Held(t)' /\ e \notin Mapped' /\ content'[e] = NULL

LEMMA ExpiresOnly ==
  ASSUME TypeOK, NEW e \in Entries, content[e] # NULL, NEW time \in Times,
         content' = [content EXCEPT ![e].expires = time], NEW d \in Entries
  PROVE  Same(d)
<1>1. content[e] \in Contents /\ content'[e] = [content[e] EXCEPT !.expires = time]
  BY DEF TypeOK
<1>2. content'[e] # NULL /\ content'[e].key = content[e].key /\ content'[e].tags = content[e].tags
  <2>1. content'[e] \in Contents
    BY <1>1 DEF Contents
  <2>2. content'[e].key = content[e].key /\ content'[e].tags = content[e].tags
    BY <1>1 DEF Contents
  <2> QED BY <2>1, <2>2, ContentAssumption
<1> QED BY <1>2 DEF Same, TypeOK

LEMMA HeldIsReserved ==
  ASSUME IInv, NEW t \in Threads
  PROVE  \A e \in Held(t) : e \in Entries /\ e # NULL /\ content[e] # NULL
BY Constants DEF Held, IInv, OwnInv, TypeOK

(* The entries that a thread gives up have left the map. *)
LEMMA Released ==
  ASSUME IInv, NEW t \in Threads, Step(t), NEW e \in Held(t), Release(e), e \notin Held(t)', e \notin Mapped',
         NEW d \in Entries
  PROVE  Same(d) \/ Releases(t, d)
BY DEF Same, Releases, Release, IInv, TypeOK

LEMMA ContentStep ==
  ASSUME IInv, NEW t \in Threads, Call(t) \/ Step(t), NEW e \in Entries
  PROVE  Same(e) \/ Reserves(t, e) \/ Releases(t, e)
<1> DEFINE Goal == Same(e) \/ Reserves(t, e) \/ Releases(t, e)
<1> USE Constants
<1>1. CASE content' = content
  BY <1>1 DEF Same
<1>2. ASSUME NEW k \in Keys, NEW G \in SUBSET Tags, NEW d \in Entries, SetCall(t, k, G, d) PROVE Goal
  <2>1. [key |-> k, tags |-> G, expires |-> Never] # NULL
    BY ContentAssumption DEF Contents
  <2> QED BY <1>2, <2>1 DEF SetCall, Goto, Same, Reserves, IInv, TypeOK
<1>3. ASSUME NEW ttl \in TTLs, ReadValue(t, ttl) \/ Renew(t, ttl) PROVE Goal
  <2>1. entry[t] \in Entries /\ content[entry[t]] # NULL /\ content' = [content EXCEPT ![entry[t]].expires = ExpiryOf(ttl)]
    BY <1>3, HeldIsReserved DEF ReadValue, Renew, At, Held, IInv, LocalInv, LocalOf
  <2>2. ExpiryOf(ttl) \in Times
    BY ExpiryInTimes DEF IInv, TypeOK
  <2> QED BY <2>1, <2>2, ExpiresOnly DEF IInv
<1>4. CASE ReadFails(t) \/ SetFull(t)
  <2>1. /\ UNCHANGED slots /\ Release(entry[t]) /\ entry'[t] = NULL /\ old'[t] = NULL
        /\ op[t] = "set" /\ pc[t] \in {"value", "probe"}
    BY <1>4 DEF ReadFails, SetFull, At, Leave, Passes, Visits, IInv, TypeOK, LocalInv, LocalOf
  <2>2. entry[t] \in Held(t) /\ entry[t] \notin Mapped' /\ entry[t] \notin Held(t)'
    BY <2>1 DEF Held, Mapped, IInv, LocalInv, LocalOf, HeldInv, HeldOf
  <2>3. Step(t)
    BY <1>4 DEF Step
  <2> QED BY <2>1, <2>2, <2>3, Released
<1>5. CASE DropOld(t)
  <2>1. /\ UNCHANGED <<slots, entry>> /\ Release(old[t]) /\ old'[t] = NULL /\ op[t] = "set" /\ pc[t] = "untag"
    BY <1>5 DEF DropOld, Untagged, At, IInv, TypeOK
  <2>2. old[t] \in Held(t) /\ old[t] \notin Mapped' /\ old[t] \notin Held(t)'
    BY <2>1 DEF Held, Mapped, IInv, LocalInv, LocalOf, HeldInv, HeldOf
  <2>3. Step(t)
    BY <1>5 DEF Step
  <2> QED BY <2>1, <2>2, <2>3, Released
<1>6. CASE DropUnset(t)
  <2>1. /\ UNCHANGED <<slots, old>> /\ Release(entry[t]) /\ entry'[t] = NULL /\ Deleting(t) /\ pc[t] = "untag"
    BY <1>6 DEF DropUnset, Untagged, At, IInv, TypeOK
  <2>2. old[t] = NULL
    BY <2>1 DEF IInv, LocalInv, LocalOf, Deleting, Matches
  <2>3. entry[t] \in Held(t) /\ entry[t] \notin Mapped' /\ entry[t] \notin Held(t)'
    BY <2>1, <2>2 DEF Held, Mapped, IInv, LocalInv, LocalOf, HeldInv, HeldOf
  <2>4. Step(t)
    BY <1>6 DEF Step
  <2> QED BY <2>1, <2>3, <2>4, Released
<1>7. CASE DropTaken(t)
  <2>1. /\ slots' = [slots EXCEPT ![pos[t]] = NULL] /\ Release(entry[t]) /\ entry'[t] = NULL
        /\ Walking(t) /\ pc[t] = "untag"
    BY <1>7 DEF DropTaken, Untagged, At, Leave, IInv, TypeOK
  <2>2. old[t] = NULL /\ old'[t] = NULL
    BY <1>7, <2>1 DEF IInv, TypeOK, LocalInv, LocalOf, Walking, Walks, DropTaken, Leave
  <2>3. entry[t] = slots[pos[t]] /\ entry[t] # NULL /\ pos[t] \in Slots
    BY <2>1 DEF IInv, TypeOK, LocalInv, LocalOf, HeldInv, HeldOf, Here
  <2>4. entry[t] \notin Mapped'
    <3>1. \A s \in Slots : slots'[s] # entry[t]
      BY <2>1, <2>3 DEF IInv, TypeOK, OwnInv
    <3> QED BY <3>1 DEF Mapped
  <2>5. entry[t] \in Held(t) /\ entry[t] \notin Held(t)'
    BY <2>1, <2>2, <2>3 DEF Held
  <2>6. Step(t)
    BY <1>7 DEF Step
  <2> QED BY <2>1, <2>4, <2>5, <2>6, Released
<1>8. ASSUME Call(t) PROVE content' = content \/ \E k \in Keys, G \in SUBSET Tags, d \in Entries : SetCall(t, k, G, d)
  BY <1>8 DEF Call, LookupCall, DelCall, ClearCall, MatchCall, store
<1>9. ASSUME Step(t)
      PROVE  \/ content' = content
             \/ \E ttl \in TTLs : ReadValue(t, ttl) \/ Renew(t, ttl)
             \/ ReadFails(t) \/ SetFull(t) \/ DropOld(t) \/ DropUnset(t) \/ DropTaken(t)
  BY <1>9 DEF Step, SkipSlot, ProbeEnds, KeyEnds, GetMatch, Serve, SetEmpty, SetMatch,
     Publish, Untag, Tag, TagFails, CopyKeys, Unset, Take, NextKey, ListEnds, store
<1> QED BY <1>1, <1>2, <1>3, <1>4, <1>5, <1>6, <1>7, <1>8, <1>9

(***************************************************************************)
(* Who holds what.                                                         *)
(***************************************************************************)

(* What a step of t takes in hand was new or unlocked. *)
LEMMA HeldAfter ==
  ASSUME IInv, NEW t \in Threads, Call(t) \/ Step(t), NEW e \in Held(t)'
  PROVE  \/ e \in Held(t)
         \/ e \in Entries /\ content[e] = NULL /\ content'[e] # NULL
         \/ (e \in Entries /\ e \in Mapped /\ Unlocked(e))
<1> DEFINE Goal == \/ e \in Held(t)
                   \/ e \in Entries /\ content[e] = NULL /\ content'[e] # NULL
                   \/ (e \in Entries /\ e \in Mapped /\ Unlocked(e))
<1>1. CASE entry'[t] \in {entry[t], NULL} /\ old'[t] \in {old[t], NULL}
  BY <1>1 DEF Held
<1>2. ASSUME NEW k \in Keys, NEW G \in SUBSET Tags, NEW d \in Entries, SetCall(t, k, G, d) PROVE Goal
  <2>1. [key |-> k, tags |-> G, expires |-> Never] # NULL
    BY Constants, ContentAssumption DEF Contents
  <2> QED BY <1>2, <2>1 DEF SetCall, Held, IInv, TypeOK
<1>3. CASE GetMatch(t) \/ Unset(t) \/ Take(t)
  <2>1. Here(t) \in Mapped /\ Here(t) \in Entries /\ Unlocked(Here(t)) /\ entry'[t] = Here(t) /\ old'[t] = old[t]
    BY <1>3 DEF GetMatch, Unset, Take, AtMatch, Here, Mapped, IInv, TypeOK
  <2> QED BY <2>1 DEF Held
<1>4. CASE SetMatch(t)
  <2>1. Here(t) \in Mapped /\ Here(t) \in Entries /\ Unlocked(Here(t)) /\ old'[t] = Here(t) /\ entry'[t] = entry[t]
    BY <1>4 DEF SetMatch, AtMatch, Here, Mapped, IInv, TypeOK
  <2> QED BY <2>1 DEF Held
<1>5. ASSUME Call(t) PROVE \/ entry' = entry /\ old' = old
                           \/ \E k \in Keys, G \in SUBSET Tags, d \in Entries : SetCall(t, k, G, d)
  BY <1>5 DEF Call, LookupCall, DelCall, ClearCall, MatchCall
<1>6. ASSUME Step(t) PROVE \/ entry'[t] \in {entry[t], NULL} /\ old'[t] \in {old[t], NULL}
                           \/ GetMatch(t) \/ Unset(t) \/ Take(t) \/ SetMatch(t)
  <2> USE DEF IInv, TypeOK
  <2>1. Leave(t) => entry'[t] = NULL /\ old'[t] = NULL
    BY DEF Leave
  <2> HIDE DEF Leave
  <2>2. CASE \/ ReadFails(t) \/ \E ttl \in TTLs : ReadValue(t, ttl) \/ Renew(t, ttl)
             \/ SkipSlot(t) \/ ProbeEnds(t) \/ SetFull(t) \/ KeyEnds(t) \/ Serve(t)
    BY <2>1, <2>2 DEF ReadFails, ReadValue, Renew, SkipSlot, ProbeEnds, SetFull, KeyEnds, Serve, locals
  <2>3. CASE SetEmpty(t) \/ DropOld(t) \/ Publish(t) \/ DropUnset(t) \/ DropTaken(t) \/ ListEnds(t)
    BY <2>1, <2>3 DEF SetEmpty, DropOld, Publish, DropUnset, DropTaken, ListEnds, locals
  <2>4. CASE \/ \E g \in Tags : Untag(t, g) \/ Tag(t, g) \/ TagFails(t, g) \/ CopyKeys(t, g)
             \/ \E k \in Keys : NextKey(t, k)
    BY <2>4 DEF Untag, Tag, TagFails, CopyKeys, NextKey
  <2> QED BY <1>6, <2>2, <2>3, <2>4 DEF Step
<1> QED BY <1>1, <1>2, <1>3, <1>4, <1>5, <1>6

(* No step of t disturbs what another thread holds. *)
LEMMA Undisturbed ==
  ASSUME IInv, NEW t \in Threads, Call(t) \/ Step(t), NEW u \in Threads \ {t}, NEW e \in Held(u)
  PROVE  Same(e) /\ e \notin Held(t)' /\ \A s \in Slots : slots'[s] = e <=> slots[s] = e
<1>1. e \in Entries /\ e # NULL /\ content[e] # NULL /\ ~Unlocked(e)
  BY HeldIsReserved DEF Unlocked
<1>2. e \notin Held(t)
  BY DEF IInv, OwnInv
<1>3. Same(e)
  BY <1>1, <1>2, ContentStep DEF Reserves, Releases
<1>4. e \notin Held(t)'
  BY <1>1, <1>2, HeldAfter
<1>5. entry[t] # e
  BY <1>1, <1>2 DEF Held
<1>6. \A s \in Slots : slots'[s] = e <=> slots[s] = e
  BY <1>1, <1>5, SlotsStep DEF MayLose, Puts
<1> QED BY <1>3, <1>4, <1>6

LEMMA OwnStep == IInv /\ [Next]_vars => OwnInv'
<1> SUFFICES ASSUME IInv, [Next]_vars PROVE OwnInv'
  OBVIOUS
<1>1. CASE UNCHANGED vars
  BY <1>1 DEF vars, IInv, OwnInv, Held
<1>2. CASE Tick
  BY <1>2 DEF Tick, IInv, OwnInv, Held, store, locals
<1>3. ASSUME NEW t \in Threads, Call(t) \/ Step(t) PROVE OwnInv'
  <2>1. ASSUME NEW s \in Slots, slots'[s] # NULL PROVE content'[slots'[s]] # NULL
    <3>1. slots'[s] \in Entries /\ content[slots'[s]] # NULL
      <4>1. CASE slots'[s] = slots[s]
        BY <2>1, <4>1 DEF IInv, TypeOK, OwnInv
      <4>2. CASE Puts(t, s)
        BY <4>2, HeldIsReserved DEF Puts, Held
      <4> QED BY <1>3, <2>1, <4>1, <4>2, SlotsStep
    <3>2. slots'[s] \in Mapped'
      BY <2>1, InMapPrimed
    <3> QED BY <1>3, <3>1, <3>2, ContentStep DEF Same, Reserves, Releases
  <2>2. ASSUME NEW r \in Slots, NEW s \in Slots, slots'[r] = slots'[s], slots'[s] # NULL PROVE r = s
    <3>1. Puts(t, r) \/ Puts(t, s) => entry[t] \notin Mapped
      BY DEF Puts, At, IInv, HeldInv, HeldOf
    <3>2. \A q \in Slots : slots[q] # NULL => slots[q] \in Mapped
      BY DEF Mapped
    <3>3. CASE slots'[r] = slots[r] /\ slots'[s] = slots[s]
      BY <2>2, <3>3 DEF IInv, OwnInv
    <3>4. CASE Puts(t, r) /\ r = pos[t] /\ slots'[s] = slots[s]
      BY <2>2, <3>1, <3>2, <3>4 DEF Puts
    <3>5. CASE Puts(t, s) /\ s = pos[t] /\ slots'[r] = slots[r]
      BY <2>2, <3>1, <3>2, <3>5 DEF Puts
    <3> QED BY <1>3, <2>2, <3>3, <3>4, <3>5, SlotsStep
  <2>3. \A u \in Threads \ {t} : Held(u)' = Held(u)
    BY <1>3, Others DEF Stays, Held, IInv
  <2>4. ASSUME NEW u \in Threads, NEW v \in Threads, Held(u)' \cap Held(v)' # {} PROVE u = v
    <3>1. CASE u = t /\ v # t
      BY <1>3, <2>3, <2>4, <3>1, Undisturbed
    <3>2. CASE v = t /\ u # t
      BY <1>3, <2>3, <2>4, <3>2, Undisturbed
    <3>3. CASE v # t /\ u # t
      BY <2>3, <2>4, <3>3 DEF IInv, OwnInv
    <3> QED BY <3>1, <3>2, <3>3
  <2>5. ASSUME NEW u \in Threads, NEW e \in Held(u)' PROVE content'[e] # NULL
    <3>1. CASE u # t
      BY <1>3, <2>3, <2>5, <3>1, Undisturbed, HeldIsReserved DEF Same
    <3>2. CASE u = t
      <4>1. e \in Entries
        BY <1>3, <2>5, <3>2, HeldAfter, HeldIsReserved
      <4>2. content[e] # NULL => content'[e] # NULL
        BY <1>3, <2>5, <3>2, <4>1, ContentStep DEF Same, Reserves, Releases
      <4>3. content[e] = NULL => content'[e] # NULL
        <5>1. e \in Mapped => content[e] # NULL
          BY InMap DEF IInv, OwnInv
        <5> QED BY <1>3, <2>5, <3>2, <5>1, HeldAfter, HeldIsReserved
      <4> QED BY <4>2, <4>3
    <3> QED BY <3>1, <3>2
  <2> QED BY <2>1, <2>2, <2>4, <2>5 DEF OwnInv
<1> QED BY <1>1, <1>2, <1>3 DEF Next

(* An entry stays in the map under its slot. *)
LEMMA MappedStays ==
  ASSUME IInv, NEW t \in Threads, Call(t) \/ Step(t), NEW e \in Mapped
  PROVE  e \in Mapped' => Same(e) /\ \A s \in Slots : slots'[s] = e <=> slots[s] = e
<1>1. e \in Entries /\ e # NULL /\ content[e] # NULL
  BY InMap DEF IInv, TypeOK, OwnInv
<1>2. e \in Mapped' => Same(e)
  BY <1>1, ContentStep DEF Reserves, Releases
<1>3. \A s \in Slots : slots'[s] = e => slots[s] = e
  <2>1. \A s \in Slots : Puts(t, s) => entry[t] \notin Mapped
    BY DEF Puts, At, IInv, HeldInv, HeldOf
  <2> QED BY <1>1, <2>1, SlotsStep DEF Puts
<1>4. e \in Mapped' => \A s \in Slots : slots[s] = e => slots'[s] = e
  BY <1>1, <1>3, InMapPrimed DEF IInv, OwnInv
<1> QED BY <1>2, <1>3, <1>4

(* For a thread other than the one that takes the step. *)
LEMMA HeldOthers ==
  ASSUME IInv, NEW t \in Threads, Call(t) \/ Step(t), NEW u \in Threads \ {t}
  PROVE  HeldOf(u)'
<1>1. Stays(u)
  BY Others DEF IInv
<1>2. HeldOf(u)
  BY DEF IInv, HeldInv
<1>3. \A e \in Held(u) : Same(e) /\ (\A s \in Slots : slots'[s] = e <=> slots[s] = e)
  BY Undisturbed
<1>4. \A e \in Held(u) : (e \in Mapped' <=> e \in Mapped) /\ content[e] # NULL
  BY <1>3, InMap, InMapPrimed, HeldIsReserved
<1>5. (entry[u] # NULL => entry[u] \in Held(u)) /\ (old[u] # NULL => old[u] \in Held(u))
  BY DEF Held
<1>6. LocalOf(u)
  BY DEF IInv, LocalInv
<1>7. pos[u] \in Slots
  BY DEF IInv, TypeOK
<1>8. entry'[u] # NULL /\ want'[u] # NULL => content'[entry'[u]].key = want'[u]
  BY <1>1, <1>2, <1>3, <1>4, <1>5 DEF Stays, HeldOf, Same
<1>9. old'[u] # NULL => content'[old'[u]].key = want'[u] /\ old'[u] \notin Mapped' /\ old'[u] # entry'[u]
  BY <1>1, <1>2, <1>3, <1>4, <1>5 DEF Stays, HeldOf, Same
<1>10. op'[u] = "set" /\ pc'[u] \in {"value", "probe"} => entry'[u] \notin Mapped'
  BY <1>1, <1>2, <1>4, <1>5, <1>6 DEF Stays, HeldOf, LocalOf
<1>11. op'[u] = "set" /\ pc'[u] \in {"untag", "tag"} => entry'[u] \in Mapped'
  BY <1>1, <1>2, <1>4, <1>5, <1>6 DEF Stays, HeldOf, LocalOf
<1>12. Deleting(u)' /\ pc'[u] = "untag" => entry'[u] \notin Mapped'
  BY <1>1, <1>2, <1>4, <1>5, <1>6 DEF Stays, HeldOf, LocalOf, Deleting
<1>13. Walking(u)' /\ pc'[u] = "untag" => entry'[u] = Here(u)'
  BY <1>1, <1>2, <1>3, <1>5, <1>6, <1>7 DEF Stays, HeldOf, LocalOf, Walking, Here
<1>14. pc'[u] = "tag" => todo'[u] \subseteq content'[entry'[u]].tags
  BY <1>1, <1>2, <1>3, <1>4, <1>5, <1>6 DEF Stays, HeldOf, LocalOf, Same
<1> QED BY <1>8, <1>9, <1>10, <1>11, <1>12, <1>13, <1>14 DEF HeldOf

LEMMA HeldCall ==
  ASSUME IInv, NEW t \in Threads, Call(t)
  PROVE  HeldOf(t)'
<1> USE Constants DEF IInv, TypeOK, HeldOf, Begin, Goto, ProbeFor, At, store, Deleting, Walking, Walks, Matches
<1>1. LocalOf(t) /\ pc[t] = "idle" => old[t] = NULL /\ entry[t] = NULL
  BY DEF LocalOf
<1>2. LocalOf(t)
  BY DEF LocalInv
<1>3. ASSUME NEW k \in Keys, NEW f \in {"get", "renew"}, LookupCall(t, f, k) PROVE HeldOf(t)'
  BY <1>1, <1>2, <1>3 DEF LookupCall
<1>4. ASSUME NEW k \in Keys, NEW G \in SUBSET Tags, NEW e \in Entries, SetCall(t, k, G, e) PROVE HeldOf(t)'
  <2>1. e \notin Mapped /\ e # NULL
    BY <1>4, InMap DEF SetCall, OwnInv
  <2>2. /\ pc'[t] = "value" /\ entry'[t] = e /\ want'[t] = k /\ old'[t] = NULL /\ op'[t] = "set"
        /\ content'[e].key = k /\ slots' = slots
    BY <1>1, <1>2, <1>4 DEF SetCall
  <2>3. e \notin Mapped'
    BY <2>1, <2>2 DEF Mapped
  <2> QED BY <2>2, <2>3
<1>5. ASSUME NEW k \in Keys, DelCall(t, k) PROVE HeldOf(t)'
  BY <1>1, <1>2, <1>5 DEF DelCall
<1>6. ASSUME NEW mode \in Modes, NEW G \in SUBSET Tags, ClearCall(t, mode, G) \/ MatchCall(t, mode, G)
      PROVE  HeldOf(t)'
  BY <1>1, <1>2, <1>6 DEF ClearCall, MatchCall
<1> HIDE DEF HeldOf, IInv, TypeOK
<1> QED BY <1>3, <1>4, <1>5, <1>6 DEF Call

(* A thread that holds nothing has nothing to show. *)
LEMMA HeldNothing ==
  ASSUME NEW t \in Threads, LocalOf(t)', entry'[t] = NULL, old'[t] = NULL
  PROVE  HeldOf(t)'
BY DEF LocalOf, HeldOf, Deleting, Walking, Walks, Matches

LEMMA HeldOwn ==
  ASSUME IInv, NEW t \in Threads, Step(t), LocalOf(t)'
  PROVE  HeldOf(t)'
<1> USE Constants DEF IInv, TypeOK, Goto, ProbeFor, At, store, locals
<1>1. LocalOf(t) /\ HeldOf(t)
  BY DEF LocalInv, HeldInv
<1>2. Leave(t) => HeldOf(t)'
  BY HeldNothing DEF Leave
<1>3. CASE ReadFails(t) \/ ProbeEnds(t) \/ SetFull(t) \/ Serve(t) \/ Publish(t) \/ ListEnds(t)
  BY <1>2, <1>3 DEF ReadFails, ProbeEnds, SetFull, Serve, Publish, ListEnds
<1>4. ASSUME NEW ttl \in TTLs, ReadValue(t, ttl) PROVE HeldOf(t)'
  <2>1. /\ entry[t] \in Entries /\ content[entry[t]] # NULL
        /\ content' = [content EXCEPT ![entry[t]].expires = ExpiryOf(ttl)]
    BY <1>1, <1>4, HeldIsReserved DEF ReadValue, LocalOf, Held
  <2>2. Same(entry[t])
    BY <2>1, ExpiresOnly, ExpiryInTimes
  <2>3. /\ pc[t] = "value" /\ pc'[t] = "probe" /\ UNCHANGED <<slots, op, want, entry, old, todo>>
    BY <1>4 DEF ReadValue
  <2>4. Mapped' = Mapped
    BY <2>3 DEF Mapped
  <2> QED BY <1>1, <2>1, <2>2, <2>3, <2>4 DEF LocalOf, HeldOf, Same, Walking, Deleting, Walks, Matches
<1>5. ASSUME NEW ttl \in TTLs, Renew(t, ttl) PROVE HeldOf(t)'
  BY <1>2, <1>5 DEF Renew
<1>6. CASE SkipSlot(t) \/ KeyEnds(t)
  <2>1. /\ pc[t] = "probe" /\ pc'[t] \in {"probe", "copy"} /\ UNCHANGED <<slots, content, op, entry, old>>
        /\ want'[t] \in {want[t], NULL}
    BY <1>6 DEF SkipSlot, KeyEnds, NextSlot, Passes, Visits
  <2>2. Mapped' = Mapped
    BY <2>1 DEF Mapped
  <2> QED BY <1>1, <2>1, <2>2 DEF LocalOf, HeldOf, Walking, Deleting
<1>7. CASE GetMatch(t)
  <2>1. /\ entry'[t] = Here(t) /\ content' = content /\ want' = want /\ content[Here(t)].key = want[t]
        /\ op' = op /\ op[t] \in {"get", "renew"} /\ old' = old /\ pc'[t] = "use"
    BY <1>7 DEF GetMatch, AtMatch
  <2> QED BY <1>1, <2>1 DEF LocalOf, HeldOf, Walking, Deleting, Walks, Matches
<1>8. CASE SetEmpty(t)
  <2>1. /\ slots' = [slots EXCEPT ![pos[t]] = entry[t]] /\ UNCHANGED <<content, want, entry, op, old>>
        /\ op[t] = "set" /\ pc'[t] = "tag" /\ pc[t] = "probe" /\ todo'[t] = content[entry[t]].tags
    BY <1>8 DEF SetEmpty, Store, Visits
  <2>2. entry[t] \in Mapped'
    BY <1>1, <2>1, InMapPrimed DEF LocalOf
  <2> QED BY <1>1, <2>1, <2>2 DEF LocalOf, HeldOf, Walking, Deleting, Walks, Matches
<1>9. CASE SetMatch(t)
  <2>1. /\ slots' = [slots EXCEPT ![pos[t]] = entry[t]] /\ UNCHANGED <<content, want, entry, op>>
        /\ op[t] = "set" /\ pc'[t] = "untag" /\ pc[t] = "probe" /\ old'[t] = Here(t)
        /\ content[Here(t)].key = want[t] /\ Here(t) # NULL
    BY <1>9 DEF SetMatch, Store, AtMatch, Visits
  <2>2. entry[t] \in Mapped' /\ entry[t] # NULL
    BY <1>1, <2>1, InMapPrimed DEF LocalOf
  <2>3. Here(t) \in Mapped /\ entry[t] \notin Mapped
    BY <1>1, <2>1, InMap DEF HeldOf, Here
  <2>4. Here(t) \notin Mapped'
    BY <2>1, <2>3, InMapPrimed DEF OwnInv, Here
  <2> QED BY <1>1, <2>1, <2>2, <2>3, <2>4 DEF LocalOf, HeldOf, Walking, Deleting, Walks, Matches
<1>10. CASE DropOld(t)
  <2>1. /\ Release(old[t]) /\ UNCHANGED <<slots, want, entry, op>> /\ old'[t] = NULL
        /\ op[t] = "set" /\ pc[t] = "untag" /\ pc'[t] = "tag" /\ todo'[t] = content[entry[t]].tags
    BY <1>10 DEF DropOld, Untagged
  <2>2. content'[entry[t]] = content[entry[t]]
    BY <1>1, <2>1 DEF Release, HeldOf, LocalOf
  <2>3. Mapped' = Mapped
    BY <2>1 DEF Mapped
  <2> QED BY <1>1, <2>1, <2>2, <2>3 DEF LocalOf, HeldOf, Walking, Deleting, Walks, Matches
<1>11. ASSUME NEW g \in Tags, Untag(t, g) \/ Tag(t, g) \/ TagFails(t, g) \/ CopyKeys(t, g) PROVE HeldOf(t)'
  <2>1. UNCHANGED <<slots, content, pc, op, want, pos, entry, old>> /\ todo'[t] \subseteq todo[t]
    BY <1>11 DEF Untag, Tag, TagFails, CopyKeys
  <2>2. Mapped' = Mapped
    BY <2>1 DEF Mapped
  <2> QED BY <1>1, <2>1, <2>2 DEF HeldOf, Walking, Deleting, Here
<1>12. CASE Unset(t)
  <2>1. /\ slots' = [slots EXCEPT ![pos[t]] = NULL] /\ UNCHANGED <<content, want, old, op>>
        /\ Deleting(t) /\ pc'[t] = "untag" /\ pc[t] = "probe" /\ entry'[t] = Here(t)
        /\ content[Here(t)].key = want[t] /\ Here(t) # NULL
    BY <1>12 DEF Unset, AtMatch, Visits
  <2>2. Here(t) \notin Mapped'
    BY <2>1, InMapPrimed DEF OwnInv, Here
  <2> QED BY <1>1, <2>1, <2>2 DEF LocalOf, HeldOf, Walking, Deleting, Walks, Matches
<1>13. CASE DropUnset(t)
  <2>1. /\ UNCHANGED <<want, old, op>> /\ Deleting(t) /\ entry'[t] = NULL
    BY <1>13 DEF DropUnset, Untagged
  <2> QED BY <1>1, <2>1, HeldNothing DEF LocalOf, Deleting, Matches
<1>14. CASE Take(t)
  <2>1. /\ UNCHANGED <<slots, content, want, old, op, pos>> /\ Walking(t) /\ pc'[t] = "untag" /\ entry'[t] = Here(t)
        /\ pc[t] = "probe"
    BY <1>14 DEF Take, Visits
  <2> QED BY <1>1, <2>1 DEF LocalOf, HeldOf, Walking, Deleting, Walks, Matches, Here
<1>15. CASE DropTaken(t)
  <2>1. Leave(t) \/ (entry'[t] = NULL /\ old' = old /\ Walking(t))
    BY <1>15 DEF DropTaken
  <2> QED BY <1>1, <1>2, <2>1, HeldNothing DEF LocalOf, Walking, Walks
<1>16. ASSUME NEW k \in Keys, NextKey(t, k) PROVE HeldOf(t)'
  <2>1. UNCHANGED <<entry, old, op>> /\ pc[t] = "copy"
    BY <1>16 DEF NextKey
  <2> QED BY <1>1, <2>1, HeldNothing DEF LocalOf, Matches
<1> HIDE DEF IInv, TypeOK
<1> QED BY <1>3, <1>4, <1>5, <1>6, <1>7, <1>8, <1>9, <1>10, <1>11, <1>12, <1>13, <1>14, <1>15, <1>16 DEF Step

LEMMA HeldStep == IInv /\ [Next]_vars => HeldInv'
<1> SUFFICES ASSUME IInv, [Next]_vars, NEW v \in Threads PROVE HeldOf(v)'
  BY DEF HeldInv
<1>1. CASE UNCHANGED vars
  BY <1>1 DEF vars, IInv, HeldInv, HeldOf, Mapped, Deleting, Walking, Here
<1>2. CASE Tick
  BY <1>2 DEF Tick, store, locals, IInv, HeldInv, HeldOf, Mapped, Deleting, Walking, Here
<1>3. ASSUME NEW t \in Threads, Call(t) \/ Step(t) PROVE HeldOf(v)'
  <2>1. LocalOf(v)'
    BY LocalStep DEF LocalInv
  <2> QED BY <1>3, <2>1, HeldOthers, HeldCall, HeldOwn
<1> QED BY <1>1, <1>2, <1>3 DEF Next

(***************************************************************************)
(* The points at which tags and slots change.                              *)
(***************************************************************************)

LEMMA SlotsChange ==
  ASSUME NEW t \in Threads, Call(t) \/ Step(t), slots' # slots
  PROVE  SetEmpty(t) \/ SetMatch(t) \/ Unset(t) \/ DropTaken(t)
<1>1. ASSUME Call(t) PROVE slots' = slots
  BY <1>1 DEF Call, LookupCall, SetCall, DelCall, ClearCall, MatchCall, store
<1>2. ASSUME Step(t) PROVE slots' = slots \/ SetEmpty(t) \/ SetMatch(t) \/ Unset(t) \/ DropTaken(t)
  BY <1>2 DEF Step, ReadFails, ReadValue, Renew, SkipSlot, ProbeEnds, SetFull, KeyEnds, GetMatch, Serve,
     DropOld, Publish, Untag, Tag, TagFails, CopyKeys, DropUnset, Take, NextKey, ListEnds, store
<1> QED BY <1>1, <1>2

LEMMA IndexChanges ==
  ASSUME NEW t \in Threads, Call(t) \/ Step(t), index' # index
  PROVE  \E g \in Tags : Untag(t, g) \/ Tag(t, g)
<1>1. ASSUME Call(t) PROVE index' = index
  BY <1>1 DEF Call, LookupCall, SetCall, DelCall, ClearCall, MatchCall, store
<1>2. ASSUME Step(t) PROVE index' = index \/ \E g \in Tags : Untag(t, g) \/ Tag(t, g)
  BY <1>2 DEF Step, ReadFails, ReadValue, Renew, SkipSlot, ProbeEnds, SetFull, KeyEnds, GetMatch, Serve,
     SetEmpty, SetMatch, DropOld, Publish, TagFails, CopyKeys, Unset, DropUnset, Take, DropTaken, NextKey,
     ListEnds, store
<1> QED BY <1>1, <1>2

LEMMA FromUntag ==
  ASSUME NEW t \in Threads, Call(t) \/ Step(t), pc[t] = "untag"
  PROVE  DropOld(t) \/ DropUnset(t) \/ DropTaken(t) \/ \E g \in Tags : Untag(t, g)
<1> USE DEF At
<1>1. ~Call(t)
  BY DEF Call, LookupCall, SetCall, DelCall, ClearCall, MatchCall, Begin
<1>2. Step(t)
  BY <1>1
<1> QED BY <1>2 DEF Step, ReadFails, ReadValue, Renew, SkipSlot, ProbeEnds, SetFull, KeyEnds, GetMatch, Serve,
     SetEmpty, SetMatch, Publish, Tag, TagFails, CopyKeys, Unset, Take, NextKey,
     ListEnds, Passes, Visits, AtMatch

LEMMA FromTag ==
  ASSUME NEW t \in Threads, Call(t) \/ Step(t), pc[t] = "tag"
  PROVE  Publish(t) \/ \E g \in Tags : Tag(t, g) \/ TagFails(t, g)
<1> USE DEF At
<1>1. ~Call(t)
  BY DEF Call, LookupCall, SetCall, DelCall, ClearCall, MatchCall, Begin
<1>2. Step(t)
  BY <1>1
<1> QED BY <1>2 DEF Step, ReadFails, ReadValue, Renew, SkipSlot, ProbeEnds, SetFull, KeyEnds, GetMatch, Serve,
     SetEmpty, SetMatch, DropOld, Untag, CopyKeys, Unset, DropUnset, Take, DropTaken, NextKey,
     ListEnds, Passes, Visits, AtMatch, Untagged

LEMMA IntoUntag ==
  ASSUME TypeOK, NEW t \in Threads, Call(t) \/ Step(t), pc'[t] = "untag"
  PROVE  SetMatch(t) \/ Unset(t) \/ Take(t) \/ \E g \in Tags : Untag(t, g)
<1> USE DEF TypeOK, At, Goto, ProbeFor
<1>1. ~Call(t)
  BY DEF Call, LookupCall, SetCall, DelCall, ClearCall, MatchCall
<1>2. Step(t)
  BY <1>1
<1>3. ~Leave(t)
  BY DEF Leave
<1> HIDE DEF TypeOK
<1>4. ~(ReadFails(t) \/ ProbeEnds(t) \/ SetFull(t) \/ Serve(t) \/ Publish(t) \/ ListEnds(t) \/ \E ttl \in TTLs : Renew(t, ttl))
  BY <1>3 DEF ReadFails, ProbeEnds, SetFull, Serve, Publish, ListEnds, Renew
<1>5. ~(SkipSlot(t) \/ KeyEnds(t) \/ GetMatch(t) \/ SetEmpty(t) \/ \E ttl \in TTLs : ReadValue(t, ttl))
  BY DEF SkipSlot, NextSlot, KeyEnds, GetMatch, SetEmpty, ReadValue, TypeOK
<1>6. ~(DropOld(t) \/ DropUnset(t) \/ DropTaken(t))
  BY <1>3 DEF DropOld, DropUnset, DropTaken, NextSlot, TypeOK
<1>7. ~\E g \in Tags : Tag(t, g) \/ TagFails(t, g) \/ CopyKeys(t, g)
  BY DEF Tag, TagFails, CopyKeys
<1>8. ~\E k \in Keys : NextKey(t, k)
  BY DEF NextKey, TypeOK
<1> QED BY <1>2, <1>4, <1>5, <1>6, <1>7, <1>8 DEF Step

(***************************************************************************)
(* Keys with overlapping updates, and the tags of the others.              *)
(***************************************************************************)

LEMMA MixedStep == IInv /\ [Next]_vars => MixedInv'
<1> SUFFICES ASSUME IInv, [Next]_vars, NEW k \in Keys, Overlaps(k)' PROVE k \in mixed'
  BY DEF MixedInv
<1>1. CASE UNCHANGED vars
  BY <1>1 DEF vars, IInv, MixedInv, Overlaps, Under, Mapped
<1>2. CASE Next
  BY <1>2 DEF Next, History
<1> QED BY <1>1, <1>2

LEMMA StillMixed ==
  ASSUME History, NEW k \in Keys \ mixed', ~Traceless(k)'
  PROVE  k \notin mixed
BY DEF History

LEMMA HasTrace ==
  ASSUME TypeOK', OwnInv', NEW e \in Mapped'
  PROVE  content'[e].key \in Keys /\ \A k \in Keys : k = content'[e].key => ~Traceless(k)'
<1>1. e \in Entries /\ content'[e] # NULL
  BY InMapPrimed DEF TypeOK, OwnInv
<1>2. content'[e].key \in Keys
  BY <1>1 DEF TypeOK, Contents
<1> QED BY <1>1, <1>2 DEF Traceless

(* A thread that takes a key off the lists has the key's only entry. *)
LEMMA Sole ==
  ASSUME IInv, NEW u \in Threads, At(u, "untag"), NEW e \in Mapped,
         content[Going(u)].key = content[e].key, content[e].key \notin mixed
  PROVE  e \in Held(u) /\ ~Deleting(u)
<1> DEFINE k == content[e].key
<1>1. e \in Entries /\ e # NULL /\ content[e] # NULL /\ k \in Keys
  BY InMap DEF IInv, TypeOK, OwnInv, Contents
<1>2. ~Overlaps(k)
  BY <1>1 DEF IInv, MixedInv
<1>3. LocalOf(u) /\ HeldOf(u)
  BY DEF IInv, LocalInv, HeldInv
<1>4. e \in Under(k)
  BY DEF Under
<1>5. op[u] \in {"set", "del"} \cup Walks \cup Matches
  BY <1>3 DEF IInv, TypeOK, Ops, LocalOf, At
<1>6. CASE op[u] = "set"
  <2>1. entry[u] \in Mapped /\ content[entry[u]].key = k
    BY <1>3, <1>6 DEF LocalOf, HeldOf, At, Going, Between, Walking, Walks
  <2>2. entry[u] = e
    BY <1>2, <1>4, <2>1 DEF Overlaps, Under
  <2> QED BY <1>1, <1>6, <2>2 DEF Held, Deleting, Matches
<1>7. CASE Walking(u)
  <2>1. entry[u] = Here(u) /\ entry[u] # NULL /\ Here(u) = slots[pos[u]] /\ pos[u] \in Slots
    BY <1>3, <1>7 DEF HeldOf, LocalOf, At, Here, IInv, TypeOK
  <2>2. entry[u] \in Mapped /\ content[entry[u]].key = k
    BY <1>7, <2>1, InMap DEF Going, Walking, Walks
  <2>3. entry[u] = e
    BY <1>2, <1>4, <2>2 DEF Overlaps, Under
  <2> QED BY <1>1, <1>7, <2>3 DEF Held, Walking, Walks, Deleting, Matches
<1>8. ~Deleting(u)
  <2>1. SUFFICES ASSUME Deleting(u) PROVE FALSE
    OBVIOUS
  <2>2. found[u] /\ want[u] = k
    BY <1>3, <2>1 DEF LocalOf, HeldOf, At, Going, Between, Walking, Walks, Deleting, Matches
  <2> QED BY <1>2, <1>4, <2>2 DEF Overlaps
<1> QED BY <1>5, <1>6, <1>7, <1>8 DEF Walking, Deleting

(* A pair of the index lasts unless the thread that has the entry removes it. *)
LEMMA PairLasts ==
  ASSUME IInv, NEW t \in Threads, Call(t) \/ Step(t), NEW e \in Mapped, content[e].key \notin mixed,
         NEW g \in Tags, <<g, content[e].key>> \in index
  PROVE  <<g, content[e].key>> \in index' \/ (e \in Held(t) /\ e \in Held(t)' /\ pc[t] = "untag" /\ pc'[t] = "untag")
<1>1. CASE index' = index
  BY <1>1
<1>2. ASSUME NEW h \in Tags, Tag(t, h) PROVE <<g, content[e].key>> \in index'
  BY <1>2 DEF Tag
<1>3. ASSUME NEW h \in Tags, Untag(t, h), <<g, content[e].key>> \notin index'
      PROVE  e \in Held(t) /\ e \in Held(t)' /\ pc[t] = "untag" /\ pc'[t] = "untag"
  <2>1. content[Going(t)].key = content[e].key /\ At(t, "untag") /\ UNCHANGED <<pc, entry, old>>
    BY <1>3 DEF Untag
  <2>2. e \in Held(t)
    BY <2>1, Sole
  <2> QED BY <2>1, <2>2 DEF Held, At
<1> QED BY <1>1, <1>2, <1>3, IndexChanges

LEMMA ListedAfter ==
  ASSUME IInv, TypeOK', OwnInv', History, NEW t \in Threads, Call(t) \/ Step(t),
         NEW e \in Mapped', content'[e].key \notin mixed'
  PROVE  IsListed(e)'
<1> DEFINE k == content'[e].key
<1>1. k \in Keys /\ k \notin mixed /\ e \in Entries /\ e # NULL
  BY HasTrace, StillMixed, InMapPrimed DEF TypeOK
<1>2. CASE e \notin Mapped
  <2>1. PICK s \in Slots : slots'[s] = e /\ slots[s] # e
    BY <1>2, InMap, InMapPrimed
  <2>2. Puts(t, s) /\ entry[t] = e
    BY <1>1, <2>1, SlotsStep DEF Puts
  <2>3. SetEmpty(t) \/ SetMatch(t)
    BY <2>1, <2>2, SlotsChange DEF Puts, At, Unset, Deleting, Matches, DropTaken, Walking, Walks
  <2>4. CASE SetEmpty(t)
    <3>1. pc'[t] = "tag" /\ entry'[t] = e /\ todo'[t] = content'[e].tags
      BY <2>2, <2>4 DEF SetEmpty, Goto, IInv, TypeOK
    <3> QED BY <3>1 DEF IsListed
  <2>5. CASE SetMatch(t)
    <3>1. pc'[t] = "untag" /\ e \in Held(t)'
      BY <1>1, <2>2, <2>5 DEF SetMatch, Goto, Held, IInv, TypeOK
    <3> QED BY <3>1 DEF IsListed
  <2> QED BY <2>3, <2>4, <2>5
<1>3. CASE e \in Mapped
  <2>1. content'[e].key = content[e].key /\ content'[e].tags = content[e].tags
    BY <1>1, <1>3, MappedStays, InMap DEF Same, IInv, OwnInv
  <2>2. content[e].tags \subseteq Tags
    BY <1>1, <1>3, InMap DEF IInv, TypeOK, OwnInv, Contents
  <2>3. ASSUME NEW u \in Threads \ {t}, e \in Held(u), pc[u] = "untag" PROVE IsListed(e)'
    BY <2>3, Others DEF IInv, Stays, Held, IsListed
  <2>4. ASSUME e \in Held(t), pc[t] = "untag" PROVE IsListed(e)'
    <3>1. ASSUME NEW g \in Tags, Untag(t, g) PROVE IsListed(e)'
      BY <2>4, <3>1 DEF Untag, Held, IsListed
    <3>2. CASE DropOld(t)
      <4>1. op[t] = "set" /\ old[t] \notin Mapped
        BY <2>4, <3>2 DEF DropOld, IInv, HeldInv, HeldOf, LocalInv, LocalOf
      <4>2. e = entry[t]
        BY <1>3, <2>4, <4>1 DEF Held
      <4>3. pc'[t] = "tag" /\ entry'[t] = e /\ todo'[t] = content'[e].tags
        BY <2>1, <3>2, <4>2 DEF DropOld, Goto, IInv, TypeOK
      <4> QED BY <4>3 DEF IsListed
    <3>3. CASE DropUnset(t)
      <4>1. entry[t] \notin Mapped /\ old[t] = NULL
        BY <2>4, <3>3 DEF DropUnset, Deleting, Matches, IInv, HeldInv, HeldOf, LocalInv, LocalOf
      <4> QED BY <1>3, <2>4, <4>1 DEF Held
    <3>4. CASE DropTaken(t)
      <4>1. entry[t] = slots[pos[t]] /\ entry[t] # NULL /\ old[t] = NULL /\ pos[t] \in Slots
            /\ slots' = [slots EXCEPT ![pos[t]] = NULL]
        BY <2>4, <3>4 DEF DropTaken, Walking, Walks, Here, IInv, TypeOK, HeldInv, HeldOf, LocalInv, LocalOf
      <4>2. e = entry[t]
        BY <2>4, <4>1 DEF Held
      <4>3. e \notin Mapped'
        BY <4>1, <4>2, InMapPrimed DEF IInv, TypeOK, OwnInv
      <4> QED BY <4>3
    <3> QED BY <2>4, <3>1, <3>2, <3>3, <3>4, FromUntag
  <2>5. ASSUME NEW u \in Threads \ {t}, entry[u] = e, pc[u] = "tag",
               \A g \in content[e].tags \ todo[u] : <<g, content[e].key>> \in index
        PROVE  IsListed(e)'
    <3>1. e \notin Held(t)
      BY <1>1, <2>5 DEF Held, IInv, OwnInv
    <3>2. \A g \in content[e].tags \ todo[u] : <<g, content[e].key>> \in index'
      BY <1>1, <1>3, <2>1, <2>2, <2>5, <3>1, PairLasts
    <3> QED BY <2>1, <2>5, <3>2, Others DEF IInv, Stays, IsListed
  <2>6. ASSUME entry[t] = e, pc[t] = "tag",
               \A g \in content[e].tags \ todo[t] : <<g, content[e].key>> \in index
        PROVE  IsListed(e)'
    <3>1. want[t] = content[e].key
      BY <1>1, <2>6 DEF IInv, HeldInv, HeldOf, LocalInv, LocalOf, Between, Walking, Walks
    <3>2. CASE Publish(t)
      BY <2>1, <2>6, <3>2 DEF Publish, store, IsListed
    <3>3. ASSUME NEW g \in Tags, Tag(t, g) PROVE IsListed(e)'
      <4>1. /\ index' = index \cup {<<g, want[t]>>} /\ todo'[t] = todo[t] \ {g}
            /\ entry'[t] = e /\ pc'[t] = "tag"
        BY <2>6, <3>3 DEF Tag, IInv, TypeOK
      <4> QED BY <2>1, <2>6, <3>1, <4>1 DEF IsListed
    <3>4. ASSUME NEW g \in Tags, TagFails(t, g) PROVE FALSE
      <4>1. g \in todo[t] \ todo'[t] /\ <<g, k>> \notin index' /\ At(t, "tag") /\ want[t] = k
        BY <2>1, <3>1, <3>4 DEF TagFails, store, IInv, TypeOK
      <4>2. Unlisted(k)
        BY <4>1 DEF Unlisted
      <4> QED BY <1>1, <4>2 DEF History
    <3> QED BY <2>6, <3>2, <3>3, <3>4, FromTag
  <2>7. ASSUME \A g \in content[e].tags : <<g, content[e].key>> \in index PROVE IsListed(e)'
    <3>1. CASE \A g \in content[e].tags : <<g, content[e].key>> \in index'
      BY <2>1, <3>1 DEF IsListed
    <3>2. CASE ~\A g \in content[e].tags : <<g, content[e].key>> \in index'
      BY <1>1, <1>3, <2>1, <2>2, <2>7, <3>2, PairLasts DEF IsListed
    <3> QED BY <3>1, <3>2
  <2>8. IsListed(e)
    BY <1>1, <1>3, <2>1 DEF IInv, TagInv
  <2> QED BY <2>3, <2>4, <2>5, <2>6, <2>7, <2>8 DEF IsListed
<1> QED BY <1>2, <1>3

LEMMA RealAfter ==
  ASSUME IInv, TypeOK', OwnInv', LocalInv', HeldInv', History, NEW t \in Threads, Call(t) \/ Step(t),
         NEW g \in Tags, NEW k \in Keys, <<g, k>> \in index', k \notin mixed'
  PROVE  IsReal(g, k)'
<1>1. k \notin mixed
  BY StillMixed DEF Traceless
<1>2. CASE <<g, k>> \notin index
  <2>1. PICK h \in Tags : Untag(t, h) \/ Tag(t, h)
    BY <1>2, IndexChanges
  <2>2. Tag(t, h) /\ h = g /\ want[t] = k
    BY <1>2, <2>1 DEF Untag, Tag
  <2>3. /\ UNCHANGED <<slots, content, pc, op, want, entry>> /\ pc[t] = "tag" /\ g \in todo[t]
    BY <2>2 DEF Tag, At
  <2>4. PICK e : e = entry[t]
    OBVIOUS
  <2>5. op[t] = "set" /\ e \in Mapped' /\ content'[e].key = k /\ g \in content'[e].tags /\ e # NULL
    BY <2>2, <2>3, <2>4 DEF IInv, LocalInv, LocalOf, HeldInv, HeldOf, Mapped, Between, Walking, Walks
  <2>6. ~Clearing(e)'
    BY <2>3, <2>4, <2>5 DEF Clearing, Walking, Walks, OwnInv, Held
  <2> QED BY <2>5, <2>6 DEF IsReal, Under
<1>3. CASE <<g, k>> \in index
  <2>1. ASSUME NEW u \in Threads \ {t}, At(u, "untag"), g \in todo[u], content[Going(u)].key = k
        PROVE  IsReal(g, k)'
    <3>1. Going(u) \in Held(u) /\ Going(u)' = Going(u) /\ content[Going(u)] # NULL
      BY <2>1, Others, HeldIsReserved DEF Stays, IInv, LocalInv, LocalOf, At, Going, Held
    <3>2. content'[Going(u)'].key = k
      BY <2>1, <3>1, Undisturbed DEF Same
    <3> QED BY <2>1, <3>2, Others DEF IsReal, Stays, At, IInv
  <2>2. ASSUME At(t, "untag"), g \in todo[t], content[Going(t)].key = k PROVE IsReal(g, k)'
    <3>1. PICK h \in Tags : Untag(t, h)
      BY <2>2, FromUntag DEF At, DropOld, DropUnset, DropTaken, Untagged
    <3>2. h # g
      BY <2>2, <3>1 DEF Untag
    <3> QED BY <2>2, <3>1, <3>2 DEF Untag, IsReal, At, Going, IInv, TypeOK
  <2>3. ASSUME NEW e \in Under(k), g \in content[e].tags, ~Clearing(e) PROVE IsReal(g, k)'
    <3>1. e \in Mapped /\ content[e].key = k /\ e # NULL
      BY InMap DEF Under
    <3>2. CASE e \in Mapped'
      <4>1. content'[e].key = k /\ content'[e].tags = content[e].tags
        BY <3>1, <3>2, MappedStays, InMap DEF Same, IInv, OwnInv
      <4>2. CASE ~Clearing(e)'
        BY <2>3, <3>2, <4>1, <4>2 DEF IsReal, Under
      <4>3. CASE Clearing(e)'
        <5>1. Walking(t)' /\ pc'[t] = "untag" /\ entry'[t] = e
          BY <2>3, <4>3, Others DEF Clearing, Stays, Walking, IInv
        <5>2. ASSUME NEW h \in Tags, Untag(t, h) PROVE FALSE
          BY <2>3, <5>1, <5>2 DEF Untag, Clearing, Walking, At
        <5>3. Take(t)
          BY <5>1, <5>2, IntoUntag DEF SetMatch, Unset, Walking, Walks, Deleting, Matches, IInv
        <5>4. todo'[t] = content[e].tags /\ Going(t)' = e
          BY <5>1, <5>3 DEF Take, Going, Walking, Walks, IInv, TypeOK
        <5> QED BY <2>3, <4>1, <5>1, <5>4 DEF IsReal, At
      <4> QED BY <4>2, <4>3
    <3>3. CASE e \notin Mapped'
      <4>1. PICK s \in Slots : slots[s] = e /\ slots'[s] # e
        BY <3>1, <3>3, InMap, InMapPrimed
      <4>2. s = pos[t] /\ Here(t) = e
        BY <4>1, SlotsStep DEF Here
      <4>3. CASE SetEmpty(t)
        BY <3>1, <4>2, <4>3 DEF SetEmpty
      <4>4. CASE SetMatch(t)
        <5>1. /\ pc'[t] = "untag" /\ old'[t] = e /\ todo'[t] = content[e].tags /\ content' = content
              /\ op'[t] = "set"
          BY <4>2, <4>4 DEF SetMatch, Goto, IInv, TypeOK
        <5> QED BY <2>3, <3>1, <5>1 DEF IsReal, At, Going
      <4>5. CASE Unset(t)
        <5>1. want[t] = k /\ e \in Under(k)
          BY <3>1, <4>2, <4>5 DEF Unset, AtMatch
        <5>2. ~found[t]
          BY <1>1, <5>1 DEF IInv, MixedInv, Overlaps
        <5>3. /\ pc'[t] = "untag" /\ entry'[t] = e /\ todo'[t] = content[e].tags /\ content' = content
              /\ op'[t] # "set"
          BY <4>2, <4>5, <5>2 DEF Unset, Goto, Deleting, Matches, IInv, TypeOK
        <5> QED BY <2>3, <3>1, <5>3 DEF IsReal, At, Going
      <4>6. CASE DropTaken(t)
        <5>1. Walking(t) /\ pc[t] = "untag" /\ entry[t] = e
          BY <4>2, <4>6 DEF DropTaken, Untagged, At, IInv, HeldInv, HeldOf
        <5> QED BY <2>3, <5>1 DEF Clearing
      <4> QED BY <4>1, <4>3, <4>4, <4>5, <4>6, SlotsChange
    <3> QED BY <3>2, <3>3
  <2>4. IsReal(g, k)
    BY <1>1, <1>3 DEF IInv, TagInv, Listed
  <2> QED BY <2>1, <2>2, <2>3, <2>4 DEF IsReal
<1> QED BY <1>2, <1>3

LEMMA TagStep == IInv /\ [Next]_vars => TagInv'
<1> SUFFICES ASSUME IInv, [Next]_vars PROVE TagInv'
  OBVIOUS
<1> USE DEF IInv, TagInv
<1>1. CASE UNCHANGED vars
  BY <1>1 DEF vars, IsListed, IsReal, Mapped, Held, Under, Clearing, Walking, Listed, At, Going
<1>2. CASE Tick /\ History
  <2>1. UNCHANGED <<slots, content, index, pc, op, entry, old, todo>>
    BY <1>2 DEF Tick, store, locals
  <2>2. \A e \in Mapped : IsListed(e)' <=> IsListed(e)
    BY <2>1 DEF IsListed, Held
  <2>3. \A g \in Tags, k \in Keys : IsReal(g, k)' <=> IsReal(g, k)
    BY <2>1 DEF IsReal, Mapped, Under, Clearing, Walking, At, Going
  <2>4. Mapped' = Mapped /\ \A g \in Tags : Listed(g)' = Listed(g)
    BY <2>1 DEF Mapped, Listed
  <2>5. TypeOK' /\ OwnInv'
    BY TypeStep, OwnStep
  <2>6. \A e \in Mapped : content[e].key \notin mixed' => content[e].key \notin mixed
    BY <1>2, <2>1, <2>4, <2>5, HasTrace, StillMixed
  <2>7. \A g \in Tags : \A k \in Listed(g) : k \notin mixed' => k \notin mixed
    BY <1>2, <2>1, StillMixed DEF Traceless, Listed
  <2> QED BY <2>1, <2>2, <2>3, <2>4, <2>6, <2>7 DEF Listed
<1>3. ASSUME NEW t \in Threads, Call(t) \/ Step(t), History PROVE TagInv'
  <2>1. TypeOK' /\ OwnInv' /\ LocalInv' /\ HeldInv'
    BY TypeStep, OwnStep, LocalStep, HeldStep
  <2> QED BY <1>3, <2>1, ListedAfter, RealAfter DEF Listed
<1> QED BY <1>1, <1>2, <1>3 DEF Next

(***************************************************************************)
(* The slots that are ahead of a loop.                                     *)
(***************************************************************************)

LEMMA TurnsFirst == ASSUME NEW a \in Slots, NEW s \in Slots PROVE Turns(a, s) >= Turns(a, a)
BY ControllerAssumption DEF Turns, Slots

LEMMA TurnsNext ==
  ASSUME NEW a \in Slots, NEW p \in Slots, NEW s \in Slots,
         Turns(a, s) >= Turns(a, p), s # p, (p + 1) % Size # a
  PROVE  Turns(a, s) >= Turns(a, (p + 1) % Size)
<1>1. (p + 1) % Size = IF p = Size - 1 THEN 0 ELSE p + 1
  BY NextInSlots
<1> QED BY <1>1, ControllerAssumption DEF Turns, Slots

LEMMA TurnsLast ==
  ASSUME NEW a \in Slots, NEW p \in Slots, NEW s \in Slots,
         Turns(a, s) >= Turns(a, p), (p + 1) % Size = a
  PROVE  s = p
<1>1. (p + 1) % Size = IF p = Size - 1 THEN 0 ELSE p + 1
  BY NextInSlots
<1> QED BY <1>1, ControllerAssumption DEF Turns, Slots

LEMMA AheadNext ==
  ASSUME TypeOK, NEW t \in Threads, ~Walking(t) => want[t] \in Keys, ~LastSlot(t),
         NEW s \in Slots, Ahead(t, s), s # pos[t],
         pos'[t] = (pos[t] + 1) % Size, op'[t] = op[t], want'[t] = want[t]
  PROVE  Ahead(t, s)'
<1>1. pos[t] \in Slots
  BY DEF TypeOK
<1>2. CASE Walking(t)
  BY <1>1, <1>2, NextInSlots DEF Ahead, Walking, LastSlot, Slots
<1>3. CASE ~Walking(t)
  BY <1>1, <1>3, TurnsNext, StartInSlots DEF Ahead, Walking, LastSlot
<1> QED BY <1>2, <1>3

LEMMA AheadLast ==
  ASSUME TypeOK, NEW t \in Threads, ~Walking(t) => want[t] \in Keys, LastSlot(t),
         NEW s \in Slots, Ahead(t, s)
  PROVE  s = pos[t]
<1>1. pos[t] \in Slots
  BY DEF TypeOK
<1>2. CASE Walking(t)
  BY <1>1, <1>2, ControllerAssumption DEF Ahead, Walking, LastSlot, Slots
<1>3. CASE ~Walking(t)
  BY <1>1, <1>3, TurnsLast, StartInSlots DEF Ahead, LastSlot
<1> QED BY <1>2, <1>3

LEMMA IntoProbe ==
  ASSUME TypeOK, NEW t \in Threads, Call(t) \/ Step(t), pc'[t] = "probe"
  PROVE  \/ \E k \in Keys, f \in {"get", "renew"} : LookupCall(t, f, k)
         \/ \E k \in Keys : DelCall(t, k) \/ NextKey(t, k)
         \/ \E mode \in Modes, G \in SUBSET Tags : ClearCall(t, mode, G)
         \/ \E ttl \in TTLs : ReadValue(t, ttl)
         \/ SkipSlot(t) \/ DropUnset(t) \/ (DropTaken(t) /\ ~LastSlot(t))
<1> USE DEF TypeOK, At, Goto
<1>1. ~\E k \in Keys, G \in SUBSET Tags, e \in Entries : SetCall(t, k, G, e)
  BY DEF SetCall
<1>2. ~\E mode \in Modes, G \in SUBSET Tags : MatchCall(t, mode, G)
  BY DEF MatchCall
<1>3. ~Leave(t)
  BY DEF Leave
<1> HIDE DEF TypeOK
<1>4. ~(ReadFails(t) \/ ProbeEnds(t) \/ SetFull(t) \/ Serve(t) \/ Publish(t) \/ ListEnds(t) \/ \E ttl \in TTLs : Renew(t, ttl))
  BY <1>3 DEF ReadFails, ProbeEnds, SetFull, Serve, Publish, ListEnds, Renew
<1>5. ~(KeyEnds(t) \/ GetMatch(t) \/ SetEmpty(t) \/ SetMatch(t) \/ DropOld(t) \/ Unset(t) \/ Take(t))
  BY DEF KeyEnds, GetMatch, SetEmpty, SetMatch, DropOld, Unset, Take, TypeOK
<1>6. DropTaken(t) => ~LastSlot(t)
  BY <1>3 DEF DropTaken
<1>7. ~\E g \in Tags : Untag(t, g) \/ Tag(t, g) \/ TagFails(t, g) \/ CopyKeys(t, g)
  BY DEF Untag, Tag, TagFails, CopyKeys
<1> QED BY <1>1, <1>2, <1>4, <1>5, <1>6, <1>7 DEF Call, Step

LEMMA FromProbe ==
  ASSUME NEW t \in Threads, Call(t) \/ Step(t), pc[t] = "probe"
  PROVE  \/ SkipSlot(t) \/ ProbeEnds(t) \/ SetFull(t) \/ KeyEnds(t)
         \/ GetMatch(t) \/ SetEmpty(t) \/ SetMatch(t) \/ Unset(t) \/ Take(t)
<1> USE DEF At
<1>1. ~Call(t)
  BY DEF Call, LookupCall, SetCall, DelCall, ClearCall, MatchCall, Begin
<1>2. Step(t)
  BY <1>1
<1> QED BY <1>2 DEF Step, ReadFails, ReadValue, Renew, Serve, DropOld, Publish, Untag, Tag, TagFails, CopyKeys,
     DropUnset, DropTaken, NextKey, ListEnds, Untagged

(* Nobody is to remove the entry that a loop passes. *)
LEMMA PassesNone ==
  ASSUME IInv, NEW t \in Threads, Passes(t)
  PROVE  /\ Here(t) \notin doomed[t]
         /\ steady[t] => Here(t) = NULL \/ content[Here(t)].key # want[t]
<1>1. AheadOf(t)
  BY DEF IInv, AheadInv
<1>2. NULL \notin doomed[t]
  BY <1>1, InMap DEF AheadOf
<1>3. ASSUME Here(t) \in doomed[t] PROVE FALSE
  <2>1. Condemned(t, Here(t)) /\ Here(t) # NULL
    BY <1>1, <1>2, <1>3 DEF AheadOf
  <2>2. CASE Walking(t)
    BY <2>1, <2>2 DEF Condemned, Passes
  <2>3. CASE ~Walking(t)
    BY <2>1, <2>3 DEF Condemned, Passes, AtMatch
  <2> QED BY <2>2, <2>3
<1>4. steady[t] => ~Walking(t)
  BY <1>1 DEF AheadOf, Walking, Walks
<1> QED BY <1>3, <1>4 DEF Passes, AtMatch

LEMMA DoomedBefore ==
  ASSUME IInv, History, NEW t \in Threads, Call(t) \/ Step(t), NEW v \in Threads, ~Between(v),
         NEW s \in Slots, slots'[s] \in doomed'[v]
  PROVE  slots'[s] = slots[s] /\ slots[s] \in doomed[v]
<1>1. ~Between(v)' /\ slots'[s] \in doomed[v] /\ slots'[s] \in Mapped'
  BY DEF History
<1>2. slots'[s] \in Mapped
  BY <1>1 DEF IInv, AheadInv, AheadOf
<1>3. slots[s] = slots'[s]
  BY <1>1, <1>2, MappedStays
<1> QED BY <1>1, <1>3

(* An entry that replaces another under its key takes its slot. *)
LEMMA KeyKeepsSlot ==
  ASSUME IInv, TypeOK', OwnInv', History, NEW t \in Threads, Call(t) \/ Step(t), NEW k \in Keys \ mixed',
         Under(k)' # {}, NEW s \in Slots, slots[s] # NULL, content[slots[s]].key = k
  PROVE  slots'[s] # NULL /\ content'[slots'[s]].key = k
<1> DEFINE e == slots[s]
<1>1. e \in Mapped /\ e \in Under(k) /\ content[e] # NULL
  BY InMap DEF Under, IInv, OwnInv
<1>2. PICK d \in Mapped' : content'[d].key = k
  BY DEF Under
<1>3. k \notin mixed
  BY <1>2, HasTrace, StillMixed
<1>4. ASSUME slots'[s] = slots[s] PROVE slots'[s] # NULL /\ content'[slots'[s]].key = k
  <2>1. slots[s] \in Mapped'
    BY <1>4, InMapPrimed
  <2> QED BY <1>1, <1>4, <2>1, MappedStays DEF Same
<1>5. CASE slots'[s] # slots[s]
  <2>1. s = pos[t] /\ Here(t) = slots[s]
    BY <1>5, SlotsStep DEF Here
  <2>2. CASE SetMatch(t)
    <3>1. slots'[s] = entry[t] /\ content' = content /\ want[t] = k /\ op[t] = "set"
      BY <2>1, <2>2 DEF SetMatch, Store, AtMatch, IInv, TypeOK
    <3>2. entry[t] # NULL /\ content[entry[t]].key = want[t]
      BY <3>1, Constants DEF IInv, LocalInv, LocalOf, HeldInv, HeldOf
    <3> QED BY <3>1, <3>2
  <2>3. CASE SetEmpty(t)
    BY <2>1, <2>3 DEF SetEmpty
  <2>4. CASE Unset(t) \/ DropTaken(t)
    <3>1. slots'[s] = NULL
      BY <2>1, <2>4 DEF Unset, DropTaken, IInv, TypeOK
    <3>2. PICK r \in Slots : slots'[r] = d /\ d # NULL
      BY <1>2, InMapPrimed
    <3>3. slots[r] = d /\ r # s
      BY <2>1, <3>1, <3>2, SlotsStep
    <3>4. d \in Mapped /\ d # slots[s]
      BY <3>2, <3>3, InMap DEF IInv, OwnInv
    <3>5. content[d].key = k
      BY <1>2, <3>4, MappedStays, InMap DEF Same, IInv, OwnInv
    <3>6. Overlaps(k)
      BY <1>1, <3>4, <3>5 DEF Overlaps, Under
    <3> QED BY <1>3, <3>6 DEF IInv, MixedInv
  <2> QED BY <1>5, <2>2, <2>3, <2>4, SlotsChange
<1> QED BY <1>4, <1>5

LEMMA DoomedIsMapped ==
  ASSUME History, NEW t \in Threads
  PROVE  doomed'[t] \subseteq {e \in Mapped' : Condemned(t, e)'}
BY DEF History

LEMMA AheadOthers ==
  ASSUME IInv, TypeOK', OwnInv', History, NEW t \in Threads, Call(t) \/ Step(t), NEW v \in Threads \ {t}
  PROVE  AheadOf(v)'
<1>1. Stays(v)
  BY Others DEF IInv
<1>2. AheadOf(v)
  BY DEF IInv, AheadInv
<1>3. \A s \in Slots : Ahead(v, s)' <=> Ahead(v, s)
  BY <1>1 DEF Stays, Ahead, Walking
<1>4. ASSUME pc'[v] = "probe" \/ (Walking(v)' /\ pc'[v] = "untag"), NEW s \in Slots, slots'[s] \in doomed'[v]
      PROVE  Ahead(v, s)'
  <2>1. ~Between(v)
    BY <1>1, <1>4 DEF Stays, Between
  <2> QED BY <1>1, <1>2, <1>3, <1>4, <2>1, DoomedBefore DEF AheadOf, Stays, Walking
<1>5. ASSUME steady'[v]
      PROVE  /\ op'[v] = "get" /\ pc'[v] = "probe" /\ want'[v] \notin mixed'
             /\ \E s \in Slots : slots'[s] # NULL /\ content'[slots'[s]].key = want'[v] /\ Ahead(v, s)'
  <2>1. op'[v] = "get" /\ pc'[v] = "probe" /\ want'[v] \notin mixed' /\ Under(want[v])' # {} /\ steady[v]
    BY <1>1, <1>5 DEF History, Stays, At
  <2>2. PICK s \in Slots : slots[s] # NULL /\ content[slots[s]].key = want[v] /\ Ahead(v, s)
    BY <1>2, <2>1 DEF AheadOf
  <2>3. want[v] \in Keys
    BY <1>1, <2>1 DEF Stays, IInv, TypeOK, LocalInv, LocalOf, Between, Walking, Walks
  <2>4. PICK k : k = want[v]
    OBVIOUS
  <2>5. Under(k)' # {}
    BY <1>1, <2>1, <2>4 DEF Stays, Under
  <2>6. slots'[s] # NULL /\ content'[slots'[s]].key = k
    BY <1>1, <2>1, <2>2, <2>3, <2>4, <2>5, KeyKeepsSlot DEF Stays
  <2> QED BY <1>1, <1>3, <2>1, <2>2, <2>4, <2>6 DEF Stays
<1> QED BY <1>4, <1>5, DoomedIsMapped DEF AheadOf

LEMMA AheadOwn ==
  ASSUME IInv, LocalInv', History, NEW t \in Threads, Call(t) \/ Step(t)
  PROVE  AheadOf(t)'
<1> USE DEF Goto, ProbeFor, Begin
<1>1. AheadOf(t) /\ LocalOf(t)
  BY DEF IInv, AheadInv, LocalInv
<1>2. ~Between(t) /\ ~Walking(t) => want[t] \in Keys
  BY <1>1 DEF LocalOf, IInv, TypeOK
<1>3. pos[t] \in Slots
  BY DEF IInv, TypeOK
<1>4. ASSUME pc'[t] = "probe", NEW s \in Slots, slots'[s] \in doomed'[t] PROVE Ahead(t, s)'
  <2>1. Condemned(t, slots[s])'
    BY <1>4, DoomedIsMapped
  <2>2. Walking(t)' \/ Deleting(t)'
    BY <2>1 DEF Condemned
  <2>3. ASSUME NEW k \in Keys, NEW f \in {"get", "renew"}, LookupCall(t, f, k) PROVE FALSE
    BY <2>2, <2>3 DEF LookupCall, Walking, Deleting, Walks, Matches, IInv, TypeOK
  <2>4. ASSUME NEW k \in Keys, DelCall(t, k) \/ NextKey(t, k) PROVE Ahead(t, s)'
    <3>1. want'[t] = k /\ pos'[t] = Start(k) /\ ~Walking(t)'
      BY <1>1, <2>4 DEF DelCall, NextKey, At, LocalOf, Walking, Walks, Matches, IInv, TypeOK
    <3> QED BY <3>1, TurnsFirst, StartInSlots DEF Ahead
  <2>5. ASSUME NEW mode \in Modes, NEW G \in SUBSET Tags, ClearCall(t, mode, G) PROVE Ahead(t, s)'
    <3>1. pos'[t] = 0 /\ Walking(t)'
      BY <2>5 DEF ClearCall, Walking, IInv, TypeOK
    <3> QED BY <3>1 DEF Ahead, Slots
  <2>6. ASSUME NEW ttl \in TTLs, ReadValue(t, ttl) PROVE FALSE
    BY <1>1, <2>2, <2>6 DEF ReadValue, At, LocalOf, Walking, Deleting, Walks, Matches, locals
  <2>7. CASE SkipSlot(t)
    <3>1. /\ pc[t] = "probe" /\ pos'[t] = (pos[t] + 1) % Size /\ op' = op /\ want' = want
          /\ Passes(t) /\ ~LastSlot(t)
      BY <1>3, <2>7 DEF SkipSlot, NextSlot, Passes, Visits, At, locals, IInv, TypeOK
    <3>2. slots'[s] = slots[s] /\ slots[s] \in doomed[t] /\ Ahead(t, s)
      BY <1>1, <1>4, <3>1, DoomedBefore DEF AheadOf, Between
    <3>3. s # pos[t]
      BY <3>1, <3>2, PassesNone DEF Here
    <3> QED BY <1>2, <3>1, <3>2, <3>3, AheadNext DEF IInv, Between
  <2>8. CASE DropUnset(t)
    <3>1. want[t] \in Keys /\ want'[t] = want[t] /\ pos'[t] = Start(want[t]) /\ ~Walking(t)'
      BY <1>1, <1>2, <2>8 DEF DropUnset, Untagged, At, Deleting, Between, Walking, Walks, Matches, IInv, TypeOK
    <3> QED BY <3>1, TurnsFirst, StartInSlots DEF Ahead
  <2>9. CASE DropTaken(t) /\ ~LastSlot(t)
    <3>1. /\ pc[t] = "untag" /\ pos'[t] = (pos[t] + 1) % Size /\ op' = op /\ want' = want
          /\ Walking(t) /\ slots' = [slots EXCEPT ![pos[t]] = NULL]
      BY <1>3, <2>9 DEF DropTaken, NextSlot, Untagged, At, IInv, TypeOK
    <3>2. slots'[s] = slots[s] /\ slots[s] \in doomed[t] /\ Ahead(t, s)
      BY <1>1, <1>4, <3>1, DoomedBefore DEF AheadOf, Between
    <3>3. s # pos[t]
      BY <1>1, <3>1, <3>2, InMap DEF IInv, TypeOK, AheadOf
    <3> QED BY <2>9, <3>1, <3>2, <3>3, AheadNext DEF IInv
  <2> QED BY <1>4, <2>3, <2>4, <2>5, <2>6, <2>7, <2>8, <2>9, IntoProbe DEF IInv
<1>5. ASSUME Walking(t)', pc'[t] = "untag", NEW s \in Slots, slots'[s] \in doomed'[t] PROVE Ahead(t, s)'
  <2>1. CASE Take(t) \/ \E g \in Tags : Untag(t, g)
    <3>1. UNCHANGED <<op, pos, want>> /\ (pc[t] = "probe" \/ pc[t] = "untag")
      BY <2>1 DEF Take, Untag, Visits, At
    <3> QED BY <1>1, <1>5, <3>1, DoomedBefore DEF AheadOf, Between, Ahead, Walking
  <2>2. ~SetMatch(t) /\ ~Unset(t)
    BY <1>5 DEF SetMatch, Unset, Walking, Walks, Deleting, Matches
  <2> QED BY <1>5, <2>1, <2>2, IntoUntag DEF IInv
<1>6. ASSUME steady'[t]
      PROVE  /\ op'[t] = "get" /\ pc'[t] = "probe" /\ want'[t] \notin mixed'
             /\ \E s \in Slots : slots'[s] # NULL /\ content'[slots'[s]].key = want'[t] /\ Ahead(t, s)'
  <2>1. /\ op'[t] = "get" /\ pc'[t] = "probe" /\ want'[t] \notin mixed'
        /\ Under(want[t])' # {} /\ (At(t, "idle") \/ steady[t])
    BY <1>6 DEF History
  <2>2. ~Walking(t)'
    BY <2>1 DEF Walking, Walks
  <2>3. ASSUME NEW k \in Keys, NEW f \in {"get", "renew"}, LookupCall(t, f, k)
        PROVE  \E s \in Slots : slots'[s] # NULL /\ content'[slots'[s]].key = want'[t] /\ Ahead(t, s)'
    <3>1. want'[t] = k /\ pos'[t] = Start(k)
      BY <2>3 DEF LookupCall, IInv, TypeOK
    <3>2. PICK e \in Mapped' : content'[e].key = want'[t]
      BY <2>1 DEF Under
    <3>3. PICK s \in Slots : slots'[s] = e /\ e # NULL
      BY <3>2, InMapPrimed
    <3>4. Ahead(t, s)'
      BY <2>2, <3>1, TurnsFirst, StartInSlots DEF Ahead
    <3> QED BY <3>2, <3>3, <3>4
  <2>4. CASE SkipSlot(t)
    <3>1. /\ pc[t] = "probe" /\ pos'[t] = (pos[t] + 1) % Size /\ op' = op /\ want' = want
          /\ Passes(t) /\ ~LastSlot(t) /\ UNCHANGED <<slots, content>>
      BY <1>3, <2>4 DEF SkipSlot, NextSlot, Passes, Visits, At, locals, store, IInv, TypeOK
    <3>2. steady[t]
      BY <2>1, <3>1 DEF At
    <3>3. PICK s \in Slots : slots[s] # NULL /\ content[slots[s]].key = want[t] /\ Ahead(t, s)
      BY <1>1, <3>2 DEF AheadOf
    <3>4. s # pos[t]
      BY <3>1, <3>2, <3>3, PassesNone DEF Here
    <3>5. Ahead(t, s)'
      BY <1>2, <3>1, <3>3, <3>4, AheadNext DEF IInv, Between
    <3> QED BY <2>1, <3>1, <3>3, <3>5
  <2>5. ~\E k \in Keys : DelCall(t, k) \/ NextKey(t, k)
    BY <1>1, <2>1 DEF DelCall, NextKey, At, LocalOf, Matches, IInv, TypeOK
  <2>6. ~\E mode \in Modes, G \in SUBSET Tags : ClearCall(t, mode, G)
    BY <2>1 DEF ClearCall, Walks, IInv, TypeOK
  <2>7. ~(\E ttl \in TTLs : ReadValue(t, ttl)) /\ ~DropUnset(t) /\ ~(DropTaken(t) /\ ~LastSlot(t))
    BY <1>1, <2>1 DEF ReadValue, DropUnset, DropTaken, At, LocalOf, Deleting, Matches, Walking, Walks, locals
  <2> QED BY <2>1, <2>3, <2>4, <2>5, <2>6, <2>7, IntoProbe DEF IInv
<1> QED BY <1>4, <1>5, <1>6, DoomedIsMapped DEF AheadOf

LEMMA AheadStep == IInv /\ [Next]_vars => AheadInv'
<1> SUFFICES ASSUME IInv, [Next]_vars, NEW v \in Threads PROVE AheadOf(v)'
  BY DEF AheadInv
<1>0. AheadOf(v)
  BY DEF IInv, AheadInv
<1>1. CASE UNCHANGED vars
  BY <1>0, <1>1 DEF vars, AheadOf, Mapped, Condemned, Walking, Deleting, Clears, Expired, Ahead
<1>2. CASE Tick /\ History
  <2>1. UNCHANGED <<slots, content, pc, op, want, pos>>
    BY <1>2 DEF Tick, store, locals
  <2>2. \A s \in Slots : Ahead(v, s)' <=> Ahead(v, s)
    BY <2>1 DEF Ahead, Walking
  <2>3. Mapped' = Mapped /\ (Between(v)' <=> Between(v))
    BY <2>1 DEF Mapped, Between
  <2>4. ~Between(v) => doomed'[v] \subseteq doomed[v]
    BY <1>2, <2>3 DEF History
  <2>5. steady'[v] => steady[v] /\ want'[v] \notin mixed'
    BY <1>2, <2>1 DEF History, At
  <2> QED BY <1>0, <1>2, <2>1, <2>2, <2>4, <2>5, DoomedIsMapped DEF AheadOf, Between, Walking
<1>3. ASSUME NEW t \in Threads, Call(t) \/ Step(t), History PROVE AheadOf(v)'
  <2>1. TypeOK' /\ OwnInv' /\ LocalInv'
    BY TypeStep, OwnStep, LocalStep
  <2> QED BY <1>3, <2>1, AheadOthers, AheadOwn
<1> QED BY <1>1, <1>2, <1>3 DEF Next

(***************************************************************************)
(* The theorems.                                                           *)
(***************************************************************************)

LEMMA InitIInv == Init => IInv
<1> SUFFICES ASSUME Init PROVE IInv
  OBVIOUS
<1> USE Constants DEF Init
<1>1. TypeOK
  BY ControllerAssumption DEF TypeOK, Labels, Ops
<1>2. Mapped = {}
  BY DEF Mapped
<1>3. LocalInv
  BY DEF LocalInv, LocalOf, Between, Walking, Deleting, Walks, Matches
<1>4. OwnInv
  BY DEF OwnInv, Held
<1>5. HeldInv
  BY DEF HeldInv, HeldOf, Deleting, Walking, Walks, Matches
<1>6. MixedInv
  BY <1>2 DEF MixedInv, Overlaps, Under
<1>7. TagInv
  BY <1>2 DEF TagInv, Listed
<1>8. AheadInv
  BY DEF AheadInv, AheadOf, Walking, Walks
<1> QED BY <1>1, <1>3, <1>4, <1>5, <1>6, <1>7, <1>8 DEF IInv

(* What a thread holds at each point of a request, and how far the tags    *)
(* are with it: the invariant that the theorems below rest on.             *)
THEOREM Invariance == Spec => []IInv
<1>1. IInv /\ [Next]_vars => IInv'
  BY TypeStep, LocalStep, OwnStep, HeldStep, MixedStep, TagStep, AheadStep DEF IInv
<1> QED BY <1>1, InitIInv, PTL DEF Spec

(* Every request leaves map, index and its own variables within their      *)
(* types, the positions of its probes included (entry.c:71, 193-195). *)
THEOREM TypeCorrect == Spec => []TypeOK
<1>1. IInv => TypeOK
  BY DEF IInv
<1> QED BY <1>1, Invariance, PTL

(* Any entry that can be found is in the lists of all its tags, or with    *)
(* the request that is about to put it there or to clear it, for every key *)
(* whose updates have not overlapped (controller.c:299-302).               *)
THEOREM FoundByTags == Spec => []MappedIsListed
<1>1. ASSUME IInv PROVE MappedIsListed
  <2>1. SUFFICES ASSUME NEW e \in Mapped, content[e].key \notin mixed
                 PROVE  \/ \E t \in Threads : e \in Held(t) /\ pc[t] \in {"tag", "untag"}
                        \/ \A g \in content[e].tags : <<g, content[e].key>> \in index
    BY DEF MappedIsListed
  <2>2. IsListed(e) /\ e # NULL
    BY <1>1, <2>1, InMap DEF IInv, TagInv
  <2> QED BY <2>2 DEF IsListed, Held
<1> QED BY <1>1, Invariance, PTL

(* What a tag lists is in the map with that tag, or is being taken off the *)
(* list, with that exception (controller.c:286-300).                       *)
THEOREM ListsAreReal == Spec => []ListedIsReal
<1>1. IInv => ListedIsReal
  BY DEF IInv, TagInv, ListedIsReal, IsReal
<1> QED BY <1>1, Invariance, PTL

LEMMA EndsClearedStep == IInv /\ [Next]_vars => EndsCleared
<1> SUFFICES ASSUME IInv, [Next]_vars, NEW v \in Threads, ~Between(v), Between(v)',
                    NEW e \in doomed[v], e \in Mapped'
             PROVE  FALSE
  BY DEF EndsCleared
<1>1. CASE UNCHANGED vars \/ Tick
  BY <1>1 DEF vars, Tick, locals, Between
<1>2. ASSUME NEW t \in Threads, Call(t) \/ Step(t) PROVE FALSE
  <2>1. v = t
    BY <1>2, Others DEF IInv, Stays, Between
  <2>2. AheadOf(t) /\ LocalOf(t) /\ HeldOf(t)
    BY DEF IInv, AheadInv, LocalInv, HeldInv
  <2>3. e \in Mapped /\ Condemned(t, e) /\ (Walking(t) \/ Deleting(t))
    BY <2>1, <2>2 DEF AheadOf, Condemned
  <2>4. PICK s \in Slots : slots[s] = e /\ slots'[s] = e /\ e # NULL
    BY <1>2, <2>3, InMap, MappedStays
  <2>5. pc[t] \in {"probe", "untag"}
    BY <2>1, <2>2, <2>3 DEF LocalOf, Between, Walking, Deleting, Walks, Matches, IInv, TypeOK, Labels
  <2>6. ~Walking(t) => want[t] \in Keys
    BY <2>1, <2>2 DEF LocalOf, IInv, TypeOK
  <2>7. CASE pc[t] = "probe"
    <3>1. Ahead(t, s)
      BY <2>1, <2>2, <2>4, <2>7 DEF AheadOf
    <3>2. CASE ProbeEnds(t) \/ KeyEnds(t)
      <4>1. s = pos[t]
        BY <2>6, <3>1, <3>2, AheadLast DEF ProbeEnds, KeyEnds, IInv
      <4> QED BY <2>1, <2>4, <3>2, <4>1, PassesNone DEF ProbeEnds, KeyEnds, Here
    <3>3. CASE SetFull(t) \/ SetEmpty(t) \/ SetMatch(t) \/ GetMatch(t)
      BY <2>3, <3>3 DEF SetFull, SetEmpty, SetMatch, GetMatch, Walking, Deleting, Walks, Matches
    <3>4. CASE SkipSlot(t) \/ Unset(t) \/ Take(t)
      BY <2>1, <3>4 DEF SkipSlot, Unset, Take, NextSlot, Goto, Between, IInv, TypeOK
    <3> QED BY <1>2, <2>7, <3>2, <3>3, <3>4, FromProbe
  <2>8. CASE pc[t] = "untag"
    <3>1. CASE DropOld(t)
      BY <2>3, <3>1 DEF DropOld, Walking, Deleting, Walks, Matches
    <3>2. CASE DropUnset(t) \/ \E g \in Tags : Untag(t, g)
      BY <2>1, <2>8, <3>2 DEF DropUnset, Untag, ProbeFor, Goto, Between, IInv, TypeOK
    <3>3. CASE DropTaken(t)
      <4>1. Walking(t) /\ slots' = [slots EXCEPT ![pos[t]] = NULL]
        BY <3>3 DEF DropTaken
      <4>2. LastSlot(t)
        BY <2>1, <3>3 DEF DropTaken, NextSlot, Goto, Between, IInv, TypeOK
      <4>3. Ahead(t, s)
        BY <2>1, <2>2, <2>4, <2>8, <4>1 DEF AheadOf
      <4>4. s = pos[t]
        BY <2>6, <4>2, <4>3, AheadLast DEF IInv
      <4> QED BY <2>4, <4>1, <4>4 DEF IInv, TypeOK
    <3> QED BY <1>2, <2>8, <3>1, <3>2, <3>3, FromUntag
  <2> QED BY <2>5, <2>7, <2>8
<1> QED BY <1>1, <1>2 DEF Next

(* CLR in the modes that walk the map, and every delete_entry_by_key, miss *)
(* nothing that was to be removed when they began, whatever other requests *)
(* do meanwhile.                                                           *)
THEOREM NothingSurvives == Spec => ClearsAreComplete
<1>1. IInv /\ [Next]_vars => [EndsCleared]_vars
  BY EndsClearedStep
<1> QED BY <1>1, Invariance, PTL DEF Spec, ClearsAreComplete

LEMMA MissesTrulyStep == IInv /\ [Next]_vars => MissesTruly
<1> SUFFICES ASSUME IInv, [Next]_vars, NEW v \in Threads, op[v] = "get", At(v, "probe"), At(v, "idle")', steady[v]
             PROVE  FALSE
  BY DEF MissesTruly
<1> USE DEF At
<1>1. CASE UNCHANGED vars \/ Tick
  BY <1>1 DEF vars, Tick
<1>2. ASSUME NEW t \in Threads, Call(t) \/ Step(t) PROVE FALSE
  <2>1. v = t
    BY <1>2, Others DEF IInv, Stays
  <2>2. PICK s \in Slots : slots[s] # NULL /\ content[slots[s]].key = want[t] /\ Ahead(t, s)
    BY <2>1 DEF IInv, AheadInv, AheadOf
  <2>3. want[t] \in Keys
    BY <2>1 DEF IInv, TypeOK, LocalInv, LocalOf, Between, Walking, Walks
  <2>4. CASE ProbeEnds(t)
    <3>1. s = pos[t]
      BY <2>2, <2>3, <2>4, AheadLast DEF ProbeEnds, IInv
    <3> QED BY <2>1, <2>2, <2>4, <3>1, PassesNone DEF ProbeEnds, Here
  <2>5. CASE SetFull(t) \/ SetEmpty(t) \/ SetMatch(t) \/ Unset(t) \/ Take(t) \/ KeyEnds(t)
    BY <2>1, <2>5 DEF SetFull, SetEmpty, SetMatch, Unset, Take, KeyEnds, Walking, Deleting, Walks, Matches
  <2>6. CASE SkipSlot(t) \/ GetMatch(t)
    BY <2>1, <2>6 DEF SkipSlot, GetMatch, NextSlot, Goto, IInv, TypeOK
  <2> QED BY <1>2, <2>1, <2>4, <2>5, <2>6, FromProbe
<1> QED BY <1>1, <1>2 DEF Next

(* A GET answers STATUS_NOT_FOUND only if there was a time during it at    *)
(* which its key was not set, or updates of the key have overlapped.       *)
THEOREM TrueMisses == Spec => MissesAreTrue
<1>1. IInv /\ [Next]_vars => [MissesTruly]_vars
  BY MissesTrulyStep
<1> QED BY <1>1, Invariance, PTL DEF Spec, MissesAreTrue
=============================================================================
