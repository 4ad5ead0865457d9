-------------------------- MODULE PersistenceProofs --------------------------
(***************************************************************************)
(* Theorems about Persistence, for every set of keys, every size of the    *)
(* map, and any number of requests, starts and crashes.                    *)
(***************************************************************************)
EXTENDS Persistence, WellFoundedInduction, TLAPS

(***************************************************************************)
(* Types.                                                                  *)
(***************************************************************************)

LEMMA SlotsAreNumbers == Slots \subseteq Nat /\ NumSlots \in Nat \ {0}
BY PersistenceAssumption DEF Slots

LEMMA NextRequest ==
  ASSUME TypeOK, at < Len(file)
  PROVE  /\ file[at + 1] \in Records /\ at + 1 \in DOMAIN file /\ at + 1 \in 0 .. Len(file)
         /\ file[at + 1].key \in Keys
<1>1. file \in Seq(Records) /\ Len(file) \in Nat /\ at \in 0 .. Len(file) /\ DOMAIN file = 1 .. Len(file)
  BY DEF TypeOK
<1>2. at + 1 \in 1 .. Len(file)
  BY <1>1
<1>3. file[at + 1] \in Records
  BY <1>1, <1>2
<1> QED BY <1>1, <1>2, <1>3 DEF Records

LEMMA KeysInFile == TypeOK => Unread \subseteq Keys /\ \A i \in DOMAIN file : file[i] \in Records
<1> SUFFICES ASSUME TypeOK PROVE Unread \subseteq Keys /\ \A i \in DOMAIN file : file[i] \in Records
  OBVIOUS
<1>1. file \in Seq(Records) /\ Len(file) \in Nat /\ at \in Nat /\ DOMAIN file = 1 .. Len(file)
  BY DEF TypeOK
<1>2. \A i \in 1 .. Len(file) : file[i] \in Records
  BY <1>1
<1>3. \A i \in at + 1 .. Len(file) : file[i].key \in Keys
  BY <1>1, <1>2 DEF Records
<1> QED BY <1>1, <1>2, <1>3 DEF Unread

(***************************************************************************)
(* Probing.                                                                *)
(***************************************************************************)

Distance(k, s) == (s - Home[k]) % NumSlots

LEMMA DistanceIs ==
  ASSUME NEW k \in Keys, NEW s \in Slots
  PROVE  /\ Distance(k, s) = IF s >= Home[k] THEN s - Home[k] ELSE s - Home[k] + NumSlots
         /\ Distance(k, s) \in Nat
<1>1. \A d \in 0 .. NumSlots - 1 : d % NumSlots = d
  BY PersistenceAssumption
<1>2. \A d \in 1 - NumSlots .. - 1 : d % NumSlots = d + NumSlots
  BY PersistenceAssumption
<1>3. Home[k] \in 0 .. NumSlots - 1 /\ s \in 0 .. NumSlots - 1
  BY PersistenceAssumption DEF Slots
<1> QED BY <1>1, <1>2, <1>3, SlotsAreNumbers DEF Distance

LEMMA DistancesDiffer ==
  ASSUME NEW k \in Keys, NEW s \in Slots, NEW r \in Slots, Distance(k, s) = Distance(k, r)
  PROVE  s = r
<1>1. Home[k] \in 0 .. NumSlots - 1 /\ s \in 0 .. NumSlots - 1 /\ r \in 0 .. NumSlots - 1
  BY PersistenceAssumption DEF Slots
<1> QED BY <1>1, DistanceIs, SlotsAreNumbers

LEMMA Least ==
  ASSUME NEW S \in SUBSET Nat, S # {}
  PROVE  \E m \in S : \A k \in S : m <= k
<1> DEFINE R == OpToRel(<, Nat)
<1>1. IsWellFoundedOn(R, Nat)
  BY NatLessThanWellFounded
<1> HIDE DEF R
<1>2. PICK m \in S : \A k \in S : ~(<<k, m>> \in R)
  BY <1>1, WFMin
<1>3. \A k \in S : k < m => <<k, m>> \in R
  BY DEF R, OpToRel
<1>4. \A k \in S : ~(k < m)
  BY <1>2, <1>3
<1>5. \A k \in S : ~(k < m) => m <= k
  OBVIOUS
<1> QED BY <1>4, <1>5

(* The probing for k comes to one slot of S first. *)
LEMMA Nearest ==
  ASSUME NEW k \in Keys, NEW S \in SUBSET Slots, S # {}
  PROVE  First(k, S) \in S /\ \A r \in S : Distance(k, First(k, S)) <= Distance(k, r)
<1> DEFINE D == {Distance(k, s) : s \in S}
<1>1. D \in SUBSET Nat /\ D # {}
  BY DistanceIs
<1> HIDE DEF D
<1>2. PICK m \in D : \A d \in D : m <= d
  BY <1>1, Least
<1>3. \E s \in S : \A r \in S : Distance(k, s) <= Distance(k, r)
  BY <1>2 DEF D
<1> QED BY <1>3 DEF First, Distance

LEMMA FirstStays ==
  ASSUME NEW k \in Keys, NEW S \in SUBSET Slots, S # {}, NEW T \in SUBSET S, First(k, S) \in T
  PROVE  First(k, T) = First(k, S)
<1>1. First(k, S) \in Slots /\ First(k, T) \in T /\ First(k, T) \in Slots
  BY Nearest
<1>2. Distance(k, First(k, S)) <= Distance(k, First(k, T))
  BY <1>1, Nearest
<1>3. Distance(k, First(k, T)) <= Distance(k, First(k, S))
  BY Nearest
<1>4. Distance(k, First(k, S)) \in Nat /\ Distance(k, First(k, T)) \in Nat
  BY <1>1, DistanceIs
<1>5. Distance(k, First(k, T)) = Distance(k, First(k, S))
  BY <1>2, <1>3, <1>4
<1> QED BY <1>1, <1>5, DistancesDiffer

LEMMA MineIsFound ==
  ASSUME NEW k \in Keys, Mine(k) # {}
  PROVE  First(k, Mine(k)) \in Mine(k)
BY Nearest DEF Mine

(* What happens to other keys changes nothing that GET answers for k. *)
LEMMA Untouched ==
  ASSUME NEW k \in Keys, Mine(k)' = Mine(k), \A s \in Mine(k) : entries'[s] = entries[s]
  PROVE  Get(k)' = Get(k)
<1>1. CASE Mine(k) = {}
  BY <1>1 DEF Get
<1>2. CASE Mine(k) # {}
  <2>1. First(k, Mine(k)') = First(k, Mine(k))
    OBVIOUS
  <2>2. entries'[First(k, Mine(k)')] = entries[First(k, Mine(k))]
    BY <1>2, MineIsFound
  <2> QED BY <1>2, <2>2 DEF Get, First
<1> QED BY <1>1, <1>2

(* GET answers what was put last; other keys keep their slots. *)
LEMMA PutIsFound ==
  ASSUME TypeOK, NEW e \in Entries, Room(e.key) # {}, Put(e)
  PROVE  /\ e.life # "expired" => Get(e.key)' = e.val
         /\ \A k \in Keys \ {e.key} : Mine(k)' = Mine(k) /\ Get(k)' = Get(k)
<1> DEFINE k == e.key
           s == First(k, Room(k))
<1>1. k \in Keys /\ e # NULL
  BY EntryAssumption DEF Entries
<1>2. s \in Room(k) /\ s \in Slots
  BY <1>1, Nearest DEF Room, Mine
<1>3. entries' = [entries EXCEPT ![s] = e]
  BY DEF Put
<1>4. Mine(k)' = Mine(k) \cup {s}
  BY <1>1, <1>2, <1>3 DEF Mine, TypeOK
<1>5. First(k, Mine(k)') = s
  <2> DEFINE T == Mine(k) \cup {s}
  <2>1. T \in SUBSET Room(k) /\ s \in T /\ Room(k) \in SUBSET Slots
    BY <1>2 DEF Room, Mine
  <2>2. First(k, T) = First(k, Room(k))
    BY <1>1, <2>1, FirstStays
  <2> QED BY <1>4, <2>2
<1>6. entries'[s] = e
  BY <1>2, <1>3 DEF TypeOK
<1>7. e.life # "expired" => Get(k)' = e.val
  <2>1. Get(k)' = IF Mine(k)' = {} THEN 0
                  ELSE IF entries'[First(k, Mine(k)')].life = "expired" THEN 0
                       ELSE entries'[First(k, Mine(k)')].val
    BY DEF Get, First
  <2> QED BY <1>4, <1>5, <1>6, <2>1
<1>8. ASSUME NEW j \in Keys \ {k} PROVE Mine(j)' = Mine(j) /\ Get(j)' = Get(j)
  <2>1. s \notin Mine(j)
    BY <1>2 DEF Room, Mine
  <2>2. Mine(j)' = Mine(j)
    BY <1>1, <1>2, <1>3, <2>1 DEF Mine, TypeOK
  <2>3. \A r \in Mine(j) : entries'[r] = entries[r]
    BY <1>3, <2>1 DEF TypeOK
  <2> QED BY <2>2, <2>3, Untouched
<1> QED BY <1>7, <1>8

(***************************************************************************)
(* What each step does to the map and to what the clients know.            *)
(***************************************************************************)

LEMMA EntriesHaveKeys ==
  ASSUME TypeOK
  PROVE  /\ \A k \in Keys : Mine(k) \in SUBSET Slots
         /\ \A s \in Slots : entries[s] # NULL => entries[s] \in Entries /\ entries[s].key \in Keys
                                                  /\ s \in Mine(entries[s].key)
BY DEF TypeOK, Entries, Mine

Request(k) == Del(k) \/ \E life \in Lives : Set(k, life) \/ Renew(k, life)

(* A request of a client changes the key it names and no other. *)
LEMMA RequestChanges ==
  ASSUME TypeOK, NEW k \in Keys, Request(k)
  PROVE  /\ Get(k)' = truth'[k]
         /\ \A j \in Keys \ {k} : Mine(j)' = Mine(j) /\ Get(j)' = Get(j) /\ truth'[j] = truth[j]
         /\ Unread' = Unread /\ file' = file /\ pc' = pc /\ at' = at /\ slot' = slot
         /\ changed' = changed \cup {k}
         /\ excused' = IF k \in Unread THEN excused \cup {k} ELSE excused \ {k}
         /\ Serving
<1> USE DEF TypeOK
<1>1. CASE Del(k)
  <2>1. entries' = [s \in Slots |-> IF s \in Mine(k) THEN NULL ELSE entries[s]] /\ truth' = [truth EXCEPT ![k] = 0]
    BY <1>1 DEF Del, Changes
  <2>2. Mine(k)' = {}
    BY <2>1 DEF Mine
  <2>3. Get(k)' = 0
    BY <2>2 DEF Get
  <2>4. ASSUME NEW j \in Keys \ {k} PROVE Mine(j)' = Mine(j) /\ Get(j)' = Get(j)
    <3>1. \A s \in Mine(j) : s \in Slots /\ s \notin Mine(k)
      BY DEF Mine
    <3>2. Mine(j)' = Mine(j)
      BY <2>1, <3>1 DEF Mine
    <3>3. \A s \in Mine(j) : entries'[s] = entries[s]
      BY <2>1, <3>1
    <3> QED BY <3>2, <3>3, Untouched
  <2>5. Unread' = Unread
    BY <1>1 DEF Del, Unread
  <2> QED BY <1>1, <2>1, <2>3, <2>4, <2>5 DEF Del, Changes
<1>2. CASE \E life \in Lives : Set(k, life)
  <2>1. PICK life \in {"never", "ttl"} : Set(k, life)
    BY <1>2, PersistenceAssumption
  <2> DEFINE e == [key |-> k, val |-> sets + 1, life |-> life]
  <2>2. sets + 1 \in 1 .. Garbage
    BY <2>1, PersistenceAssumption DEF Set, Garbage
  <2>3. e \in Entries /\ e.key = k /\ e.life # "expired" /\ e.val = sets + 1
    BY <2>2 DEF Entries
  <2>4. Put(e) /\ Room(k) # {}
    BY <2>1 DEF Set
  <2> HIDE DEF e
  <2>5. Get(k)' = sets + 1 /\ \A j \in Keys \ {k} : Mine(j)' = Mine(j) /\ Get(j)' = Get(j)
    BY <2>3, <2>4, PutIsFound
  <2>6. truth' = [truth EXCEPT ![k] = sets + 1]
    BY <2>1 DEF Set, Changes
  <2>7. Unread' = Unread
    BY <2>1 DEF Set, Unread
  <2> QED BY <2>1, <2>5, <2>6, <2>7 DEF Set, Changes
<1>3. CASE \E life \in Lives : Renew(k, life)
  <2>1. PICK life \in {"never", "ttl"} : Renew(k, life)
    BY <1>3, PersistenceAssumption
  <2> DEFINE f == First(k, Mine(k))
             e == [entries[f] EXCEPT !.life = life]
  <2>2. Mine(k) # {} /\ f \in Mine(k) /\ f \in Slots /\ entries[f] \in Entries /\ entries[f].key = k
    BY <2>1, MineIsFound DEF Renew, Mine
  <2>3. e \in Entries /\ e # NULL /\ e.key = k /\ e.life # "expired" /\ e.val = entries[f].val
    BY <2>2, EntryAssumption DEF Entries
  <2>4. entries' = [entries EXCEPT ![f] = e] /\ truth' = [truth EXCEPT ![k] = entries[f].val]
    BY <2>1 DEF Renew, Changes
  <2> HIDE DEF e
  <2>5. entries'[f] = e /\ \A s \in Slots \ {f} : entries'[s] = entries[s]
    BY <2>2, <2>4
  <2>6. \A j \in Keys : Mine(j)' = Mine(j)
    <3>1. entries[f] # NULL
      BY <2>2 DEF Mine
    <3> HIDE DEF f, TypeOK
    <3>2. \A s \in Slots : (entries'[s] # NULL <=> entries[s] # NULL) /\ entries'[s].key = entries[s].key
      BY <2>2, <2>3, <2>5, <3>1
    <3> QED BY <3>2 DEF Mine
  <2>7. Get(k)' = e.val
    <3>1. Get(k)' = IF Mine(k)' = {} THEN 0
                    ELSE IF entries'[First(k, Mine(k)')].life = "expired" THEN 0
                         ELSE entries'[First(k, Mine(k)')].val
      BY DEF Get, First
    <3>2. Mine(k)' = Mine(k) /\ First(k, Mine(k)') = f
      BY <2>6
    <3> QED BY <2>2, <2>3, <2>5, <3>1, <3>2
  <2>8. ASSUME NEW j \in Keys \ {k} PROVE Get(j)' = Get(j)
    <3>1. \A s \in Mine(j) : s \in Slots \ {f}
      BY <2>2 DEF Mine
    <3> QED BY <2>5, <2>6, <3>1, Untouched
  <2>9. Unread' = Unread
    BY <2>1 DEF Renew, Unread
  <2> HIDE DEF f
  <2> QED BY <2>1, <2>3, <2>4, <2>6, <2>7, <2>8, <2>9 DEF Renew, Changes
<1> QED BY <1>1, <1>2, <1>3 DEF Request

(* CLR of single entries: what is not excused is as the clients know it.   *)
LEMMA ClearChanges ==
  ASSUME TypeOK, NEW S \in SUBSET Slots, NEW U \in SUBSET Unread, Clear(S, U)
  PROVE  /\ Unread' = Unread /\ file' = file /\ pc' = pc /\ at' = at /\ slot' = slot
         /\ Serving
         /\ \A k \in Keys \ excused' : k \notin excused
         /\ \A k \in Keys \ (excused' \cup changed') : k \notin changed /\ truth'[k] = truth[k]
         /\ \A k \in Keys \ excused' : Get(k) = truth[k] => Get(k)' = truth'[k]
         /\ \A k \in Keys \ excused' : k \in Unread /\ k \notin changed /\ Mine(k) = {}
                                     => k \notin changed' /\ Mine(k)' = {}
<1> DEFINE gone == {k \in Keys : Mine(k) # {} /\ First(k, Mine(k)) \in S} \cup U
           back == {k \in gone : k \in Unread \/ ~(Mine(k) \subseteq S)}
<1>1. /\ Serving /\ UNCHANGED <<file, pc, at, slot>>
      /\ entries' = [s \in Slots |-> IF s \in S THEN NULL ELSE entries[s]]
      /\ truth' = [k \in Keys |-> IF k \in gone THEN 0 ELSE truth[k]]
      /\ changed' = changed \cup gone /\ excused' = excused \cup back
  BY DEF Clear
<1>2. ASSUME NEW k \in Keys PROVE Mine(k)' = Mine(k) \ S /\ \A s \in Mine(k)' : entries'[s] = entries[s]
  BY <1>1 DEF Mine
<1>3. Unread' = Unread
  BY <1>1 DEF Unread
<1>4. ASSUME NEW k \in Keys \ excused', Get(k) = truth[k] PROVE Get(k)' = truth'[k]
  <2>1. CASE k \in gone
    <3>1. Mine(k) \subseteq S
      BY <1>1, <1>4, <2>1
    <3>2. Mine(k)' = {}
      BY <1>2, <3>1
    <3>3. Get(k)' = 0
      BY <3>2 DEF Get
    <3> QED BY <1>1, <2>1, <3>3
  <2>2. CASE k \notin gone
    <3>1. truth'[k] = truth[k]
      BY <1>1, <2>2
    <3>2. CASE Mine(k) = {}
      BY <1>2, <1>4, <3>1, <3>2 DEF Get
    <3>3. CASE Mine(k) # {}
      <4> DEFINE f == First(k, Mine(k))
      <4>1. f \in Mine(k) /\ f \notin S
        BY <2>2, <3>3, MineIsFound
      <4>2. Mine(k)' \in SUBSET Mine(k) /\ f \in Mine(k)' /\ Mine(k) \in SUBSET Slots
        BY <1>2, <4>1 DEF Mine
      <4>3. First(k, Mine(k)') = f
        <5>1. PICK T \in SUBSET Mine(k) : T = Mine(k)'
          BY <4>2
        <5>2. First(k, T) = First(k, Mine(k))
          BY <3>3, <4>2, <5>1, FirstStays
        <5> QED BY <5>1, <5>2
      <4>4. entries'[f] = entries[f]
        BY <1>2, <4>2
      <4>5. Get(k)' = IF Mine(k)' = {} THEN 0
                      ELSE IF entries'[First(k, Mine(k)')].life = "expired" THEN 0
                           ELSE entries'[First(k, Mine(k)')].val
        BY DEF Get, First
      <4> HIDE DEF f
      <4>6. Get(k) = IF entries[f].life = "expired" THEN 0 ELSE entries[f].val
        BY <3>3 DEF Get, f
      <4> QED BY <1>4, <3>1, <4>2, <4>3, <4>4, <4>5, <4>6
    <3> QED BY <3>2, <3>3
  <2> QED BY <2>1, <2>2
<1>5. ASSUME NEW k \in Keys \ excused', k \in Unread, k \notin changed, Mine(k) = {}
      PROVE  k \notin changed' /\ Mine(k)' = {}
  BY <1>1, <1>2, <1>5
<1>6. ASSUME NEW k \in Keys \ (excused' \cup changed') PROVE k \notin changed /\ truth'[k] = truth[k]
  BY <1>1, <1>6
<1> QED BY <1>1, <1>3, <1>4, <1>5, <1>6

(* An entry that expires is what the clients know, or has been behind      *)
(* another one.                                                            *)
LEMMA ExpireKeeps ==
  ASSUME TypeOK, NEW s \in Slots, Expire(s)
  PROVE  /\ entries[s].key \in Keys /\ s \in Mine(entries[s].key)
         /\ \A k \in Keys : /\ Mine(k)' = Mine(k)
                            /\ Get(k) = truth[k] => Get(k)' = truth'[k]
                            /\ k \notin changed' => k \notin changed /\ truth'[k] = truth[k]
         /\ \A k \in Keys \ {entries[s].key} : truth'[k] = truth[k] /\ (k \in changed' => k \in changed)
         /\ \A r \in Slots : entries[r] # NULL /\ entries[r].life = "expired" => entries'[r].life = "expired"
<1>0. PICK q \in Keys : q = entries[s].key
  BY EntriesHaveKeys DEF Expire
<1> DEFINE e == [entries[s] EXCEPT !.life = "expired"]
<1>1. entries[s] \in Entries /\ entries[s].key = q /\ s \in Mine(q) /\ entries[s].life = "ttl"
  BY <1>0, EntriesHaveKeys DEF Expire
<1>2. entries' = [entries EXCEPT ![s] = e]
  BY DEF Expire
<1>3. e \in Entries /\ e # NULL /\ e.key = q /\ e.life = "expired"
  BY <1>1, EntryAssumption DEF Entries
<1> HIDE DEF e
<1>4. entries'[s] = e /\ \A r \in Slots \ {s} : entries'[r] = entries[r]
  BY <1>2 DEF TypeOK
<1>5. \A k \in Keys : Mine(k)' = Mine(k)
  BY <1>1, <1>3, <1>4 DEF Mine
<1>6. \/ s = First(q, Mine(q)) /\ truth[q] = entries[s].val /\ truth' = [truth EXCEPT ![q] = 0]
         /\ changed' = changed \cup {q}
      \/ ~(s = First(q, Mine(q)) /\ truth[q] = entries[s].val) /\ truth' = truth /\ changed' = changed
  BY <1>0 DEF Expire
<1>7. ASSUME NEW k \in Keys \ {q}
      PROVE  truth'[k] = truth[k] /\ Get(k)' = Get(k) /\ (k \in changed' <=> k \in changed)
  <2>1. s \notin Mine(k) /\ Mine(k) \in SUBSET Slots
    BY <1>1 DEF Mine
  <2>2. Get(k)' = Get(k)
    BY <1>4, <1>5, <2>1, Untouched
  <2> QED BY <1>6, <2>2 DEF TypeOK
<1>8. ASSUME Get(q) = truth[q] PROVE Get(q)' = truth'[q]
  <2>1. /\ Get(q) = IF entries[First(q, Mine(q))].life = "expired" THEN 0 ELSE entries[First(q, Mine(q))].val
        /\ Get(q)' = IF entries'[First(q, Mine(q))].life = "expired" THEN 0 ELSE entries'[First(q, Mine(q))].val
    <3>1. Mine(q)' = Mine(q) /\ Mine(q) # {}
      BY <1>1, <1>5
    <3> DEFINE f == First(q, Mine(q))
    <3>2. First(q, Mine(q)') = f
      BY <3>1
    <3>3. Get(q)' = IF Mine(q)' = {} THEN 0
                    ELSE IF entries'[First(q, Mine(q)')].life = "expired" THEN 0
                         ELSE entries'[First(q, Mine(q)')].val
      BY DEF Get, First
    <3> QED BY <3>1, <3>2, <3>3 DEF Get
  <2>2. CASE s = First(q, Mine(q))
    BY <1>1, <1>3, <1>4, <1>6, <1>8, <2>1, <2>2 DEF TypeOK
  <2>3. CASE s # First(q, Mine(q))
    <3>1. First(q, Mine(q)) \in Slots \ {s}
      BY <1>1, <2>3, MineIsFound, EntriesHaveKeys
    <3>2. truth' = truth
      BY <1>6, <2>3
    <3> QED BY <1>4, <1>8, <2>1, <3>1, <3>2
  <2> QED BY <2>2, <2>3
<1>9. q \notin changed' => q \notin changed /\ truth'[q] = truth[q]
  BY <1>6
<1>10. \A r \in Slots : entries[r] # NULL /\ entries[r].life = "expired" => entries'[r].life = "expired"
  BY <1>3, <1>4
<1> QED BY <1>1, <1>5, <1>7, <1>8, <1>9, <1>10

(* A request of the file that is put into the map is the next one.         *)
LEMMA PutNext ==
  ASSUME TypeOK, at < Len(file), NEW v \in 1 .. Garbage, NEW q \in Keys, q = file[at + 1].key,
         Room(q) # {}, Put([key |-> q, val |-> v, life |-> file[at + 1].life])
  PROVE  /\ Get(q)' = v
         /\ \A j \in Keys \ {q} : Mine(j)' = Mine(j) /\ Get(j)' = Get(j)
<1>1. PICK life \in {"never", "ttl"} : life = file[at + 1].life
  BY NextRequest DEF Records
<1> DEFINE e == [key |-> q, val |-> v, life |-> life]
<1>2. e \in Entries /\ e.key = q /\ e.life # "expired" /\ e.val = v
  BY DEF Entries
<1>3. Room(e.key) # {} /\ Put(e)
  BY <1>1
<1> HIDE DEF e
<1>4. PICK d \in Entries : d = e
  BY <1>2
<1>5. /\ d.life # "expired" => Get(d.key)' = d.val
      /\ \A k \in Keys \ {d.key} : Mine(k)' = Mine(k) /\ Get(k)' = Get(k)
  BY <1>3, <1>4, PutIsFound
<1>6. d.key = q /\ d.val = v /\ d.life # "expired"
  BY <1>2, <1>4
<1> QED BY <1>5, <1>6

LEMMA NextIsUnread ==
  ASSUME TypeOK, pc = "load", at < Len(file), at' = at + 1, pc' = pc, file' = file
  PROVE  /\ file[at + 1].key \in Unread
         /\ Unread' \subseteq Unread
         /\ \A k \in Unread : k # file[at + 1].key => k \in Unread'
         /\ \A k \in Keys : Recorded(k) = {at + 1} => k \notin Unread'
<1>1. at \in Nat /\ Len(file) \in Nat /\ DOMAIN file = 1 .. Len(file)
  BY DEF TypeOK
<1>2. Unread = {file[i].key : i \in at + 1 .. Len(file)} /\ Unread' = {file[i].key : i \in at + 2 .. Len(file)}
  BY <1>1 DEF Unread
<1>3. at + 1 .. Len(file) = {at + 1} \cup (at + 2 .. Len(file)) /\ at + 1 \notin at + 2 .. Len(file)
  BY <1>1
<1>4. ASSUME NEW k \in Keys, Recorded(k) = {at + 1}, k \in Unread' PROVE FALSE
  <2>1. PICK i \in at + 2 .. Len(file) : file[i].key = k
    BY <1>2, <1>4
  <2>2. i \in Recorded(k) /\ i # at + 1
    BY <1>1, <2>1 DEF Recorded
  <2> QED BY <1>4, <2>2
<1> QED BY <1>2, <1>3, <1>4

(* The file and what it is compared with are as they were.                 *)
LEMMA StillWritten ==
  ASSUME file' = file, NEW k \in Keys, truth'[k] = truth[k]
  PROVE  Written(k)' = Written(k) /\ Recorded(k)' = Recorded(k)
BY DEF Written, Recorded

LEMMA TypeStep == TypeOK /\ [Next]_vars => TypeOK'
<1> SUFFICES ASSUME TypeOK, [Next]_vars PROVE TypeOK'
  OBVIOUS
<1> USE PersistenceAssumption, EntryAssumption, SlotsAreNumbers DEF TypeOK, signals, counts, faults
<1>1. CASE UNCHANGED vars
  BY <1>1 DEF vars
<1>2. ASSUME NEW k \in Keys, NEW life \in Lives, Set(k, life) PROVE TypeOK'
  <2>1. sets + 1 \in 1 .. Garbage /\ sets' \in 0 .. MaxSets
    BY <1>2 DEF Set, Garbage
  <2>2. [key |-> k, val |-> sets + 1, life |-> life] \in Entries
    BY <2>1 DEF Entries
  <2>3. entries' \in [Slots -> Entries \cup {NULL}]
    BY <1>2, <2>2 DEF Set, Put
  <2>4. truth' \in [Keys -> 0 .. Garbage]
    BY <1>2, <2>1 DEF Set, Changes
  <2>5. changed' \subseteq Keys /\ excused' \subseteq Keys
    BY <1>2 DEF Set, Changes
  <2> QED BY <1>2, <2>1, <2>3, <2>4, <2>5 DEF Set
<1>3. ASSUME NEW k \in Keys, Del(k) PROVE TypeOK'
  <2>1. entries' \in [Slots -> Entries \cup {NULL}]
    BY <1>3 DEF Del
  <2>2. truth' \in [Keys -> 0 .. Garbage] /\ changed' \subseteq Keys /\ excused' \subseteq Keys
    BY <1>3 DEF Del, Changes, Garbage
  <2> QED BY <1>3, <2>1, <2>2 DEF Del
<1>4. ASSUME NEW s \in Slots, Expire(s) PROVE TypeOK'
  <2>1. entries[s] \in Entries
    BY <1>4 DEF Expire
  <2>2. [entries[s] EXCEPT !.life = "expired"] \in Entries
    BY <2>1 DEF Entries
  <2>3. entries' \in [Slots -> Entries \cup {NULL}]
    BY <1>4, <2>2 DEF Expire
  <2>4. entries[s].key \in Keys
    BY <2>1 DEF Entries
  <2>5. \/ truth' = [truth EXCEPT ![entries[s].key] = 0] /\ changed' = changed \cup {entries[s].key}
        \/ truth' = truth /\ changed' = changed
    BY <1>4 DEF Expire
  <2>6. truth \in [Keys -> 0 .. Garbage] /\ changed \subseteq Keys /\ 0 \in 0 .. Garbage
    BY DEF Garbage
  <2> HIDE DEF TypeOK
  <2>7. truth' \in [Keys -> 0 .. Garbage] /\ changed' \subseteq Keys
    <3>1. [truth EXCEPT ![entries[s].key] = 0] \in [Keys -> 0 .. Garbage]
      BY <2>6
    <3> QED BY <2>4, <2>5, <2>6, <3>1
  <2> QED BY <1>4, <2>3, <2>7 DEF Expire, TypeOK
<1>5. ASSUME NEW k \in Keys, NEW life \in Lives, Renew(k, life) PROVE TypeOK'
  <2> DEFINE s == First(k, Mine(k))
  <2>1. s \in Slots /\ entries[s] \in Entries
    BY <1>5, MineIsFound DEF Renew, Mine
  <2>2. [entries[s] EXCEPT !.life = life] \in Entries /\ entries[s].val \in 0 .. Garbage
    <3>1. life \in {"never", "ttl"}
      OBVIOUS
    <3>2. PICK e \in Entries : e = entries[s]
      BY <2>1
    <3> HIDE DEF TypeOK, s
    <3>3. e.key \in Keys /\ e.val \in 1 .. Garbage
      BY DEF Entries
    <3>4. [e EXCEPT !.life = life] \in Entries
      BY <3>1 DEF Entries
    <3>5. \A v \in 1 .. Garbage : v \in 0 .. Garbage
      BY DEF Garbage
    <3> QED BY <3>2, <3>3, <3>4, <3>5
  <2>3. entries' = [entries EXCEPT ![s] = [entries[s] EXCEPT !.life = life]] /\ Changes(k, entries[s].val)
    BY <1>5 DEF Renew
  <2> HIDE DEF s
  <2>4. entries' \in [Slots -> Entries \cup {NULL}]
    BY <2>1, <2>2, <2>3
  <2>5. truth' \in [Keys -> 0 .. Garbage] /\ changed' \subseteq Keys /\ excused' \subseteq Keys
    BY <2>2, <2>3 DEF Changes
  <2> QED BY <1>5, <2>4, <2>5 DEF Renew
<1>6. ASSUME NEW S \in SUBSET Slots, NEW U \in SUBSET Unread, Clear(S, U) PROVE TypeOK'
  <2>1. entries' \in [Slots -> Entries \cup {NULL}]
    BY <1>6 DEF Clear
  <2>2. U \subseteq Keys
    BY KeysInFile
  <2>3. truth' \in [Keys -> 0 .. Garbage] /\ changed' \subseteq Keys /\ excused' \subseteq Keys
    BY <1>6, <2>2 DEF Clear, Garbage
  <2> QED BY <1>6, <2>1, <2>3 DEF Clear
<1>7. CASE Crash
  <2>1. file' \in Seq(Records) /\ Len(file') = Len(file)
    <3>1. CASE pc = "dump" /\ file # <<>>
      <4>1. PICK cut \in BOOLEAN : file' = [file EXCEPT ![Len(file)].torn = @ \/ cut]
        BY <1>7, <3>1 DEF Crash
      <4>2. file[Len(file)] \in Records /\ Len(file) \in DOMAIN file
        BY <3>1
      <4>3. [file[Len(file)] EXCEPT !.torn = @ \/ cut] \in Records
        BY <4>2 DEF Records
      <4> DEFINE r == [file[Len(file)] EXCEPT !.torn = @ \/ cut]
      <4>4. file' = [file EXCEPT ![Len(file)] = r]
        BY <4>1
      <4> HIDE DEF r
      <4>5. r \in Records
        BY <4>3 DEF r
      <4> QED BY <4>2, <4>4, <4>5
    <3>2. CASE ~(pc = "dump" /\ file # <<>>)
      BY <1>7, <3>2 DEF Crash
    <3> QED BY <3>1, <3>2
  <2>2. excused' \subseteq Keys
    BY <1>7 DEF Crash
  <2>3. entries' \in [Slots -> Entries \cup {NULL}] /\ crashes' \in 0 .. MaxCrashes
    BY <1>7 DEF Crash
  <2>4. /\ pc' = "down" /\ at' = 0 /\ slot' = 0 /\ derailed' = FALSE
        /\ unreadable' = FALSE /\ held' = FALSE
        /\ quit' = FALSE /\ do_write_stats' = FALSE /\ asked' = FALSE /\ due' = FALSE
        /\ sets' = sets /\ starts' = starts /\ truth' = truth /\ changed' = changed
    BY <1>7 DEF Crash
  <2>5. at' \in 0 .. Len(file') /\ slot' \in 0 .. NumSlots
    BY <2>1, <2>4
  <2> QED BY <2>1, <2>2, <2>3, <2>4, <2>5
<1>8. CASE Start
  BY <1>8 DEF Start
<1>9. CASE Initialise
  BY <1>9 DEF Initialise
<1>10. CASE LoadRequest
  <2> DEFINE r == file[at + 1]
  <2>1. r \in Records /\ at + 1 \in 0 .. Len(file)
    BY <1>10, NextRequest DEF LoadRequest, Loading
  <2>2. [key |-> r.key, val |-> r.val, life |-> r.life] \in Entries
    BY <2>1 DEF Records, Entries
  <2>3. entries' \in [Slots -> Entries \cup {NULL}]
    BY <1>10, <2>2 DEF LoadRequest, Put
  <2> QED BY <1>10, <2>1, <2>3 DEF LoadRequest
<1>11. CASE LoadFails
  <2> DEFINE r == file[at + 1]
  <2>1. r \in Records /\ at + 1 \in 0 .. Len(file)
    BY <1>11, NextRequest DEF LoadFails, Loading
  <2>2. [key |-> r.key, val |-> Garbage, life |-> r.life] \in Entries
    BY <2>1 DEF Records, Entries, Garbage
  <2>3. entries' \in [Slots -> Entries \cup {NULL}]
    BY <1>11, <2>2 DEF LoadFails, Put
  <2>4. Unread \subseteq Keys
    BY KeysInFile
  <2> QED BY <1>11, <2>1, <2>3, <2>4 DEF LoadFails
<1>12. CASE LoadEnds \/ BeginStats \/ EndStats
  BY <1>12 DEF LoadEnds, BeginStats, EndStats
<1>13. CASE StopServer \/ Release \/ JoinWorkers
  BY <1>13 DEF StopServer, Release, JoinWorkers
<1>14. CASE Rewind
  BY <1>14 DEF Rewind
<1>15. CASE Skip
  BY <1>15 DEF Skip, Slots
<1>16. CASE Write
  <2> DEFINE e == entries[slot]
  <2>1. e \in Entries /\ e.life # "expired" /\ slot' \in 0 .. NumSlots
    BY <1>16 DEF Write, Slots
  <2>2. PICK short \in {FALSE, MayFail} :
          /\ file' = Append(file, [key |-> e.key, val |-> e.val, life |-> e.life, torn |-> short])
          /\ excused' = IF short \/ Mine(e.key) # {slot} THEN excused \cup {e.key} ELSE excused
    BY <1>16 DEF Write
  <2>3. [key |-> e.key, val |-> e.val, life |-> e.life, torn |-> short] \in Records /\ e.key \in Keys
    BY <2>1 DEF Records, Entries
  <2>4. file' \in Seq(Records) /\ Len(file') = Len(file) + 1
    BY <2>2, <2>3
  <2> QED BY <1>16, <2>1, <2>2, <2>3, <2>4 DEF Write
<1>17. CASE Exit
  <2>1. entries' \in [Slots -> Entries \cup {NULL}] /\ slot' \in 0 .. NumSlots
    BY <1>17 DEF Exit
  <2>2. /\ pc' = "down" /\ changed' = {}
        /\ quit' = FALSE /\ do_write_stats' = FALSE /\ asked' = FALSE /\ due' = FALSE
        /\ UNCHANGED <<file, at, faults, counts, truth, excused>>
    BY <1>17 DEF Exit
  <2> QED BY <2>1, <2>2
<1>18. CASE Quit \/ AskStats
  BY <1>18 DEF Quit, AskStats
<1>19. CASE ReadFails
  BY <1>19, KeysInFile DEF ReadFails
<1> HIDE DEF TypeOK
<1> QED
  BY <1>1, <1>2, <1>3, <1>4, <1>5, <1>6, <1>7, <1>8, <1>9, <1>10, <1>11, <1>12, <1>13, <1>14,
     <1>15, <1>16, <1>17, <1>18, <1>19 DEF Next, MainThread, Environment

(***************************************************************************)
(* The parts of the invariant.                                             *)
(***************************************************************************)

LEMMA RestStep == TypeOK /\ RestInv /\ [Next]_vars => RestInv'
<1> SUFFICES ASSUME TypeOK, RestInv, [Next]_vars PROVE RestInv'
  OBVIOUS
<1> USE DEF RestInv, signals, counts, faults
<1>1. ASSUME NEW k \in Keys, Request(k) PROVE RestInv'
  BY <1>1, RequestChanges DEF Serving
<1>2. ASSUME NEW s \in Slots, Expire(s) PROVE RestInv'
  BY <1>2 DEF Expire
<1>3. CASE Crash
  BY <1>3 DEF Crash, TypeOK
<1>4. CASE UNCHANGED vars \/ Quit \/ AskStats \/ Release \/ Start \/ Initialise
  BY <1>4 DEF vars, Quit, AskStats, Release, Start, Initialise
<1>5. CASE LoadRequest \/ LoadFails \/ ReadFails \/ LoadEnds
  BY <1>5 DEF LoadRequest, LoadFails, ReadFails, LoadEnds, Loading
<1>6. CASE BeginStats \/ EndStats \/ StopServer \/ JoinWorkers \/ Rewind \/ Skip \/ Write
  BY <1>6 DEF BeginStats, EndStats, StopServer, JoinWorkers, Rewind, Skip, Write
<1>7. CASE Exit
  BY <1>7 DEF Exit
<1>8. ASSUME NEW S \in SUBSET Slots, NEW U \in SUBSET Unread, Clear(S, U) PROVE RestInv'
  BY <1>8, ClearChanges DEF Serving
<1> QED BY <1>1, <1>2, <1>3, <1>4, <1>5, <1>6, <1>7, <1>8 DEF Next, MainThread, Environment, Request

LEMMA FileStep == TypeOK /\ RestInv /\ FileInv /\ DumpInv /\ [Next]_vars => FileInv'
<1> SUFFICES ASSUME TypeOK, RestInv, FileInv, DumpInv, [Next]_vars PROVE FileInv'
  OBVIOUS
<1> DEFINE Says(k) == Written(k) \/ (Recorded(k) = {} /\ truth[k] = 0)
<1>1. ASSUME pc # "dump", file' = file,
             \A k \in Keys : k \notin excused' \cup changed' => k \notin excused \cup changed /\ truth'[k] = truth[k]
      PROVE  FileInv'
  BY <1>1, StillWritten DEF FileInv
<1>2. ASSUME NEW k \in Keys, Request(k) PROVE FileInv'
  <2>1. pc # "dump" /\ file' = file /\ changed' = changed \cup {k}
    BY <1>2, RequestChanges DEF Serving
  <2>2. \A j \in Keys \ {k} : truth'[j] = truth[j] /\ (j \in excused' <=> j \in excused)
    BY <1>2, RequestChanges
  <2> QED BY <1>1, <2>1, <2>2
<1>3. ASSUME NEW s \in Slots, Expire(s) PROVE FileInv'
  <2>1. pc' = pc /\ file' = file /\ excused' = excused
    BY <1>3 DEF Expire
  <2>2. CASE pc = "dump"
    BY <2>1, <2>2 DEF FileInv
  <2>3. CASE pc # "dump"
    BY <1>1, <1>3, <2>1, <2>3, ExpireKeeps
  <2> QED BY <2>2, <2>3
<1>4. CASE Crash
  <2>1. CASE pc = "dump"
    BY <1>4, <2>1 DEF Crash, FileInv
  <2>2. CASE pc # "dump"
    BY <1>1, <1>4, <2>2 DEF Crash
  <2> QED BY <2>1, <2>2
<1>5. CASE UNCHANGED vars \/ Quit \/ AskStats \/ Release \/ Start
  <2>1. /\ UNCHANGED <<file, truth, excused, changed>>
        /\ pc' = pc \/ (pc = "down" /\ pc' = "init")
    BY <1>5 DEF vars, Quit, AskStats, Release, Start, counts, signals
  <2>2. CASE pc = "dump"
    BY <2>1, <2>2 DEF FileInv
  <2>3. CASE pc # "dump"
    BY <1>1, <2>1, <2>3
  <2> QED BY <2>2, <2>3
<1>6. CASE Initialise \/ LoadRequest \/ LoadEnds \/ BeginStats \/ EndStats \/ StopServer \/ JoinWorkers
  BY <1>1, <1>6 DEF Initialise, LoadRequest, LoadEnds, BeginStats, EndStats, StopServer, JoinWorkers, Loading
<1>7. CASE LoadFails \/ ReadFails
  BY <1>1, <1>7 DEF LoadFails, ReadFails, Loading
<1>8. CASE Rewind \/ Skip \/ Write
  BY <1>8 DEF Rewind, Skip, Write, FileInv
<1>9. CASE Exit
  <2>1. /\ pc = "dump" /\ slot = NumSlots /\ UNCHANGED <<file, truth, excused>>
    BY <1>9 DEF Exit
  <2> SUFFICES ASSUME NEW k \in Keys \ excused PROVE Says(k)'
    BY <2>1 DEF FileInv
  <2>2. Written(k)' = Written(k) /\ Recorded(k)' = Recorded(k)
    BY <2>1, StillWritten
  <2>3. CASE Written(k)
    BY <2>2, <2>3
  <2>4. CASE Recorded(k) = {} /\ Get(k) = truth[k] /\ \A s \in Mine(k) : s < slot => entries[s].life = "expired"
    <3>1. \A s \in Mine(k) : entries[s].life = "expired"
      BY <2>1, <2>4, PersistenceAssumption DEF Mine, Slots
    <3>2. Get(k) = 0
      BY <3>1, MineIsFound DEF Get
    <3> QED BY <2>1, <2>2, <2>4, <3>2
  <2> QED BY <2>1, <2>3, <2>4 DEF DumpInv
<1>10. ASSUME NEW S \in SUBSET Slots, NEW U \in SUBSET Unread, Clear(S, U) PROVE FileInv'
  <2>1. pc # "dump" /\ file' = file
    BY <1>10, ClearChanges DEF Serving
  <2> QED BY <1>1, <1>10, <2>1, ClearChanges
<1> QED
  BY <1>2, <1>3, <1>4, <1>5, <1>6, <1>7, <1>8, <1>9, <1>10 DEF Next, MainThread, Environment, Request

LEMMA LoadStep == TypeOK /\ RestInv /\ FileInv /\ LoadInv /\ [Next]_vars => LoadInv'
<1> SUFFICES ASSUME TypeOK, RestInv, FileInv, LoadInv, [Next]_vars, pc' = "load" PROVE LoadInv'
  BY DEF LoadInv
<1> DEFINE Fits(k) == IF k \in Unread THEN k \notin changed /\ Mine(k) = {} ELSE Get(k) = truth[k]
<1> HIDE DEF Fits
<1>0. /\ \A k \in Keys \ excused : pc = "load" => Fits(k)
      /\ (\A k \in Keys \ excused' : Fits(k)') => LoadInv'
  BY DEF LoadInv, Fits
<1>1. ASSUME NEW k \in Keys, Request(k) PROVE LoadInv'
  <2>1. ASSUME NEW j \in Keys \ excused' PROVE Fits(j)'
    <3>1. Unread' = Unread /\ pc' = pc
      BY <1>1, RequestChanges
    <3>2. CASE j = k
      BY <1>1, <2>1, <3>1, <3>2, RequestChanges DEF Fits
    <3>3. CASE j # k
      <4>1. /\ Mine(j)' = Mine(j) /\ Get(j)' = Get(j) /\ truth'[j] = truth[j]
            /\ j \notin excused /\ (j \in changed' => j \in changed)
        BY <1>1, <2>1, <3>3, RequestChanges
      <4> QED BY <1>0, <3>1, <4>1 DEF Fits
    <3> QED BY <3>2, <3>3
  <2> QED BY <1>0, <2>1
<1>2. ASSUME NEW s \in Slots, Expire(s) PROVE LoadInv'
  <2>1. ASSUME NEW k \in Keys \ excused' PROVE Fits(k)'
    <3>1. Unread' = Unread /\ pc' = pc /\ excused' = excused
      BY <1>2 DEF Expire, Unread
    <3>2. Mine(k)' = Mine(k) /\ (Get(k) = truth[k] => Get(k)' = truth'[k])
      BY <1>2, ExpireKeeps
    <3>3. k \in Unread => Mine(k) = {} /\ k \notin changed
      BY <1>0, <3>1 DEF Fits
    <3>4. k \in Unread => k \notin changed'
      BY <1>2, <3>3, ExpireKeeps
    <3> QED BY <1>0, <3>1, <3>2, <3>3, <3>4 DEF Fits
  <2> QED BY <1>0, <2>1
<1>3. CASE UNCHANGED vars \/ Quit \/ AskStats \/ Release
  <2>1. UNCHANGED <<file, pc, entries, at, truth, changed, excused>>
    BY <1>3 DEF vars, Quit, AskStats, Release
  <2>2. \A k \in Keys : Fits(k)' = Fits(k)
    BY <2>1 DEF Fits, Unread, Mine, Get, First
  <2> QED BY <1>0, <2>1, <2>2
<1>4. CASE Initialise
  <2>1. /\ pc = "init" /\ pc' = "load" /\ UNCHANGED <<file, entries, at, truth, changed, excused>>
    BY <1>4 DEF Initialise, counts
  <2>2. at = 0 /\ changed \subseteq excused /\ \A s \in Slots : entries[s] = NULL
    BY <2>1 DEF RestInv
  <2>3. Unread' = {file[i].key : i \in DOMAIN file}
    <3>1. 0 + 1 .. Len(file) = DOMAIN file
      BY DEF TypeOK
    <3> QED BY <2>1, <2>2, <3>1 DEF Unread
  <2>4. ASSUME NEW k \in Keys \ excused' PROVE Fits(k)'
    <3>1. Mine(k)' = {}
      BY <2>1, <2>2 DEF Mine
    <3>2. Get(k)' = 0
      BY <3>1 DEF Get
    <3>3. k \notin changed' /\ truth'[k] = truth[k]
      BY <2>1, <2>2
    <3>4. Written(k) \/ (Recorded(k) = {} /\ truth[k] = 0)
      BY <2>1, <2>2 DEF FileInv
    <3>5. Written(k) => k \in Unread'
      BY <2>3 DEF Written, Recorded
    <3> QED BY <3>1, <3>2, <3>3, <3>4, <3>5 DEF Fits
  <2> QED BY <1>0, <2>4
<1>5. CASE LoadRequest
  <2> DEFINE r == file[at + 1]
  <2>1. /\ pc = "load" /\ at < Len(file) /\ ~r.torn /\ Room(r.key) # {} /\ at' = at + 1
        /\ Put([key |-> r.key, val |-> r.val, life |-> r.life])
        /\ UNCHANGED <<file, pc, truth, changed, excused>>
    BY <1>5 DEF LoadRequest, Loading
  <2>2. r.key \in Unread /\ Unread' \subseteq Unread /\ (\A k \in Unread : k # r.key => k \in Unread')
        /\ \A k \in Keys : Recorded(k) = {at + 1} => k \notin Unread'
    BY <2>1, NextIsUnread
  <2>3. r \in Records /\ r.val \in 1 .. Garbage /\ at + 1 \in DOMAIN file
    BY <2>1, NextRequest DEF Records
  <2> PICK q \in Keys, v \in 1 .. Garbage : q = r.key /\ v = r.val
    BY <2>1, <2>3, NextRequest
  <2>4. Get(q)' = v /\ \A j \in Keys \ {q} : Mine(j)' = Mine(j) /\ Get(j)' = Get(j)
    BY <2>1, PutNext
  <2>5. ASSUME NEW k \in Keys \ excused' PROVE Fits(k)'
    <3>1. CASE k = r.key
      <4>1. k \notin changed
        BY <1>0, <2>1, <2>2, <3>1 DEF Fits
      <4>2. at + 1 \in Recorded(k)
        BY <2>3, <3>1 DEF Recorded
      <4>3. Written(k)
        BY <2>1, <4>1, <4>2 DEF FileInv
      <4>4. Recorded(k) = {at + 1} /\ r.val = truth[k]
        BY <4>2, <4>3 DEF Written
      <4>5. Get(k)' = truth'[k]
        BY <2>1, <2>4, <3>1, <4>4
      <4> QED BY <2>2, <4>4, <4>5, <3>1 DEF Fits
    <3>2. CASE k # r.key
      BY <1>0, <2>1, <2>2, <2>4, <3>2 DEF Fits
    <3> QED BY <3>1, <3>2
  <2> QED BY <1>0, <2>5
<1>6. CASE LoadFails
  <2> DEFINE r == file[at + 1]
  <2>1. /\ pc = "load" /\ at < Len(file) /\ at' = at + 1
        /\ UNCHANGED <<file, pc, truth, changed>> /\ excused' = excused \cup Unread
        /\ \/ Room(r.key) # {} /\ Put([key |-> r.key, val |-> Garbage, life |-> r.life])
           \/ UNCHANGED entries
    BY <1>6 DEF LoadFails, Loading, counts, signals
  <2>2. r.key \in Unread /\ Unread' \subseteq Unread
    BY <2>1, NextIsUnread
  <2>3. Garbage \in 1 .. Garbage
    BY PersistenceAssumption DEF Garbage
  <2>4. \A j \in Keys \ {r.key} : Get(j)' = Get(j)
    <3>1. CASE UNCHANGED entries
      BY <3>1 DEF Get, First, Mine
    <3>2. CASE Room(r.key) # {} /\ Put([key |-> r.key, val |-> Garbage, life |-> r.life])
      <4>1. PICK q \in Keys : q = r.key
        BY <2>1, NextRequest
      <4>2. PICK v \in 1 .. Garbage : v = Garbage
        BY <2>3
      <4>3. Room(q) # {} /\ Put([key |-> q, val |-> v, life |-> file[at + 1].life])
        BY <3>2, <4>1, <4>2
      <4>4. \A j \in Keys \ {q} : Get(j)' = Get(j)
        BY <2>1, <4>1, <4>3, PutNext
      <4> QED BY <4>1, <4>4
    <3> QED BY <2>1, <3>1, <3>2
  <2>5. ASSUME NEW k \in Keys \ excused' PROVE Fits(k)'
    <3>1. k \notin excused /\ k \notin Unread /\ k \notin Unread' /\ k # r.key
      BY <2>1, <2>2
    <3> QED BY <1>0, <2>1, <2>4, <3>1 DEF Fits
  <2> QED BY <1>0, <2>5
<1>7. CASE Start \/ Crash \/ LoadEnds \/ BeginStats \/ EndStats
  BY <1>7 DEF Start, Crash, LoadEnds, BeginStats, EndStats
<1>8. CASE StopServer \/ JoinWorkers \/ Rewind \/ Skip \/ Write \/ Exit
  BY <1>8 DEF StopServer, JoinWorkers, Rewind, Skip, Write, Exit
<1>9. CASE ReadFails
  <2>1. pc = "load" /\ UNCHANGED <<file, pc, entries, at, truth, changed>> /\ excused' = excused \cup Unread
    BY <1>9 DEF ReadFails, Loading
  <2>2. \A k \in Keys : Fits(k)' = Fits(k)
    BY <2>1 DEF Fits, Unread, Mine, Get, First
  <2> QED BY <1>0, <2>1, <2>2
<1>10. ASSUME NEW S \in SUBSET Slots, NEW U \in SUBSET Unread, Clear(S, U) PROVE LoadInv'
  <2>1. Unread' = Unread /\ pc = "load"
    BY <1>10, ClearChanges
  <2>2. ASSUME NEW k \in Keys \ excused' PROVE Fits(k)'
    <3>1. Fits(k)
      BY <1>0, <1>10, <2>1, ClearChanges
    <3>2. CASE k \in Unread
      <4>1. k \notin changed /\ Mine(k) = {}
        BY <3>1, <3>2 DEF Fits
      <4>2. k \notin changed' /\ Mine(k)' = {}
        BY <1>10, <3>2, <4>1, ClearChanges
      <4> QED BY <2>1, <3>2, <4>2 DEF Fits
    <3>3. CASE k \notin Unread
      <4>1. Get(k) = truth[k]
        BY <3>1, <3>3 DEF Fits
      <4>2. Get(k)' = truth'[k]
        BY <1>10, <4>1, ClearChanges
      <4> QED BY <2>1, <3>3, <4>2 DEF Fits
    <3> QED BY <3>2, <3>3
  <2> QED BY <1>0, <2>2
<1> QED
  BY <1>1, <1>2, <1>3, <1>4, <1>5, <1>6, <1>7, <1>8, <1>9, <1>10 DEF Next, MainThread, Environment, Request

LEMMA ServeStep == TypeOK /\ LoadInv /\ ServeInv /\ [Next]_vars => ServeInv'
<1> SUFFICES ASSUME TypeOK, LoadInv, ServeInv, [Next]_vars,
                      pc' \in {"serve", "write_stats", "stop", "joined"}
               PROVE  ServeInv'
  BY DEF ServeInv
<1>1. ASSUME NEW k \in Keys, Request(k) PROVE ServeInv'
  <2>1. ASSUME NEW j \in Keys \ excused' PROVE Get(j)' = truth'[j]
    <3>1. CASE j = k
      BY <1>1, <3>1, RequestChanges
    <3>2. CASE j # k
      BY <1>1, <2>1, <3>2, RequestChanges DEF ServeInv
    <3> QED BY <3>1, <3>2
  <2> QED BY <2>1 DEF ServeInv
<1>2. ASSUME NEW s \in Slots, Expire(s) PROVE ServeInv'
  <2>1. pc' = pc /\ excused' = excused
    BY <1>2 DEF Expire
  <2> QED BY <1>2, <2>1, ExpireKeeps DEF ServeInv
<1>3. CASE UNCHANGED vars \/ Quit \/ AskStats \/ Release \/ BeginStats \/ EndStats \/ StopServer \/ JoinWorkers
  <2>1. UNCHANGED <<entries, truth, excused>> /\ pc \in {"serve", "write_stats", "stop", "joined"}
    BY <1>3 DEF vars, Quit, AskStats, Release, BeginStats, EndStats, StopServer, JoinWorkers
  <2>2. \A k \in Keys : Get(k)' = Get(k)
    BY <2>1 DEF Get, First, Mine
  <2> QED BY <2>1, <2>2 DEF ServeInv
<1>4. CASE LoadEnds
  <2>1. pc = "load" /\ at = Len(file) /\ UNCHANGED <<entries, truth, excused>>
    BY <1>4 DEF LoadEnds, Loading
  <2>2. Unread = {}
    <3>1. at + 1 .. Len(file) = {}
      BY <2>1 DEF TypeOK
    <3> QED BY <3>1 DEF Unread
  <2>3. \A k \in Keys : Get(k)' = Get(k)
    BY <2>1 DEF Get, First, Mine
  <2> QED BY <2>1, <2>2, <2>3 DEF LoadInv, ServeInv
<1>5. CASE Start \/ Crash \/ Initialise \/ LoadRequest \/ LoadFails \/ ReadFails
  BY <1>5 DEF Start, Crash, Initialise, LoadRequest, LoadFails, ReadFails, Loading
<1>6. CASE Rewind \/ Skip \/ Write \/ Exit
  BY <1>6 DEF Rewind, Skip, Write, Exit
<1>7. ASSUME NEW S \in SUBSET Slots, NEW U \in SUBSET Unread, Clear(S, U) PROVE ServeInv'
  <2>1. pc' = pc /\ \A k \in Keys \ excused' : k \notin excused
    BY <1>7, ClearChanges
  <2>2. \A k \in Keys \ excused' : Get(k) = truth[k]
    BY <2>1 DEF ServeInv
  <2> QED BY <1>7, <2>2, ClearChanges DEF ServeInv
<1> QED BY <1>1, <1>2, <1>3, <1>4, <1>5, <1>6, <1>7 DEF Next, MainThread, Environment, Request

LEMMA DumpStep == TypeOK /\ RestInv /\ ServeInv /\ DumpInv /\ [Next]_vars => DumpInv'
<1> SUFFICES ASSUME TypeOK, RestInv, ServeInv, DumpInv, [Next]_vars, pc' = "dump" PROVE DumpInv'
  BY DEF DumpInv
<1> DEFINE Moved(k) == Written(k) /\ Mine(k) = {}
           Waits(k) == /\ Recorded(k) = {} /\ Get(k) = truth[k]
                       /\ \A s \in Mine(k) : s < slot => entries[s].life = "expired"
<1> HIDE DEF Moved, Waits
<1>0. /\ \A k \in Keys \ excused : pc = "dump" => Moved(k) \/ Waits(k)
      /\ (\A k \in Keys \ excused' : Moved(k)' \/ Waits(k)') => DumpInv'
  BY DEF DumpInv, Moved, Waits
<1>1. ASSUME NEW k \in Keys, Request(k) PROVE DumpInv'
  BY <1>1, RequestChanges DEF Serving
<1>2. ASSUME NEW s \in Slots, Expire(s) PROVE DumpInv'
  <2>1. pc' = pc /\ file' = file /\ slot' = slot /\ excused' = excused
    BY <1>2 DEF Expire
  <2>2. ASSUME NEW k \in Keys \ excused' PROVE Moved(k)' \/ Waits(k)'
    <3>1. Mine(k)' = Mine(k) /\ Recorded(k)' = Recorded(k)
      BY <1>2, <2>1, ExpireKeeps DEF Recorded
    <3>2. CASE Moved(k)
      <4>1. Mine(k) = {}
        BY <3>2 DEF Moved
      <4>2. truth'[k] = truth[k]
        BY <1>2, <4>1, ExpireKeeps
      <4>3. Written(k)'
        BY <2>1, <3>2, <4>2, StillWritten DEF Moved
      <4> QED BY <3>1, <4>1, <4>3 DEF Moved
    <3>3. CASE Waits(k)
      <4>1. Get(k)' = truth'[k]
        BY <1>2, <3>3, ExpireKeeps DEF Waits
      <4>2. \A r \in Mine(k) : r < slot => entries'[r].life = "expired"
        BY <1>2, <3>3, ExpireKeeps DEF Waits, Mine
      <4> QED BY <2>1, <3>1, <3>3, <4>1, <4>2 DEF Waits
    <3> QED BY <1>0, <2>1, <3>2, <3>3
  <2> QED BY <1>0, <2>2
<1>3. CASE UNCHANGED vars \/ Quit \/ AskStats \/ Release
  <2>1. UNCHANGED <<file, pc, entries, slot, truth, excused>>
    BY <1>3 DEF vars, Quit, AskStats, Release
  <2>2. \A k \in Keys : Moved(k)' = Moved(k) /\ Waits(k)' = Waits(k)
    BY <2>1 DEF Moved, Waits, Written, Recorded, Mine, Get, First
  <2> QED BY <1>0, <2>1, <2>2
<1>4. CASE Rewind
  <2>1. pc = "joined" /\ file' = <<>> /\ UNCHANGED <<entries, slot, truth, excused>> /\ slot = 0
    BY <1>4 DEF Rewind, RestInv
  <2>2. ASSUME NEW k \in Keys \ excused' PROVE Waits(k)'
    <3>1. Get(k)' = Get(k) /\ Get(k) = truth[k]
      BY <2>1, <2>2 DEF Get, First, Mine, ServeInv
    <3>2. Recorded(k)' = {}
      BY <2>1 DEF Recorded
    <3>3. \A s \in Mine(k)' : ~(s < slot')
      BY <2>1, SlotsAreNumbers DEF Mine
    <3> QED BY <2>1, <3>1, <3>2, <3>3 DEF Waits
  <2> QED BY <1>0, <2>2
<1>5. CASE Skip
  <2>1. /\ pc = "dump" /\ slot \in Slots /\ slot' = slot + 1 /\ UNCHANGED <<file, entries, truth, excused>>
        /\ entries[slot] # NULL => entries[slot].life = "expired"
    BY <1>5 DEF Skip
  <2>2. ASSUME NEW k \in Keys \ excused' PROVE Moved(k)' \/ Waits(k)'
    <3>1. Mine(k)' = Mine(k) /\ Recorded(k)' = Recorded(k) /\ Get(k)' = Get(k) /\ Written(k)' = Written(k)
      BY <2>1 DEF Mine, Recorded, Get, First, Written
    <3>2. CASE Moved(k)
      BY <3>1, <3>2 DEF Moved
    <3>3. CASE Waits(k)
      <4>1. \A s \in Mine(k) : s < slot' => entries'[s].life = "expired"
        <5>1. \A s \in Mine(k) : s < slot + 1 => s < slot \/ s = slot
          BY <2>1, SlotsAreNumbers DEF Mine
        <5> QED BY <2>1, <3>3, <5>1 DEF Waits, Mine
      <4> QED BY <2>1, <3>1, <3>3, <4>1 DEF Waits
    <3> QED BY <1>0, <2>1, <3>2, <3>3
  <2> QED BY <1>0, <2>2
<1>6. CASE Write
  <2> DEFINE e == entries[slot]
  <2>1. /\ pc = "dump" /\ slot \in Slots /\ slot' = slot + 1 /\ e # NULL /\ e.life # "expired"
        /\ entries' = [entries EXCEPT ![slot] = NULL] /\ truth' = truth
    BY <1>6 DEF Write
  <2>2. PICK short \in {FALSE, MayFail} :
          /\ file' = Append(file, [key |-> e.key, val |-> e.val, life |-> e.life, torn |-> short])
          /\ excused' = IF short \/ Mine(e.key) # {slot} THEN excused \cup {e.key} ELSE excused
    BY <1>6 DEF Write
  <2>3. e \in Entries /\ e.key \in Keys /\ slot \in Mine(e.key)
    BY <2>1, EntriesHaveKeys
  <2> DEFINE r == [key |-> e.key, val |-> e.val, life |-> e.life, torn |-> short]
  <2>4. /\ DOMAIN file' = DOMAIN file \cup {Len(file) + 1} /\ Len(file) + 1 \notin DOMAIN file
        /\ file'[Len(file) + 1] = r /\ \A i \in DOMAIN file : file'[i] = file[i]
    <3>1. file' = Append(file, r) /\ file \in Seq(Records)
      BY <2>2 DEF TypeOK
    <3> HIDE DEF r
    <3> QED BY <3>1
  <2>5. \A s \in Slots \ {slot} : entries'[s] = entries[s]
    BY <2>1 DEF TypeOK
  <2>6. entries'[slot] = NULL
    BY <2>1 DEF TypeOK
  <2>7. ASSUME NEW k \in Keys \ excused' PROVE Moved(k)' \/ Waits(k)'
    <3>1. CASE k = e.key
      <4>1. ~short /\ Mine(k) = {slot} /\ k \notin excused
        BY <2>2, <2>7, <3>1
      <4>2. Waits(k)
        BY <1>0, <2>1, <4>1 DEF Moved
      <4>3. e.val = truth[k]
        <5>1. First(k, Mine(k)) = slot
          BY <4>1, MineIsFound
        <5> QED BY <2>1, <4>1, <4>2, <5>1 DEF Waits, Get
      <4>4. Recorded(k)' = {Len(file) + 1}
        BY <2>4, <3>1, <4>2 DEF Recorded, Waits
      <4>5. Written(k)'
        BY <2>1, <2>4, <4>1, <4>3, <4>4 DEF Written
      <4>6. Mine(k)' = {}
        BY <2>5, <2>6, <4>1 DEF Mine
      <4> QED BY <4>5, <4>6 DEF Moved
    <3>2. CASE k # e.key
      <4>1. k \notin excused
        BY <2>2, <2>7
      <4>2. Recorded(k)' = Recorded(k)
        BY <2>4, <3>2 DEF Recorded
      <4>3. slot \notin Mine(k) /\ Mine(k) \in SUBSET Slots
        BY <3>2 DEF Mine
      <4>4. Mine(k)' = Mine(k) /\ \A s \in Mine(k) : entries'[s] = entries[s]
        BY <2>5, <2>6, <4>3 DEF Mine
      <4>5. Get(k)' = Get(k)
        BY <4>4, Untouched
      <4>6. CASE Moved(k)
        <5>1. Written(k)'
          BY <2>1, <2>4, <4>2, <4>6 DEF Moved, Written, Recorded
        <5> QED BY <4>4, <4>6, <5>1 DEF Moved
      <4>7. CASE Waits(k)
        <5>1. \A s \in Mine(k) : s < slot' => entries'[s].life = "expired"
          <6>1. \A s \in Mine(k) : s < slot + 1 => s < slot
            BY <2>1, <4>3, SlotsAreNumbers
          <6> QED BY <2>1, <4>4, <4>7, <6>1 DEF Waits
        <5> QED BY <2>1, <4>2, <4>4, <4>5, <4>7, <5>1 DEF Waits
      <4> QED BY <1>0, <2>1, <4>1, <4>6, <4>7
    <3> QED BY <3>1, <3>2
  <2> QED BY <1>0, <2>7
<1>7. CASE Start \/ Crash \/ Initialise \/ LoadRequest \/ LoadFails \/ ReadFails \/ LoadEnds
  BY <1>7 DEF Start, Crash, Initialise, LoadRequest, LoadFails, ReadFails, LoadEnds, Loading
<1>8. CASE BeginStats \/ EndStats \/ StopServer \/ JoinWorkers \/ Exit
  BY <1>8 DEF BeginStats, EndStats, StopServer, JoinWorkers, Exit
<1>9. ASSUME NEW S \in SUBSET Slots, NEW U \in SUBSET Unread, Clear(S, U) PROVE DumpInv'
  BY <1>9, ClearChanges DEF Serving
<1> QED
  BY <1>1, <1>2, <1>3, <1>4, <1>5, <1>6, <1>7, <1>8, <1>9 DEF Next, MainThread, Environment, Request

(***************************************************************************)
(* Theorems.                                                               *)
(***************************************************************************)

LEMMA InitIInv == Init => IInv
<1> SUFFICES ASSUME Init PROVE IInv
  OBVIOUS
<1> USE DEF Init
<1>1. TypeOK
  <2>1. 0 \in 0 .. Garbage
    BY PersistenceAssumption DEF Garbage
  <2>2. truth \in [Keys -> 0 .. Garbage]
    BY <2>1
  <2>3. entries \in [Slots -> Entries \cup {NULL}] /\ file \in Seq(Records) /\ at \in 0 .. Len(file)
    OBVIOUS
  <2>4. /\ slot \in 0 .. NumSlots /\ sets \in 0 .. MaxSets /\ starts \in 0 .. MaxStarts
        /\ crashes \in 0 .. MaxCrashes
    BY PersistenceAssumption
  <2> QED BY <2>2, <2>3, <2>4 DEF TypeOK
<1>2. RestInv /\ LoadInv /\ ServeInv /\ DumpInv
  BY DEF RestInv, LoadInv, ServeInv, DumpInv
<1>3. FileInv
  BY DEF FileInv, Recorded
<1> QED BY <1>1, <1>2, <1>3 DEF IInv

(* The map holds what the clients know while the server runs, the file     *)
(* while it does not, and in between (main.c:154, 184-194) each key is in  *)
(* the one or the other.                                                   *)
THEOREM Invariance == Spec => []IInv
<1>1. IInv /\ [Next]_vars => IInv'
  BY TypeStep, RestStep, FileStep, LoadStep, ServeStep, DumpStep DEF IInv
<1> QED BY InitIInv, <1>1, PTL DEF Spec

(* The variables are of their types; the replay never reads beyond the end *)
(* of the file, nor the dump beyond the end of the map.                    *)
THEOREM TypeCorrect == Spec => []TypeOK
<1>1. IInv => TypeOK
  BY DEF IInv
<1> QED BY Invariance, <1>1, PTL

LEMMA FileIsTrue ==
  ASSUME TypeOK, NEW k \in Keys, Written(k) \/ (Recorded(k) = {} /\ truth[k] = 0)
  PROVE  Replayed(k) = truth[k]
<1> DEFINE own == {i \in DOMAIN file : file[i].key = k /\ ~file[i].torn}
<1>1. CASE Recorded(k) = {} /\ truth[k] = 0
  <2>1. own = {}
    BY <1>1 DEF Recorded
  <2> QED BY <1>1, <2>1 DEF Replayed
<1>2. CASE Written(k)
  <2>1. PICK i \in DOMAIN file : Recorded(k) = {i} /\ file[i].val = truth[k] /\ ~file[i].torn
    BY <1>2 DEF Written
  <2>2. own = {i}
    BY <2>1 DEF Recorded
  <2>3. Max({i}) = i
    <3>1. i >= i
      BY DEF TypeOK
    <3> QED BY <3>1 DEF Max
  <2> QED BY <2>1, <2>2, <2>3 DEF Replayed
<1> QED BY <1>1, <1>2

(* Across exits, starts and crashes a key keeps its value but for the      *)
(* reasons that excuse it (main.c:154, 184, 187, 282, server.c:193-195,    *)
(* controller.c:374-408).                                                  *)
THEOREM ValuesSurvive == Spec => []KeepsValues
<1>1. IInv => KeepsValues
  <2> SUFFICES ASSUME IInv PROVE KeepsValues
    OBVIOUS
  <2> USE DEF IInv
  <2>1. ASSUME pc = "down", changed = {}, NEW k \in Keys \ excused PROVE Replayed(k) = truth[k]
    BY <2>1, FileIsTrue DEF FileInv
  <2>2. ASSUME pc = "load", NEW k \in Keys \ excused PROVE Get(k) = truth[k] \/ (k \in Unread /\ k \notin changed)
    BY <2>2 DEF LoadInv
  <2> QED BY <2>1, <2>2 DEF KeepsValues, ServeInv
<1> QED BY Invariance, <1>1, PTL
=============================================================================
