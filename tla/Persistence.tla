---------------------------- MODULE Persistence ----------------------------
(***************************************************************************)
(* The life of the process in src/src/main.c: signals, the file of SET     *)
(* requests that is written at exit and replayed at the start (beside the  *)
(* workers, which serve already), and crashes between any two steps.       *)
(*                                                                         *)
(* A request of a client is one step here (Controller has its parts), and  *)
(* so is an operation of the map, of which there is one.  Values are       *)
(* numbered as they are set.  The clock is a step that makes an entry      *)
(* expire.                                                                 *)
(***************************************************************************)
EXTENDS Integers, Sequences, FiniteSetsExt

CONSTANTS
  Keys,
  NumSlots,     \* CACHE_ENTRY_MAP_SIZE
  Home,         \* Home[k]: the slot where the probing for k begins
  NULL,         \* no entry
  Lives,       \* how entries are set: never to expire, or with a TTL
  MaxSets,     \* bound on the SETs of the clients
  MaxCrashes,  \* bound on the crashes
  MaxStarts,   \* bound on the starts of the process
  MayFail      \* whether a write may be short, and memory run out in the replay

ASSUME PersistenceAssumption ==
  /\ NumSlots \in Nat \ {0} /\ Home \in [Keys -> 0 .. NumSlots - 1]
  /\ Lives \subseteq {"never", "ttl"}
  /\ MaxSets \in Nat /\ MaxCrashes \in Nat /\ MaxStarts \in Nat /\ MayFail \in BOOLEAN

VARIABLES
  file,      \* the requests in the file
  pc,        \* where the main thread is
  entries,   \* the slots of the map
  at,        \* how many requests load_request_log has read
  slot,      \* the slot walk_entries is at when the map is written
  derailed,  \* load_request_log has lost its place in the file
  unreadable,  \* read fails: load_request_log goes round for ever
  held,      \* a client that does not finish its request holds a worker up
  quit,
  do_write_stats,
  sets, starts, crashes,  \* counted for the bounds
  truth,     \* history: what the last answer to a client has made of k (0: nothing)
  changed,   \* history: the keys that have changed since the file was written
  excused,   \* history: the keys that need not be what they were, see KeepsValues
  asked,     \* history: a signal to exit has come after atomic_init
  due        \* history: SIGUSR1 has come after the stats were last begun

counts == <<sets, starts, crashes>>
signals == <<quit, do_write_stats, asked, due>>
faults == <<derailed, unreadable, held>>
vars == <<file, pc, entries, at, slot, derailed, unreadable, held, quit, do_write_stats,
          sets, starts, crashes, truth, changed, excused, asked, due>>

Slots == 0 .. NumSlots - 1
Garbage == MaxSets + 1   \* a value made of other bytes of the file
Entries == [key : Keys, val : 1 .. Garbage, life : {"never", "ttl", "expired"}]
Records == [key : Keys, val : 1 .. Garbage, life : {"never", "ttl"}, torn : BOOLEAN]

ASSUME EntryAssumption == NULL \notin Entries

TypeOK ==
  /\ file \in Seq(Records)
  /\ pc \in {"down", "init", "load", "serve", "write_stats", "stop", "joined", "dump"}
  /\ entries \in [Slots -> Entries \cup {NULL}]
  /\ at \in 0 .. Len(file) /\ slot \in 0 .. NumSlots
  /\ {derailed, unreadable, held, quit, do_write_stats, asked, due} \subseteq BOOLEAN
  /\ sets \in 0 .. MaxSets /\ starts \in 0 .. MaxStarts /\ crashes \in 0 .. MaxCrashes
  /\ truth \in [Keys -> 0 .. Garbage]
  /\ changed \subseteq Keys /\ excused \subseteq Keys

(* Until stop_server has joined them, the workers handle requests.         *)
Serving == pc \in {"load", "serve", "write_stats", "stop"}

(* The keys of the requests that the replay has not come to. *)
Unread == IF pc = "load" THEN {file[i].key : i \in at + 1 .. Len(file)} ELSE {}

Mine(k) == {s \in Slots : entries[s] # NULL /\ entries[s].key = k}

(* The slot of S that the probing for k comes to first. *)
First(k, S) == CHOOSE s \in S : \A r \in S : (s - Home[k]) % NumSlots <= (r - Home[k]) % NumSlots

(* What GET answers. *)
Get(k) ==
  IF Mine(k) = {} THEN 0
  ELSE LET e == entries[First(k, Mine(k))] IN IF e.life = "expired" THEN 0 ELSE e.val

(* set_locked_cache_entry: the first slot that is empty or holds the key. *)
Room(k) == Mine(k) \cup {s \in Slots : entries[s] = NULL}
Put(e) == entries' = [entries EXCEPT ![First(e.key, Room(e.key))] = e]

(***************************************************************************)
(* The clients and the clock.                                              *)
(***************************************************************************)

Changes(k, v) ==
  /\ truth' = [truth EXCEPT ![k] = v]
  /\ changed' = changed \cup {k}
  /\ excused' = IF k \in Unread THEN excused \cup {k} ELSE excused \ {k}

Set(k, life) ==
  /\ Serving
  /\ sets < MaxSets
  /\ Room(k) # {}
  /\ sets' = sets + 1
  /\ Put([key |-> k, val |-> sets + 1, life |-> life])
  /\ Changes(k, sets + 1)
  /\ UNCHANGED <<file, pc, at, slot, faults, signals, starts, crashes>>

(* SET_FLAG_ONLY_TTL: nothing but the expiry changes, and an entry that    *)
(* has expired comes back.                                                 *)
Renew(k, life) ==
  /\ Serving
  /\ Mine(k) # {}
  /\ LET s == First(k, Mine(k))
     IN /\ entries' = [entries EXCEPT ![s].life = life]
        /\ Changes(k, entries[s].val)
  /\ UNCHANGED <<file, pc, at, slot, faults, signals, counts>>

(* delete_entry_by_key, for DEL and CLR MATCH_ALL and MATCH_ANY: all       *)
(* entries of the key go.                                                  *)
Del(k) ==
  /\ Serving
  /\ Mine(k) # {}
  /\ entries' = [s \in Slots |-> IF s \in Mine(k) THEN NULL ELSE entries[s]]
  /\ Changes(k, 0)
  /\ UNCHANGED <<file, pc, at, slot, faults, signals, counts>>

(* CLR in the modes ALL, OLD and MATCH_NONE takes each entry for itself:   *)
(* those in S go, for their tags or their age.  What a key has farther     *)
(* away may stay and come back, like the keys U that the replay has not    *)
(* come to.                                                                *)
Clear(S, U) ==
  /\ Serving
  /\ S \subseteq {s \in Slots : entries[s] # NULL} /\ U \subseteq Unread
  /\ entries' = [s \in Slots |-> IF s \in S THEN NULL ELSE entries[s]]
  /\ LET gone == {k \in Keys : Mine(k) # {} /\ First(k, Mine(k)) \in S} \cup U
         back == {k \in gone : k \in Unread \/ ~(Mine(k) \subseteq S)}
     IN /\ truth' = [k \in Keys |-> IF k \in gone THEN 0 ELSE truth[k]]
        /\ changed' = changed \cup gone
        /\ excused' = excused \cup back
  /\ UNCHANGED <<file, pc, at, slot, faults, signals, counts>>

Expire(s) ==
  /\ entries[s] # NULL /\ entries[s].life = "ttl"
  /\ entries' = [entries EXCEPT ![s].life = "expired"]
  /\ LET k == entries[s].key
     IN IF s = First(k, Mine(k)) /\ truth[k] = entries[s].val
        THEN truth' = [truth EXCEPT ![k] = 0] /\ changed' = changed \cup {k}
        ELSE UNCHANGED <<truth, changed>>
  /\ UNCHANGED <<file, pc, at, slot, faults, signals, counts, excused>>

(***************************************************************************)
(* Signals and crashes.                                                    *)
(***************************************************************************)

(* sigint_handler, sigterm_handler.  The handlers are installed before     *)
(* quit is initialised.  A second signal of the same kind is a Crash.      *)
Quit ==
  /\ pc # "down" /\ ~quit
  /\ quit' = TRUE
  /\ asked' = (pc # "init")
  /\ UNCHANGED <<file, pc, entries, at, slot, faults, do_write_stats, due, counts, truth, changed, excused>>

(* sigusr1_handler, installed before do_write_stats is initialised.        *)
AskStats ==
  /\ pc # "down"
  /\ do_write_stats' = TRUE
  /\ due' = (due \/ pc # "init")
  /\ UNCHANGED <<file, pc, entries, at, slot, faults, quit, asked, counts, truth, changed, excused>>

(* The process is gone, and the request that was being written is cut.     *)
Crash ==
  /\ pc # "down"
  /\ crashes < MaxCrashes
  /\ crashes' = crashes + 1
  /\ pc' = "down"
  /\ entries' = [s \in Slots |-> NULL]
  /\ at' = 0 /\ slot' = 0
  /\ derailed' = FALSE /\ unreadable' = FALSE /\ held' = FALSE
  /\ quit' = FALSE /\ do_write_stats' = FALSE /\ asked' = FALSE /\ due' = FALSE
  /\ IF pc = "dump" /\ file # <<>>
     THEN \E cut \in BOOLEAN : file' = [file EXCEPT ![Len(file)].torn = @ \/ cut]
     ELSE UNCHANGED file
  /\ excused' = IF pc = "dump" THEN Keys ELSE excused \cup changed
  /\ UNCHANGED <<sets, starts, truth, changed>>

(***************************************************************************)
(* The main thread.                                                        *)
(***************************************************************************)

Start ==
  /\ pc = "down"
  /\ starts < MaxStarts
  /\ starts' = starts + 1
  /\ pc' = "init"
  /\ UNCHANGED <<file, entries, at, slot, faults, signals, sets, crashes, truth, changed, excused>>

(* atomic_init, start_server *)
Initialise ==
  /\ pc = "init"
  /\ quit' = FALSE /\ do_write_stats' = FALSE
  /\ pc' = "load"
  /\ UNCHANGED <<file, entries, at, slot, faults, asked, due, counts, truth, changed, excused>>

Loading == pc = "load" /\ ~unreadable

(* load_request_log: the next request is handled. *)
LoadRequest ==
  /\ Loading /\ at < Len(file)
  /\ ~file[at + 1].torn
  /\ Room(file[at + 1].key) # {}
  /\ Put([key |-> file[at + 1].key, val |-> file[at + 1].val, life |-> file[at + 1].life])
  /\ at' = at + 1
  /\ UNCHANGED <<file, pc, slot, faults, signals, counts, truth, changed, excused>>

(* A request whose end is missing takes what follows for its value, or     *)
(* fails at the end of the file; one whose value finds no memory leaves it *)
(* unread.  Then 16 bytes at a time are refused, until a request happens   *)
(* to begin where they do.                                                 *)
LoadFails ==
  /\ Loading /\ at < Len(file)
  /\ LET r == file[at + 1]
     IN \/ r.torn /\ at + 1 < Len(file) /\ Room(r.key) # {}
           /\ Put([key |-> r.key, val |-> Garbage, life |-> r.life])
        \/ (r.torn \/ MayFail \/ derailed \/ Room(r.key) = {}) /\ UNCHANGED entries
  /\ derailed' = TRUE
  /\ excused' = excused \cup Unread
  /\ at' = at + 1
  /\ UNCHANGED <<file, pc, slot, unreadable, held, signals, counts, truth, changed>>

(* read returns -1 and goes on to: the loop waits for 0, and nothing in it *)
(* looks at quit.                                                          *)
ReadFails ==
  /\ MayFail
  /\ Loading
  /\ unreadable' = TRUE
  /\ excused' = excused \cup Unread
  /\ UNCHANGED <<file, pc, entries, at, slot, derailed, held, signals, counts, truth, changed>>

(* Defect: quit is initialised when the file has been read. *)
LoadEndsReset ==
  /\ Loading /\ at = Len(file)
  /\ pc' = "serve"
  /\ derailed' = FALSE
  /\ quit' = FALSE
  /\ UNCHANGED <<file, entries, at, slot, unreadable, held, do_write_stats, asked, due, counts, truth, changed, excused>>

LoadEnds ==
  /\ Loading /\ at = Len(file)
  /\ pc' = "serve"
  /\ derailed' = FALSE
  /\ UNCHANGED <<file, entries, at, slot, unreadable, held, signals, counts, truth, changed, excused>>

BeginStats ==
  /\ pc = "serve" /\ ~quit /\ do_write_stats
  /\ do_write_stats' = FALSE
  /\ due' = FALSE
  /\ pc' = "write_stats"
  /\ UNCHANGED <<file, entries, at, slot, faults, quit, asked, counts, truth, changed, excused>>

(* Defect: the flag is cleared when the stats have been written. *)
EndStatsClear ==
  /\ pc = "write_stats"
  /\ pc' = "serve"
  /\ do_write_stats' = FALSE
  /\ UNCHANGED <<file, entries, at, slot, faults, quit, asked, due, counts, truth, changed, excused>>

EndStats ==
  /\ pc = "write_stats"
  /\ pc' = "serve"
  /\ UNCHANGED <<file, entries, at, slot, faults, signals, counts, truth, changed, excused>>

(* stop_server: is_running is false.  A worker may be inside a request.    *)
StopServer ==
  /\ pc = "serve" /\ quit
  /\ pc' = "stop"
  /\ held' \in BOOLEAN
  /\ UNCHANGED <<file, entries, at, slot, derailed, unreadable, signals, counts, truth, changed, excused>>

(* The rest of the request arrives, or the client goes. *)
Release ==
  /\ held
  /\ held' = FALSE
  /\ UNCHANGED <<file, pc, entries, at, slot, derailed, unreadable, signals, counts, truth, changed, excused>>

(* The joins of stop_server and of the logging thread. *)
JoinWorkers ==
  /\ pc = "stop" /\ ~held
  /\ pc' = "joined"
  /\ UNCHANGED <<file, entries, at, slot, faults, signals, counts, truth, changed, excused>>

(* Defect: the file is written from its beginning, but not truncated. *)
DontTruncate ==
  /\ pc = "joined"
  /\ at' = 0
  /\ pc' = "dump"
  /\ UNCHANGED <<file, entries, slot, faults, signals, counts, truth, changed, excused>>

(* Defect: the file is truncated, but written where the replay has ended. *)
DontRewind ==
  /\ pc = "joined"
  /\ file' = <<>>
  /\ pc' = "dump"
  /\ UNCHANGED <<entries, at, slot, faults, signals, counts, truth, changed, excused>>

(* ftruncate, lseek *)
Rewind ==
  /\ pc = "joined"
  /\ file' = <<>>
  /\ at' = 0
  /\ pc' = "dump"
  /\ UNCHANGED <<entries, slot, faults, signals, counts, truth, changed, excused>>

Skip ==
  /\ pc = "dump" /\ slot \in Slots
  /\ slot' = slot + 1
  /\ entries[slot] # NULL => entries[slot].life = "expired"
  /\ UNCHANGED <<file, pc, entries, at, faults, signals, counts, truth, changed, excused>>

(* write_entry_as_set_request_callback; the result of write is ignored. *)
Write ==
  /\ pc = "dump" /\ slot \in Slots
  /\ slot' = slot + 1
  /\ entries[slot] # NULL
  /\ LET e == entries[slot]
     IN /\ e.life # "expired"
        /\ \E short \in {FALSE, MayFail} :
             /\ file' = Append(file, [key |-> e.key, val |-> e.val, life |-> e.life, torn |-> short])
             /\ excused' = IF short \/ Mine(e.key) # {slot} THEN excused \cup {e.key} ELSE excused
  /\ entries' = [entries EXCEPT ![slot] = NULL]
  /\ UNCHANGED <<pc, at, faults, signals, counts, truth, changed>>

Exit ==
  /\ pc = "dump" /\ slot = NumSlots
  /\ pc' = "down"
  /\ slot' = 0
  /\ entries' = [s \in Slots |-> NULL]
  /\ quit' = FALSE /\ do_write_stats' = FALSE /\ asked' = FALSE /\ due' = FALSE
  /\ changed' = {}
  /\ UNCHANGED <<file, at, faults, counts, truth, excused>>

(***************************************************************************)
(* The specification.                                                      *)
(***************************************************************************)

Init ==
  /\ file = <<>>
  /\ pc = "down"
  /\ entries = [s \in Slots |-> NULL]
  /\ at = 0 /\ slot = 0 /\ derailed = FALSE /\ unreadable = FALSE /\ held = FALSE
  /\ quit = FALSE /\ do_write_stats = FALSE
  /\ sets = 0 /\ starts = 0 /\ crashes = 0
  /\ truth = [k \in Keys |-> 0]
  /\ changed = {} /\ excused = {}
  /\ asked = FALSE /\ due = FALSE

MainThread ==
  \/ Initialise \/ LoadRequest \/ LoadFails \/ LoadEnds
  \/ BeginStats \/ EndStats \/ StopServer \/ JoinWorkers
  \/ Rewind \/ Skip \/ Write \/ Exit

Environment ==
  \/ \E k \in Keys, life \in Lives : Set(k, life) \/ Renew(k, life)
  \/ \E k \in Keys : Del(k)
  \/ \E S \in SUBSET Slots, U \in SUBSET Unread : Clear(S, U)
  \/ \E s \in Slots : Expire(s)
  \/ Quit \/ AskStats \/ Release \/ ReadFails \/ Crash \/ Start

Next == MainThread \/ Environment

Spec == Init /\ [][Next]_vars /\ WF_vars(MainThread)

(***************************************************************************)
(* Properties.                                                             *)
(***************************************************************************)

(* What replaying the file makes of key k. *)
Replayed(k) ==
  LET own == {i \in DOMAIN file : file[i].key = k /\ ~file[i].torn}
  IN IF own = {} THEN 0 ELSE file[Max(own)].val

(* Across exits, starts and crashes a key keeps what the last SET, DEL or  *)
(* CLR has made of it, unless the key was changed before its request in    *)
(* the file was replayed (main.c:154); lost the first of several entries,  *)
(* and no other, to a CLR (controller.c:374-408), after which an older     *)
(* value is back; had several entries (main.c:187) or a short write (282)  *)
(* when it was dumped; had changed since the last exit, or was being       *)
(* dumped, at a crash (184); or came behind a request or a read that       *)
(* failed in the replay (server.c:193-195).  The file that a whole run     *)
(* leaves behind gives the others their values: nothing that was deleted   *)
(* or has expired is in it (main.c:185, 277).                              *)
KeepsValues ==
  /\ pc = "down" /\ changed = {} => \A k \in Keys \ excused : Replayed(k) = truth[k]
  /\ pc \in {"serve", "write_stats", "stop", "joined"} => \A k \in Keys \ excused : Get(k) = truth[k]
  /\ pc = "load" => \A k \in Keys \ excused :
       Get(k) = truth[k] \/ (k \in Unread /\ k \notin changed)

(* A signal to exit that comes when quit is initialised is heeded          *)
(* (main.c:95 loses those that come between signal and atomic_init),       *)
(* unless the file cannot be read, which load_request_log does not notice  *)
(* (server.c:193), or a client holds up a worker that stop_server waits    *)
(* for (server.c:330-334).                                                 *)
SignalsAreHeeded ==
  asked ~> pc = "down" \/ [](pc = "load" /\ unreadable) \/ [](pc = "stop" /\ held)

(* Stats asked for are written from a state that the request has seen,     *)
(* unless the process exits or cannot read its file: a SIGUSR1 during      *)
(* write_stats is not lost (main.c:162-165); one that comes before         *)
(* do_write_stats is initialised (main.c:96) is.                           *)
StatsAreWritten == due ~> ~due \/ quit \/ [](pc = "load" /\ unreadable)

(* "The complete dataset is stored entirely in memory and flushed to disk  *)
(* on program exit" (docs/cik.1:34): after an exit without a crash or a    *)
(* failure the file gives every key its value.                             *)
FlushedOnExit ==
  pc = "down" /\ starts > 0 /\ crashes = 0 => \A k \in Keys : Replayed(k) = truth[k]

(***************************************************************************)
(* The inductive invariant behind KeepsValues.                             *)
(***************************************************************************)

Recorded(k) == {i \in DOMAIN file : file[i].key = k}

(* The file has one whole request for k, with the value the clients know.  *)
Written(k) == \E i \in DOMAIN file : Recorded(k) = {i} /\ file[i].val = truth[k] /\ ~file[i].torn

(* Nothing is in the map or under way before the replay, and the file is   *)
(* written from its beginning.                                             *)
RestInv ==
  /\ pc \in {"down", "init"} => at = 0 /\ changed \subseteq excused /\ \A s \in Slots : entries[s] = NULL
  /\ pc = "dump" => at = 0
  /\ pc # "dump" => slot = 0

(* The file is true of a key that has not changed since it was written.    *)
FileInv ==
  pc # "dump" => \A k \in Keys \ (excused \cup changed) : Written(k) \/ (Recorded(k) = {} /\ truth[k] = 0)

(* A key that the replay has yet to come to has not changed and is not in  *)
(* the map; the map is true of the others.                                 *)
LoadInv ==
  pc = "load" => \A k \in Keys \ excused :
    IF k \in Unread THEN k \notin changed /\ Mine(k) = {} ELSE Get(k) = truth[k]

ServeInv == pc \in {"serve", "write_stats", "stop", "joined"} => \A k \in Keys \ excused : Get(k) = truth[k]

(* While the file is written, a key has been moved from the map to the     *)
(* file, or all that the loop has passed of it has expired.                *)
DumpInv ==
  pc = "dump" => \A k \in Keys \ excused :
    \/ Written(k) /\ Mine(k) = {}
    \/ /\ Recorded(k) = {} /\ Get(k) = truth[k]
       /\ \A s \in Mine(k) : s < slot => entries[s].life = "expired"

IInv == TypeOK /\ RestInv /\ FileInv /\ LoadInv /\ ServeInv /\ DumpInv
=============================================================================
