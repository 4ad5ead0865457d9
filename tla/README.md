# A verification project for cik

cik is a key-value cache server with tags, written in C11: one process, one
accept thread, sixteen workers, a logging thread and the main thread, which
share one arena of memory, a few thousand hash maps and one tree of tags. Nothing is
protected by a mutex. Everything is done with atomic flags, compare-and-swap
and plain atomics, and there are no tests. This directory holds TLA+ models of
the program (paths below are relative to `src/src/`), the configurations under
which TLC checks them and theorems that TLAPS proves about them.

Run, in this directory, `tlc -workers 2 -config MCMemory.cfg MCMemory` and the
like for the other configurations, and `tlapm MemoryProofs.tla` and the like
for the proofs.

## The system

| Component | State | Operations | Talks to |
|---|---|---|---|
| allocator, `memory.c` | bump cursor, a table of partitions (bucket sizes), per partition a lock-free stack of free buckets and three counters | `reserve_memory`, `release_memory`, `push_memory`, `init_memory`, statistics | called by entries, tags and payload buffers, from every thread |
| entry map, `entry.c` | 797 slots: guard, mask, hash, entry pointer; in each entry a guard | get, unset, set, walk | called by the controller; hands locked entries out |
| tag index, `tag.c` | a binary tree of tags that only grows; in each node a list of keys under a flag | add and remove a key, copy, union and intersection of lists, walk | called by the controller, allocates |
| controller, `controller.c` | none of its own (thread-specific current client) | GET, SET, DEL, CLR, LST, NFO | entry map, tag index, allocator, log queue, and the connection it reads from |
| server, `server.c` | table of 256 clients, 16 workers with an epoll instance and a payload buffer each, `is_running` | accept, worker loop, close, start, stop, read and write | controller, allocator, log queues |
| wire protocol, `types.h` | bytes of a request on a connection that are not read yet | header, key, tags, value; response header and payload | controller and server |
| log queue, `log.c` | per worker a ring of 256 entries, `read`, `write` | enqueue (worker), dequeue (logging thread) | server, main |
| persistence, `main.c`, `server.c` | a file of SET requests | dump at exit, replay at start | controller, entry map |
| main, `main.c` | `quit`, `do_write_stats` | signal handlers, start-up and shutdown | everything |
| utilities, configuration, profiler, thread wrappers | - | formatting, parsing, timing | - |

What is hard about it:

* *Concurrency without blocking locks.* The free stacks use a mark bit in the
  head pointer as a try-lock; the maps use two layers of spin flags, one in the
  slot and one in the entry, and the second lies in memory that may be given
  back; the log queues share unprotected memory between two threads.
* *State used after its lock is given up.* `get` reads the slot again after
  `UNLOCK_SLOT`; DEL and CLR change the map first and the tag lists later.
* *Known inconsistencies.* `set` can store duplicates of a key, which the
  source says has to be handled "in a higher layer".
* *Limits.* The arena, a map, a ring or the client table is full; a counter or
  the cursor passes 2^32.
* *Ordering at start and end.* Replay runs beside live requests, the logging
  thread ends before the workers do.

* *Clients and slots.* The accept thread, the workers and `stop_server` share a
  table without a lock; slots and descriptor numbers are used again at once.

`PROJECT.json` lists each of these hazards at its line, with the properties that
cover it or the reason why none does.

What makes each component correct, in short: the allocator never hands out
overlapping blocks nor loses one; an entry is used, released and spun on only
while it is reserved and locked, and lookups miss nothing that is there; the tag
lists name every live entry with that tag; a request is read to its end and
answered once; a client slot has one user; accepted log entries come out once, whole and
in order; what is dumped at exit is what a restart serves; and the server
comes to an end after SIGINT.

## Modules

| Module | What it is |
|---|---|
| `Allocator` | abstract: blocks that callers hold never overlap |
| `Memory` | `memory.c`, one atomic access per step |
| `EntryMap` | one hash map of `entry.c` with its callers, one lock operation per step |
| `TagIndex` | the tree and the key lists of `tag.c`, one shared access per step |
| `Controller` | the requests of `controller.c` that change something, one visit of a slot or change of a tag list per step |
| `Connection` | the bytes of one connection and the handlers that read them |
| `Server` | accept thread, workers, table of clients, `stop_server`, one shared access or system call per step |
| `Persistence` | the life of the process: signals, dump, replay, crashes |
| `LossyFifo` | abstract: a bounded queue that refuses when it is full |
| `LogQueue` | the rings of `log.c`, the logging thread, word by word |
| `MemoryProofs`, `EntryMapProofs`, `TagIndexProofs`, `LogQueueProofs`, `ControllerProofs`, `ConnectionProofs`, `ServerProofs`, `PersistenceProofs` | theorems about these eight |
| `MC...` + cfg | instances for TLC; a cfg with a suffix is a further instance |

The modules share no state. They are layered: `Controller` takes map and index at the level of
what `EntryMap` and `TagIndex` are shown to be, `Connection` and `Server` leave open what a request finds,
`Persistence` has requests and map operations as single steps.

Operators whose comment begins with "Defect:" are not part of a model. Each is
a variant of the definition that follows it, such as a plausible mistake would leave in
the code, and breaks the property that `PROJECT.json` pairs it with.

### Memory

A bucket is named by the offset of its header. `memory_cursor`, `free_buckets`,
`num_used`, `num_free`, `num_reused` are the variables of `memory.c`; `next` and
`partition` are fields of the buckets, `next` and `free_buckets` being tagged
pointers, records of a pointer and the mark. `pc`, `size`, `part`, `bucket` and
`link` are the threads' locals, `granted` records what callers hold.

`reserve_memory` is ReserveCall or ReserveTooBig (the search of the partition),
Mark (the fetch-or), ReadHead, then LoadNext, StoreHead, CountPop and CountReuse
or Unmark, then Push or PushFails, then CountUsed. `release_memory` is
ReleaseCall, LinkNext, CasHead or CasFails, CountPush, CountUnused. CasFails
may happen at any time (the exchange is a weak one) and writes the head into `next`
as it is, mark included, as C11 says. Any thread may release any block that is held.

Abstractions: sizes are small numbers; alignment is part of `Header` and of the
sizes; the relaxed order of the counters is of no consequence since each is a single
atomic variable that nothing else is derived from.

### EntryMap

`guards` and `entries` are the arrays of the map, `guard` and `key` fields of
the entries, `reserved` the entries that are not in the allocator. `mask` and
`hashes` are always written together with `entries`, under the slot's guard, and
are left out as derived from it. Guards record who set them; the code's
flags are the facts `guards[s] # NULL` and `guard[e] # NULL`.

The calls are LookupCall (get, unset), SetCall and WalkCall; LockSlot, SkipSlot,
MustCompare, LockEntry and SkipEntry are the probe that all four functions
share; the rest are the functions' endings. GetReturn is an action of its own
because the code reads the slot again without its guard. The actions marked
"caller" are `controller.c`: it reserves an entry already locked, unlocks what get
returned, unlocks and releases what unset, set and the walk's callback took out.
The order of the two in WalkClear and WalkUnmap is the code's: the block
is released before the slot forgets it.

`present` is a history variable (NoFalseMiss). The entry's
contents other than its key, the tags and the value, are left out. Two maps
never interact, so that one is enough.

### TagIndex

`tag`, `keys`, `keys_lock`, `num_keys`, `left` and `right` are the fields of the
nodes, `reserved` the nodes that are not in the allocator. Tags are integers because
`compare_tags` is a total order and nothing else about it matters. A list of keys
is a bag, the number of times it holds each key; that the number is never 2 is a property (KeysUnique) and not
the type.

`get_or_create_node` and `get_tag_if_exists` are Descend and Reach, with Create,
CasWins, CasLoses at a missing child of the first and RemoveMisses or MatchMisses
of the second. LockKeys is `LOCK_KEYS_AND_LOG_SPIN`. `add_key_to_tag` goes on with Search, Link,
Count and UnlockKeys, `remove_key_from_tag` with Search, Unlink, Count and UnlockKeys. The two
matching functions run over `want`: CopyKeys under the lock, then UnlockAndMerge, which
does the rest of the loop's turn on private lists in one step. `walk_all_tags` is PushLeft, Pop, LockKeys,
Report and GoRight. With `MayFail`, a reservation may return NULL at each of its call sites: CreateFails,
CopyFails and PushFails write through it and set `crashed`, after which nothing happens any more;
`insert_if_unique` and the last element of `copy_key_list` go on without.

`span`, `steady` and `ever` are history variables: the interval of tags
that belongs at or below a node, and which pairs of tag and key were listed
all through a call, or at some time during it; `starved` says that a reservation of a copy or a union has failed.

### Controller

Map and index appear here at the level that the modules above show them to have: `slots`, the
`content` of each entry that is reserved, and the `index`, a set of pairs of tag and key. A visit of
a slot is one step, because whatever is done under its guard is invisible from outside; a walk that
removes an entry keeps the slot for several steps, while it takes the key off the lists (SlotFree). An
entry is locked while it is in a thread's `entry` or `old` (EntryMap's GuardInv). A list is changed in
one step (TagIndex: under `keys_lock`, no key twice).

GET is LookupCall, the probe, GetMatch and Serve; a SET with SET_FLAG_ONLY_TTL ends with Renew. SET is
SetCall, ReadValue or ReadFails, the probe, then SetEmpty, or SetMatch with Untag and DropOld, then Tag and
Publish. DEL is Unset, Untag, DropUnset, over and over until ProbeEnds; CLR with tags is CopyKeys for each tag
and the same for each key (NextKey, KeyEnds); the other modes of CLR are Take, Untag, DropTaken at each
entry that the callback wants removed. TagFails is a tag that could not be listed for lack of memory: `controller.c`
does not ask. A SET that gets no memory at all changes nothing and is not an action.

`mixed` is the history variable that makes the properties exact. A key gets into it when it is in two slots at
once, when it is set while a DEL of it is between its first entry and its end, or when TagFails happens; it
leaves it when no entry, no list and no thread has the key any more. What the code guarantees of tags it
guarantees of all other keys (MappedIsListed, ListedIsReal), and these are the only ways to lose it. `doomed`
holds what a clear has to remove, `steady` says that a key had one entry all through a GET.

LST and NFO read the cache and change nothing in it. What they may read there is the walk of `EntryMap` and
the walk and unions of `TagIndex`; how they fill and fail their answers is in `Connection`.

### LogQueue

`read`, `write` and `elems` are the queue of each worker. A copy of an entry
is two steps, one per word. OpenLog and OpenFails are the beginning of `run_logging_thread`: if the log
file cannot be opened (`main.c:206`) the thread returns, and the program goes on without it. `logged` says which
entries each worker is given to log; it never changes and bounds the runs (`Loads`). `wpc` and `lpc` say where the workers and the logging
thread are, `id` the queue that `flush_worker_logs` is at. SIGINT and
`stop_server` are one action, Interrupt: `main` passes one on as the other.

### Connection

A client sends requests ahead of the answers; `input` are the bytes that are not read. A byte is known by its
request, the unit it is of (header, key, tag size, tag, value) and its place, which is all that decides whether reader and
client agree. `unit` and `need` are where `read_request` or `read_request_payload` is, ReadSome is one `read`,
which may return a part, and `got` the header it has collected. The handlers are StartKey, StartTags, SetTags,
ReadTag, TagTooBig, TagRead for what they read and Get, Del, Renew, KeyInfo, ServerInfo, Reserve, Store, Clear, List for what
they do then, with every early return of the code as a disjunct; which of them is taken depends on the cache and is left open. `buffer` is the
worker's payload buffer, which all requests share: whose bytes it holds and `nmemb`. `payload` is
`*response_payload`. A read of the dead `alt_payload` may return any size each time, and writing through its base may fail.
WriteResponse, WritePayload and WriteFails are the end of `process_worker_events`.

`derailed` is the history variable: one of the three places where the code leaves bytes of its request unread has been passed.

### Server

`fd` and `worker` are the table of clients, `epfd`, `running`, `turn` the other shared variables; `socket` and `watched` are the
kernel's tables of descriptors and epoll sets, as the code uses them: `close` takes a descriptor out of every set, and a number
is used again as soon as it is free. The clients connect, send a request in two parts, take the answer or do not, and hang up.

The accept thread is AcceptGoesOn, AwaitConnection, ScanSlot, Accept or AcceptFails, AssignWorker, Register or RegisterFails;
a worker is CreateEpoll, WorkerGoesOn or WorkerEnds, EpollWait, TakeEvent for each event, ReadHeader, Handle, ReadBody, Answer, WriteEnds
and their failures; `close_client` is NoClient or CloseFd, FreeSlot, ForgetWorker, by any thread. `stop_server` is Stop, Join, the
closing of every slot, Shut. ForgetWorker comes after FreeSlot, as in the code, so that the accept thread may have assigned
a worker to the next client of the slot already: Handle then fails with STATUS_BUG, and where the code follows the
pointer without a test (RegisterCrashes, BodyCrashes) the process may crash; `crashed` says so and nothing goes on after it. The compiler
may also keep the pointer in a register, so that the step without the crash is possible as well.

### Persistence

`pc` is where the main thread is: starting (before `atomic_init`), replaying, serving, writing stats, stopping, joined, dumping, or down. `file` is the
sequence of SET requests, each of them whole or `torn`; `entries` is a map with its probing, so that duplicates arise as in `EntryMap` and are
dumped in slot order. Clients set, renew (SET_FLAG_ONLY_TTL) and delete keys while the replay goes on and until the workers are joined, entries expire, and the
process crashes between any two steps. Del is what DEL and CLR by tags do to a key, all entries of which go; Clear is CLR in the modes ALL, OLD and MATCH_NONE,
which judge each entry by itself and may remove any set of them, one of several duplicates included. `stop_server` is StopServer and JoinWorkers,
which waits as long as a client holds a worker up (`held`, until Release). The replay ends when `read` returns 0; when it fails (ReadFails) the loop goes
on for ever, without a look at `quit`. SIGUSR1 may come as soon as its handler is installed, before `atomic_init` clears the flag again.
LoadFails has what `load_request_log` makes of a request that is cut or fails: the value is made of other bytes of the file or dropped, and
the place is lost. Nothing the code does depends on more of those bytes.

`truth` is what the clients were told last, `changed` and `excused` say which keys need not have survived; KeepsValues lists the reasons.

## What TLC checks

| Run | Instance | Properties |
|---|---|---|
| `memory` | 2 threads, sizes 1 and 2, requests 1 to 3, arena of 6 with 1 for the system, counters modulo 4 | ExclusiveOwnership, StackIsExact, StatsAgree, ImplementsAllocator |
| `entry_map` | 2 threads, 2 keys with the same hash, 3 slots, 4 entries | HeldIsLocked, SpinsOnLiveEntry, GetReturnsItsMatch, EntriesAccountedFor, NoCircularWait, NoFalseMiss |
| `log_queue` | 2 workers, rings of 4, 2 entries, of which one worker logs both and the other none, or both log the first; the log file may fail to open; fairness | CopiesApart, ImplementsLossyFifo, EventuallyPrinted, LoggerEnds |
| `tag_index` | 2 threads, tags 0, 1, 2 with "ROOT" as 2, 1 key, 4 nodes, all functions | OneNodePerTag, WalkIsComplete, MissesAreReal, SearchesProgress |
| `tag_index_memory` | 2 tags, 2 keys, 3 nodes, all functions, requests for no tag, one, two and one twice; reservations may fail | KeysUnique, CountsAgree, MatchesAreSound |
| `controller` | 2 threads, 2 keys whose probes begin at the last of 2 slots, 3 entries, 1 tag, entries that expire, lists that cannot be extended | TypeOK, MappedIsListed, ListedIsReal, ClearsAreComplete, MissesAreTrue |
| `controller_duplicates` | the same with one thread, enough memory, one tag that all entries of the second key have, TTL 0 and CLR OLD only | HandledAbove, violated |
| `server` | 2 workers, 2 slots, 2 connections, 2 descriptors, `epoll_create` may fail, fairness | TypeOK, OwnConnection, NothingForgotten, OnlyForCause, StopEnds, RequestsAreTaken |
| `connection` | 14 formats of requests, up to 3 of them, headers of 2 bytes, all other units of at most 2 | TypeOK, InStep, AnswersInOrder, FreshBody |
| `connection_body` | the same with GET and an LST MATCH with one tag only, up to 2 of them | BodyAsAnnounced, violated |
| `persistence` | 2 keys that collide in 2 slots, 3 SETs of entries that may expire, 2 starts, 1 crash, short writes, failing replays and reads, clients that hold a worker up, fairness | TypeOK, KeepsValues, SignalsAreHeeded, StatsAreWritten |
| `persistence_restart` | the same with 3 starts, without crashes and failures | FlushedOnExit, violated |

`TypeOK` of `Memory`, `EntryMap`, `TagIndex` and `LogQueue` is proved and not checked again.

Why the bounds are enough to be of interest. In `memory` the arena holds three small buckets
or a large and a small one: pushes succeed and fail, stacks are empty and not, a bucket is popped
and pushed again (the ABA case), and a thread finds the mark set. `MaxCursor` is
the only bound that is not in the code: a cursor beyond it is not distinguished from it.
In `entry_map` a map of three slots is full when three of the four entries are set, so that a
set can find no slot, a probe wraps around and duplicates of a key occur. Circles of more than two
threads and stacks that three threads work on are left to the proofs. In the runs of the tag index
two threads race for the same child and for one below it, a walk is overtaken by nodes
on either side, and there is a node to spare for the loser of a race. In `controller` the two keys
change places and become duplicates, the map is full when both slots are, and memory runs out when both threads set; `Sets`, `Requests`, `Modes`
and `MaxClock` bound what is asked: only the second key has tags, the first is there to make it move. In
`log_queue` the rings wrap around and are full, empty and in between at every position; two entries of one worker, or one each of two, are enough to see an entry
out of order, torn, lost, doubled or from the wrong ring. In `server` the table is full with two clients, slots and
descriptor numbers are used again by the other connection, and two workers close and accept against each other; a connection that is closed does not
come back, and two are enough for one to inherit the slot of the other. In `connection` three requests are one that leaves something behind, one that
reads it and one that comes after; a header of two bytes and values of up to two can be taken for each other in part and as a whole. In
`persistence` two colliding keys in two slots give the duplicate, the full map and the replay that meets a live SET; two starts are a
run, a crash or exit, and what the file then brings back; every entry is set with a TTL, which may pass or not, so that one without does nothing else. Threads, entries and (where only one hash is in use) nothing else are symmetric;
no liveness property is checked under symmetry.

What the runs show beyond "it holds":

* The free stacks are exact: the mark as try-lock for poppers and the
  compare-and-swap of pushers exclude the ABA problem, although only one side takes the lock.
* The statistics agree with the stacks up to calls under way, but `num_free`
  may be -1, that is 2^32 - 1, for a moment; NFO may report it.
* The unguarded second read in `get` is harmless, because every change of the slot needs
  the entry's own flag.
* The races of the tag index are benign: one node per tag, no key twice, and
  a union or intersection that mixes moments still contains what was listed all the
  time and nothing that was never listed. Each step of a search narrows what is left of it, the lost races included.
* **Finding** (`controller_duplicates`): `entry.c` leaves duplicates to "a higher layer", and CLR OLD does not deal with them: it
  takes away an older entry that has expired, and with it the key from the list of its tag; the value that was set last is still served and no CLR by tag
  can reach it.
* Apart from the keys in `mixed`, tags can be trusted at every moment: no entry can be read before its tags list it. A DEL that a SET
  of the same key overtakes is the only race of two requests that breaks this.
* A queue is emptied before the next one is looked at, so a busy worker can starve
  the others of the logging thread: EventuallyPrinted has to make that exception. It makes another for the end of the thread, at `quit`
  (entries that the workers log from then on are accepted and never printed) or when the log file cannot be opened.
* No thread ever uses the connection of another client, although `close_client` frees the slot before it has finished with it. What the order of
  its last two lines does cost is that a new client may be closed without a cause, or the process crash on a NULL worker: OnlyForCause and `crashed` name that
  exception, and that a client registered before its worker has an epoll instance is closed.
* `stop_server` ends, and requests are taken, unless clients hold workers up; a client that stops in the middle of a request is enough.
* Reader and client stay in step but for three places that the code marks or should mark (a tag that does not fit, a value without memory, ONLY_TTL
  with tags or a value).
* **Finding** (`connection_body`): failures of NFO and LST are followed by a body that their header does not announce; the run shows it for an LST
  MATCH with a tag whose list does not fit the buffer. (Without a tag there is no list, and the answer is OK and empty.) The length of
  LST MATCH_NONE is, moreover, read from a block that has been left.
* **Finding** (`persistence_restart`): duplicates are dumped in slot order, and a restart serves the older value.
* Keys survive exits, starts and crashes except for the reasons that KeepsValues names, live changes during the replay among them, and a CLR
  that removes the first of several entries of a key and no other. These losses are real; what is shown is which keys they are confined to.
* A signal to exit is heeded unless it comes before `atomic_init`, the file cannot be read, or a client holds a worker up; a SIGUSR1 is
  not lost while stats are being written, but one that comes before `atomic_init` is.

## Fairness

`log_queue`: weak fairness of the logging thread and of a worker inside
a copy, because neither waits for anything there and a running thread goes on, and strong fairness of Stop: `run_worker` tests
`is_running` after every batch of events, it cannot pass the test by for ever.
That a worker gets back to that test at all is assumed there; `server` shows when it does not.

`server`: weak fairness of each thread of the server, since the operating system keeps running them; a thread that waits for a client is
not enabled. Nothing is assumed of the clients, nor that the server is ever stopped. StopEnds and RequestsAreTaken exclude the case that from some
time on there is always a worker that waits for a client, and the crash named above.

`persistence`: weak fairness of the main thread, which waits only for the workers, in JoinWorkers. Nothing is assumed of a client that holds a
worker up: SignalsAreHeeded makes it an exception, and the file that cannot be read another; what the joins wait for in detail is the subject of `server`.

The other runs check no liveness. That a search in the tree ends is stated as an action property (SearchesProgress), from which it follows that
it takes no more steps than there are tags, and races lost, between ROOT and its own; it can be proved, which
a liveness property cannot.

## What is proved

TLAPS proves, for any number of threads, keys, entries, slots and workers, any
sizes, any hash function and any requests, what follows under the named assumptions of each module. They say
that the constants are of the right kind and not how many there are, but for two: `MemoryAssumption` has
finitely many threads, and `FormatAssumption` says which units requests of each format consist of, as clients have to send them.

* `MemoryProofs`: TypeOK, ExclusiveOwnership, BucketsApart, MarkIsLock and
  LinksUnmarked are invariants, and `Spec => ImplementsAllocator`. The inductive
  invariant `IInv` adds the layout below the cursor (LayoutInv), the meaning of
  the locals (CallInv: between LoadNext and StoreHead the bucket is still the
  head and the link still its next), and that heads and links stay among listed
  buckets of their partition with no two leading to the same one (ListInv, InjectiveInv). The last
  replaces any induction over the list for exclusive ownership: after a pop the new head has no other
  predecessor, and that is all the next pop needs. StackIsExact does need one. CoverInv says that every bucket below the
  cursor is held, in the hands of a thread or has a predecessor, EndInv that links end in NULL; that following links from the head reaches each of
  the free buckets is then an induction over sets of numbers, by a least counterexample, and that it does so in as many
  rounds as the arena is long is counting. StatsAgree compares three counters with the cardinalities of sets of buckets and of threads, modulo the width:
  a lemma for each kind of step says how these sets change.
* `EntryMapProofs`: TypeOK, HeldIsLocked, SpinsOnLiveEntry, GetReturnsItsMatch,
  EntriesAccountedFor, NoCircularWait and NoFalseMiss are invariants. `IInv` says that a slot's flag is set
  exactly by the thread between LOCK_SLOT and UNLOCK_SLOT (SlotInv), an entry's
  flag exactly by its holder (GuardInv), and that every reserved entry is in one
  settled slot or in the hands of one thread outside the map (MapInv). From
  that NoCircularWait follows without a further induction: among
  threads that all spin, one that spins on an entry found in a slot waits for a
  holder who does not spin, because spinning threads hold only entries that no slot names; and if all
  spin on slots, nobody holds one. NoFalseMiss rests on a second invariant, AheadInv: while a key has been in the map ever
  since a lookup began, its slot is one that the lookup has yet to pass, or the one it is looking at.
* `TagIndexProofs`: TypeOK, OneNodePerTag, KeysUnique, CountsAgree, MatchesAreSound and WalkIsComplete are invariants, TreeOnlyGrows,
  MissesAreReal and SearchesProgress hold of every step. The invariant `IInv` states the order of the tree
  without paths: the spans of linked nodes are nested or disjoint, a child's span is its side of its
  parent's, and where a linked tag lies in a node's span on one side of it there is a child on that
  side (TreeInv). Searching threads are at a node whose span holds their tag (SearchInv); that a miss
  is real follows at once, and so does progress: a child's span is a proper part of its parent's. A lemma for each of the three
  actions that touch the tree shows that it keeps TreeInv and every linked node (LinkedKept), and all else about the threads follows from
  LinkedKept. CountInv adds that `num_keys` lags behind its list by the update under way.
  What matches and walks report is about a call as a whole, and rests on two further invariants. MatchInv ties the histories to the lists: a pair of tag
  and key that has been listed ever since the call began is listed now, and one that is listed now has been listed at some
  time (Remembers); what has been found is sound for the tags that are done with, and the copy of a list for its own tag (Collects). WalkInv says that the
  stack of a walk and its node are nested to the left, that what it has told lies in ascending order before all that is
  ahead, and that a tag with a steady key has been told or is ahead: in the span of the node, or at or to the right of a node on the
  stack. A missing child leaves no such tag behind, because TreeInv would put a child there.
* `LogQueueProofs`: TypeOK, CopiesApart, and `Spec => ImplementsLossyFifo`. The refinement
  mapping reads the queue off the ring; the proofs that Publish appends and
  Advance takes the head are arithmetic modulo the size of the ring.

* `ControllerProofs`: TypeOK, MappedIsListed and ListedIsReal are invariants, ClearsAreComplete and MissesAreTrue hold of every step. The
  invariant says what each thread holds at each point of a request (an entry that is in no slot, or the guard of a slot), that two threads
  never hold the same, and, for keys outside `mixed`, that a key is in one slot or one pair of hands. A thread that
  is taking a key off its lists still has to visit every list the key is on; that is the part of ListedIsReal which the
  lists themselves do not show. For a clear and a miss, what is `doomed` or `steady` lies in a slot ahead of the loop.
* `ServerProofs`: TypeOK, OwnConnection and NothingForgotten are invariants, OnlyForCause holds of every step. A slot is handed
  from thread to thread without a lock: from accept to the epoll set of a worker, from there to the batch of events the worker has fetched, and to
  whoever closes it. The invariant says for each slot and each point of each thread which of them may use it, and with which descriptor; that a thread finishing
  `close_client` after FreeSlot may still clear the worker of the next client is part of it. CauseInv adds what has become of the connection when it is closed.
* `ConnectionProofs`: TypeOK, InStep, AnswersInOrder and FreshBody are invariants. As long as nothing has been left behind, the
  bytes that are not read are the last ones of the request under way, exactly as many as its handler has yet to read, and then whole
  requests, each with its header in front. Each handler's part is to say how many units are left at each
  point of it. FreshBody needs in addition whose bytes the payload buffer holds.

* `PersistenceProofs`: TypeOK and KeepsValues are invariants, for any hash function and across any number of starts, crashes and
  failed writes. While the server runs, the map holds what the clients know; while it is down, the file does. In
  between, each key is in one of the two: the replay has yet to come to its request, or the map has it (LoadInv); the dump
  has moved it to the file, or it is still in the map and what has been passed of it has expired (DumpInv). What a lookup finds is the
  entry at the least distance from the key's first slot, so the proofs need that distances differ and
  that a set of them has a least one. A CLR of single entries leaves that entry where it is, or takes all entries of the key with it, for every key it does
  not excuse (ClearChanges). The keys that the property excuses are excused in the invariant, and no others.

The proofs never count on bounds of the runs: each invariant they rest on (`IInv` and its companions, at the end of the component's module) was checked
by TLC on the instance of its run first.

With that, each safety invariant and each action property that a passing run checks is also a theorem. Only model-checked are the liveness
properties (EventuallyPrinted, LoggerEnds, StopEnds, RequestsAreTaken, SignalsAreHeeded, StatsAreWritten), which are out
of the prover's reach, and the three violations, for which a counterexample is the proof.

## Not modelled, and the plan

Left out for good: configuration parsing, formatting of messages and statistics (where `write_memory_stats` truncates the cursor's offset
to 32 bits), the pid file and its lock, notifications of systemd, the profiler (compiled out) and the thread wrappers.

Left out of a module that models the rest:

* Fairness among threads that spin on one flag: the code has none, so that nothing about a single
  request's end can be shown where flags are contended. NoCircularWait is what excludes deadlock of the map.
* What happens after a write through NULL with the arena exhausted (`tag.c:71`, `tag.c:291`, `tag.c:211`): the process is gone.
* The total size of an entry is a `u32` sum of sizes (`controller.c:233`) that wraps around for values near 4 GB; sizes in `Controller` and `Connection` are units.
* The failed copy of a key list in the middle of a CLR by tags (`tag.c:207-212`) is in `TagIndex` and not in `Controller`.
* A CLR by tags copies the key lists and deletes by key afterwards (`controller.c:467`), so that a key which is set again meanwhile with other tags
  goes as well. The code promises nothing else, and there is no property about it.
* `fsync` and the loss of written data with the machine; a crash is one of the process.
* LST and NFO as readers of a changing map and index in one composed model: they change nothing, and their walks are in `EntryMap` and `TagIndex`.
* Garbage in the stream that happens to begin with the control bytes `CiK`: after `derailed` nothing is promised anyway.

Still worth doing: a key list as the sequence that the loops of `tag.c` walk, with the bags of `TagIndex` as its abstraction; and abstract
specifications of map and index that `EntryMap` and `TagIndex` implement and `Controller` is built on, in place of the
agreement by inspection between what they are shown to be and what it assumes.
