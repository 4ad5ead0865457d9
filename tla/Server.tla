------------------------------- MODULE Server -------------------------------
(***************************************************************************)
(* The threads of src/src/server.c around the table of clients: the accept *)
(* thread takes connections, gives each a slot of the table and a worker   *)
(* in turn; a worker serves what its epoll instance reports and closes     *)
(* what has failed; stop_server joins them all and closes the rest.        *)
(*                                                                         *)
(* One shared access or system call per step.  The kernel's tables are     *)
(* modelled as the code uses them: descriptors, epoll sets, the backlog.   *)
(* What a request does is in Controller and Connection; here it is a       *)
(* header, a body, and an answer that may have to wait for its reader.     *)
(* MAX_NUM_EVENTS is MAX_NUM_CLIENTS: a batch holds all that is ready.     *)
(***************************************************************************)
EXTENDS Integers, FiniteSets

CONSTANTS
  NumWorkers,   \* NUM_WORKERS
  NumClients,   \* MAX_NUM_CLIENTS
  Conns,        \* the connections that clients open
  Fds,          \* the descriptors accept returns
  MayFail,      \* whether epoll_create may fail in a worker
  Acceptor,     \* the accept thread
  Main,         \* the main thread
  NULL          \* no worker, no connection, and -1 as a descriptor

Workers == 0 .. NumWorkers - 1
Slots == 0 .. NumClients - 1
Threads == Workers \cup {Acceptor, Main}

ASSUME ServerAssumption ==
  /\ NumWorkers \in Nat \ {0}
  /\ NumClients \in Nat \ {0}
  /\ MayFail \in BOOLEAN
  /\ Acceptor \notin Workers \cup {Main} /\ Main \notin Workers
  /\ NULL \notin Workers \cup Conns \cup Fds

VARIABLES
  fd,        \* fd[s], worker[s]: the Client in slot s of the table
  worker,
  epfd,      \* epfd[w]: the state of worker w's epoll instance
  running,   \* is_running
  turn,      \* worker_id of wait_for_new_connection
  pc,        \* what each thread does next
  slot,      \* the client it is at
  batch,     \* the events a worker has left of its last epoll_wait
  crashed,   \* NULL was followed: the process is gone
  socket,    \* kernel: socket[f] is the connection behind descriptor f
  watched,   \* kernel: watched[w] are the pairs <<f, s>> in w's epoll set
  state,     \* clients: state[c] of connection c
  phase,     \* clients: how far c's present request and its answer are
  gone,      \* clients: c's client has hung up
  given      \* history: the connection that slot s was given last

table == <<fd, worker>>
kernel == <<socket, watched>>
client == <<state, phase, gone>>
vars == <<fd, worker, epfd, running, turn, pc, slot, batch, crashed, socket,
          watched, state, phase, gone, given>>

Labels == {"create", "test", "wait", "next", "read", "handle", "body", "answer", "write",
           "scan", "accept", "assign", "register", "close", "free", "forget",
           "serve", "join", "shut", "ended"}

TypeOK ==
  /\ fd \in [Slots -> Fds \cup {NULL}]
  /\ worker \in [Slots -> Workers \cup {NULL}]
  /\ epfd \in [Workers -> {"none", "open", "failed", "closed"}]
  /\ running \in BOOLEAN
  /\ turn \in Workers
  /\ pc \in [Threads -> Labels]
  /\ slot \in [Threads -> Slots]
  /\ batch \in [Workers -> SUBSET (Slots \X {"in", "error"})]
  /\ crashed \in BOOLEAN
  /\ socket \in [Fds -> Conns \cup {NULL}]
  /\ watched \in [Workers -> SUBSET (Fds \X Slots)]
  /\ state \in [Conns -> {"new", "waiting", "open", "closed"}]
  /\ phase \in [Conns -> {"idle", "header", "whole", "taken", "answered"}]
  /\ gone \in [Conns -> BOOLEAN]
  /\ given \in [Slots -> Conns \cup {NULL}]

(***************************************************************************)
(* Shared vocabulary.                                                      *)
(***************************************************************************)

At(x, label) == pc[x] = label
Goto(x, label) == pc' = [pc EXCEPT ![x] = label]
Here(x) == slot[x]

(* The connection that thread x reaches through its client, or NULL. *)
Peer(x) == IF fd[Here(x)] = NULL THEN NULL ELSE socket[fd[Here(x)]]
Lost(x) == Peer(x) # NULL => gone[Peer(x)]
PeerAt(x, ph) == Peer(x) # NULL /\ phase[Peer(x)] = ph

(***************************************************************************)
(* The clients: they connect, send a request in two parts, take the answer *)
(* and hang up whenever they like.                                         *)
(***************************************************************************)

Connect(c) ==
  /\ state[c] = "new"
  /\ state' = [state EXCEPT ![c] = "waiting"]
  /\ UNCHANGED <<phase, gone>>

(* What is sent before accept is as good as sent after it. *)
Send(c) ==
  /\ state[c] = "open" /\ ~gone[c]
  /\ \/ phase[c] = "idle" /\ phase' = [phase EXCEPT ![c] = "header"]
     \/ phase[c] = "header" /\ phase' = [phase EXCEPT ![c] = "whole"]
     \/ phase[c] = "answered" /\ phase' = [phase EXCEPT ![c] = "idle"]
  /\ UNCHANGED <<state, gone>>

HangUp(c) ==
  /\ state[c] \in {"waiting", "open"} /\ ~gone[c]
  /\ gone' = [gone EXCEPT ![c] = TRUE]
  /\ UNCHANGED <<state, phase>>

Client ==
  /\ \E c \in Conns : Connect(c) \/ Send(c) \/ HangUp(c)
  /\ UNCHANGED <<table, epfd, running, turn, pc, slot, batch, crashed, kernel, given>>

(***************************************************************************)
(* close_client, by any thread.                                            *)
(***************************************************************************)

(* Where thread x goes on after close_client. *)
After(x) ==
  IF x \in Workers THEN "next"
  ELSE IF x = Acceptor THEN "test"
  ELSE IF Here(x) + 1 \in Slots THEN "close" ELSE "shut"

(* Defect: after an event that closed the client the loop does not continue *)
(* with the next event.                                                     *)
ReturnReads(x) ==
  /\ Goto(x, IF x \in Workers /\ <<Here(x), "in">> \notin batch[x] THEN "read" ELSE After(x))
  /\ slot' = [slot EXCEPT ![x] = IF x = Main /\ @ + 1 \in Slots THEN @ + 1 ELSE @]

Return(x) ==
  /\ Goto(x, After(x))
  /\ slot' = [slot EXCEPT ![x] = IF x = Main /\ @ + 1 \in Slots THEN @ + 1 ELSE @]

NoClient(x) ==
  /\ At(x, "close")
  /\ fd[Here(x)] = NULL
  /\ Return(x)
  /\ UNCHANGED <<table, epfd, running, turn, batch, crashed, kernel, client, given>>

(* close takes the descriptor out of all epoll sets. *)
CloseFd(x) ==
  /\ At(x, "close")
  /\ fd[Here(x)] # NULL
  /\ socket' = [socket EXCEPT ![fd[Here(x)]] = NULL]
  /\ watched' = [w \in Workers |-> {p \in watched[w] : p[1] # fd[Here(x)]}]
  /\ state' = [c \in Conns |-> IF c = Peer(x) THEN "closed" ELSE state[c]]
  /\ phase' = [c \in Conns |-> IF c = Peer(x) THEN "idle" ELSE phase[c]]
  /\ gone' = [c \in Conns |-> gone[c] /\ c # Peer(x)]
  /\ Goto(x, "free")
  /\ UNCHANGED <<table, epfd, running, turn, slot, batch, crashed, given>>

FreeSlot(x) ==
  /\ At(x, "free")
  /\ fd' = [fd EXCEPT ![Here(x)] = NULL]
  /\ Goto(x, "forget")
  /\ UNCHANGED <<worker, epfd, running, turn, slot, batch, crashed, kernel, client, given>>

ForgetWorker(x) ==
  /\ At(x, "forget")
  /\ worker' = [worker EXCEPT ![Here(x)] = NULL]
  /\ Return(x)
  /\ UNCHANGED <<fd, epfd, running, turn, batch, crashed, kernel, client, given>>

(***************************************************************************)
(* The accept thread: run_accept_thread, wait_for_new_connection.          *)
(***************************************************************************)

AcceptGoesOn ==
  /\ At(Acceptor, "test")
  /\ Goto(Acceptor, IF running THEN "wait" ELSE "ended")
  /\ UNCHANGED <<table, epfd, running, turn, slot, batch, crashed, kernel, client, given>>

(* Something is in the backlog, or the time is up. *)
AwaitConnection ==
  /\ At(Acceptor, "wait")
  /\ IF \E c \in Conns : state[c] = "waiting"
     THEN Goto(Acceptor, "scan") /\ slot' = [slot EXCEPT ![Acceptor] = 0]
     ELSE Goto(Acceptor, "test") /\ UNCHANGED slot
  /\ UNCHANGED <<table, epfd, running, turn, batch, crashed, kernel, client, given>>

(* One turn of the search for a free slot; EAGAIN at its end. *)
ScanSlot ==
  /\ At(Acceptor, "scan")
  /\ IF fd[Here(Acceptor)] = NULL THEN Goto(Acceptor, "accept") /\ UNCHANGED slot
     ELSE IF Here(Acceptor) + 1 \in Slots
     THEN slot' = [slot EXCEPT ![Acceptor] = @ + 1] /\ UNCHANGED pc
     ELSE Goto(Acceptor, "test") /\ UNCHANGED slot
  /\ UNCHANGED <<table, epfd, running, turn, batch, crashed, kernel, client, given>>

Accept(c, f) ==
  /\ At(Acceptor, "accept")
  /\ state[c] = "waiting"
  /\ socket[f] = NULL
  /\ state' = [state EXCEPT ![c] = "open"]
  /\ socket' = [socket EXCEPT ![f] = c]
  /\ fd' = [fd EXCEPT ![Here(Acceptor)] = f]
  /\ given' = [given EXCEPT ![Here(Acceptor)] = c]
  /\ Goto(Acceptor, "assign")
  /\ UNCHANGED <<worker, epfd, running, turn, slot, batch, crashed, watched, phase, gone>>

(* The connection was aborted: accept returns -1, which is stored. *)
AcceptFails(c) ==
  /\ At(Acceptor, "accept")
  /\ state[c] = "waiting" /\ gone[c]
  /\ state' = [state EXCEPT ![c] = "closed"]
  /\ phase' = [phase EXCEPT ![c] = "idle"]
  /\ gone' = [gone EXCEPT ![c] = FALSE]
  /\ Goto(Acceptor, "test")
  /\ UNCHANGED <<table, epfd, running, turn, slot, batch, crashed, kernel, given>>

AssignWorker ==
  /\ At(Acceptor, "assign")
  /\ worker' = [worker EXCEPT ![Here(Acceptor)] = turn]
  /\ Goto(Acceptor, "register")
  /\ UNCHANGED <<fd, epfd, running, turn, slot, batch, crashed, kernel, client, given>>

(* Defect: a client that could not be registered is left as it is. *)
RegisterFailsQuietly ==
  /\ At(Acceptor, "register")
  /\ epfd[turn] # "open"
  /\ Goto(Acceptor, "test")
  /\ UNCHANGED <<table, epfd, running, turn, slot, batch, crashed, kernel, client, given>>

(* The descriptor of an instance that is not there (yet, any more): the   *)
(* client is closed, and the same worker has the next turn.                *)
RegisterFails ==
  /\ At(Acceptor, "register")
  /\ epfd[turn] # "open"
  /\ Goto(Acceptor, "close")
  /\ UNCHANGED <<table, epfd, running, turn, slot, batch, crashed, kernel, client, given>>

(* Defect: the round does not start again. *)
RegisterOverruns ==
  /\ At(Acceptor, "register")
  /\ epfd[turn] = "open"
  /\ watched' = [watched EXCEPT ![turn] = @ \cup {<<fd[Here(Acceptor)], Here(Acceptor)>>}]
  /\ turn' = turn + 1
  /\ Goto(Acceptor, "test")
  /\ UNCHANGED <<table, epfd, running, slot, batch, crashed, socket, client, given>>

(* EPOLL_CTL_ADD, round robin.  worker has been cleared by another thread  *)
(* if it is NULL; the build may use the value assigned before all the same.*)
Register ==
  /\ At(Acceptor, "register")
  /\ epfd[turn] = "open"
  /\ watched' = [watched EXCEPT ![turn] = @ \cup {<<fd[Here(Acceptor)], Here(Acceptor)>>}]
  /\ turn' = (turn + 1) % NumWorkers
  /\ Goto(Acceptor, "test")
  /\ UNCHANGED <<table, epfd, running, slot, batch, crashed, socket, client, given>>

(* client->worker->epfd with worker cleared. *)
RegisterCrashes ==
  /\ At(Acceptor, "register")
  /\ worker[Here(Acceptor)] = NULL
  /\ crashed' = TRUE
  /\ UNCHANGED <<table, epfd, running, turn, pc, slot, batch, kernel, client, given>>

(***************************************************************************)
(* A worker: run_worker, process_worker_events.                            *)
(***************************************************************************)

CreateEpoll(w) ==
  /\ At(w, "create")
  /\ \/ epfd' = [epfd EXCEPT ![w] = "open"] /\ Goto(w, "test")
     \/ MayFail /\ epfd' = [epfd EXCEPT ![w] = "failed"] /\ Goto(w, "ended")
  /\ UNCHANGED <<table, running, turn, slot, batch, crashed, kernel, client, given>>

(* Defect: is_running is not tested as long as there is work. *)
WorkerNeverStops(w) ==
  /\ At(w, "test")
  /\ Goto(w, "wait")
  /\ UNCHANGED <<table, epfd, running, turn, slot, batch, crashed, kernel, client, given>>

WorkerGoesOn(w) ==
  /\ At(w, "test")
  /\ running
  /\ Goto(w, "wait")
  /\ UNCHANGED <<table, epfd, running, turn, slot, batch, crashed, kernel, client, given>>

(* close (worker->epfd) and the end of the thread. *)
WorkerEnds(w) ==
  /\ At(w, "test")
  /\ ~running
  /\ epfd' = [epfd EXCEPT ![w] = "closed"]
  /\ watched' = [watched EXCEPT ![w] = {}]
  /\ Goto(w, "ended")
  /\ UNCHANGED <<table, running, turn, slot, batch, crashed, socket, client, given>>

(* The events that epoll_wait may report of what is watched: a client that *)
(* has hung up is readable, or in error.                                   *)
Ready(w) ==
  {p \in watched[w] : socket[p[1]] # NULL
                      /\ (phase[socket[p[1]]] \in {"header", "whole"} \/ gone[socket[p[1]]])}

(* Defect: the client is registered without EPOLLIN. *)
EpollWaitErrors(w) ==
  /\ At(w, "wait")
  /\ batch' = [batch EXCEPT ![w] = {<<p[2], "error">> : p \in {q \in Ready(w) : gone[socket[q[1]]]}}]
  /\ Goto(w, "next")
  /\ UNCHANGED <<table, epfd, running, turn, slot, crashed, kernel, client, given>>

EpollWait(w) ==
  /\ At(w, "wait")
  /\ \E failed \in SUBSET {p \in Ready(w) : gone[socket[p[1]]]} :
       batch' = [batch EXCEPT ![w] = {<<p[2], IF p \in failed THEN "error" ELSE "in">> : p \in Ready(w)}]
  /\ Goto(w, "next")
  /\ UNCHANGED <<table, epfd, running, turn, slot, crashed, kernel, client, given>>

TakeEvent(w, e) ==
  /\ At(w, "next")
  /\ e \in batch[w]
  /\ batch' = [batch EXCEPT ![w] = @ \ {e}]
  /\ slot' = [slot EXCEPT ![w] = e[1]]
  /\ Goto(w, IF e[2] = "in" THEN "read" ELSE "close")
  /\ UNCHANGED <<table, epfd, running, turn, crashed, kernel, client, given>>

BatchEnds(w) ==
  /\ At(w, "next")
  /\ batch[w] = {}
  /\ Goto(w, "test")
  /\ slot' = [slot EXCEPT ![w] = 0]
  /\ UNCHANGED <<table, epfd, running, turn, batch, crashed, kernel, client, given>>

(* read_request *)
ReadHeader(w) ==
  /\ At(w, "read")
  /\ PeerAt(w, "header") \/ PeerAt(w, "whole")
  /\ Goto(w, "handle")
  /\ UNCHANGED <<table, epfd, running, turn, slot, batch, crashed, kernel, client, given>>

(* The connection is closed or broken where bytes are still missing. *)
ReadFails(w) ==
  /\ \/ At(w, "read") /\ ~PeerAt(w, "header") /\ ~PeerAt(w, "whole")
     \/ At(w, "body") /\ ~PeerAt(w, "whole")
  /\ Lost(w)
  /\ Goto(w, "close")
  /\ UNCHANGED <<table, epfd, running, turn, slot, batch, crashed, kernel, client, given>>

(* handle_request: without a worker it is STATUS_BUG, which closes. *)
Handle(w) ==
  /\ At(w, "handle")
  /\ Goto(w, IF worker[Here(w)] = NULL THEN "close" ELSE "body")
  /\ UNCHANGED <<table, epfd, running, turn, slot, batch, crashed, kernel, client, given>>

(* The handlers follow client->worker again once they have read the key;   *)
(* the build may have it in a register.                                    *)
ReadBody(w) ==
  /\ At(w, "body")
  /\ PeerAt(w, "whole")
  /\ phase' = [phase EXCEPT ![Peer(w)] = "taken"]
  /\ Goto(w, "answer")
  /\ UNCHANGED <<table, epfd, running, turn, slot, batch, crashed, kernel, state, gone, given>>

BodyCrashes(w) ==
  /\ At(w, "body")
  /\ PeerAt(w, "whole")
  /\ worker[Here(w)] = NULL
  /\ crashed' = TRUE
  /\ UNCHANGED <<table, epfd, running, turn, pc, slot, batch, kernel, client, given>>

(* write_response: what fits into the socket's buffer is sent at once, the *)
(* rest has to wait until the client reads.                                *)
Answer(w) ==
  /\ At(w, "answer")
  /\ ~Lost(w)
  /\ phase' = [phase EXCEPT ![Peer(w)] = "answered"]
  /\ Goto(w, "next") \/ Goto(w, "write")
  /\ UNCHANGED <<table, epfd, running, turn, slot, batch, crashed, kernel, state, gone, given>>

WriteEnds(w) ==
  /\ At(w, "write")
  /\ Peer(w) # NULL /\ phase[Peer(w)] # "answered"
  /\ Goto(w, "next")
  /\ UNCHANGED <<table, epfd, running, turn, slot, batch, crashed, kernel, client, given>>

WriteFails(w) ==
  /\ At(w, "answer") \/ At(w, "write")
  /\ Lost(w)
  /\ Goto(w, "close")
  /\ UNCHANGED <<table, epfd, running, turn, slot, batch, crashed, kernel, client, given>>

(***************************************************************************)
(* The main thread: stop_server, called when main sees quit.               *)
(***************************************************************************)

Stop ==
  /\ At(Main, "serve")
  /\ running' = FALSE
  /\ Goto(Main, "join")
  /\ UNCHANGED <<table, epfd, turn, slot, batch, crashed, kernel, client, given>>

Join ==
  /\ At(Main, "join")
  /\ \A x \in Workers \cup {Acceptor} : At(x, "ended")
  /\ Goto(Main, "close")
  /\ UNCHANGED <<table, epfd, running, turn, slot, batch, crashed, kernel, client, given>>

(* close (server.epfd), close (server.fd) *)
Shut ==
  /\ At(Main, "shut")
  /\ state' = [c \in Conns |-> IF state[c] = "waiting" THEN "closed" ELSE state[c]]
  /\ phase' = [c \in Conns |-> "idle"]
  /\ gone' = [c \in Conns |-> FALSE]
  /\ Goto(Main, "ended")
  /\ UNCHANGED <<table, epfd, running, turn, slot, batch, crashed, kernel, given>>

(***************************************************************************)
(* The specification.                                                      *)
(***************************************************************************)

(* start_server: the accept thread may run before a worker has. *)
Init ==
  /\ fd = [s \in Slots |-> NULL]
  /\ worker = [s \in Slots |-> NULL]
  /\ epfd = [w \in Workers |-> "none"]
  /\ running = TRUE
  /\ turn = 0
  /\ pc = [x \in Threads |-> IF x = Acceptor THEN "test" ELSE IF x = Main THEN "serve" ELSE "create"]
  /\ slot = [x \in Threads |-> 0]
  /\ batch = [w \in Workers |-> {}]
  /\ crashed = FALSE
  /\ socket = [f \in Fds |-> NULL]
  /\ watched = [w \in Workers |-> {}]
  /\ state = [c \in Conns |-> "new"]
  /\ phase = [c \in Conns |-> "idle"]
  /\ gone = [c \in Conns |-> FALSE]
  /\ given = [s \in Slots |-> NULL]

Closing(x) == NoClient(x) \/ CloseFd(x) \/ FreeSlot(x) \/ ForgetWorker(x)

Accepting ==
  \/ AcceptGoesOn \/ AwaitConnection \/ ScanSlot
  \/ \E c \in Conns : AcceptFails(c) \/ \E f \in Fds : Accept(c, f)
  \/ AssignWorker \/ Register \/ RegisterFails \/ RegisterCrashes
  \/ Closing(Acceptor)

Working(w) ==
  \/ CreateEpoll(w) \/ WorkerGoesOn(w) \/ WorkerEnds(w)
  \/ EpollWait(w) \/ BatchEnds(w) \/ \E e \in batch[w] : TakeEvent(w, e)
  \/ ReadHeader(w) \/ ReadFails(w) \/ Handle(w) \/ ReadBody(w) \/ BodyCrashes(w)
  \/ Answer(w) \/ WriteEnds(w) \/ WriteFails(w)
  \/ Closing(w)

Stopping == Join \/ Shut \/ Closing(Main)

Next ==
  /\ ~crashed
  /\ Client \/ Accepting \/ (\E w \in Workers : Working(w)) \/ Stop \/ Stopping

Spec == Init /\ [][Next]_vars

(* The threads run; clients may do nothing, and nobody has to stop. *)
Fairness ==
  /\ WF_vars(~crashed /\ Accepting)
  /\ \A w \in Workers : WF_vars(~crashed /\ Working(w))
  /\ WF_vars(~crashed /\ Stopping)

FairSpec == Spec /\ Fairness

(***************************************************************************)
(* Properties.                                                             *)
(***************************************************************************)

(* x is about to use the descriptor of its client. *)
Uses(x) ==
  \/ pc[x] \in {"read", "handle", "body", "answer", "write", "free", "assign", "register"}
  \/ At(x, "close") /\ fd[Here(x)] # NULL

(* Slots and descriptor numbers are used again as soon as they are free:   *)
(* no two threads use one client at a time, whose descriptor still is that *)
(* of the connection the slot was given, so that no thread reads, answers  *)
(* or closes the connection of another client (server.c:412-414).          *)
OwnConnection ==
  \A x \in Threads : Uses(x) =>
    /\ ~At(x, "free") => Peer(x) # NULL /\ Peer(x) = given[Here(x)]
    /\ \A y \in Threads \ {x} : ~(Uses(y) /\ Here(y) = Here(x))

(* No connection is forgotten: each that is open belongs to one slot, and  *)
(* while the server runs that slot is watched by one worker or in the      *)
(* hands of a thread that is opening or closing it; when stop_server       *)
(* returns none is left (server.c:154, 336).                               *)
NothingForgotten ==
  /\ \A f \in Fds : socket[f] # NULL =>
       /\ Cardinality({s \in Slots : fd[s] = f /\ given[s] = socket[f]}) = 1
       /\ ~At(Main, "shut") /\ ~At(Main, "ended")
  /\ \A s \in Slots : fd[s] # NULL /\ running =>
       \/ Cardinality({w \in Workers : <<fd[s], s>> \in watched[w]}) = 1
       \/ \E x \in Threads : Here(x) = s /\ pc[x] \in {"assign", "register", "close", "free"}

(* A connection that is open is closed only if its client has hung up, if  *)
(* the server stops, if the accept thread could not register it, or if its *)
(* slot has no worker: the thread that freed the slot cleared the worker   *)
(* after the accept thread had given the slot again (server.c:413-414).    *)
ClosesForCause ==
  \A c \in Conns : state[c] = "open" /\ state'[c] = "closed" =>
    \/ gone[c]
    \/ ~running
    \/ \E s \in Slots :
         /\ given[s] = c
         /\ worker[s] = NULL \/ (At(Acceptor, "close") /\ Here(Acceptor) = s)

OnlyForCause == [][ClosesForCause]_vars

(* A worker waits for bytes or for room that only its client can provide. *)
Blocked(w) ==
  /\ ~Lost(w)
  /\ \/ At(w, "body") /\ ~PeerAt(w, "whole")
     \/ At(w, "write") /\ PeerAt(w, "answered")

(* stop_server comes to its end unless from some time on there is always   *)
(* a worker that waits for a client: a client that stops in the middle of  *)
(* a request or of an answer is the one thing that can hold it up          *)
(* (server.c:361, 393).                                                    *)
StopEnds ==
  []<>(crashed \/ \A w \in Workers : ~Blocked(w)) =>
    (At(Main, "join") ~> crashed \/ At(Main, "ended"))

(* A whole request on an open connection is read, or the connection is     *)
(* closed, with the same exception.                                        *)
RequestsAreTaken ==
  []<>(crashed \/ \A w \in Workers : ~Blocked(w)) =>
    \A c \in Conns :
      state[c] = "open" /\ phase[c] = "whole" ~>
        crashed \/ ~(state[c] = "open" /\ phase[c] = "whole")

(***************************************************************************)
(* The inductive invariant: who has which slot in hand.                    *)
(***************************************************************************)

(* Slot s has a client, and nobody has closed its descriptor. *)
Live(s) == fd[s] # NULL /\ \A x \in Threads : ~(At(x, "free") /\ Here(x) = s)

(* The accept thread has the slot it is at to itself. *)
Opens == pc[Acceptor] \in {"assign", "register", "close"}

Watched(s) == \E w \in Workers : <<fd[s], s>> \in watched[w]

(* Where each kind of thread can be.  Who is joined has ended, and main    *)
(* starts with that when is_running is cleared.                            *)
PlaceInv ==
  /\ pc[Acceptor] \in {"test", "wait", "scan", "accept", "assign", "register", "close", "free",
                        "forget", "ended"}
  /\ pc[Main] \in {"serve", "join", "close", "free", "forget", "shut", "ended"}
  /\ \A w \in Workers :
       /\ pc[w] \in {"create", "test", "wait", "next", "read", "handle", "body", "answer", "write",
                      "close", "free", "forget", "ended"}
       /\ pc[w] \in {"create", "ended"} => watched[w] = {} /\ epfd[w] # "open"
       /\ pc[w] \in {"create", "test", "wait", "ended"} => batch[w] = {}
  /\ running <=> At(Main, "serve")
  /\ pc[Main] \in {"close", "free", "forget", "shut", "ended"} =>
       \A x \in Workers \cup {Acceptor} : At(x, "ended")

(* A connection is accepted once, for one slot, and its descriptor is      *)
(* behind that slot as long as the slot is live.                           *)
GivenInv ==
  /\ \A s \in Slots : given[s] # NULL => state[given[s]] \in {"open", "closed"}
  /\ \A r, s \in Slots : given[r] = given[s] /\ given[s] # NULL => r = s
  /\ \A s \in Slots : Live(s) => given[s] # NULL /\ socket[fd[s]] = given[s]
  /\ \A f \in Fds : socket[f] # NULL => \E s \in Slots : Live(s) /\ fd[s] = f

(* Only live slots are watched, by one worker each, once the accept thread *)
(* has let go of them; while the server runs none is left unwatched.       *)
WatchInv ==
  /\ \A w \in Workers : watched[w] \subseteq {<<fd[s], s>> : s \in {r \in Slots : Live(r)}}
  /\ \A v, w \in Workers : watched[v] \cap watched[w] # {} => v = w
  /\ Opens => Live(Here(Acceptor)) /\ ~Watched(Here(Acceptor))
  /\ At(Acceptor, "accept") => fd[Here(Acceptor)] = NULL
  /\ running => \A s \in Slots : Live(s) => Watched(s) \/ (Opens /\ Here(Acceptor) = s)

(* A worker is at slots that it watches, and has one event for each of     *)
(* the others that are in its batch.                                       *)
EventInv ==
  \A w \in Workers :
    /\ \A e \in batch[w] : <<fd[e[1]], e[1]>> \in watched[w]
    /\ \A d, e \in batch[w] : d[1] = e[1] => d = e
    /\ pc[w] \in {"read", "handle", "body", "answer", "write", "close"} =>
         /\ <<fd[Here(w)], Here(w)>> \in watched[w]
         /\ \A e \in batch[w] : e[1] # Here(w)

(* Between close and the end of close_client a slot is with one thread. *)
FreeInv ==
  /\ \A x \in Threads : At(x, "free") => fd[Here(x)] # NULL
  /\ \A x, y \in Threads : At(x, "free") /\ At(y, "free") /\ Here(x) = Here(y) => x = y

(* stop_server has closed the slots it has passed. *)
StopInv ==
  /\ pc[Main] \in {"serve", "join"} => Here(Main) = 0
  /\ pc[Main] \in {"close", "free", "forget"} =>
       \A s \in Slots : s < Here(Main) => fd[s] = NULL
  /\ At(Main, "forget") => fd[Here(Main)] = NULL
  /\ pc[Main] \in {"shut", "ended"} => \A s \in Slots : fd[s] = NULL

(* An event in error, and a worker that goes to close, have a cause. *)
Cause(s) == gone[given[s]] \/ worker[s] = NULL
CauseInv ==
  \A w \in Workers :
    /\ \A e \in batch[w] : e[2] = "error" => gone[given[e[1]]]
    /\ At(w, "close") => Cause(Here(w))

IInv == TypeOK /\ PlaceInv /\ GivenInv /\ WatchInv /\ EventInv /\ FreeInv /\ StopInv
=============================================================================
