----------------------------- MODULE ServerProofs -----------------------------
(***************************************************************************)
(* Theorems about Server, for every number of workers and slots and every  *)
(* set of connections and descriptors.                                     *)
(***************************************************************************)
EXTENDS Server, FiniteSetTheorems, TLAPS

(***************************************************************************)
(* Constants.                                                              *)
(***************************************************************************)

LEMMA Kinds ==
  /\ Workers \subseteq Threads /\ Acceptor \in Threads /\ Main \in Threads /\ 0 \in Slots
  /\ Acceptor \notin Workers /\ Main \notin Workers /\ Acceptor # Main
  /\ NULL \notin Workers /\ NULL \notin Conns /\ NULL \notin Fds
  /\ \A x \in Threads : x \in Workers \/ x = Acceptor \/ x = Main
BY ServerAssumption DEF Threads, Slots, Workers

LEMMA RoundRobin == ASSUME NEW w \in Workers PROVE (w + 1) % NumWorkers \in Workers
BY ServerAssumption DEF Workers

(***************************************************************************)
(* Types.                                                                  *)
(***************************************************************************)

LEMMA TypeStep == TypeOK /\ WatchInv /\ [Next]_vars => TypeOK'
<1> SUFFICES ASSUME TypeOK, WatchInv, [Next]_vars PROVE TypeOK'
  OBVIOUS
<1> USE DEF TypeOK, At, Goto, Here, table, kernel, client, Labels
<1> USE Kinds
<1>1. CASE UNCHANGED vars
  BY <1>1 DEF vars
<1>2. CASE Client
  BY <1>2 DEF Client, Connect, Send, HangUp
<1>3. ASSUME NEW x \in Threads, Closing(x) PROVE TypeOK'
  <2>1. CASE NoClient(x)
    BY <2>1 DEF NoClient, Return, After
  <2>2. CASE CloseFd(x)
    BY <2>2 DEF CloseFd, Peer
  <2>3. CASE FreeSlot(x)
    BY <2>3 DEF FreeSlot
  <2>4. CASE ForgetWorker(x)
    BY <2>4 DEF ForgetWorker, Return, After
  <2> QED BY <1>3, <2>1, <2>2, <2>3, <2>4 DEF Closing
<1>4. CASE Accepting
  <2>1. CASE AcceptGoesOn \/ AwaitConnection \/ ScanSlot
    BY <2>1 DEF AcceptGoesOn, AwaitConnection, ScanSlot
  <2>2. ASSUME NEW c \in Conns, AcceptFails(c) PROVE TypeOK'
    BY <2>2 DEF AcceptFails
  <2>3. ASSUME NEW c \in Conns, NEW f \in Fds, Accept(c, f) PROVE TypeOK'
    BY <2>3 DEF Accept
  <2>4. CASE AssignWorker
    BY <2>4 DEF AssignWorker
  <2>5. CASE Register
    <3>1. turn' \in Workers
      BY <2>5, RoundRobin DEF Register
    <3>2. fd[Here(Acceptor)] # NULL
      BY <2>5 DEF Register, WatchInv, Opens, Live
    <3> QED BY <2>5, <3>1, <3>2 DEF Register
  <2>6. CASE RegisterFails \/ RegisterCrashes
    BY <2>6 DEF RegisterFails, RegisterCrashes
  <2> QED BY <1>3, <1>4, <2>1, <2>2, <2>3, <2>4, <2>5, <2>6 DEF Accepting
<1>5. ASSUME NEW w \in Workers, Working(w) PROVE TypeOK'
  <2>1. CASE CreateEpoll(w) \/ WorkerGoesOn(w) \/ WorkerEnds(w)
    BY <2>1 DEF CreateEpoll, WorkerGoesOn, WorkerEnds
  <2>2. CASE EpollWait(w)
    BY <2>2 DEF EpollWait, Ready
  <2>3. CASE BatchEnds(w) \/ \E e \in batch[w] : TakeEvent(w, e)
    BY <2>3 DEF BatchEnds, TakeEvent
  <2>4. CASE ReadHeader(w) \/ ReadFails(w) \/ Handle(w) \/ BodyCrashes(w) \/ WriteEnds(w) \/ WriteFails(w)
    BY <2>4 DEF ReadHeader, ReadFails, Handle, BodyCrashes, WriteEnds, WriteFails
  <2>5. CASE ReadBody(w) \/ Answer(w)
    BY <2>5 DEF ReadBody, Answer
  <2> QED BY <1>3, <1>5, <2>1, <2>2, <2>3, <2>4, <2>5 DEF Working
<1>6. CASE Stop
  BY <1>6 DEF Stop
<1>7. CASE Stopping
  <2>1. CASE Join
    BY <2>1 DEF Join
  <2>2. CASE Shut
    BY <2>2 DEF Shut
  <2> QED BY <1>3, <1>7, <2>1, <2>2 DEF Stopping
<1> QED BY <1>1, <1>2, <1>4, <1>5, <1>6, <1>7 DEF Next

(***************************************************************************)
(* No two threads are at one slot.                                         *)
(***************************************************************************)

(* What a thread of each kind has when it uses its slot. *)
LEMMA WorkerUses ==
  ASSUME IInv, NEW w \in Workers, Uses(w)
  PROVE  /\ ~At(w, "free") => Live(Here(w)) /\ <<fd[Here(w)], Here(w)>> \in watched[w]
         /\ ~At(w, "ended")
<1> USE Kinds DEF At
<1>1. ~At(w, "free") => <<fd[Here(w)], Here(w)>> \in watched[w]
  BY DEF Uses, IInv, EventInv, PlaceInv
<1>2. ~At(w, "free") => Live(Here(w))
  BY <1>1 DEF IInv, WatchInv
<1> QED BY <1>1, <1>2 DEF Uses

LEMMA AcceptorUses ==
  ASSUME IInv, Uses(Acceptor)
  PROVE  /\ ~At(Acceptor, "free") => Live(Here(Acceptor)) /\ ~Watched(Here(Acceptor))
         /\ ~At(Acceptor, "ended")
BY DEF Uses, IInv, WatchInv, PlaceInv, Opens, At

LEMMA MainUses ==
  ASSUME IInv, Uses(Main)
  PROVE  /\ ~At(Main, "free") => Live(Here(Main))
         /\ \A x \in Threads \ {Main} : At(x, "ended") /\ ~Uses(x)
<1> USE Kinds DEF At
<1>1. \A x \in Threads \ {Main} : At(x, "ended")
  BY DEF Uses, IInv, PlaceInv
<1>2. \A x \in Threads \ {Main} : ~Uses(x)
  BY <1>1 DEF Uses
<1>3. ~At(Main, "free") => Live(Here(Main))
  BY <1>1 DEF Uses, Live, IInv, PlaceInv
<1> QED BY <1>1, <1>2, <1>3

LEMMA Apart ==
  ASSUME IInv, NEW x \in Threads, NEW y \in Threads, Uses(x), Uses(y), Here(x) = Here(y)
  PROVE  x = y
<1> USE Kinds DEF At, Here
<1>1. Here(x) \in Slots
  BY DEF IInv, TypeOK
<1>2. CASE At(x, "free") /\ At(y, "free")
  BY <1>2 DEF IInv, FreeInv
<1>3. CASE x = Main \/ y = Main
  BY <1>3, MainUses
<1>4. CASE At(x, "free") /\ ~At(y, "free") /\ y # Main
  BY <1>4, WorkerUses, AcceptorUses DEF Live
<1>5. CASE At(y, "free") /\ ~At(x, "free") /\ x # Main
  BY <1>5, WorkerUses, AcceptorUses DEF Live
<1>6. CASE ~At(x, "free") /\ ~At(y, "free") /\ x # Main /\ y # Main
  <2>1. CASE x \in Workers /\ y \in Workers
    <3>1. <<fd[slot[x]], slot[x]>> \in watched[x] \cap watched[y]
      BY <1>6, <2>1, WorkerUses
    <3> QED BY <2>1, <3>1 DEF IInv, WatchInv
  <2>2. CASE x = Acceptor /\ y \in Workers
    BY <1>6, <2>2, WorkerUses, AcceptorUses DEF Watched
  <2>3. CASE y = Acceptor /\ x \in Workers
    BY <1>6, <2>3, WorkerUses, AcceptorUses DEF Watched
  <2> QED BY <1>6, <2>1, <2>2, <2>3
<1> QED BY <1>2, <1>3, <1>4, <1>5, <1>6

LEMMA UsedIsLive ==
  ASSUME IInv, NEW x \in Threads, Uses(x), ~At(x, "free")
  PROVE  /\ Live(Here(x)) /\ Here(x) \in Slots
         /\ fd[Here(x)] \in Fds /\ Peer(x) = given[Here(x)] /\ Peer(x) \in Conns
<1>1. Live(Here(x)) /\ Here(x) \in Slots
  BY Kinds, WorkerUses, AcceptorUses, MainUses DEF IInv, TypeOK, Here
<1>2. fd[Here(x)] \in Fds /\ fd[Here(x)] # NULL
  BY <1>1 DEF Live, IInv, TypeOK
<1> QED BY <1>1, <1>2 DEF Peer, IInv, GivenInv, TypeOK

(***************************************************************************)
(* The steps that open and close a slot, and all others.                   *)
(***************************************************************************)

(* No slot changes hands, no connection is accepted. *)
Quiet ==
  /\ UNCHANGED <<fd, socket, given>>
  /\ \A x \in Threads : /\ At(x, "free") <=> At(x, "free")'
                        /\ At(x, "free") => slot'[x] = slot[x]
  /\ \A c \in Conns : state[c] \in {"open", "closed"} => state'[c] = state[c]

LEMMA Kind ==
  ASSUME TypeOK, PlaceInv, Next
  PROVE  \/ Quiet
         \/ \E c \in Conns, f \in Fds : Accept(c, f)
         \/ \E x \in Threads : CloseFd(x) \/ FreeSlot(x)
<1> DEFINE Goal == \/ Quiet
                   \/ \E c \in Conns, f \in Fds : Accept(c, f)
                   \/ \E x \in Threads : CloseFd(x) \/ FreeSlot(x)
<1> USE Kinds DEF TypeOK, At, Goto, Here, table, kernel, client
<1>2. CASE Client
  BY <1>2 DEF Client, Connect, Send, HangUp, Quiet
<1>3. ASSUME NEW x \in Threads, Closing(x) PROVE Goal
  <2>1. CASE NoClient(x)
    BY <2>1 DEF NoClient, Return, After, Quiet
  <2>4. CASE ForgetWorker(x)
    BY <2>4 DEF ForgetWorker, Return, After, Quiet
  <2> QED BY <1>3, <2>1, <2>4 DEF Closing
<1>4. CASE Accepting
  <2>1. CASE AcceptGoesOn \/ AwaitConnection \/ ScanSlot
    BY <2>1 DEF AcceptGoesOn, AwaitConnection, ScanSlot, Quiet
  <2>2. ASSUME NEW c \in Conns, AcceptFails(c) PROVE Goal
    BY <2>2 DEF AcceptFails, Quiet
  <2>3. CASE AssignWorker \/ Register \/ RegisterFails \/ RegisterCrashes
    BY <2>3 DEF AssignWorker, Register, RegisterFails, RegisterCrashes, Quiet
  <2> QED BY <1>3, <1>4, <2>1, <2>2, <2>3 DEF Accepting
<1>5. ASSUME NEW w \in Workers, Working(w) PROVE Goal
  <2>1. CASE CreateEpoll(w) \/ WorkerGoesOn(w) \/ WorkerEnds(w)
    BY <2>1 DEF CreateEpoll, WorkerGoesOn, WorkerEnds, Quiet
  <2>2. CASE EpollWait(w)
    BY <2>2 DEF EpollWait, Quiet
  <2>3. CASE BatchEnds(w) \/ \E e \in batch[w] : TakeEvent(w, e)
    BY <2>3 DEF BatchEnds, TakeEvent, Quiet
  <2>4. CASE ReadHeader(w) \/ ReadFails(w) \/ Handle(w) \/ BodyCrashes(w) \/ WriteEnds(w) \/ WriteFails(w)
    BY <2>4 DEF ReadHeader, ReadFails, Handle, BodyCrashes, WriteEnds, WriteFails, Quiet
  <2>5. CASE ReadBody(w) \/ Answer(w)
    BY <2>5 DEF ReadBody, Answer, Quiet
  <2> QED BY <1>3, <1>5, <2>1, <2>2, <2>3, <2>4, <2>5 DEF Working
<1>6. CASE Stop
  BY <1>6 DEF Stop, Quiet
<1>7. CASE Stopping
  <2>1. CASE Join
    BY <2>1 DEF Join, Quiet
  <2>2. CASE Shut
    BY <2>2 DEF Shut, Quiet
  <2> QED BY <1>3, <1>7, <2>1, <2>2 DEF Stopping
<1> QED BY <1>2, <1>4, <1>5, <1>6, <1>7 DEF Next

LEMMA QuietLive == ASSUME TypeOK, Quiet PROVE \A s \in Slots : Live(s)' <=> Live(s)
BY DEF TypeOK, Quiet, Live, At, Here

LEMMA AcceptLive ==
  ASSUME TypeOK, PlaceInv, WatchInv, FreeInv, NEW c \in Conns, NEW f \in Fds, Accept(c, f)
  PROVE  \A s \in Slots : Live(s)' <=> Live(s) \/ s = Here(Acceptor)
<1> USE Kinds DEF TypeOK, Accept, Live, FreeInv, At, Here, Goto
<1>1. \A s \in Slots : s # Here(Acceptor) => fd'[s] = fd[s]
  OBVIOUS
<1>2. fd'[Here(Acceptor)] = f /\ f # NULL /\ slot' = slot
  OBVIOUS
<1>3. \A x \in Threads : pc'[x] = "free" <=> pc[x] = "free"
  OBVIOUS
<1>4. \A x \in Threads : ~(pc[x] = "free" /\ slot[x] = slot[Acceptor])
  BY DEF WatchInv
<1>5. slot[Acceptor] \in Slots
  OBVIOUS
<1> HIDE DEF Accept, TypeOK, FreeInv
<1> QED BY <1>1, <1>2, <1>3, <1>4, <1>5
LEMMA CloseLive ==
  ASSUME IInv, NEW x \in Threads, CloseFd(x)
  PROVE  \A s \in Slots : Live(s)' <=> Live(s) /\ s # Here(x)
<1> USE DEF IInv, TypeOK, CloseFd, At, Here, Goto, table
<1>1. UNCHANGED <<fd, slot>> /\ pc' = [pc EXCEPT ![x] = "free"]
  OBVIOUS
<1> HIDE DEF CloseFd
<1> QED BY <1>1 DEF Live

(* FreeSlot(x): the slot has been dead since CloseFd(x). *)
LEMMA FreeLive ==
  ASSUME IInv, NEW x \in Threads, FreeSlot(x)
  PROVE  \A s \in Slots : /\ Live(s)' <=> Live(s)
                          /\ s # Here(x) => fd'[s] = fd[s]
<1> USE DEF IInv, TypeOK, FreeSlot, At, Here, Goto
<1>1. /\ fd' = [fd EXCEPT ![Here(x)] = NULL] /\ UNCHANGED slot /\ pc[x] = "free"
      /\ pc' = [pc EXCEPT ![x] = "forget"]
  OBVIOUS
<1> HIDE DEF FreeSlot
<1>2. ASSUME NEW s \in Slots, s # slot[x] PROVE Live(s)' <=> Live(s)
  BY <1>1, <1>2 DEF Live
<1>3. ~Live(slot[x]) /\ ~Live(slot[x])'
  BY <1>1 DEF Live
<1> QED BY <1>1, <1>2, <1>3

(***************************************************************************)
(* Connections and slots.                                                  *)
(***************************************************************************)

LEMMA GivenStep == IInv /\ [Next]_vars => GivenInv'
<1> SUFFICES ASSUME IInv, [Next]_vars PROVE GivenInv'
  OBVIOUS
<1> USE Kinds
<1>1. CASE UNCHANGED vars
  BY <1>1 DEF vars, IInv, GivenInv, Live, At, Here
<1>2. CASE Quiet
  <2>1. \A s \in Slots : Live(s)' <=> Live(s)
    BY <1>2, QuietLive DEF IInv
  <2> QED BY <1>2, <2>1 DEF Quiet, IInv, TypeOK, GivenInv
<1>3. ASSUME NEW c \in Conns, NEW f \in Fds, Accept(c, f) PROVE GivenInv'
  <2>1. \A s \in Slots : Live(s)' <=> Live(s) \/ s = Here(Acceptor)
    BY <1>3, AcceptLive DEF IInv
  <2>2. /\ state[c] = "waiting" /\ socket[f] = NULL /\ fd[Here(Acceptor)] = NULL
        /\ state' = [state EXCEPT ![c] = "open"] /\ socket' = [socket EXCEPT ![f] = c]
        /\ fd' = [fd EXCEPT ![Here(Acceptor)] = f] /\ given' = [given EXCEPT ![Here(Acceptor)] = c]
        /\ Here(Acceptor) \in Slots
    BY <1>3 DEF Accept, At, Here, IInv, TypeOK, WatchInv
  <2>3. ~Live(Here(Acceptor)) /\ \A s \in Slots : given[s] # c
    BY <2>2 DEF Live, IInv, GivenInv
  <2>4. \A s \in Slots : Live(s) => fd[s] # f
    BY <2>2 DEF IInv, GivenInv
  <2>5. \A r, s \in Slots : given'[r] = given'[s] /\ given'[s] # NULL => r = s
    BY <2>2, <2>3 DEF IInv, TypeOK, GivenInv
  <2>6. \A s \in Slots : given'[s] # NULL => state'[given'[s]] \in {"open", "closed"}
    BY <2>2 DEF IInv, TypeOK, GivenInv
  <2>7. \A s \in Slots : Live(s)' => given'[s] # NULL /\ socket'[fd'[s]] = given'[s]
    BY <2>1, <2>2, <2>4 DEF IInv, TypeOK, GivenInv, Live
  <2>8. \A h \in Fds : socket'[h] # NULL => \E s \in Slots : Live(s)' /\ fd'[s] = h
    BY <2>1, <2>2, <2>3 DEF IInv, TypeOK, GivenInv
  <2> QED BY <2>5, <2>6, <2>7, <2>8 DEF GivenInv
<1>4. ASSUME NEW x \in Threads, CloseFd(x) PROVE GivenInv'
  <2>1. \A s \in Slots : Live(s)' <=> Live(s) /\ s # Here(x)
    BY <1>4, CloseLive
  <2>2. Live(Here(x)) /\ Here(x) \in Slots /\ fd[Here(x)] \in Fds
    BY <1>4, UsedIsLive DEF CloseFd, Uses, At
  <2>3. /\ UNCHANGED <<fd, given>> /\ socket' = [socket EXCEPT ![fd[Here(x)]] = NULL]
        /\ \A c \in Conns : state'[c] \in {"closed", state[c]}
    BY <1>4 DEF CloseFd, table
  <2>4. \A s \in Slots : Live(s) /\ fd[s] = fd[Here(x)] => s = Here(x)
    BY <2>2 DEF IInv, GivenInv
  <2>5. \A s \in Slots : Live(s)' => given'[s] # NULL /\ socket'[fd'[s]] = given'[s]
    BY <2>1, <2>2, <2>3, <2>4 DEF IInv, TypeOK, GivenInv, Live
  <2>6. \A h \in Fds : socket'[h] # NULL => \E s \in Slots : Live(s)' /\ fd'[s] = h
    BY <2>1, <2>2, <2>3 DEF IInv, TypeOK, GivenInv
  <2>7. \A s \in Slots : given'[s] # NULL => state'[given'[s]] \in {"open", "closed"}
    BY <2>3 DEF IInv, TypeOK, GivenInv
  <2>8. \A r, s \in Slots : given'[r] = given'[s] /\ given'[s] # NULL => r = s
    BY <2>3 DEF IInv, GivenInv
  <2> QED BY <2>5, <2>6, <2>7, <2>8 DEF GivenInv
<1>5. ASSUME NEW x \in Threads, FreeSlot(x) PROVE GivenInv'
  <2>1. \A s \in Slots : (Live(s)' <=> Live(s)) /\ (Live(s) => s # Here(x))
    BY <1>5, FreeLive DEF FreeSlot, Live
  <2>2. UNCHANGED <<given, socket, state>> /\ \A s \in Slots : s # Here(x) => fd'[s] = fd[s]
    BY <1>5, FreeLive DEF FreeSlot, kernel, client
  <2> QED BY <2>1, <2>2 DEF IInv, GivenInv
<1> QED BY <1>1, <1>2, <1>3, <1>4, <1>5, Kind DEF IInv

LEMMA FreeStep == IInv /\ [Next]_vars => FreeInv'
<1> SUFFICES ASSUME IInv, [Next]_vars PROVE FreeInv'
  OBVIOUS
<1> USE DEF At, Here
<1>1. CASE UNCHANGED vars
  BY <1>1 DEF vars, IInv, FreeInv
<1>2. CASE Quiet
  BY <1>2 DEF Quiet, IInv, FreeInv
<1>3. ASSUME NEW c \in Conns, NEW f \in Fds, Accept(c, f) PROVE FreeInv'
  BY <1>3, Kinds DEF Accept, Goto, IInv, TypeOK, FreeInv
<1>4. ASSUME NEW x \in Threads, CloseFd(x) PROVE FreeInv'
  <2>1. Live(Here(x))
    BY <1>4, UsedIsLive DEF CloseFd, Uses
  <2>2. UNCHANGED <<fd, slot>> /\ pc' = [pc EXCEPT ![x] = "free"] /\ fd[slot[x]] # NULL
    BY <1>4 DEF CloseFd, Goto, table
  <2> QED BY <2>1, <2>2 DEF Live, IInv, TypeOK, FreeInv
<1>5. ASSUME NEW x \in Threads, FreeSlot(x) PROVE FreeInv'
  <2>1. /\ UNCHANGED slot /\ pc' = [pc EXCEPT ![x] = "forget"] /\ pc[x] = "free"
        /\ fd' = [fd EXCEPT ![slot[x]] = NULL]
    BY <1>5 DEF FreeSlot, Goto
  <2> QED BY <2>1 DEF IInv, TypeOK, FreeInv
<1> QED BY <1>1, <1>2, <1>3, <1>4, <1>5, Kind DEF IInv

LEMMA PlaceStep == IInv /\ [Next]_vars => PlaceInv'
<1> SUFFICES ASSUME IInv, [Next]_vars PROVE PlaceInv'
  OBVIOUS
<1> USE Kinds DEF IInv, TypeOK, PlaceInv, At, Goto, Here, table, kernel, client
<1>1. CASE UNCHANGED vars
  BY <1>1 DEF vars
<1>2. CASE Client
  BY <1>2 DEF Client
<1>3. ASSUME NEW x \in Threads, Closing(x) PROVE PlaceInv'
  <2>1. CASE NoClient(x)
    BY <1>3, <2>1 DEF NoClient, Return, After
  <2>2. CASE CloseFd(x)
    BY <1>3, <2>2 DEF CloseFd
  <2>3. CASE FreeSlot(x)
    BY <1>3, <2>3 DEF FreeSlot
  <2>4. CASE ForgetWorker(x)
    BY <1>3, <2>4 DEF ForgetWorker, Return, After
  <2> QED BY <1>3, <2>1, <2>2, <2>3, <2>4 DEF Closing
<1>4. CASE Accepting
  <2>1. CASE AcceptGoesOn \/ AwaitConnection \/ ScanSlot
    BY <2>1 DEF AcceptGoesOn, AwaitConnection, ScanSlot
  <2>2. ASSUME NEW c \in Conns, AcceptFails(c) PROVE PlaceInv'
    BY <2>2 DEF AcceptFails
  <2>3. ASSUME NEW c \in Conns, NEW f \in Fds, Accept(c, f) PROVE PlaceInv'
    BY <2>3 DEF Accept
  <2>4. CASE AssignWorker \/ RegisterFails \/ RegisterCrashes
    BY <2>4 DEF AssignWorker, RegisterFails, RegisterCrashes
  <2>5. CASE Register
    BY <2>5 DEF Register
  <2> QED BY <1>3, <1>4, <2>1, <2>2, <2>3, <2>4, <2>5 DEF Accepting
<1>5. ASSUME NEW w \in Workers, Working(w) PROVE PlaceInv'
  <2>1. CASE CreateEpoll(w) \/ WorkerGoesOn(w)
    BY <2>1 DEF CreateEpoll, WorkerGoesOn
  <2>2. CASE WorkerEnds(w)
    BY <2>2 DEF WorkerEnds
  <2>3. CASE EpollWait(w)
    BY <2>3 DEF EpollWait
  <2>4. CASE BatchEnds(w) \/ \E e \in batch[w] : TakeEvent(w, e)
    BY <2>4 DEF BatchEnds, TakeEvent
  <2>5. CASE ReadHeader(w) \/ ReadFails(w) \/ Handle(w) \/ BodyCrashes(w) \/ WriteEnds(w) \/ WriteFails(w)
    BY <2>5 DEF ReadHeader, ReadFails, Handle, BodyCrashes, WriteEnds, WriteFails
  <2>6. CASE ReadBody(w) \/ Answer(w)
    BY <2>6 DEF ReadBody, Answer
  <2> QED BY <1>3, <1>5, <2>1, <2>2, <2>3, <2>4, <2>5, <2>6 DEF Working
<1>6. CASE Stop
  BY <1>6 DEF Stop
<1>7. CASE Stopping
  <2>1. CASE Join
    BY <2>1 DEF Join
  <2>2. CASE Shut
    BY <2>2 DEF Shut
  <2> QED BY <1>3, <1>7, <2>1, <2>2 DEF Stopping
<1> QED BY <1>1, <1>2, <1>4, <1>5, <1>6, <1>7 DEF Next
(***************************************************************************)
(* What the workers watch.                                                 *)
(***************************************************************************)

(* Steps that leave the epoll sets and the accept thread's slot alone. *)
LEMMA WatchFrame ==
  ASSUME IInv, Quiet, UNCHANGED watched, running' \in {running, FALSE},
         Opens' <=> Opens, Opens => slot'[Acceptor] = slot[Acceptor],
         At(Acceptor, "accept")' => fd[slot'[Acceptor]] = NULL
  PROVE  WatchInv'
<1>1. \A s \in Slots : Live(s)' <=> Live(s)
  BY QuietLive DEF IInv
<1>2. fd' = fd
  BY DEF Quiet
<1>3. \A w \in Workers : watched'[w] \subseteq {<<fd'[s], s>> : s \in {r \in Slots : Live(r)'}}
  BY <1>1, <1>2 DEF IInv, WatchInv
<1>4. Opens' => Live(Here(Acceptor))' /\ ~Watched(Here(Acceptor))'
  BY <1>1, <1>2, Kinds DEF IInv, TypeOK, WatchInv, Watched, Here
<1>5. running' => \A s \in Slots : Live(s)' => Watched(s)' \/ (Opens' /\ Here(Acceptor)' = s)
  BY <1>1, <1>2 DEF IInv, WatchInv, Watched, Here
<1>6. At(Acceptor, "accept")' => fd'[Here(Acceptor)'] = NULL
  BY <1>2 DEF Here
<1>7. \A v, w \in Workers : watched'[v] \cap watched'[w] # {} => v = w
  BY DEF IInv, WatchInv
<1> QED BY <1>3, <1>4, <1>5, <1>6, <1>7 DEF WatchInv

LEMMA WatchAccept ==
  ASSUME IInv, NEW c \in Conns, NEW f \in Fds, Accept(c, f)
  PROVE  WatchInv'
<1> USE DEF Here
<1> DEFINE a == slot[Acceptor]
<1>1. \A s \in Slots : Live(s)' <=> Live(s) \/ s = a
  BY AcceptLive DEF IInv
<1>2. /\ a \in Slots /\ UNCHANGED <<slot, watched, running>> /\ fd[a] = NULL
      /\ pc'[Acceptor] = "assign" /\ fd' = [fd EXCEPT ![a] = f]
      /\ pc[Acceptor] = "accept"
  BY Kinds DEF Accept, Goto, At, IInv, TypeOK, WatchInv
<1>3. ~Live(a)
  BY <1>2 DEF Live
<1>4. \A w \in Workers, s \in Slots, g \in Fds : <<g, s>> \in watched[w] => s # a /\ fd[s] = g /\ Live(s)
  BY <1>3 DEF IInv, WatchInv
<1>5. \A w \in Workers : watched'[w] \subseteq {<<fd'[s], s>> : s \in {r \in Slots : Live(r)'}}
  BY <1>1, <1>2, <1>3 DEF IInv, TypeOK, WatchInv
<1>6. Live(a)' /\ ~Watched(a)'
  BY <1>1, <1>2, <1>4 DEF Watched, IInv, TypeOK
<1>7. running' => \A s \in Slots : Live(s)' => Watched(s)' \/ (Opens' /\ Here(Acceptor)' = s)
  BY <1>1, <1>2 DEF IInv, TypeOK, WatchInv, Watched, Opens
<1>8. \A v, w \in Workers : watched'[v] \cap watched'[w] # {} => v = w
  BY <1>2 DEF IInv, WatchInv
<1> QED BY <1>2, <1>5, <1>6, <1>7, <1>8 DEF WatchInv, At

LEMMA WatchClose ==
  ASSUME IInv, NEW x \in Threads, CloseFd(x)
  PROVE  WatchInv'
<1> USE DEF Here
<1> DEFINE a == slot[x]
<1>1. \A s \in Slots : Live(s)' <=> Live(s) /\ s # a
  BY CloseLive
<1>2. /\ Live(a) /\ a \in Slots /\ fd[a] \in Fds /\ Uses(x)
      /\ UNCHANGED <<slot, fd, running>> /\ pc[x] = "close" /\ pc' = [pc EXCEPT ![x] = "free"]
      /\ watched' = [w \in Workers |-> {p \in watched[w] : p[1] # fd[a]}]
  BY UsedIsLive DEF CloseFd, Uses, At, Goto, table
<1>3. \A s \in Slots : Live(s) /\ fd[s] = fd[a] => s = a
  BY <1>2 DEF IInv, GivenInv
<1>4. \A w \in Workers : watched'[w] \subseteq {<<fd'[s], s>> : s \in {r \in Slots : Live(r)'}}
  BY <1>1, <1>2 DEF IInv, WatchInv
<1>5. \A s \in Slots : Live(s)' => (Watched(s)' <=> Watched(s))
  BY <1>1, <1>2, <1>3 DEF Watched
<1>6. Opens' => Opens /\ slot[Acceptor] # a
  <2>1. CASE x = Acceptor
    BY <1>2, <2>1, Kinds DEF Opens, IInv, TypeOK
  <2>2. CASE x # Acceptor
    BY <1>2, <2>2, Apart, Kinds DEF Opens, IInv, TypeOK, WatchInv, Live, Uses, At
  <2> QED BY <2>1, <2>2
<1>7. Opens' => Live(slot[Acceptor])' /\ ~Watched(slot[Acceptor])'
  BY <1>1, <1>2, <1>5, <1>6, Kinds DEF IInv, TypeOK, WatchInv
<1>8. At(Acceptor, "accept")' => fd'[slot'[Acceptor]] = NULL
  BY <1>2, Kinds DEF IInv, TypeOK, WatchInv, At
<1>9. running' => \A s \in Slots : Live(s)' => Watched(s)' \/ (Opens' /\ Here(Acceptor)' = s)
  BY <1>1, <1>2, <1>5, Kinds DEF IInv, TypeOK, WatchInv, Opens
<1>10. \A v, w \in Workers : watched'[v] \cap watched'[w] # {} => v = w
  BY <1>2 DEF IInv, WatchInv
<1> QED BY <1>4, <1>7, <1>8, <1>9, <1>10 DEF WatchInv

LEMMA WatchFree ==
  ASSUME IInv, NEW x \in Threads, FreeSlot(x)
  PROVE  WatchInv'
<1> USE DEF Here
<1> DEFINE a == slot[x]
<1>1. \A s \in Slots : /\ Live(s)' <=> Live(s)
                       /\ Live(s) => s # a
                       /\ s # a => fd'[s] = fd[s]
  BY FreeLive DEF FreeSlot, Live, At
<1>2. /\ UNCHANGED <<slot, running, watched>> /\ pc[x] = "free" /\ pc' = [pc EXCEPT ![x] = "forget"]
      /\ a \in Slots /\ fd' = [fd EXCEPT ![a] = NULL]
  BY DEF FreeSlot, At, Goto, kernel, IInv, TypeOK
<1>3. \A w \in Workers : watched'[w] \subseteq {<<fd'[s], s>> : s \in {r \in Slots : Live(r)'}}
  BY <1>1, <1>2 DEF IInv, WatchInv
<1>4. \A s \in Slots : Live(s) => (Watched(s)' <=> Watched(s))
  BY <1>1, <1>2 DEF Watched
<1>5. Opens' <=> Opens
  BY <1>2, Kinds DEF Opens, IInv, TypeOK
<1>6. Opens' => Live(slot[Acceptor])' /\ ~Watched(slot[Acceptor])'
  BY <1>1, <1>2, <1>4, <1>5, Kinds DEF IInv, TypeOK, WatchInv
<1>7. At(Acceptor, "accept")' => fd'[slot'[Acceptor]] = NULL
  BY <1>2, Kinds DEF IInv, TypeOK, WatchInv, At
<1>8. running' => \A s \in Slots : Live(s)' => Watched(s)' \/ (Opens' /\ Here(Acceptor)' = s)
  BY <1>1, <1>2, <1>4, <1>5 DEF IInv, WatchInv
<1>9. \A v, w \in Workers : watched'[v] \cap watched'[w] # {} => v = w
  BY <1>2 DEF IInv, WatchInv
<1> QED BY <1>3, <1>6, <1>7, <1>8, <1>9 DEF WatchInv

LEMMA WatchRegister ==
  ASSUME IInv, Quiet, Register
  PROVE  WatchInv'
<1> USE DEF Here
<1> DEFINE a == slot[Acceptor]
<1>1. \A s \in Slots : Live(s)' <=> Live(s)
  BY QuietLive DEF IInv
<1>2. /\ UNCHANGED <<fd, slot, running>> /\ pc[Acceptor] = "register" /\ pc'[Acceptor] = "test"
      /\ watched' = [watched EXCEPT ![turn] = @ \cup {<<fd[a], a>>}]
      /\ a \in Slots /\ turn \in Workers
  BY Kinds DEF Register, At, Goto, table, IInv, TypeOK
<1>3. Live(a) /\ ~Watched(a)
  BY <1>2 DEF IInv, WatchInv, Opens
<1>4. \A w \in Workers : watched'[w] \subseteq {<<fd'[s], s>> : s \in {r \in Slots : Live(r)'}}
  BY <1>1, <1>2, <1>3 DEF IInv, TypeOK, WatchInv
<1>5. \A s \in Slots : Watched(s)' <=> Watched(s) \/ s = a
  BY <1>2 DEF Watched, IInv, TypeOK
<1>6. running' => \A s \in Slots : Live(s)' => Watched(s)' \/ (Opens' /\ Here(Acceptor)' = s)
  BY <1>1, <1>2, <1>5 DEF IInv, WatchInv
<1>7. \A v, w \in Workers : watched'[v] \cap watched'[w] # {} => v = w
  BY <1>2, <1>3 DEF IInv, TypeOK, WatchInv, Watched
<1>8. ~Opens' /\ ~At(Acceptor, "accept")'
  BY <1>2 DEF Opens, At
<1> QED BY <1>4, <1>6, <1>7, <1>8 DEF WatchInv

LEMMA WatchEnds ==
  ASSUME IInv, Quiet, NEW w \in Workers, WorkerEnds(w)
  PROVE  WatchInv'
<1> USE DEF Here
<1>1. \A s \in Slots : Live(s)' <=> Live(s)
  BY QuietLive DEF IInv
<1>2. /\ UNCHANGED <<fd, slot, running>> /\ ~running /\ pc'[Acceptor] = pc[Acceptor]
      /\ watched' = [watched EXCEPT ![w] = {}]
  BY Kinds DEF WorkerEnds, Goto, table, IInv, TypeOK
<1>3. \A v \in Workers : watched'[v] \subseteq watched[v]
  BY <1>2 DEF IInv, TypeOK
<1>4. \A v \in Workers : watched'[v] \subseteq {<<fd'[s], s>> : s \in {r \in Slots : Live(r)'}}
  BY <1>1, <1>2, <1>3 DEF IInv, WatchInv
<1>5. Opens' => Live(slot[Acceptor])' /\ ~Watched(slot[Acceptor])'
  BY <1>1, <1>2, <1>3, Kinds DEF IInv, TypeOK, WatchInv, Watched, Opens
<1>6. \A u, v \in Workers : watched'[u] \cap watched'[v] # {} => u = v
  BY <1>3 DEF IInv, WatchInv
<1> QED BY <1>2, <1>4, <1>5, <1>6 DEF WatchInv, At, IInv

LEMMA WatchStep == IInv /\ [Next]_vars => WatchInv'
<1> SUFFICES ASSUME IInv, [Next]_vars PROVE WatchInv'
  OBVIOUS
<1>1. CASE UNCHANGED vars
  BY <1>1 DEF vars, IInv, WatchInv, Live, Watched, Opens, At, Here
<1>2. ASSUME NEW x \in Threads, CloseFd(x) \/ FreeSlot(x) PROVE WatchInv'
  BY <1>2, WatchClose, WatchFree
<1>3. ASSUME NEW c \in Conns, NEW f \in Fds, Accept(c, f) PROVE WatchInv'
  BY <1>3, WatchAccept
<1>4. CASE Quiet /\ Next
  <2> USE Kinds DEF At, Goto, Here, table, kernel, client, IInv, TypeOK
  <2> DEFINE Frame == /\ UNCHANGED watched /\ running' \in {running, FALSE}
                      /\ Opens' <=> Opens
                      /\ Opens => slot'[Acceptor] = slot[Acceptor]
                      /\ pc'[Acceptor] = "accept" => fd[slot'[Acceptor]] = NULL
  <2>0. Frame => WatchInv'
    BY <1>4, WatchFrame
  <2>1. CASE Client
    BY <2>0, <2>1 DEF Client, WatchInv, Opens
  <2>2. ASSUME NEW x \in Threads, Closing(x) PROVE WatchInv'
    <3>1. CASE NoClient(x)
      <4>1. Opens => x # Acceptor
        BY <3>1 DEF NoClient, WatchInv, Live
      <4>2. Frame
        BY <3>1, <4>1 DEF NoClient, Return, After, WatchInv, Opens
      <4> QED BY <2>0, <4>2
    <3>2. CASE ForgetWorker(x)
      <4>1. Frame
        BY <3>2 DEF ForgetWorker, Return, After, WatchInv, Opens
      <4> QED BY <2>0, <4>1
    <3> QED BY <1>2, <2>2, <3>1, <3>2 DEF Closing
  <2>3. CASE Accepting
    <3>1. CASE AcceptGoesOn \/ AwaitConnection \/ ScanSlot
      <4>1. Frame
        BY <3>1 DEF AcceptGoesOn, AwaitConnection, ScanSlot, Opens
      <4> QED BY <2>0, <4>1
    <3>2. ASSUME NEW c \in Conns, AcceptFails(c) PROVE WatchInv'
      BY <2>0, <3>2 DEF AcceptFails, Opens
    <3>3. CASE AssignWorker \/ RegisterFails \/ RegisterCrashes
      <4>1. Frame
        BY <3>3 DEF AssignWorker, RegisterFails, RegisterCrashes, Opens
      <4> QED BY <2>0, <4>1
    <3>4. CASE Register
      BY <1>4, <3>4, WatchRegister
    <3> QED BY <1>3, <2>2, <2>3, <3>1, <3>2, <3>3, <3>4 DEF Accepting
  <2>4. ASSUME NEW w \in Workers, Working(w) PROVE WatchInv'
    <3>1. CASE CreateEpoll(w) \/ WorkerGoesOn(w)
      BY <2>0, <3>1 DEF CreateEpoll, WorkerGoesOn, WatchInv, Opens
    <3>2. CASE WorkerEnds(w)
      BY <1>4, <3>2, WatchEnds
    <3>3. CASE EpollWait(w)
      BY <2>0, <3>3 DEF EpollWait, WatchInv, Opens
    <3>4. CASE BatchEnds(w) \/ \E e \in batch[w] : TakeEvent(w, e)
      BY <2>0, <3>4 DEF BatchEnds, TakeEvent, WatchInv, Opens
    <3>5. CASE ReadHeader(w) \/ ReadFails(w) \/ Handle(w) \/ BodyCrashes(w) \/ WriteEnds(w) \/ WriteFails(w)
      BY <2>0, <3>5 DEF ReadHeader, ReadFails, Handle, BodyCrashes, WriteEnds, WriteFails, WatchInv, Opens
    <3>6. CASE ReadBody(w) \/ Answer(w)
      BY <2>0, <3>6 DEF ReadBody, Answer, WatchInv, Opens
    <3> QED BY <2>2, <2>4, <3>1, <3>2, <3>3, <3>4, <3>5, <3>6 DEF Working
  <2>5. CASE Stop
    BY <2>0, <2>5 DEF Stop, WatchInv, Opens
  <2>6. CASE Stopping
    <3>1. CASE Join \/ Shut
      BY <2>0, <3>1 DEF Join, Shut, WatchInv, Opens
    <3> QED BY <2>2, <2>6, <3>1 DEF Stopping
  <2> QED BY <1>4, <2>1, <2>3, <2>4, <2>5, <2>6 DEF Next
<1> QED BY <1>1, <1>2, <1>3, <1>4, Kind DEF IInv

(***************************************************************************)
(* What the workers have in hand.                                          *)
(***************************************************************************)

InHand(w) == pc[w] \in {"read", "handle", "body", "answer", "write", "close"}

EventOf(w) ==
  /\ \A e \in batch[w] : <<fd[e[1]], e[1]>> \in watched[w]
  /\ \A d, e \in batch[w] : d[1] = e[1] => d = e
  /\ InHand(w) => /\ <<fd[Here(w)], Here(w)>> \in watched[w]
                  /\ \A e \in batch[w] : e[1] # Here(w)

LEMMA EventOfAll == EventInv <=> \A w \in Workers : EventOf(w)
BY DEF EventInv, EventOf, InHand

(* Every slot that a worker has an event of, or is at, is live. *)
LEMMA EventIsLive ==
  ASSUME IInv, NEW w \in Workers
  PROVE  /\ \A e \in batch[w] : e[1] \in Slots /\ Live(e[1])
         /\ InHand(w) => Here(w) \in Slots /\ Live(Here(w))
<1>1. \A s \in Slots : <<fd[s], s>> \in watched[w] => Live(s)
  BY DEF IInv, WatchInv
<1>2. batch[w] \subseteq Slots \X {"in", "error"} /\ Here(w) \in Slots
  BY Kinds DEF IInv, TypeOK, Here
<1>3. EventOf(w)
  BY EventOfAll DEF IInv
<1> QED BY <1>1, <1>2, <1>3 DEF EventOf

(* Steps of others, and steps that put nothing into w's hand. *)
LEMMA EventFrame ==
  ASSUME IInv, NEW w \in Workers,
         \A s \in Slots : Live(s) => fd'[s] = fd[s],
         watched[w] \subseteq watched'[w], batch'[w] = batch[w],
         InHand(w)' => InHand(w) /\ slot'[w] = slot[w]
  PROVE  EventOf(w)'
<1>1. EventOf(w)
  BY EventOfAll DEF IInv
<1>2. \A e \in batch[w] : fd'[e[1]] = fd[e[1]]
  BY EventIsLive
<1>3. InHand(w)' => fd'[slot[w]] = fd[slot[w]]
  BY EventIsLive DEF Here
<1> QED BY <1>1, <1>2, <1>3 DEF EventOf, Here

LEMMA EventClose ==
  ASSUME IInv, NEW x \in Threads, CloseFd(x), NEW w \in Workers
  PROVE  EventOf(w)' /\ \A e \in batch[w] : e[1] # Here(x)
<1> USE DEF Here
<1> DEFINE a == slot[x]
<1>1. /\ UNCHANGED <<fd, slot, batch>> /\ pc[x] = "close" /\ pc' = [pc EXCEPT ![x] = "free"]
      /\ watched' = [v \in Workers |-> {p \in watched[v] : p[1] # fd[a]}] /\ fd[a] # NULL
  BY DEF CloseFd, At, Goto, table
<1>2. Uses(x) /\ Live(a) /\ a \in Slots
  BY <1>1, UsedIsLive DEF Uses, At
<1>3. EventOf(w)
  BY EventOfAll DEF IInv
<1>4. \A s \in Slots : Live(s) /\ fd[s] = fd[a] => s = a
  BY <1>2 DEF IInv, GivenInv
<1>5. \A e \in batch[w] : e[1] # a
  <2>1. CASE x = w
    BY <1>1, <1>3, <2>1 DEF EventOf, InHand
  <2>2. CASE x \in Workers /\ x # w
    <3>1. <<fd[a], a>> \in watched[x]
      BY <1>1, <1>2, <2>2, WorkerUses DEF At
    <3> QED BY <1>3, <2>2, <3>1 DEF EventOf, IInv, WatchInv
  <2>3. CASE x = Acceptor
    <3>1. ~Watched(a)
      BY <1>1, <1>2, <2>3, AcceptorUses DEF At
    <3> QED BY <1>3, <3>1 DEF EventOf, Watched
  <2>4. CASE x = Main
    <3>1. pc[w] = "ended"
      BY <1>1, <2>4, Kinds DEF IInv, PlaceInv, At
    <3> QED BY <3>1 DEF IInv, PlaceInv
  <2> QED BY <2>1, <2>2, <2>3, <2>4, Kinds
<1>6. InHand(w)' => InHand(w) /\ w # x /\ slot[w] # a
  <2>1. InHand(w)' => InHand(w) /\ w # x
    BY <1>1, Kinds DEF InHand, IInv, TypeOK
  <2>2. InHand(w) => Uses(w)
    BY EventIsLive DEF InHand, Uses, Live, At
  <2> QED BY <1>2, <2>1, <2>2, Apart, Kinds
<1>7. \A s \in Slots : Live(s) /\ s # a /\ <<fd[s], s>> \in watched[w] => <<fd'[s], s>> \in watched'[w]
  BY <1>1, <1>4
<1>8. \A e \in batch[w] : <<fd'[e[1]], e[1]>> \in watched'[w]
  BY <1>3, <1>5, <1>7, EventIsLive DEF EventOf
<1>9. InHand(w)' => <<fd'[slot[w]], slot[w]>> \in watched'[w]
  BY <1>3, <1>6, <1>7, EventIsLive DEF EventOf
<1> QED BY <1>1, <1>3, <1>5, <1>6, <1>8, <1>9 DEF EventOf

LEMMA EventWait ==
  ASSUME IInv, NEW w \in Workers, EpollWait(w)
  PROVE  EventOf(w)'
<1>1. PICK failed \in SUBSET {p \in Ready(w) : gone[socket[p[1]]]} :
          batch' = [batch EXCEPT ![w] = {<<p[2], IF p \in failed THEN "error" ELSE "in">> : p \in Ready(w)}]
  BY DEF EpollWait
<1>2. UNCHANGED <<fd, watched>> /\ pc'[w] = "next"
  BY Kinds DEF EpollWait, Goto, table, kernel, IInv, TypeOK
<1>3. \A p \in Ready(w) : p \in watched[w] /\ p = <<fd[p[2]], p[2]>>
  BY DEF Ready, IInv, WatchInv
<1>4. \A e \in batch'[w] : \E p \in Ready(w) : e = <<p[2], IF p \in failed THEN "error" ELSE "in">>
  BY <1>1 DEF IInv, TypeOK
<1>5. \A e \in batch'[w] : <<fd[e[1]], e[1]>> \in watched[w]
  BY <1>3, <1>4
<1>6. \A d, e \in batch'[w] : d[1] = e[1] => d = e
  BY <1>3, <1>4
<1> QED BY <1>2, <1>5, <1>6 DEF EventOf, InHand

LEMMA EventStep == IInv /\ [Next]_vars => EventInv'
<1> SUFFICES ASSUME IInv, [Next]_vars, NEW v \in Workers PROVE EventOf(v)'
  BY DEF EventInv, EventOf, InHand
<1> USE Kinds DEF At, Goto, Here, table, kernel, client, IInv, TypeOK
<1> DEFINE Frame == /\ \A s \in Slots : Live(s) => fd'[s] = fd[s]
                    /\ watched[v] \subseteq watched'[v]
                    /\ batch'[v] = batch[v]
                    /\ InHand(v)' => InHand(v) /\ slot'[v] = slot[v]
<1>0. Frame => EventOf(v)'
  BY EventFrame
<1>1. CASE UNCHANGED vars
  BY <1>0, <1>1 DEF vars, InHand
<1>2. CASE Client
  BY <1>0, <1>2 DEF Client, InHand
<1>3. ASSUME NEW x \in Threads, Closing(x) PROVE EventOf(v)'
  <2>1. CASE NoClient(x)
    BY <1>0, <2>1 DEF NoClient, Return, After, InHand
  <2>2. CASE CloseFd(x)
    BY <2>2, EventClose
  <2>3. CASE FreeSlot(x)
    BY <1>0, <2>3 DEF FreeSlot, InHand, Live
  <2>4. CASE ForgetWorker(x)
    BY <1>0, <2>4 DEF ForgetWorker, Return, After, InHand
  <2> QED BY <1>3, <2>1, <2>2, <2>3, <2>4 DEF Closing
<1>4. CASE Accepting
  <2>1. CASE AcceptGoesOn \/ AwaitConnection \/ ScanSlot
    BY <1>0, <2>1 DEF AcceptGoesOn, AwaitConnection, ScanSlot, InHand
  <2>2. ASSUME NEW c \in Conns, AcceptFails(c) PROVE EventOf(v)'
    BY <1>0, <2>2 DEF AcceptFails, InHand
  <2>3. ASSUME NEW c \in Conns, NEW f \in Fds, Accept(c, f) PROVE EventOf(v)'
    BY <1>0, <2>3 DEF Accept, InHand, WatchInv, Live
  <2>4. CASE AssignWorker \/ RegisterFails \/ RegisterCrashes
    BY <1>0, <2>4 DEF AssignWorker, RegisterFails, RegisterCrashes, InHand
  <2>5. CASE Register
    BY <1>0, <2>5 DEF Register, InHand
  <2> QED BY <1>3, <1>4, <2>1, <2>2, <2>3, <2>4, <2>5 DEF Accepting
<1>5. ASSUME NEW w \in Workers, Working(w) PROVE EventOf(v)'
  <2>1. CASE CreateEpoll(w) \/ WorkerGoesOn(w)
    BY <1>0, <2>1 DEF CreateEpoll, WorkerGoesOn, InHand
  <2>2. CASE WorkerEnds(w)
    <3>1. CASE v = w
      BY <2>2, <3>1 DEF WorkerEnds, PlaceInv, EventOf, InHand
    <3>2. CASE v # w
      BY <1>0, <2>2, <3>2 DEF WorkerEnds, InHand
    <3> QED BY <3>1, <3>2
  <2>3. CASE EpollWait(w)
    <3>1. CASE v = w
      BY <2>3, <3>1, EventWait
    <3>2. CASE v # w
      BY <1>0, <2>3, <3>2 DEF EpollWait, InHand
    <3> QED BY <3>1, <3>2
  <2>4. CASE BatchEnds(w)
    BY <1>0, <2>4 DEF BatchEnds, InHand
  <2>5. ASSUME NEW e \in batch[w], TakeEvent(w, e) PROVE EventOf(v)'
    <3>1. CASE v = w
      <4>1. EventOf(w)
        BY EventOfAll
      <4>2. /\ UNCHANGED <<fd, watched>> /\ batch'[w] = batch[w] \ {e} /\ slot'[w] = e[1]
        BY <2>5 DEF TakeEvent
      <4> QED BY <3>1, <4>1, <4>2 DEF EventOf
    <3>2. CASE v # w
      BY <1>0, <2>5, <3>2 DEF TakeEvent, InHand
    <3> QED BY <3>1, <3>2
  <2>6. CASE ReadHeader(w) \/ ReadFails(w) \/ Handle(w) \/ BodyCrashes(w) \/ WriteEnds(w) \/ WriteFails(w)
    BY <1>0, <2>6 DEF ReadHeader, ReadFails, Handle, BodyCrashes, WriteEnds, WriteFails, InHand
  <2>7. CASE ReadBody(w) \/ Answer(w)
    BY <1>0, <2>7 DEF ReadBody, Answer, InHand
  <2> QED BY <1>3, <1>5, <2>1, <2>2, <2>3, <2>4, <2>5, <2>6, <2>7 DEF Working
<1>6. CASE Stop
  BY <1>0, <1>6 DEF Stop, InHand
<1>7. CASE Stopping
  <2>1. CASE Join \/ Shut
    BY <1>0, <2>1 DEF Join, Shut, InHand
  <2> QED BY <1>3, <1>7, <2>1 DEF Stopping
<1> QED BY <1>1, <1>2, <1>4, <1>5, <1>6, <1>7 DEF Next

(***************************************************************************)
(* How far stop_server is.                                                 *)
(***************************************************************************)

LEMMA StopStep == IInv /\ [Next]_vars => StopInv'
<1> SUFFICES ASSUME IInv, [Next]_vars PROVE StopInv'
  OBVIOUS
<1> USE Kinds DEF At, Goto, Here, table, kernel, client, IInv, TypeOK
<1> DEFINE Frame == /\ \A s \in Slots : fd[s] = NULL => fd'[s] = NULL
                    /\ pc'[Main] = pc[Main] /\ slot'[Main] = slot[Main]
<1>0. Frame => StopInv'
  BY DEF StopInv
<1>1. CASE UNCHANGED vars
  BY <1>0, <1>1 DEF vars
<1>2. CASE Client
  BY <1>0, <1>2 DEF Client
<1>3. ASSUME NEW x \in Threads \ {Main}, Closing(x) PROVE StopInv'
  BY <1>0, <1>3 DEF Closing, NoClient, CloseFd, FreeSlot, ForgetWorker, Return, After
<1>4. CASE Accepting
  <2>1. CASE AcceptGoesOn \/ AwaitConnection \/ ScanSlot
    BY <1>0, <2>1 DEF AcceptGoesOn, AwaitConnection, ScanSlot
  <2>2. ASSUME NEW c \in Conns, AcceptFails(c) PROVE StopInv'
    BY <1>0, <2>2 DEF AcceptFails
  <2>3. ASSUME NEW c \in Conns, NEW f \in Fds, Accept(c, f) PROVE StopInv'
    BY <2>3 DEF Accept, PlaceInv, StopInv
  <2>4. CASE AssignWorker \/ Register \/ RegisterFails \/ RegisterCrashes
    BY <1>0, <2>4 DEF AssignWorker, Register, RegisterFails, RegisterCrashes
  <2> QED BY <1>3, <1>4, <2>1, <2>2, <2>3, <2>4 DEF Accepting
<1>5. ASSUME NEW w \in Workers, Working(w) PROVE StopInv'
  <2>1. CASE CreateEpoll(w) \/ WorkerGoesOn(w) \/ WorkerEnds(w)
    BY <1>0, <2>1 DEF CreateEpoll, WorkerGoesOn, WorkerEnds
  <2>2. CASE EpollWait(w)
    BY <1>0, <2>2 DEF EpollWait
  <2>3. CASE BatchEnds(w) \/ \E e \in batch[w] : TakeEvent(w, e)
    BY <1>0, <2>3 DEF BatchEnds, TakeEvent
  <2>4. CASE ReadHeader(w) \/ ReadFails(w) \/ Handle(w) \/ BodyCrashes(w) \/ WriteEnds(w) \/ WriteFails(w)
    BY <1>0, <2>4 DEF ReadHeader, ReadFails, Handle, BodyCrashes, WriteEnds, WriteFails
  <2>5. CASE ReadBody(w) \/ Answer(w)
    BY <1>0, <2>5 DEF ReadBody, Answer
  <2> QED BY <1>3, <1>5, <2>1, <2>2, <2>3, <2>4, <2>5 DEF Working
<1>6. CASE Stop
  BY <1>6 DEF Stop, StopInv
<1>7. CASE Stopping
  <2>1. CASE Join
    BY <2>1 DEF Join, StopInv, Slots
  <2>2. CASE Shut
    BY <2>2 DEF Shut, StopInv
  <2>3. CASE CloseFd(Main)
    BY <2>3 DEF CloseFd, StopInv
  <2>4. CASE FreeSlot(Main)
    BY <2>4 DEF FreeSlot, StopInv
  <2>5. CASE NoClient(Main) \/ ForgetWorker(Main)
    <3>1. /\ UNCHANGED fd /\ pc[Main] \in {"close", "forget"} /\ fd[slot[Main]] = NULL
          /\ pc'[Main] = IF slot[Main] + 1 \in Slots THEN "close" ELSE "shut"
          /\ slot'[Main] = IF slot[Main] + 1 \in Slots THEN slot[Main] + 1 ELSE slot[Main]
      BY <2>5 DEF NoClient, ForgetWorker, Return, After, StopInv
    <3>2. \A s \in Slots : s <= slot[Main] => fd[s] = NULL
      BY <3>1, ServerAssumption DEF StopInv, Slots
    <3> QED BY <3>1, <3>2, ServerAssumption DEF StopInv, Slots
  <2> QED BY <1>7, <2>1, <2>2, <2>3, <2>4, <2>5 DEF Stopping, Closing
<1> QED BY <1>1, <1>2, <1>4, <1>5, <1>6, <1>7 DEF Next

(***************************************************************************)
(* Why a worker closes its client.                                         *)
(***************************************************************************)

CauseOf(w) ==
  /\ \A e \in batch[w] : e[2] = "error" => gone[given[e[1]]]
  /\ At(w, "close") => Cause(Here(w))

LEMMA CauseOfAll == CauseInv <=> \A w \in Workers : CauseOf(w)
BY DEF CauseInv, CauseOf

(* The slots that a worker has in hand have been given a connection. *)
LEMMA EventIsGiven ==
  ASSUME IInv, NEW w \in Workers
  PROVE  /\ \A e \in batch[w] : e[1] \in Slots /\ given[e[1]] \in Conns
                                /\ state[given[e[1]]] \in {"open", "closed"}
         /\ InHand(w) => Here(w) \in Slots /\ given[Here(w)] \in Conns
                         /\ state[given[Here(w)]] \in {"open", "closed"}
<1>1. \A s \in Slots : Live(s) => given[s] \in Conns /\ state[given[s]] \in {"open", "closed"}
  BY DEF IInv, TypeOK, GivenInv
<1> QED BY <1>1, EventIsLive

LEMMA CauseFrame ==
  ASSUME IInv, CauseInv, NEW w \in Workers,
         \A s \in Slots : Live(s) => given'[s] = given[s] /\ worker'[s] \in {worker[s], NULL},
         \A c \in Conns : state[c] \in {"open", "closed"} /\ gone[c] => gone'[c],
         batch'[w] = batch[w],
         At(w, "close")' => At(w, "close") /\ slot'[w] = slot[w]
  PROVE  CauseOf(w)'
<1> USE DEF At, Here
<1>1. CauseOf(w)
  BY CauseOfAll
<1>2. \A e \in batch[w] : gone[given[e[1]]] => gone'[given'[e[1]]]
  BY EventIsGiven, EventIsLive
<1>3. At(w, "close") /\ Cause(slot[w]) => gone'[given'[slot[w]]] \/ worker'[slot[w]] = NULL
  BY EventIsGiven, EventIsLive DEF InHand, Cause
<1> QED BY <1>1, <1>2, <1>3 DEF CauseOf, Cause

LEMMA CauseClose ==
  ASSUME IInv, CauseInv, NEW x \in Threads, CloseFd(x), NEW w \in Workers
  PROVE  CauseOf(w)'
<1> USE DEF Here
<1> DEFINE a == slot[x]
<1>1. /\ UNCHANGED <<worker, given, slot, batch>> /\ pc[x] = "close" /\ pc' = [pc EXCEPT ![x] = "free"]
      /\ gone' = [c \in Conns |-> gone[c] /\ c # Peer(x)]
  BY DEF CloseFd, At, Goto, table
<1>2. Uses(x) /\ a \in Slots /\ Peer(x) = given[a] /\ Peer(x) \in Conns
  <2>1. Uses(x)
    BY DEF CloseFd, Uses
  <2> QED BY <1>1, <2>1, UsedIsLive DEF At
<1>3. \A s \in Slots : given[s] = given[a] => s = a
  BY <1>2, Kinds DEF IInv, GivenInv
<1>4. \A s \in Slots : s # a /\ given[s] \in Conns /\ gone[given[s]] => gone'[given[s]]
  BY <1>1, <1>2, <1>3 DEF IInv, TypeOK
<1>5. CauseOf(w)
  BY CauseOfAll
<1>6. \A e \in batch[w] : e[2] = "error" => gone'[given[e[1]]]
  BY <1>4, <1>5, EventClose, EventIsGiven DEF CauseOf
<1>7. pc'[w] = "close" => pc[w] = "close" /\ slot[w] # a
  <2>1. pc'[w] = "close" => pc[w] = "close" /\ w # x
    BY <1>1, Kinds DEF IInv, TypeOK
  <2>2. pc[w] = "close" => Uses(w)
    BY EventIsLive DEF InHand, Uses, Live, At
  <2> QED BY <1>2, <2>1, <2>2, Apart, Kinds
<1>8. pc'[w] = "close" => gone'[given[slot[w]]] \/ worker[slot[w]] = NULL
  BY <1>4, <1>5, <1>7, EventIsGiven DEF CauseOf, Cause, InHand, At
<1> QED BY <1>1, <1>6, <1>8 DEF CauseOf, Cause, At

(* A worker that goes from its slot to close. *)
LEMMA CauseFails ==
  ASSUME IInv, CauseInv, NEW w \in Workers, InHand(w), ~At(w, "close"),
         UNCHANGED <<worker, given, gone, batch, slot>>,
         Lost(w) \/ worker[Here(w)] = NULL
  PROVE  CauseOf(w)'
<1>1. CauseOf(w)
  BY CauseOfAll
<1>2. Uses(w) /\ ~At(w, "free")
  BY DEF InHand, Uses, At
<1>3. Peer(w) = given[Here(w)] /\ Peer(w) \in Conns
  BY <1>2, UsedIsLive, Kinds
<1>4. Cause(Here(w))
  BY <1>3, Kinds DEF Cause, Lost
<1> QED BY <1>1, <1>4 DEF CauseOf, Cause, Here

LEMMA CauseWait ==
  ASSUME IInv, NEW w \in Workers, EpollWait(w)
  PROVE  CauseOf(w)'
<1>1. PICK failed \in SUBSET {p \in Ready(w) : gone[socket[p[1]]]} :
          batch' = [batch EXCEPT ![w] = {<<p[2], IF p \in failed THEN "error" ELSE "in">> : p \in Ready(w)}]
  BY DEF EpollWait
<1>2. UNCHANGED <<given, gone>> /\ pc'[w] = "next"
  BY Kinds DEF EpollWait, Goto, client, IInv, TypeOK
<1>3. \A p \in Ready(w) : p[2] \in Slots /\ Live(p[2]) /\ p[1] = fd[p[2]]
  BY DEF Ready, IInv, WatchInv
<1>4. \A p \in Ready(w) : socket[p[1]] = given[p[2]]
  BY <1>3 DEF IInv, GivenInv
<1>5. \A e \in batch'[w] : \E p \in Ready(w) : e = <<p[2], IF p \in failed THEN "error" ELSE "in">>
  BY <1>1 DEF IInv, TypeOK
<1>6. \A p \in failed : gone[given[p[2]]]
  BY <1>4
<1>7. \A e \in batch'[w] : e[2] = "error" => gone[given[e[1]]]
  BY <1>5, <1>6
<1> QED BY <1>2, <1>7 DEF CauseOf, At

LEMMA CauseStep == IInv /\ CauseInv /\ [Next]_vars => CauseInv'
<1> SUFFICES ASSUME IInv, CauseInv, [Next]_vars, NEW v \in Workers PROVE CauseOf(v)'
  BY DEF CauseInv, CauseOf
<1> USE Kinds DEF Goto, Here, table, kernel, client, IInv, TypeOK
<1> DEFINE Frame ==
      /\ \A s \in Slots : Live(s) => given'[s] = given[s] /\ worker'[s] \in {worker[s], NULL}
      /\ \A c \in Conns : state[c] \in {"open", "closed"} /\ gone[c] => gone'[c]
      /\ batch'[v] = batch[v]
      /\ At(v, "close")' => At(v, "close") /\ slot'[v] = slot[v]
<1>0. Frame => CauseOf(v)'
  BY CauseFrame
<1>1. CASE UNCHANGED vars
  BY <1>0, <1>1 DEF vars, At
<1>2. CASE Client
  BY <1>0, <1>2 DEF Client, Connect, Send, HangUp, At
<1>3. ASSUME NEW x \in Threads, Closing(x) PROVE CauseOf(v)'
  <2>1. CASE NoClient(x)
    <3>1. x = v => Live(slot[v])
      BY <2>1, EventIsLive DEF NoClient, At, InHand
    <3>2. x # v
      BY <2>1, <3>1 DEF NoClient, Live
    <3> QED BY <1>0, <2>1, <3>2 DEF NoClient, Return, After, At
  <2>2. CASE CloseFd(x)
    BY <2>2, CauseClose
  <2>3. CASE FreeSlot(x)
    BY <1>0, <2>3 DEF FreeSlot, At
  <2>4. CASE ForgetWorker(x)
    BY <1>0, <2>4 DEF ForgetWorker, Return, After, At
  <2> QED BY <1>3, <2>1, <2>2, <2>3, <2>4 DEF Closing
<1>4. CASE Accepting
  <2>1. CASE AcceptGoesOn \/ AwaitConnection \/ ScanSlot
    BY <1>0, <2>1 DEF AcceptGoesOn, AwaitConnection, ScanSlot, At
  <2>2. ASSUME NEW c \in Conns, AcceptFails(c) PROVE CauseOf(v)'
    BY <1>0, <2>2 DEF AcceptFails, At
  <2>3. ASSUME NEW c \in Conns, NEW f \in Fds, Accept(c, f) PROVE CauseOf(v)'
    <3>1. ~Live(slot[Acceptor])
      BY <2>3 DEF Accept, WatchInv, Live
    <3> QED BY <1>0, <2>3, <3>1 DEF Accept, At
  <2>4. CASE AssignWorker
    <3>1. /\ UNCHANGED <<given, gone, batch, slot>> /\ pc[Acceptor] = "assign" /\ pc'[v] = pc[v]
          /\ worker' = [worker EXCEPT ![slot[Acceptor]] = turn] /\ fd' = fd
      BY <2>4 DEF AssignWorker, At
    <3>2. ~Watched(slot[Acceptor])
      BY <3>1 DEF WatchInv, Opens
    <3>3. pc[v] = "close" => slot[v] # slot[Acceptor]
      BY <3>2 DEF EventInv, Watched
    <3>4. CauseOf(v)
      BY CauseOfAll
    <3> QED BY <3>1, <3>3, <3>4 DEF CauseOf, Cause, At
  <2>5. CASE Register \/ RegisterFails \/ RegisterCrashes
    BY <1>0, <2>5 DEF Register, RegisterFails, RegisterCrashes, At
  <2> QED BY <1>3, <1>4, <2>1, <2>2, <2>3, <2>4, <2>5 DEF Accepting
<1>5. ASSUME NEW w \in Workers, Working(w) PROVE CauseOf(v)'
  <2>1. CASE CreateEpoll(w) \/ WorkerGoesOn(w) \/ WorkerEnds(w)
    BY <1>0, <2>1 DEF CreateEpoll, WorkerGoesOn, WorkerEnds, At
  <2>2. CASE EpollWait(w)
    <3>1. CASE v = w
      BY <2>2, <3>1, CauseWait
    <3>2. CASE v # w
      BY <1>0, <2>2, <3>2 DEF EpollWait, At
    <3> QED BY <3>1, <3>2
  <2>3. CASE BatchEnds(w)
    BY <1>0, <2>3 DEF BatchEnds, At
  <2>4. ASSUME NEW e \in batch[w], TakeEvent(w, e) PROVE CauseOf(v)'
    <3>1. CASE v = w
      <4>1. CauseOf(w)
        BY CauseOfAll
      <4>2. /\ UNCHANGED <<given, gone>> /\ batch'[w] = batch[w] \ {e} /\ slot'[w] = e[1]
            /\ pc'[w] = "close" => e[2] # "in"
        BY <2>4 DEF TakeEvent
      <4>3. e[2] \in {"in", "error"}
        BY <2>4
      <4> QED BY <3>1, <4>1, <4>2, <4>3 DEF CauseOf, Cause, At
    <3>2. CASE v # w
      BY <1>0, <2>4, <3>2 DEF TakeEvent, At
    <3> QED BY <3>1, <3>2
  <2>5. CASE ReadHeader(w) \/ BodyCrashes(w) \/ WriteEnds(w)
    BY <1>0, <2>5 DEF ReadHeader, BodyCrashes, WriteEnds, At
  <2>6. CASE ReadBody(w) \/ Answer(w)
    BY <1>0, <2>6 DEF ReadBody, Answer, At
  <2>7. CASE ReadFails(w) \/ Handle(w) \/ WriteFails(w)
    <3>1. CASE v = w /\ At(v, "close")'
      BY <2>7, <3>1, CauseFails DEF ReadFails, Handle, WriteFails, InHand, At
    <3>2. CASE v # w \/ ~At(v, "close")'
      BY <1>0, <2>7, <3>2 DEF ReadFails, Handle, WriteFails, At
    <3> QED BY <3>1, <3>2
  <2> QED BY <1>3, <1>5, <2>1, <2>2, <2>3, <2>4, <2>5, <2>6, <2>7 DEF Working
<1>6. CASE Stop
  BY <1>0, <1>6 DEF Stop, At
<1>7. CASE Stopping
  <2>1. CASE Join
    BY <1>0, <2>1 DEF Join, At
  <2>2. CASE Shut
    <3>1. batch'[v] = {} /\ pc'[v] = "ended"
      BY <2>2 DEF Shut, PlaceInv, At
    <3> QED BY <3>1 DEF CauseOf, At
  <2> QED BY <1>3, <1>7, <2>1, <2>2 DEF Stopping
<1> QED BY <1>1, <1>2, <1>4, <1>5, <1>6, <1>7 DEF Next

(***************************************************************************)
(* The theorems.                                                           *)
(***************************************************************************)

LEMMA InitIInv == Init => IInv /\ CauseInv
<1> SUFFICES ASSUME Init PROVE IInv /\ CauseInv
  OBVIOUS
<1> USE Kinds DEF Init, At, Here
<1>1. TypeOK
  <2>1. 0 \in Workers
    BY ServerAssumption DEF Workers
  <2>2. pc \in [Threads -> Labels] /\ batch \in [Workers -> SUBSET (Slots \X {"in", "error"})]
    BY DEF Labels
  <2> QED BY <2>1, <2>2 DEF TypeOK
<1>2. PlaceInv
  BY DEF PlaceInv
<1>3. GivenInv /\ WatchInv
  BY DEF GivenInv, WatchInv, Live, Watched, Opens
<1>4. EventInv /\ FreeInv /\ StopInv /\ CauseInv
  BY DEF EventInv, FreeInv, StopInv, CauseInv
<1> QED BY <1>1, <1>2, <1>3, <1>4 DEF IInv

(* The slots are handed from thread to thread, and whoever closes one has a *)
(* cause: the invariant that the theorems below rest on.                    *)
THEOREM Invariance == Spec => [](IInv /\ CauseInv)
<1>1. IInv /\ CauseInv /\ [Next]_vars => (IInv /\ CauseInv)'
  BY TypeStep, PlaceStep, GivenStep, WatchStep, EventStep, FreeStep, StopStep, CauseStep DEF IInv
<1> QED BY <1>1, InitIInv, PTL DEF Spec

(* Every variable of the threads and the kernel stays within its type: the *)
(* round of turns, the events and the descriptors in the table             *)
(* (server.c:139, 147, 158).                                               *)
THEOREM TypeCorrect == Spec => []TypeOK
<1>1. IInv => TypeOK
  BY DEF IInv
<1> QED BY <1>1, Invariance, PTL

(* No two threads use one slot of the table, and the descriptor in it is   *)
(* that of the connection it was given, for as long as one uses it         *)
(* (close_client, wait_for_new_connection and the workers).                *)
THEOREM SlotsAreOwned == Spec => []OwnConnection
<1>1. ASSUME IInv PROVE OwnConnection
  <2>1. ASSUME NEW x \in Threads, Uses(x), ~At(x, "free")
        PROVE  Peer(x) # NULL /\ Peer(x) = given[Here(x)]
    BY <1>1, <2>1, UsedIsLive, Kinds
  <2>2. ASSUME NEW x \in Threads, Uses(x), NEW y \in Threads \ {x}, Uses(y), Here(y) = Here(x)
        PROVE  FALSE
    BY <1>1, <2>2, Apart
  <2> QED BY <2>1, <2>2 DEF OwnConnection
<1> QED BY <1>1, Invariance, PTL

(* Every open connection is in exactly one slot, which while the server    *)
(* runs is watched by exactly one worker or is in the hands of a thread,   *)
(* and stop_server leaves none open.                                       *)
THEOREM ConnectionsAreKept == Spec => []NothingForgotten
<1>1. ASSUME IInv PROVE NothingForgotten
  <2>1. ASSUME NEW f \in Fds, socket[f] # NULL
        PROVE  /\ Cardinality({s \in Slots : fd[s] = f /\ given[s] = socket[f]}) = 1
               /\ ~At(Main, "shut") /\ ~At(Main, "ended")
    <3>1. PICK s \in Slots : Live(s) /\ fd[s] = f
      BY <1>1, <2>1 DEF IInv, GivenInv
    <3>2. given[s] = socket[f]
      BY <1>1, <3>1 DEF IInv, GivenInv
    <3>3. {r \in Slots : fd[r] = f /\ given[r] = socket[f]} = {s}
      BY <1>1, <2>1, <3>1, <3>2 DEF IInv, GivenInv
    <3>4. ~At(Main, "shut") /\ ~At(Main, "ended")
      BY <1>1, <3>1 DEF IInv, StopInv, Live, At
    <3> QED BY <3>3, <3>4, FS_Singleton
  <2>2. ASSUME NEW s \in Slots, fd[s] # NULL, running
        PROVE  \/ Cardinality({w \in Workers : <<fd[s], s>> \in watched[w]}) = 1
               \/ \E x \in Threads : Here(x) = s /\ pc[x] \in {"assign", "register", "close", "free"}
    <3>1. CASE ~Live(s)
      BY <2>2, <3>1 DEF Live, At
    <3>2. CASE Opens /\ Here(Acceptor) = s
      BY <3>2, Kinds DEF Opens
    <3>3. CASE Live(s) /\ ~(Opens /\ Here(Acceptor) = s)
      <4>1. PICK w \in Workers : <<fd[s], s>> \in watched[w]
        BY <1>1, <2>2, <3>3 DEF IInv, WatchInv, Watched
      <4>2. {v \in Workers : <<fd[s], s>> \in watched[v]} = {w}
        BY <1>1, <4>1 DEF IInv, WatchInv
      <4> QED BY <4>2, FS_Singleton
    <3> QED BY <3>1, <3>2, <3>3
  <2> QED BY <2>1, <2>2 DEF NothingForgotten
<1> QED BY <1>1, Invariance, PTL

(* Only close_client closes an open connection. *)
LEMMA OnlyCloseFd ==
  ASSUME IInv, Next, NEW c \in Conns, state[c] = "open", state'[c] = "closed"
  PROVE  \E x \in Threads : CloseFd(x) /\ c = Peer(x)
<1>1. ~Quiet
  BY DEF Quiet
<1>2. ASSUME NEW d \in Conns, NEW f \in Fds, Accept(d, f) PROVE FALSE
  BY <1>2 DEF Accept, IInv, TypeOK
<1>3. ASSUME NEW x \in Threads, FreeSlot(x) PROVE FALSE
  BY <1>3 DEF FreeSlot, client
<1>4. PICK x \in Threads : CloseFd(x)
  BY <1>1, <1>2, <1>3, Kind DEF IInv
<1> QED BY <1>4 DEF CloseFd

LEMMA Causes == IInv /\ CauseInv /\ [Next]_vars => ClosesForCause
<1> SUFFICES ASSUME IInv, CauseInv, [Next]_vars,
                    NEW c \in Conns, state[c] = "open", state'[c] = "closed"
             PROVE  \/ gone[c] \/ ~running
                    \/ \E s \in Slots : /\ given[s] = c
                                        /\ \/ worker[s] = NULL
                                           \/ At(Acceptor, "close") /\ Here(Acceptor) = s
  BY DEF ClosesForCause
<1>1. PICK x \in Threads : CloseFd(x) /\ c = Peer(x)
  BY OnlyCloseFd DEF vars
<1>2. At(x, "close") /\ Uses(x)
  BY <1>1 DEF CloseFd, Uses
<1>3. Here(x) \in Slots /\ c = given[Here(x)]
  BY <1>1, <1>2, UsedIsLive DEF At
<1>4. CASE x \in Workers
  <2>1. Cause(Here(x))
    BY <1>2, <1>4 DEF CauseInv
  <2> QED BY <1>3, <2>1 DEF Cause
<1>5. CASE x = Acceptor
  BY <1>2, <1>3, <1>5
<1>6. CASE x = Main
  BY <1>2, <1>6 DEF IInv, PlaceInv, At
<1> QED BY <1>4, <1>5, <1>6, Kinds

(* A connection is closed because its client has hung up, the server stops,*)
(* it could not be registered, or its slot has lost its worker to the      *)
(* thread that freed the slot before (server.c:413-415): never otherwise.  *)
THEOREM ClosedForCause == Spec => OnlyForCause
<1>1. IInv /\ CauseInv /\ [Next]_vars => [ClosesForCause]_vars
  BY Causes
<1> QED BY <1>1, Invariance, PTL DEF Spec, OnlyForCause
=============================================================================
