--------------------------- MODULE LogQueueProofs ---------------------------
(***************************************************************************)
(* Proofs about LogQueue for every number of workers, every size of a ring *)
(* and every kind of entry: the ring is a bounded queue.                   *)
(***************************************************************************)
EXTENDS LogQueue, TLAPS

(***************************************************************************)
(* Going round the ring.                                                   *)
(***************************************************************************)

LEMMA Wrap ==
  /\ \A n \in 0 .. Size - 1 : n % Size = n
  /\ \A n \in Size .. 2 * Size - 1 : n % Size = n - Size
BY LogAssumption

LEMMA NextIndex ==
  \A i \in Index : (i + 1) % Size = IF i = Size - 1 THEN 0 ELSE i + 1
BY Wrap, LogAssumption DEF Index

LEMMA NextStays == \A i \in Index : (i + 1) % Size \in Index
BY NextIndex, LogAssumption DEF Index

(* Where the i-th entry of a queue is. *)
LEMMA PlaceOf ==
  ASSUME NEW r \in Index, NEW i \in 1 .. Size
  PROVE  (r + i - 1) % Size = IF r + i - 1 < Size THEN r + i - 1 ELSE r + i - 1 - Size
BY Wrap, LogAssumption DEF Index

(* How many entries lie between the two positions. *)
LEMMA Between ==
  ASSUME NEW r \in Index, NEW v \in Index
  PROVE  (v + Size - r) % Size = IF v >= r THEN v - r ELSE v + Size - r
<1>1. v + Size - r \in 1 .. 2 * Size - 1
  BY LogAssumption DEF Index
<1> QED BY <1>1, Wrap, LogAssumption DEF Index

LEMMA UsedIs ==
  ASSUME TypeOK, NEW w \in Workers
  PROVE  Used(w) = IF write[w] >= read[w] THEN write[w] - read[w]
                   ELSE write[w] + Size - read[w]
BY Between DEF TypeOK, Used

(***************************************************************************)
(* The inductive invariant.                                                *)
(***************************************************************************)

LEMMA InitIInv == Init => IInv
<1>1. 0 \in Index /\ 0 \in Workers /\ Loads \subseteq [Workers -> SUBSET Entries]
  BY LogAssumption, LoadsAssumption DEF Index, Workers
<1>2. Blank \in Raw
  BY DEF Blank, Raw
<1> SUFFICES ASSUME Init PROVE IInv
  OBVIOUS
<1>3. TypeOK
  BY <1>1, <1>2 DEF Init, TypeOK
<1>4. WorkerInv /\ LoggerInv
  BY DEF Init, WorkerInv, LoggerInv
<1> QED BY <1>3, <1>4 DEF IInv

LEMMA TypeStep == IInv /\ [Next]_vars => TypeOK'
<1> SUFFICES ASSUME IInv, [Next]_vars PROVE TypeOK'
  OBVIOUS
<1> USE NextStays DEF IInv, TypeOK, worker, logger
<1>0. Blank \in Raw
  BY DEF Blank, Raw
<1>l. logged' \in [Workers -> SUBSET Entries]
  BY DEF Next, vars
<1>1. CASE UNCHANGED vars
  BY <1>1 DEF vars
<1>2. ASSUME NEW w \in Workers, Refuse(w) PROVE TypeOK'
  BY <1>l, <1>2 DEF Refuse
<1>3. ASSUME NEW w \in Workers, NEW e \in logged[w], Enqueue(w, e) PROVE TypeOK'
  <2>1. e \in Raw
    BY <1>3 DEF Entries, Raw
  <2> QED BY <1>l, <1>3, <2>1 DEF Enqueue
<1>4. ASSUME NEW w \in Workers, NEW n \in {1, 2}, NEW here,
             NEW next \in {"second", "publish"}, CopyIn(w, n, here, next)
      PROVE  TypeOK'
  <2>1. arg[w][n] \in Data \cup {None} /\ write[w] \in Index
    BY DEF Raw
  <2>2. [elems[w][write[w]] EXCEPT ![n] = arg[w][n]] \in Raw
    BY <2>1 DEF Raw
  <2>3. elems' \in [Workers -> [Index -> Raw]]
    BY <1>4, <2>1, <2>2 DEF CopyIn
  <2> QED BY <1>l, <1>4, <2>3 DEF CopyIn
<1>5. ASSUME NEW w \in Workers, Publish(w) PROVE TypeOK'
  BY <1>l, <1>0, <1>5 DEF Publish
<1>6. ASSUME NEW w \in Workers, Stop(w) PROVE TypeOK'
  BY <1>l, <1>6 DEF Stop
<1>7. CASE Flush
  BY <1>l, <1>7, LogAssumption DEF Flush, Workers
<1>8. CASE QueueEmpty
  BY <1>l, <1>8, LogAssumption DEF QueueEmpty, Workers
<1>9. CASE Dequeue
  BY <1>l, <1>9 DEF Dequeue
<1>10. ASSUME NEW n \in {1, 2}, NEW here, NEW next \in {"second", "advance"},
              CopyOut(n, here, next)
       PROVE  TypeOK'
  BY <1>l, <1>10 DEF CopyOut, Raw
<1>11. CASE Advance
  BY <1>l, <1>11 DEF Advance
<1>12. CASE PrintEntry
  BY <1>l, <1>0, <1>12 DEF PrintEntry
<1>13. CASE End
  BY <1>l, <1>13 DEF End
<1>14. CASE Interrupt
  BY <1>l, <1>14 DEF Interrupt
<1>15. CASE OpenLog \/ OpenFails
  BY <1>l, <1>15 DEF OpenLog, OpenFails
<1> QED
  BY <1>1, <1>2, <1>3, <1>4, <1>5, <1>6, <1>7, <1>8, <1>9, <1>10, <1>11, <1>12, <1>13, <1>14, <1>15
     DEF Next, Work, Log

LEMMA WorkerStep == IInv /\ [Next]_vars => WorkerInv'
<1> SUFFICES ASSUME IInv, [Next]_vars PROVE WorkerInv'
  OBVIOUS
<1> USE DEF IInv, TypeOK, WorkerInv, LoggerInv, Full, worker, logger, Raw
<1>1. CASE UNCHANGED vars
  BY <1>1 DEF vars
<1>2. ASSUME NEW w \in Workers, Refuse(w) PROVE WorkerInv'
  BY <1>2 DEF Refuse
<1>3. ASSUME NEW w \in Workers, NEW e \in logged[w], Enqueue(w, e) PROVE WorkerInv'
  BY <1>3 DEF Enqueue
<1>4. ASSUME NEW w \in Workers, CopyIn(w, 1, "first", "second") PROVE WorkerInv'
  BY <1>4 DEF CopyIn
<1>5. ASSUME NEW w \in Workers, CopyIn(w, 2, "second", "publish") PROVE WorkerInv'
  BY <1>5 DEF CopyIn
<1>6. ASSUME NEW w \in Workers, Publish(w) PROVE WorkerInv'
  BY <1>6 DEF Publish
<1>7. ASSUME NEW w \in Workers, Stop(w) PROVE WorkerInv'
  BY <1>7 DEF Stop
<1>8. CASE Flush
  BY <1>8 DEF Flush
<1>9. CASE QueueEmpty
  BY <1>9 DEF QueueEmpty
<1>10. CASE Dequeue
  BY <1>10 DEF Dequeue
<1>11. CASE CopyOut(1, "first", "second")
  BY <1>11 DEF CopyOut
<1>12. CASE CopyOut(2, "second", "advance")
  BY <1>12 DEF CopyOut
<1>13. CASE Advance
  BY <1>13, NextIndex, LogAssumption DEF Advance, Index
<1>14. CASE PrintEntry
  BY <1>14 DEF PrintEntry
<1>15. CASE End
  BY <1>15 DEF End
<1>16. CASE Interrupt
  BY <1>16 DEF Interrupt
<1>17. CASE OpenLog \/ OpenFails
  BY <1>17 DEF OpenLog, OpenFails
<1> QED
  BY <1>1, <1>2, <1>3, <1>4, <1>5, <1>6, <1>7, <1>8, <1>9, <1>10, <1>11, <1>12, <1>13, <1>14,
     <1>15, <1>16, <1>17
     DEF Next, Work, Log

LEMMA LoggerStep == IInv /\ [Next]_vars => LoggerInv'
<1> SUFFICES ASSUME IInv, [Next]_vars PROVE LoggerInv'
  OBVIOUS
<1> USE DEF IInv, TypeOK, WorkerInv, LoggerInv, Full, worker, logger, Raw
<1>1. CASE UNCHANGED vars
  BY <1>1 DEF vars
<1>2. ASSUME NEW w \in Workers, Refuse(w) PROVE LoggerInv'
  BY <1>2 DEF Refuse
<1>3. ASSUME NEW w \in Workers, NEW e \in logged[w], Enqueue(w, e) PROVE LoggerInv'
  BY <1>3 DEF Enqueue
<1>4. ASSUME NEW w \in Workers, CopyIn(w, 1, "first", "second") PROVE LoggerInv'
  BY <1>4 DEF CopyIn
<1>5. ASSUME NEW w \in Workers, CopyIn(w, 2, "second", "publish") PROVE LoggerInv'
  BY <1>5 DEF CopyIn
<1>6. ASSUME NEW w \in Workers, Publish(w) PROVE LoggerInv'
  BY <1>6, NextIndex, LogAssumption DEF Publish, Index
<1>7. ASSUME NEW w \in Workers, Stop(w) PROVE LoggerInv'
  BY <1>7 DEF Stop
<1>8. CASE Flush
  BY <1>8 DEF Flush
<1>9. CASE QueueEmpty
  BY <1>9 DEF QueueEmpty
<1>10. CASE Dequeue
  BY <1>10 DEF Dequeue
<1>11. CASE CopyOut(1, "first", "second")
  BY <1>11 DEF CopyOut
<1>12. CASE CopyOut(2, "second", "advance")
  BY <1>12 DEF CopyOut
<1>13. CASE Advance
  BY <1>13 DEF Advance
<1>14. CASE PrintEntry
  BY <1>14 DEF PrintEntry
<1>15. CASE End
  BY <1>15 DEF End
<1>16. CASE Interrupt
  BY <1>16 DEF Interrupt
<1>17. CASE OpenLog \/ OpenFails
  BY <1>17 DEF OpenLog, OpenFails
<1> QED
  BY <1>1, <1>2, <1>3, <1>4, <1>5, <1>6, <1>7, <1>8, <1>9, <1>10, <1>11, <1>12, <1>13, <1>14,
     <1>15, <1>16, <1>17
     DEF Next, Work, Log

(* The inductive invariant holds in every reachable state.                 *)
THEOREM Invariance == Spec => []IInv
<1>1. IInv /\ [Next]_vars => IInv'
  BY TypeStep, WorkerStep, LoggerStep DEF IInv
<1> QED BY <1>1, InitIInv, PTL DEF Spec

(* Both positions of every ring stay inside it (log.c:53,69).              *)
THEOREM TypeCorrect == Spec => []TypeOK
<1>1. IInv => TypeOK
  BY DEF IInv
<1> QED BY <1>1, Invariance, PTL

(* The copies of log.c:51 and log.c:67 never touch the same slot at the    *)
(* same time: the writer's slot is the empty one, and the reader is not    *)
(* there because the ring is not empty for it.                             *)
THEOREM NoDataRace == Spec => []CopiesApart
<1>1. ASSUME IInv, wpc[id] \in {"first", "second"}, lpc \in {"first", "second"}
      PROVE  write[id] # read[id]
  BY <1>1 DEF IInv, LoggerInv
<1>2. IInv => CopiesApart
  BY <1>1 DEF CopiesApart
<1> QED BY <1>2, Invariance, PTL

(***************************************************************************)
(* The ring is a bounded queue.                                            *)
(***************************************************************************)

LEMMA SeqIsFunction ==
  ASSUME NEW S, NEW s \in Seq(S), NEW n, Len(s) = n
  PROVE  s = [i \in 1 .. n |-> s[i]]
OBVIOUS

LEMMA UsedRange == ASSUME TypeOK, NEW w \in Workers PROVE Used(w) \in 0 .. Size - 1
<1>1. write[w] \in Index /\ read[w] \in Index
  BY DEF TypeOK
<1> QED BY <1>1, UsedIs, LogAssumption DEF Index

(* The slot that is written next is not part of the queue. *)
LEMMA PlaceUsed ==
  ASSUME TypeOK, NEW w \in Workers, NEW i \in 1 .. Used(w)
  PROVE  /\ (read[w] + i - 1) % Size \in Index
         /\ (read[w] + i - 1) % Size # write[w]
<1>1. write[w] \in Index /\ read[w] \in Index
  BY DEF TypeOK
<1>2. i \in 1 .. Size
  BY UsedRange, LogAssumption
<1> QED BY <1>1, <1>2, UsedIs, PlaceOf, LogAssumption DEF Index

LEMMA ContentsSeq ==
  ASSUME TypeOK, NEW w \in Workers
  PROVE  Contents(w) \in Seq(Raw) /\ Len(Contents(w)) = Used(w)
<1>1. \A i \in 1 .. Used(w) : elems[w][(read[w] + i - 1) % Size] \in Raw
  BY PlaceUsed DEF TypeOK
<1> QED BY <1>1, UsedRange DEF Contents

(* A step that moves neither position and writes at most the slot at write *)
(* leaves the queue as it is.                                              *)
LEMMA ContentsKept ==
  ASSUME TypeOK, NEW w \in Workers, read'[w] = read[w], write'[w] = write[w],
         \A i \in Index : i # write[w] => elems'[w][i] = elems[w][i]
  PROVE  Contents(w)' = Contents(w)
<1>1. Used(w)' = Used(w)
  BY DEF Used
<1>2. \A i \in 1 .. Used(w) : elems'[w][(read'[w] + i - 1) % Size] = elems[w][(read[w] + i - 1) % Size]
  BY PlaceUsed
<1> QED BY <1>1, <1>2 DEF Contents

LEMMA PublishAppends ==
  ASSUME IInv, TypeOK', NEW w \in Workers, Publish(w)
  PROVE  Used(w) < Size - 1 /\ Contents(w)' = Append(Contents(w), arg[w])
<1>1. /\ write[w] \in Index /\ read[w] \in Index
      /\ write'[w] = IF write[w] = Size - 1 THEN 0 ELSE write[w] + 1
      /\ write'[w] # read[w]
      /\ write'[w] \in Index
      /\ read' = read /\ elems' = elems
  BY NextIndex DEF IInv, TypeOK, WorkerInv, Full, Publish, logger
<1>0. elems[w][write[w]] = arg[w]
  <2>1. elems[w][write[w]] \in Raw /\ arg[w] \in Raw
    BY <1>1 DEF IInv, TypeOK
  <2>2. elems[w][write[w]][1] = arg[w][1] /\ elems[w][write[w]][2] = arg[w][2]
    BY DEF IInv, WorkerInv, Publish
  <2> QED BY <2>1, <2>2 DEF Raw
<1>2. Used(w)' = Used(w) + 1 /\ Used(w) < Size - 1
  <2>1. Used(w)' = IF write'[w] >= read[w] THEN write'[w] - read[w] ELSE write'[w] + Size - read[w]
    BY <1>1, Between DEF Used
  <2>2. Used(w) = IF write[w] >= read[w] THEN write[w] - read[w] ELSE write[w] + Size - read[w]
    BY UsedIs DEF IInv
  <2> QED BY <1>1, <2>1, <2>2, LogAssumption DEF Index
<1>3. (read[w] + (Used(w) + 1) - 1) % Size = write[w]
  <2>1. Used(w) + 1 \in 1 .. Size
    BY <1>2, UsedRange, LogAssumption DEF IInv
  <2>2. Used(w) = IF write[w] >= read[w] THEN write[w] - read[w] ELSE write[w] + Size - read[w]
    BY UsedIs DEF IInv
  <2>3. PICK i \in 1 .. Size : i = Used(w) + 1
    BY <2>1
  <2>4. (read[w] + i - 1) % Size = IF read[w] + i - 1 < Size THEN read[w] + i - 1
                                   ELSE read[w] + i - 1 - Size
    BY <1>1, PlaceOf
  <2>5. (IF read[w] + i - 1 < Size THEN read[w] + i - 1 ELSE read[w] + i - 1 - Size) = write[w]
    BY <1>1, <2>2, <2>3, LogAssumption DEF Index
  <2> QED BY <2>3, <2>4, <2>5
<1>4. Contents(w)' = [i \in 1 .. Used(w) + 1 |-> elems[w][(read[w] + i - 1) % Size]]
  BY <1>1, <1>2 DEF Contents
<1>5. Contents(w) \in Seq(Raw) /\ Len(Contents(w)) = Used(w) /\ Used(w) \in Nat
  BY ContentsSeq, UsedRange DEF IInv
<1>6. \A i \in 1 .. Used(w) + 1 :
        Append(Contents(w), arg[w])[i] = elems[w][(read[w] + i - 1) % Size]
  <2> SUFFICES ASSUME NEW i \in 1 .. Used(w) + 1
               PROVE  Append(Contents(w), arg[w])[i] = elems[w][(read[w] + i - 1) % Size]
    OBVIOUS
  <2>1. CASE i = Used(w) + 1
    <3>1. Append(Contents(w), arg[w])[i] = arg[w]
      BY <2>1, <1>5
    <3> QED BY <3>1, <2>1, <1>0, <1>3
  <2>2. CASE i # Used(w) + 1
    <3>1. i \in 1 .. Used(w)
      BY <2>2, <1>5
    <3>2. Append(Contents(w), arg[w])[i] = Contents(w)[i]
      BY <3>1, <1>5
    <3> QED BY <3>1, <3>2 DEF Contents
  <2> QED BY <2>1, <2>2
<1>7. /\ Append(Contents(w), arg[w]) \in Seq(Raw \cup {arg[w]})
      /\ Len(Append(Contents(w), arg[w])) = Used(w) + 1
  BY <1>5
<1> QED BY <1>2, <1>4, <1>5, <1>6, <1>7

LEMMA AdvanceTakes ==
  ASSUME IInv, TypeOK', Advance
  PROVE  /\ Contents(id) # <<>>
         /\ Head(Contents(id)) = entry
         /\ Contents(id)' = Tail(Contents(id))
<1>1. PICK w \in Workers : w = id
  BY DEF IInv, TypeOK
<1>2. /\ write[w] \in Index /\ read[w] \in Index
      /\ read'[w] = IF read[w] = Size - 1 THEN 0 ELSE read[w] + 1
      /\ write[w] # read[w]
      /\ read'[w] \in Index
      /\ write' = write /\ elems' = elems /\ id' = id
  BY <1>1, NextIndex DEF IInv, TypeOK, LoggerInv, Advance, worker
<1>0. elems[w][read[w]] = entry
  <2>1. elems[w][read[w]] \in Raw /\ entry \in Raw
    BY <1>2 DEF IInv, TypeOK
  <2>2. elems[w][read[w]][1] = entry[1] /\ elems[w][read[w]][2] = entry[2]
    BY <1>1 DEF IInv, LoggerInv, Advance
  <2> QED BY <2>1, <2>2 DEF Raw
<1>3. Used(w)' = Used(w) - 1 /\ Used(w) > 0
  <2>1. Used(w)' = IF write[w] >= read'[w] THEN write[w] - read'[w] ELSE write[w] + Size - read'[w]
    BY <1>2, Between DEF Used
  <2>2. Used(w) = IF write[w] >= read[w] THEN write[w] - read[w] ELSE write[w] + Size - read[w]
    BY UsedIs DEF IInv
  <2> QED BY <1>2, <2>1, <2>2, LogAssumption DEF Index
<1>4. Contents(w) \in Seq(Raw) /\ Len(Contents(w)) = Used(w) /\ Used(w) \in 1 .. Size - 1
  BY <1>3, ContentsSeq, UsedRange DEF IInv
<1>5. \A i \in 1 .. Used(w) - 1 : (read'[w] + i - 1) % Size = (read[w] + (i + 1) - 1) % Size
  <2> SUFFICES ASSUME NEW i \in 1 .. Used(w) - 1
               PROVE  (read'[w] + i - 1) % Size = (read[w] + (i + 1) - 1) % Size
    OBVIOUS
  <2>1. i \in 1 .. Size /\ i + 1 \in 1 .. Size /\ read'[w] \in Index
    BY <1>2, <1>4, LogAssumption DEF Index
  <2>2. (read'[w] + i - 1) % Size = IF read'[w] + i - 1 < Size THEN read'[w] + i - 1
                                    ELSE read'[w] + i - 1 - Size
    BY <2>1, PlaceOf
  <2>3. PICK j \in 1 .. Size : j = i + 1
    BY <2>1
  <2>4. (read[w] + j - 1) % Size = IF read[w] + j - 1 < Size THEN read[w] + j - 1
                                   ELSE read[w] + j - 1 - Size
    BY <1>2, PlaceOf
  <2>5. (IF read'[w] + i - 1 < Size THEN read'[w] + i - 1 ELSE read'[w] + i - 1 - Size)
          = (IF read[w] + j - 1 < Size THEN read[w] + j - 1 ELSE read[w] + j - 1 - Size)
    BY <1>2, <2>1, <2>3, LogAssumption DEF Index
  <2>6. (read'[w] + i - 1) % Size = (read[w] + j - 1) % Size
    BY <2>2, <2>4, <2>5
  <2> QED BY <2>3, <2>6
<1>6. Contents(w)' = [i \in 1 .. Used(w) - 1 |-> elems[w][(read'[w] + i - 1) % Size]]
  BY <1>2, <1>3 DEF Contents
<1>7. Head(Contents(w)) = entry
  <2>1. (read[w] + 1 - 1) % Size = read[w]
    BY <1>2, Wrap, LogAssumption DEF Index
  <2> QED BY <1>0, <1>4, <2>1 DEF Contents
<1>8. Contents(w)' = Tail(Contents(w))
  <2>1. \A i \in 1 .. Used(w) - 1 : Tail(Contents(w))[i] = elems[w][(read'[w] + i - 1) % Size]
    <3> SUFFICES ASSUME NEW i \in 1 .. Used(w) - 1
                 PROVE  Tail(Contents(w))[i] = elems[w][(read'[w] + i - 1) % Size]
      OBVIOUS
    <3>1. Tail(Contents(w))[i] = Contents(w)[i + 1]
      BY <1>4
    <3>2. Contents(w)[i + 1] = elems[w][(read[w] + (i + 1) - 1) % Size]
      BY <1>4 DEF Contents
    <3> QED BY <3>1, <3>2, <1>5
  <2>2. Tail(Contents(w)) \in Seq(Raw) /\ Len(Tail(Contents(w))) = Used(w) - 1
    BY <1>4
  <2>3. Tail(Contents(w)) = [i \in 1 .. Used(w) - 1 |-> Tail(Contents(w))[i]]
    BY <2>2, SeqIsFunction
  <2> QED BY <2>1, <2>3, <1>6
<1> QED BY <1>1, <1>2, <1>4, <1>7, <1>8

(* The abstract queues. *)
Queues == [w \in Workers |-> Contents(w)]

LEMMA InitAbstract == Init => Abstract!Init
<1> SUFFICES ASSUME Init PROVE Abstract!Init
  OBVIOUS
<1>1. ASSUME NEW w \in Workers PROVE Contents(w) = <<>>
  <2>1. read[w] = 0 /\ write[w] = 0
    BY DEF Init
  <2>2. Used(w) = 0
    BY <2>1, Between, LogAssumption DEF Used, Index
  <2> QED BY <2>2 DEF Contents
<1> QED BY <1>1 DEF Init, Abstract!Init, Taken

(* No queue changes, except perhaps that of w. *)
LEMMA OtherQueues ==
  ASSUME TypeOK, NEW w \in Workers,
         \A u \in Workers \ {w} : /\ read'[u] = read[u] /\ write'[u] = write[u]
                                  /\ elems'[u] = elems[u]
  PROVE  Queues' = [Queues EXCEPT ![w] = Contents(w)']
<1>1. \A u \in Workers \ {w} : Contents(u)' = Contents(u)
  BY ContentsKept
<1> QED BY <1>1 DEF Queues

LEMMA SameQueues ==
  ASSUME TypeOK, UNCHANGED <<read, write, elems>>
  PROVE  Queues' = Queues
<1>1. \A w \in Workers : Contents(w)' = Contents(w)
  BY ContentsKept
<1> QED BY <1>1 DEF Queues

LEMMA AbstractStep ==
  IInv /\ TypeOK' /\ [Next]_vars => [Abstract!Next]_(Abstract!vars)
<1> SUFFICES ASSUME IInv, TypeOK', [Next]_vars PROVE [Abstract!Next]_(Abstract!vars)
  OBVIOUS
<1>0. TypeOK
  BY DEF IInv
<1>s. ASSUME Queues' = Queues, accepted' = accepted, Taken' = Taken
      PROVE  UNCHANGED Abstract!vars
  BY <1>s DEF Abstract!vars, Queues
<1>q. ASSUME UNCHANGED <<read, write, elems, accepted>>, Taken' = Taken
      PROVE  UNCHANGED Abstract!vars
  BY <1>0, <1>q, <1>s, SameQueues
<1>1. CASE UNCHANGED vars
  BY <1>1, <1>q DEF vars, Taken
<1>2. ASSUME NEW w \in Workers, Refuse(w) PROVE Abstract!Next
  <2>1. Used(w) = Size - 1
    <3>1. write[w] \in Index /\ read[w] \in Index
      BY <1>0 DEF TypeOK
    <3> QED BY <1>0, <1>2, <3>1, NextIndex, UsedIs, LogAssumption DEF Refuse, Full, Index
  <2>2. Len(Queues[w]) = Size - 1
    BY <1>0, <2>1, ContentsSeq DEF Queues
  <2>3. Queues' = Queues
    BY <1>0, <1>2, SameQueues DEF Refuse, logger
  <2> QED BY <1>2, <2>2, <2>3 DEF Refuse, logger, Taken, Queues, Abstract!Refuse, Abstract!Next
<1>3. ASSUME NEW w \in Workers, NEW e \in logged[w], Enqueue(w, e) PROVE UNCHANGED Abstract!vars
  BY <1>3, <1>q DEF Enqueue, logger, Taken
<1>4. ASSUME NEW w \in Workers, NEW n \in {1, 2}, NEW here, NEW next, CopyIn(w, n, here, next)
      PROVE  UNCHANGED Abstract!vars
  <2>1. /\ \A u \in Workers \ {w} : elems'[u] = elems[u]
        /\ \A i \in Index : i # write[w] => elems'[w][i] = elems[w][i]
        /\ read' = read /\ write' = write
    BY <1>0, <1>4 DEF CopyIn, logger, TypeOK
  <2>2. Contents(w)' = Contents(w)
    BY <1>0, <2>1, ContentsKept
  <2>3. Queues' = Queues
    BY <1>0, <2>1, <2>2, OtherQueues DEF Queues
  <2> QED BY <1>4, <1>s, <2>3 DEF CopyIn, logger, Taken
<1>5. ASSUME NEW w \in Workers, Publish(w) PROVE Abstract!Next
  <2>1. Used(w) < Size - 1 /\ Contents(w)' = Append(Contents(w), arg[w])
    BY <1>5, PublishAppends
  <2>2. Len(Queues[w]) < Size - 1 /\ Queues[w] = Contents(w)
    BY <1>0, <2>1, ContentsSeq DEF Queues
  <2>3. \A u \in Workers \ {w} : /\ read'[u] = read[u] /\ write'[u] = write[u]
                                 /\ elems'[u] = elems[u]
    BY <1>0, <1>5 DEF Publish, logger, TypeOK
  <2>4. Queues' = [Queues EXCEPT ![w] = Append(@, arg[w])]
    BY <1>0, <2>1, <2>2, <2>3, OtherQueues
  <2>5. arg[w] \in Entries
    BY <1>5 DEF Publish, IInv, WorkerInv
  <2>6. Abstract!Put(w, arg[w])
    BY <1>5, <2>2, <2>4 DEF Publish, logger, Taken, Queues, Abstract!Put
  <2> QED BY <2>5, <2>6 DEF Abstract!Next
<1>6. ASSUME NEW w \in Workers, Stop(w) PROVE UNCHANGED Abstract!vars
  BY <1>6, <1>q DEF Stop, logger, Taken
<1>7. CASE Flush
  BY <1>7, <1>q DEF Flush, worker, Taken
<1>8. CASE QueueEmpty
  BY <1>8, <1>q DEF QueueEmpty, worker, Taken
<1>9. CASE Dequeue
  BY <1>9, <1>q DEF Dequeue, worker, Taken
<1>10. ASSUME NEW n \in {1, 2}, NEW here \in {"first", "second"},
              NEW next \in {"second", "advance"}, CopyOut(n, here, next)
       PROVE  UNCHANGED Abstract!vars
  BY <1>10, <1>q DEF CopyOut, worker, Taken
<1>11. CASE Advance
  <2>1. PICK w \in Workers : w = id
    BY <1>0 DEF TypeOK
  <2>2. /\ Contents(w) # <<>> /\ Head(Contents(w)) = entry
        /\ Contents(w)' = Tail(Contents(w)) /\ id' = id
    BY <1>11, <2>1, AdvanceTakes DEF Advance
  <2>3. Queues[w] = Contents(w)
    BY DEF Queues
  <2>4. \A u \in Workers \ {w} : /\ read'[u] = read[u] /\ write'[u] = write[u]
                                 /\ elems'[u] = elems[u]
    BY <1>0, <1>11, <2>1 DEF Advance, worker, TypeOK
  <2>5. Queues' = [Queues EXCEPT ![w] = Tail(@)]
    BY <1>0, <2>2, <2>3, <2>4, OtherQueues
  <2>6. Abstract!Take(w)
    BY <1>11, <2>1, <2>2, <2>3, <2>5 DEF Advance, worker, Taken, Queues, Abstract!Take
  <2> QED BY <2>6 DEF Abstract!Next
<1>12. CASE PrintEntry
  <2>1. Queues' = Queues
    BY <1>0, <1>12, SameQueues DEF PrintEntry, worker
  <2>2. Taken # {} /\ Taken' = {}
    BY <1>12 DEF PrintEntry, Taken
  <2> QED BY <1>12, <2>1, <2>2 DEF PrintEntry, worker, Queues, Abstract!PutAway, Abstract!Next
<1>13. CASE End
  BY <1>13, <1>q DEF End, worker, Taken
<1>14. CASE Interrupt
  BY <1>14, <1>q DEF Interrupt, worker, logger, Taken
<1>15. CASE OpenLog \/ OpenFails
  BY <1>15, <1>q DEF OpenLog, OpenFails, worker, Taken
<1> QED
  BY <1>1, <1>2, <1>3, <1>4, <1>5, <1>6, <1>7, <1>8, <1>9, <1>10, <1>11, <1>12, <1>13, <1>14, <1>15
     DEF Next, Work, Log

(* enqueue_log_entry and dequeue_log_entry (log.c:42-72) implement bounded *)
(* first-in first-out queues, one step of theirs being one of the queue's. *)
THEOREM Refinement == Spec => ImplementsLossyFifo
<1>1. IInv /\ [Next]_vars => TypeOK'
  BY TypeStep
<1> QED BY <1>1, InitAbstract, AbstractStep, Invariance, PTL DEF Spec, ImplementsLossyFifo, Abstract!Spec
=============================================================================
