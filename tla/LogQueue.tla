------------------------------ MODULE LogQueue ------------------------------
(***************************************************************************)
(* The log queues of src/src/log.c: one ring of Size entries per worker,   *)
(* written by that worker and read by the logging thread of main.c, which  *)
(* goes round all of them (flush_worker_logs in server.c).                 *)
(*                                                                         *)
(* read and write are atomic; an entry is not, and is copied word by word  *)
(* (two words stand for its 272 bytes).  Size is a power of two, so that   *)
(* & mask is the remainder by Size.                                        *)
(***************************************************************************)
EXTENDS Integers, Sequences

CONSTANTS
  NumWorkers,   \* NUM_WORKERS
  Size,         \* NUM_LOG_QUEUE_ELEMS
  Data,         \* what a word of an entry can be
  None,         \* a word that was never written
  Loads         \* what the workers may be given to log, see logged

ASSUME LogAssumption ==
  /\ NumWorkers \in Nat \ {0}
  /\ Size \in Nat /\ Size >= 2
  /\ None \notin Data

Workers == 0 .. NumWorkers - 1
Index == 0 .. Size - 1
Raw == [{1, 2} -> Data \cup {None}]
Blank == [n \in {1, 2} |-> None]
(* The entries that are logged. *)
Entries == {[n \in {1, 2} |-> d] : d \in Data}

ASSUME LoadsAssumption == Loads \subseteq [Workers -> SUBSET Entries]

VARIABLES
  read,       \* read[w], write[w], elems[w]: the LogQueue of worker w
  write,
  elems,
  wpc,        \* what each worker does next
  arg,        \* arg[w]: the entry worker w is logging
  accepted,   \* accepted[w]: what enqueue_log_entry returned last
  lpc,        \* what the logging thread does next
  id,         \* the queue it is at
  entry,      \* the entry it copies into
  quit,       \* set by SIGINT
  logged      \* logged[w]: the entries that the clients make worker w log

vars == <<read, write, elems, wpc, arg, accepted, lpc, id, entry, quit, logged>>
worker == <<write, elems, wpc, arg, accepted>>
logger == <<read, lpc, id, entry>>

TypeOK ==
  /\ read \in [Workers -> Index]
  /\ write \in [Workers -> Index]
  /\ elems \in [Workers -> [Index -> Raw]]
  /\ wpc \in [Workers -> {"serve", "first", "second", "publish", "stopped"}]
  /\ arg \in [Workers -> Raw]
  /\ accepted \in [Workers -> BOOLEAN]
  /\ lpc \in {"open", "sleep", "check", "first", "second", "advance", "print", "ended"}
  /\ id \in Workers
  /\ entry \in Raw
  /\ quit \in BOOLEAN
  /\ logged \in [Workers -> SUBSET Entries]

(***************************************************************************)
(* A worker: enqueue_log_entry.                                            *)
(***************************************************************************)

(* Defect: the position after write is not masked. *)
FullUnmasked(w) == write[w] + 1 = read[w]

(* One slot stays empty. *)
Full(w) == (write[w] + 1) % Size = read[w]

Refuse(w) ==
  /\ wpc[w] = "serve"
  /\ Full(w)
  /\ accepted' = [accepted EXCEPT ![w] = FALSE]
  /\ UNCHANGED <<write, elems, wpc, arg, logger, quit>>

(* Defect: write is advanced before the entry is copied. *)
EnqueueEarly(w, e) ==
  /\ wpc[w] = "serve"
  /\ ~Full(w)
  /\ arg' = [arg EXCEPT ![w] = e]
  /\ wpc' = [wpc EXCEPT ![w] = "first"]
  /\ write' = [write EXCEPT ![w] = (@ + 1) % Size]
  /\ UNCHANGED <<elems, accepted, logger, quit>>

Enqueue(w, e) ==
  /\ wpc[w] = "serve"
  /\ ~Full(w)
  /\ arg' = [arg EXCEPT ![w] = e]
  /\ wpc' = [wpc EXCEPT ![w] = "first"]
  /\ UNCHANGED <<write, elems, accepted, logger, quit>>

(* q->elems[q->write] = *e *)
CopyIn(w, word, here, next) ==
  /\ wpc[w] = here
  /\ elems' = [elems EXCEPT ![w][write[w]][word] = arg[w][word]]
  /\ wpc' = [wpc EXCEPT ![w] = next]
  /\ UNCHANGED <<write, arg, accepted, logger, quit>>

Publish(w) ==
  /\ wpc[w] = "publish"
  /\ write' = [write EXCEPT ![w] = (@ + 1) % Size]
  /\ accepted' = [accepted EXCEPT ![w] = TRUE]
  /\ wpc' = [wpc EXCEPT ![w] = "serve"]
  /\ arg' = [arg EXCEPT ![w] = Blank]
  /\ UNCHANGED <<elems, logger, quit>>

(* run_worker sees that the server is no longer running. *)
Stop(w) ==
  /\ wpc[w] = "serve"
  /\ quit
  /\ wpc' = [wpc EXCEPT ![w] = "stopped"]
  /\ UNCHANGED <<write, elems, arg, accepted, logger, quit>>

(***************************************************************************)
(* The logging thread: run_logging_thread, flush_worker_logs,              *)
(* dequeue_log_entry.                                                      *)
(***************************************************************************)

OpenLog ==
  /\ lpc = "open"
  /\ lpc' = "sleep"
  /\ UNCHANGED <<read, id, entry, worker, quit>>

(* The log file cannot be opened: the thread returns at once (as good as   *)
(* one that could not be created).  The program goes on without it.        *)
OpenFails ==
  /\ lpc = "open"
  /\ lpc' = "ended"
  /\ UNCHANGED <<read, id, entry, worker, quit>>

(* Defect: a flush is begun without a look at quit. *)
FlushAnyway ==
  /\ lpc = "sleep"
  /\ lpc' = "check"
  /\ id' = 0
  /\ UNCHANGED <<read, entry, worker, quit>>

Flush ==
  /\ lpc = "sleep"
  /\ ~quit
  /\ lpc' = "check"
  /\ id' = 0
  /\ UNCHANGED <<read, entry, worker, quit>>

(* Defect: the last queue is never looked at. *)
QueueEmptyEarly ==
  /\ lpc = "check"
  /\ read[id] = write[id]
  /\ IF id + 2 < NumWorkers THEN id' = id + 1 /\ UNCHANGED lpc
                            ELSE lpc' = "sleep" /\ UNCHANGED id
  /\ UNCHANGED <<read, entry, worker, quit>>

QueueEmpty ==
  /\ lpc = "check"
  /\ read[id] = write[id]
  /\ IF id + 1 < NumWorkers THEN id' = id + 1 /\ UNCHANGED lpc
                            ELSE lpc' = "sleep" /\ UNCHANGED id
  /\ UNCHANGED <<read, entry, worker, quit>>

Dequeue ==
  /\ lpc = "check"
  /\ read[id] # write[id]
  /\ lpc' = "first"
  /\ UNCHANGED <<read, id, entry, worker, quit>>

(* *e = q->elems[q->read] *)
CopyOut(word, here, next) ==
  /\ lpc = here
  /\ entry' = [entry EXCEPT ![word] = elems[id][read[id]][word]]
  /\ lpc' = next
  /\ UNCHANGED <<read, id, worker, quit>>

Advance ==
  /\ lpc = "advance"
  /\ read' = [read EXCEPT ![id] = (@ + 1) % Size]
  /\ lpc' = "print"
  /\ UNCHANGED <<id, entry, worker, quit>>

(* print_log_entry; the same queue is looked at again. *)
PrintEntry ==
  /\ lpc = "print"
  /\ lpc' = "check"
  /\ entry' = Blank
  /\ UNCHANGED <<read, id, worker, quit>>

End ==
  /\ lpc = "sleep"
  /\ quit
  /\ lpc' = "ended"
  /\ UNCHANGED <<read, id, entry, worker, quit>>

(***************************************************************************)
(* The specification.                                                      *)
(***************************************************************************)

(* SIGINT at any time. *)
Interrupt ==
  /\ ~quit
  /\ quit' = TRUE
  /\ UNCHANGED <<worker, logger>>

Work(w) ==
  \/ Refuse(w)
  \/ \E e \in logged[w] : Enqueue(w, e)
  \/ CopyIn(w, 1, "first", "second")
  \/ CopyIn(w, 2, "second", "publish")
  \/ Publish(w)

Log ==
  \/ OpenLog \/ OpenFails
  \/ Flush \/ QueueEmpty \/ Dequeue
  \/ CopyOut(1, "first", "second") \/ CopyOut(2, "second", "advance")
  \/ Advance \/ PrintEntry \/ End

(* LOG_QUEUE_INIT; the workers run already when the logging thread starts. *)
Init ==
  /\ read = [w \in Workers |-> 0]
  /\ write = [w \in Workers |-> 0]
  /\ elems = [w \in Workers |-> [i \in Index |-> Blank]]
  /\ wpc = [w \in Workers |-> "serve"]
  /\ arg = [w \in Workers |-> Blank]
  /\ accepted = [w \in Workers |-> TRUE]
  /\ lpc = "open"
  /\ id = 0
  /\ entry = Blank
  /\ quit = FALSE
  /\ logged \in Loads

Next ==
  /\ \/ \E w \in Workers : Work(w) \/ Stop(w)
     \/ Log
     \/ Interrupt
  /\ UNCHANGED logged

Spec == Init /\ [][Next]_vars

(* The logging thread never blocks, neither does a worker inside a copy.   *)
(* A worker tests is_running after every batch of events and must leave    *)
(* then, however many requests it logs in between.                         *)
Fairness ==
  /\ WF_vars(Log /\ UNCHANGED logged)
  /\ \A w \in Workers : /\ WF_vars(wpc[w] # "serve" /\ Work(w) /\ UNCHANGED logged)
                        /\ SF_vars(Stop(w) /\ UNCHANGED logged)

FairSpec == Spec /\ Fairness

(***************************************************************************)
(* Properties.                                                             *)
(***************************************************************************)

Used(w) == (write[w] + Size - read[w]) % Size
Contents(w) == [i \in 1 .. Used(w) |-> elems[w][(read[w] + i - 1) % Size]]
Taken == IF lpc = "print" THEN {<<id, entry>>} ELSE {}

Abstract == INSTANCE LossyFifo
  WITH queue <- [w \in Workers |-> Contents(w)],
       taken <- Taken, Capacity <- Size - 1

(* Every entry accepted comes out once, in order and in one piece, and     *)
(* none is refused while there is room: a ring of N slots is a queue of    *)
(* N - 1 entries.                                                          *)
ImplementsLossyFifo == Abstract!Spec

(* A worker and the logging thread never copy to and from the same slot at *)
(* the same time: the only plain memory they share is free of data races.  *)
CopiesApart ==
  wpc[id] \in {"first", "second"} /\ lpc \in {"first", "second"} => write[id] # read[id]

(* An accepted entry is printed (server.c:418-432), unless the logging     *)
(* thread ends, which it does when it could not open the log file          *)
(* (main.c:206-210) and when the program quits (main.c:216), or another    *)
(* worker logs so fast that its queue never runs empty.                    *)
EventuallyPrinted ==
  \A w \in Workers :
    Used(w) > 0 ~> \/ lpc = "print" /\ id = w
                   \/ lpc = "ended"
                   \/ \E u \in Workers \ {w} : [](id = u /\ lpc # "sleep")

(* The logging thread ends after SIGINT, so that main's thrd_join returns. *)
LoggerEnds == quit ~> lpc = "ended"

(***************************************************************************)
(* The inductive invariant: a copy under way is of a slot that is the      *)
(* copier's own, and what is copied already is right.                      *)
(***************************************************************************)

WorkerInv ==
  \A w \in Workers :
    /\ wpc[w] \in {"first", "second", "publish"} => ~Full(w) /\ arg[w] \in Entries
    /\ wpc[w] \in {"second", "publish"} => elems[w][write[w]][1] = arg[w][1]
    /\ wpc[w] = "publish" => elems[w][write[w]][2] = arg[w][2]

LoggerInv ==
  /\ lpc \in {"first", "second", "advance"} => read[id] # write[id]
  /\ lpc \in {"second", "advance"} => entry[1] = elems[id][read[id]][1]
  /\ lpc = "advance" => entry[2] = elems[id][read[id]][2]

IInv == TypeOK /\ WorkerInv /\ LoggerInv
=============================================================================
