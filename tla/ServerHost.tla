------------------------------ MODULE ServerHost ------------------------------
(***************************************************************************)
(* The life of the server process (src/p2/server/server.c): the host       *)
(* thread's loop, which reads connections from the server's FIFO, queues   *)
(* them and prints every event after a SIGUSR1; the handlers of both       *)
(* signals; and server_close, which is the handler of SIGINT and frees the *)
(* list and the queue in whichever thread the signal reaches, while the    *)
(* others run on.                                                          *)
(*                                                                         *)
(* The queue is a sequence here (PcQueue), what a session does to the list *)
(* is one critical section with or without the use of an event after it    *)
(* (EmsOperations), one event stands for those that sessions use while a   *)
(* dump prints them, and a connection is one message: a client writes it   *)
(* in one piece, so that an interrupted read has read nothing of it        *)
(* (PipeIo).                                                               *)
(*                                                                         *)
(* The Makefile's flags select the System V form of signal(): a handler is *)
(* removed when it is called, the next signal then ends the process, and a *)
(* blocked read is interrupted.                                            *)
(***************************************************************************)
EXTENDS Integers, Sequences

CONSTANTS
  MaxClients,         \* bound: how many clients connect
  Workers,            \* the worker threads
  Host,               \* the main thread
  MAX_SESSION_COUNT,  \* the capacity of the queue
  MaxSignals          \* bound: how many signals of each kind are sent

ASSUME HostAssumption == Host \notin Workers
ASSUME MaxClientsAssumption == MaxClients \in Nat
ASSUME SessionsAssumption == MAX_SESSION_COUNT \in Nat \ {0}
ASSUME MaxSignalsAssumption == MaxSignals \in [{"SIGUSR1", "SIGINT"} -> Nat]

Threads == Workers \cup {Host}

Signals == {"SIGUSR1", "SIGINT"}

VARIABLES
  sent,              \* history: the clients that connected, numbered in their order
  fifo,              \* the connections in the server's FIFO
  incoming,          \* the connection the host has read and not yet queued
  queue,             \* the connections in the queue
  taken,             \* history: the connections workers dequeued, in order
  pc,                \* what each thread does next
  received_sigusr1,
  armed,             \* the signals that have a handler
  signals,           \* how many signals of each kind were sent
  asked,             \* history: whether a dump was asked for and none has begun since
  forgotten,         \* history: a SIGUSR1 came between a dump and the reset of the flag
  closing,           \* where in server_close a thread is
  freed,             \* what server_close has freed
  linked,            \* the server's FIFO has a name
  status             \* the process is up, or how it ended

connections == <<sent, fifo, incoming, queue, taken>>
handlers    == <<received_sigusr1, armed, signals, asked, forgotten>>
ending      == <<closing, freed, linked, status>>
vars        == <<connections, pc, handlers, ending>>

Init ==
  /\ sent = 0 /\ fifo = <<>> /\ incoming = <<>> /\ queue = <<>> /\ taken = <<>>
  /\ pc = [t \in Threads |-> IF t = Host THEN "test" ELSE "mask"]
  /\ received_sigusr1 = FALSE
  /\ armed = Signals
  /\ signals = [s \in Signals |-> 0]
  /\ asked = "no" /\ forgotten = FALSE
  /\ closing = [t \in Threads |-> "no"]
  /\ freed = {}
  /\ linked = TRUE
  /\ status = "up"

(* A thread inside the handler of SIGINT does not go on.                   *)
Goto(t, from, to) ==
  /\ status = "up" /\ closing[t] = "no"
  /\ pc[t] = from /\ pc' = [pc EXCEPT ![t] = to]

------------------------------------------------------------------------------
\* The list's lock, and the mutex of the event

ReadingPlaces == {"reading", "dumping", "showing", "dumped"}

Reading == \E t \in Threads : pc[t] \in ReadingPlaces

Writing == \E t \in Threads : pc[t] = "writing" \/ closing[t] = "free_list"

EventLocked == \E t \in Threads : pc[t] \in {"using", "showing"}

------------------------------------------------------------------------------
\* The host: main

(* ems_setup of a client writes to the server's FIFO.                      *)
Connect ==
  /\ status = "up" /\ linked
  /\ sent < MaxClients
  /\ sent' = sent + 1
  /\ fifo' = Append(fifo, sent')
  /\ UNCHANGED <<incoming, queue, taken, pc, handlers, ending>>

Test ==
  /\ Goto(Host, "test", IF received_sigusr1 THEN "list" ELSE "accept")
  /\ UNCHANGED <<connections, handlers, ending>>

(* ems_list_events, under the list's read lock from its beginning to its   *)
(* end.  It has the event to print, or none.                               *)
BeginDump ==
  /\ Goto(Host, "list", "dumping") \/ Goto(Host, "list", "dumped")
  /\ ~ Writing
  /\ asked' = "no"
  /\ UNCHANGED <<connections, received_sigusr1, armed, signals, forgotten, ending>>

(* ems_show for the event: it waits for the event's mutex, and the list    *)
(* stays locked meanwhile.                                                 *)
LockShown ==
  /\ Goto(Host, "dumping", "showing")
  /\ ~ EventLocked
  /\ UNCHANGED <<connections, handlers, ending>>

UnlockShown ==
  /\ Goto(Host, "showing", "dumped")
  /\ UNCHANGED <<connections, handlers, ending>>

EndDump ==
  /\ Goto(Host, "dumped", "set_int")
  /\ UNCHANGED <<connections, handlers, ending>>

(* setup_signal_handlers: signal, for one signal.                          *)
SetHandler(from, s, to) ==
  /\ Goto(Host, from, to)
  /\ armed' = armed \cup {s}
  /\ UNCHANGED <<connections, received_sigusr1, signals, asked, forgotten, ending>>

\* Mutant: after a dump only the handler of SIGINT is set up.
SetupSigintHandler == SetHandler("set_int", "SIGINT", "reset")

SetupSignalHandlers == \/ SetHandler("set_int", "SIGINT", "set_usr1")
                       \/ SetHandler("set_usr1", "SIGUSR1", "reset")

Reset ==
  /\ Goto(Host, "reset", "accept")
  /\ received_sigusr1' = FALSE
  /\ UNCHANGED <<connections, armed, signals, asked, forgotten, ending>>

(* pipe_parse of the op code finds the FIFO empty and sleeps.              *)
SleepInRead ==
  /\ Goto(Host, "accept", "asleep")
  /\ fifo = <<>>
  /\ UNCHANGED <<connections, handlers, ending>>

(* pipe_parse of the op code, receive_connection up to pcq_enqueue.        *)
Accept ==
  /\ Goto(Host, "accept", "push") \/ Goto(Host, "asleep", "push")
  /\ fifo # <<>>
  /\ incoming' = << Head(fifo) >>
  /\ fifo' = Tail(fifo)
  /\ UNCHANGED <<sent, queue, taken, handlers, ending>>

(* pcq_enqueue: the host is in it, asleep while the queue is full, until   *)
(* the connection is queued.  Once the buffer is gone it fails, and the    *)
(* host closes the server itself.                                          *)
CallEnqueue ==
  /\ IF "buffer" \in freed
     THEN Goto(Host, "push", "return") /\ closing' = [closing EXCEPT ![Host] = "terminate"]
     ELSE Goto(Host, "push", "pushing") /\ UNCHANGED closing
  /\ UNCHANGED <<connections, handlers, freed, linked, status>>

\* Mutant: the queue takes one connection too many.
EnqueueFull ==
  /\ Goto(Host, "pushing", "test")
  /\ Len(queue) <= MAX_SESSION_COUNT
  /\ queue' = queue \o incoming
  /\ incoming' = <<>>
  /\ UNCHANGED <<sent, fifo, taken, handlers, ending>>

\* Mutant: the host does not wait for room and overwrites what is queued.
EnqueueOverwrites ==
  /\ Goto(Host, "pushing", "test")
  /\ queue' = incoming
  /\ incoming' = <<>>
  /\ UNCHANGED <<sent, fifo, taken, handlers, ending>>

Enqueue ==
  /\ Goto(Host, "pushing", "test")
  /\ Len(queue) < MAX_SESSION_COUNT
  /\ queue' = queue \o incoming
  /\ incoming' = <<>>
  /\ UNCHANGED <<sent, fifo, taken, handlers, ending>>

HostRuns == \/ Test \/ BeginDump \/ LockShown \/ UnlockShown \/ EndDump
            \/ SetupSignalHandlers \/ Reset
            \/ SleepInRead \/ Accept \/ CallEnqueue \/ Enqueue

------------------------------------------------------------------------------
\* The workers: process_incoming_requests

BlockSigusr1(w) ==
  /\ Goto(w, "mask", "dequeue")
  /\ UNCHANGED <<connections, handlers, ending>>

(* pcq_dequeue: the worker is in it, asleep while the queue is empty.      *)
(* Without a buffer it returns NULL at once, again and again.              *)
CallDequeue(w) ==
  /\ Goto(w, "dequeue", "popping")
  /\ "buffer" \notin freed
  /\ UNCHANGED <<connections, handlers, ending>>

Dequeue(w) ==
  /\ Goto(w, "popping", "session")
  /\ queue # <<>>
  /\ taken' = Append(taken, Head(queue))
  /\ queue' = Tail(queue)
  /\ UNCHANGED <<sent, fifo, incoming, handlers, ending>>

(* A session executes at most one operation here: a CREATE, or one that    *)
(* reads the list and may use an event once the list is unlocked.          *)
LockList(w) ==
  /\ \/ Goto(w, "session", "reading") /\ ~ Writing
     \/ Goto(w, "session", "writing") /\ ~ Writing /\ ~ Reading
  /\ UNCHANGED <<connections, handlers, ending>>

UnlockList(w) ==
  /\ Goto(w, "reading", "event") \/ Goto(w, "reading", "over") \/ Goto(w, "writing", "over")
  /\ UNCHANGED <<connections, handlers, ending>>

LockEvent(w) ==
  /\ Goto(w, "event", "using")
  /\ ~ EventLocked
  /\ UNCHANGED <<connections, handlers, ending>>

(* What is done under the event's mutex, up to its unlock.                 *)
UseEvent(w) ==
  /\ Goto(w, "using", "over")
  /\ UNCHANGED <<connections, handlers, ending>>

\* Mutant: the end of a session ends the thread.
EndSessionAndThread(w) ==
  /\ Goto(w, "session", "exited") \/ Goto(w, "over", "exited")
  /\ UNCHANGED <<connections, handlers, ending>>

EndSession(w) ==
  /\ Goto(w, "session", "dequeue") \/ Goto(w, "over", "dequeue")
  /\ UNCHANGED <<connections, handlers, ending>>

(* The steps a worker makes on its own, and those of its session, which    *)
(* come when its client sends a request, quits or leaves: until then the   *)
(* worker sleeps in the open or the read of the request pipe.              *)
WorkerRuns(w) == \/ BlockSigusr1(w) \/ CallDequeue(w) \/ Dequeue(w)
                 \/ UnlockList(w) \/ LockEvent(w) \/ UseEvent(w)

SessionRuns(w) == LockList(w) \/ EndSession(w)

------------------------------------------------------------------------------
\* Signals

Send(s) == signals[s] < MaxSignals[s] /\ signals' = [signals EXCEPT ![s] = @ + 1]

(* A signal without a handler ends the process.                            *)
Kill(s) ==
  /\ status = "up" /\ s \notin armed
  /\ Send(s)
  /\ status' = "killed"
  /\ UNCHANGED <<connections, pc, received_sigusr1, armed, asked, forgotten, closing, freed, linked>>

(* sigusr1_handler, in the host or in a worker that does not yet block the *)
(* signal.  A sleeping read of the host is interrupted: pipe_parse fails   *)
(* and the loop begins again.  What comes between a dump and the reset of  *)
(* the flag is forgotten by the reset, and what comes between the test and *)
(* the read, or to a worker, does not wake the host.                       *)
Asked(t) ==
  IF asked = "due" \/ pc[Host] = "reset" THEN asked
  ELSE IF t = Host /\ pc[Host] # "accept" THEN "due" ELSE "missable"

\* Mutant: the handler restarts a read that it interrupts.
Sigusr1Restarts(t) ==
  /\ status = "up" /\ "SIGUSR1" \in armed
  /\ t = Host \/ pc[t] = "mask"
  /\ Send("SIGUSR1")
  /\ armed' = armed \ {"SIGUSR1"}
  /\ received_sigusr1' = TRUE
  /\ asked' = Asked(t)
  /\ forgotten' = (forgotten \/ pc[Host] = "reset")
  /\ UNCHANGED <<connections, pc, ending>>

Sigusr1(t) ==
  /\ status = "up" /\ "SIGUSR1" \in armed
  /\ t = Host \/ pc[t] = "mask"
  /\ Send("SIGUSR1")
  /\ armed' = armed \ {"SIGUSR1"}
  /\ received_sigusr1' = TRUE
  /\ asked' = Asked(t)
  /\ forgotten' = (forgotten \/ pc[Host] = "reset")
  /\ pc' = IF t = Host /\ pc[Host] = "asleep" /\ fifo = <<>> /\ closing[Host] = "no"
           THEN [pc EXCEPT ![Host] = "test"] ELSE pc
  /\ UNCHANGED <<connections, ending>>

(* server_close as the handler of SIGINT, in any thread that is not        *)
(* already in it.                                                          *)
Sigint(t) ==
  /\ status = "up" /\ "SIGINT" \in armed /\ closing[t] = "no"
  /\ Send("SIGINT")
  /\ armed' = armed \ {"SIGINT"}
  /\ closing' = [closing EXCEPT ![t] = "terminate"]
  /\ UNCHANGED <<connections, pc, received_sigusr1, asked, forgotten, freed, linked, status>>

------------------------------------------------------------------------------
\* server_close

Closing(t, from, to) ==
  /\ status = "up"
  /\ closing[t] = from /\ closing' = [closing EXCEPT ![t] = to]

Fail(t, from) == Closing(t, from, from) /\ status' = "failed"

\* Mutant: ems_terminate locks the list for reading.
TerminateReads(t) ==
  /\ \/ ~ Writing /\ Closing(t, "terminate", "free_list") /\ UNCHANGED status
     \/ pc[t] = "writing" /\ Fail(t, "terminate")
  /\ UNCHANGED <<connections, pc, handlers, freed, linked>>

\* Mutant: the lock does not notice that its own thread has it for writing.
TerminateWaits(t) ==
  /\ ~ Reading /\ ~ Writing /\ Closing(t, "terminate", "free_list")
  /\ UNCHANGED <<connections, pc, handlers, freed, linked, status>>

(* ems_terminate: pthread_rwlock_wrlock.  It sleeps while another thread   *)
(* has the lock, and for ever if its own thread has it for reading; if its *)
(* own thread has it for writing it fails, and the process exits.          *)
Terminate(t) ==
  /\ \/ ~ Reading /\ ~ Writing /\ Closing(t, "terminate", "free_list") /\ UNCHANGED status
     \/ pc[t] = "writing" /\ Fail(t, "terminate")
  /\ UNCHANGED <<connections, pc, handlers, freed, linked>>

(* free_list, then the unlock of the lock inside the list.                 *)
FreeList(t) ==
  /\ Closing(t, "free_list", "pcq_destroy")
  /\ freed' = freed \cup {"list"}
  /\ UNCHANGED <<connections, pc, handlers, linked, status>>

(* pcq_destroy: the buffer is freed and set to NULL ...                    *)
FreeBuffer(t) ==
  /\ Closing(t, "pcq_destroy", IF "buffer" \in freed THEN "unlink" ELSE "destroy_locks")
  /\ freed' = freed \cup {"buffer"}
  /\ UNCHANGED <<connections, pc, handlers, linked, status>>

(* ... and each lock destroyed.  That of a condition counts the threads    *)
(* that sleep on it as its users: while a thread is inside the queue,      *)
(* asleep or not, mutex_destroy fails and exits.                           *)
InQueue == \E t \in Threads : pc[t] \in {"pushing", "popping"}

DestroyLocks(t) ==
  /\ IF InQueue THEN Fail(t, "destroy_locks")
                ELSE Closing(t, "destroy_locks", "unlink") /\ UNCHANGED status
  /\ UNCHANGED <<connections, pc, handlers, freed, linked>>

Unlink(t) ==
  /\ Closing(t, "unlink", "exit")
  /\ freed' = freed \cup {"queue"}
  /\ linked' = FALSE
  /\ UNCHANGED <<connections, pc, handlers, status>>

(* The handler exits with success; the host's own call is followed by a    *)
(* return of EXIT_FAILURE.                                                 *)
Exit(t) ==
  /\ Closing(t, "exit", "exit")
  /\ status' = IF pc[t] = "return" THEN "failed" ELSE "closed"
  /\ UNCHANGED <<connections, pc, handlers, freed, linked>>

Closes(t) == Terminate(t) \/ FreeList(t) \/ FreeBuffer(t) \/ DestroyLocks(t) \/ Unlink(t) \/ Exit(t)

(* A step of t reads or writes what was freed: it does what it does on     *)
(* live memory, or it ends the process.                                    *)
UsesFreed(t) ==
  \/ /\ "list" \in freed
     /\ \/ closing[t] = "no" /\ pc[t] \in ReadingPlaces \cup {"list", "writing", "event", "using"}
        \/ closing[t] \in {"terminate", "free_list"}
  \/ "buffer" \in freed /\ closing[t] = "no" /\ pc[t] \in {"pushing", "popping"}
  \/ /\ "queue" \in freed
     /\ \/ closing[t] = "no" /\ pc[t] \in {"push", "dequeue"}
        \/ closing[t] \in {"pcq_destroy", "destroy_locks", "unlink"}

Crash(t) ==
  /\ status = "up"
  /\ UsesFreed(t)
  /\ status' = "crashed"
  /\ UNCHANGED <<connections, pc, handlers, closing, freed, linked>>

------------------------------------------------------------------------------
Next ==
  \/ Connect
  \/ HostRuns
  \/ \E w \in Workers : WorkerRuns(w) \/ SessionRuns(w)
  \/ \E t \in Threads : Sigusr1(t) \/ Sigint(t) \/ Closes(t) \/ Crash(t)
  \/ \E s \in Signals : Kill(s)

Spec == Init /\ [][Next]_vars

(* The scheduler runs every thread that does not sleep.  Clients need not  *)
(* connect, signals need not come, and a session need not go on or end:    *)
(* one whose client has left without a QUIT can sleep for ever.            *)
Fairness == /\ WF_vars(HostRuns)
            /\ \A w \in Workers : WF_vars(WorkerRuns(w))
            /\ \A t \in Threads : WF_vars(Closes(t))

FairSpec == Spec /\ Fairness

------------------------------------------------------------------------------
HostPlaces == {"test", "list", "dumping", "showing", "dumped", "set_int", "set_usr1", "reset",
               "accept", "asleep", "push", "pushing", "return"}
WorkerPlaces == {"mask", "dequeue", "popping", "session", "reading", "writing", "event", "using",
                 "over"}
ClosingPlaces == {"no", "terminate", "free_list", "pcq_destroy", "destroy_locks", "unlink", "exit"}

(* Every variable has its type; the queue is never over its capacity and   *)
(* the host holds a connection exactly from its read to its enqueue.       *)
TypeOK ==
  /\ sent \in 0 .. MaxClients
  /\ \A line \in {fifo, incoming, queue, taken} : line \in Seq(1 .. sent)
  /\ Len(queue) <= MAX_SESSION_COUNT
  /\ Len(incoming) = IF pc[Host] \in {"push", "pushing", "return"} THEN 1 ELSE 0
  /\ pc \in [Threads -> HostPlaces \cup WorkerPlaces]
  /\ pc[Host] \in HostPlaces /\ \A w \in Workers : pc[w] \in WorkerPlaces
  /\ received_sigusr1 \in BOOLEAN
  /\ armed \subseteq Signals
  /\ signals \in [Signals -> Nat]
  /\ asked \in {"no", "due", "missable"}
  /\ forgotten \in BOOLEAN
  /\ closing \in [Threads -> ClosingPlaces]
  /\ freed \subseteq {"list", "buffer", "queue"}
  /\ linked \in BOOLEAN
  /\ status \in {"up", "killed", "failed", "closed", "crashed"}

(* However signals interrupt the host's read and however full the queue    *)
(* is, every connection is in one place between the FIFO and a worker, and *)
(* they stay in the order in which they came (receive_connection).         *)
ConnectionsInOrder == taken \o queue \o incoming \o fifo = [k \in 1 .. sent |-> k]

(* "setup again to make sure the signal is still setup correctly": while   *)
(* no dump is pending SIGUSR1 has its handler, so that the next one asks   *)
(* for a dump and does not end the server; unless one came between the     *)
(* setup and the reset of the flag, which forgets it and leaves the host   *)
(* without a handler (main).                                               *)
SignalSetUp == received_sigusr1 \/ "SIGUSR1" \in armed \/ forgotten

(* The list is freed only while no thread reads or writes it under its     *)
(* lock, whichever thread the handler of SIGINT runs in (ems_terminate).   *)
(* That says nothing of a thread that uses an event without the lock, nor  *)
(* of one that comes to the list later.                                    *)
FreeWaitsForList ==
  [][freed' # freed /\ "list" \notin freed => \A t \in Threads :
        pc[t] \notin ReadingPlaces \cup {"writing"}]_vars

Ended == status # "up" \/ \E t \in Threads : closing[t] # "no"

InSessions == \A w \in Workers : pc[w] \in {"session", "over"}

(* While nobody closes the server, a connection is taken by a worker,      *)
(* whatever signals the host gets in between and whether or not its dump   *)
(* and the workers wait for each other's locks, unless all workers stay in *)
(* their sessions for ever: no read that a signal interrupts and no sleep  *)
(* before a full queue loses it.                                           *)
ConnectionsServed ==
  \A c \in 1 .. MaxClients :
    sent >= c ~> (Ended \/ (\E k \in 1 .. Len(taken) : taken[k] = c) \/ []InSessions)

HostSleeps == pc[Host] = "asleep" /\ fifo = <<>>

HostWaits == pc[Host] = "pushing" /\ InSessions

(* A SIGUSR1 that finds its handler is followed by a dump that begins      *)
(* after it, whether it finds the host asleep in the read or before a full *)
(* queue, unless the queue stays full because no session ends.  One that   *)
(* comes between the test and the read, or to a worker that does not block *)
(* it yet, is followed by a dump too, or the host sleeps for ever because  *)
(* nobody connects.  One between a dump and the reset of the flag is not   *)
(* counted, the reset forgets it; one before that, from the signal that    *)
(* asks for the dump to the setup of the handlers, ends the server.        *)
DumpFollows ==
  /\ asked = "due" ~> (asked # "due" \/ Ended \/ []HostWaits)
  /\ [](asked = "missable" => <>(asked # "missable" \/ Ended \/ []HostSleeps \/ []HostWaits))

(* A SIGINT ends the process, except when it reaches a thread that has the *)
(* list locked for reading, so that server_close waits for its own thread, *)
(* or a worker that has the mutex of an event: server_close then waits for *)
(* the dump to unlock the list, and the dump for the mutex.                *)
ClosesOnItself(t) == closing[t] = "terminate" /\ pc[t] \in ReadingPlaces

ClosesOnEvent(t) == closing[t] = "terminate" /\ pc[t] = "using" /\ pc[Host] = "dumping"

CloseEnds ==
  (\E t \in Threads : closing[t] # "no")
    ~> (status # "up" \/ [](\E t \in Threads : ClosesOnItself(t) \/ ClosesOnEvent(t)))

(* server.h says that server_close closes the server: a server that exits  *)
(* leaves no FIFO behind for clients to wait at.                           *)
ClosesCleanly == status \in {"closed", "failed"} => ~ linked
===============================================================================
