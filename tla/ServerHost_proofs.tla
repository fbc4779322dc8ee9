---------------------------- MODULE ServerHost_proofs ----------------------------
(***************************************************************************)
(* Proofs about ServerHost, for any number of clients, workers and         *)
(* signals, and any capacity of the queue.                                 *)
(***************************************************************************)
EXTENDS ServerHost, SequenceTheorems, TLAPS

(* Every step but those that move a connection leaves the connections, and *)
(* the lines of the FIFO, the queue and the workers with them.             *)
Moves == Connect \/ Accept \/ Enqueue \/ \E w \in Workers : Dequeue(w)

Connections ==
  /\ sent \in 0 .. MaxClients
  /\ fifo \in Seq(1 .. sent) /\ incoming \in Seq(1 .. sent)
  /\ queue \in Seq(1 .. sent) /\ taken \in Seq(1 .. sent)
  /\ Len(queue) <= MAX_SESSION_COUNT
  /\ Len(incoming) = IF pc[Host] \in {"push", "pushing", "return"} THEN 1 ELSE 0

Places ==
  /\ pc \in [Threads -> HostPlaces \cup WorkerPlaces]
  /\ pc[Host] \in HostPlaces /\ \A w \in Workers : pc[w] \in WorkerPlaces

Flags ==
  /\ received_sigusr1 \in BOOLEAN
  /\ armed \subseteq Signals
  /\ signals \in [Signals -> Nat]
  /\ asked \in {"no", "due", "missable"}
  /\ forgotten \in BOOLEAN
  /\ closing \in [Threads -> ClosingPlaces]
  /\ freed \subseteq {"list", "buffer", "queue"}
  /\ linked \in BOOLEAN
  /\ status \in {"up", "killed", "failed", "closed", "crashed"}

LEMMA TypeParts == TypeOK <=> Connections /\ Places /\ Flags
BY DEF TypeOK, Connections, Places, Flags

LEMMA HostIsNoWorker == Host \in Threads /\ \A w \in Workers : w \in Threads /\ w # Host
BY HostAssumption DEF Threads

(* What a thread's step does to its place.                                 *)
LEMMA GotoPlaces ==
  ASSUME Places, NEW t \in Threads, NEW from, NEW to, Goto(t, from, to),
         t = Host => to \in HostPlaces, t \in Workers => to \in WorkerPlaces
  PROVE  Places' /\ pc'[t] = to /\ pc[t] = from /\ \A u \in Threads : u # t => pc'[u] = pc[u]
BY HostIsNoWorker DEF Places, Goto, Threads

LEMMA PlacesInv == Places /\ [Next]_vars => Places'
<1> SUFFICES ASSUME Places, [Next]_vars PROVE Places'
  OBVIOUS
<1> USE HostIsNoWorker
<1>1. CASE HostRuns
  <2>1. \E from, to : to \in HostPlaces /\ Goto(Host, from, to)
    BY <1>1 DEF HostRuns, Test, BeginDump, LockShown, UnlockShown, EndDump, SetupSignalHandlers,
                SetHandler, Reset, SleepInRead, Accept, CallEnqueue, Enqueue, HostPlaces
  <2> QED
    BY <2>1, GotoPlaces
<1>2. ASSUME NEW w \in Workers, WorkerRuns(w) \/ SessionRuns(w) PROVE Places'
  <2>1. \E from, to : to \in WorkerPlaces /\ Goto(w, from, to)
    BY <1>2 DEF WorkerRuns, SessionRuns, BlockSigusr1, CallDequeue, Dequeue, LockList,
                UnlockList, LockEvent, UseEvent, EndSession, WorkerPlaces
  <2> QED
    BY <2>1, GotoPlaces
<1>3. ASSUME NEW t \in Threads, Sigusr1(t) PROVE Places'
  BY <1>3 DEF Sigusr1, Places, HostPlaces
<1>4. CASE UNCHANGED pc
  BY <1>4 DEF Places
<1>5. CASE Connect
  BY <1>4, <1>5 DEF Connect
<1>6. ASSUME NEW t \in Threads, Sigint(t) \/ Closes(t) \/ Crash(t) PROVE Places'
  BY <1>4, <1>6 DEF Sigint, Closes, Terminate, FreeList, FreeBuffer, DestroyLocks, Unlink, Exit,
                    Crash
<1>7. ASSUME NEW s \in Signals, Kill(s) PROVE Places'
  BY <1>4, <1>7 DEF Kill
<1> QED
  BY <1>1, <1>2, <1>3, <1>4, <1>5, <1>6, <1>7 DEF Next, vars

LEMMA FlagsInv == Flags /\ [Next]_vars => Flags'
<1> SUFFICES ASSUME Flags, [Next]_vars PROVE Flags'
  OBVIOUS
<1> USE HostIsNoWorker DEF Flags
<1>1. CASE HostRuns
  <2>1. CASE SetupSignalHandlers
    BY <1>1, <2>1 DEF SetupSignalHandlers, SetHandler, ending, Signals
  <2>2. CASE CallEnqueue
    BY <1>1, <2>2 DEF CallEnqueue, handlers, ClosingPlaces
  <2> QED
    BY <1>1, <2>1, <2>2 DEF HostRuns, Test, BeginDump, LockShown, UnlockShown, EndDump, Reset,
                            SleepInRead, Accept, Enqueue, handlers, ending
<1>2. ASSUME NEW w \in Workers, WorkerRuns(w) \/ SessionRuns(w) PROVE Flags'
  BY <1>2 DEF WorkerRuns, SessionRuns, BlockSigusr1, CallDequeue, Dequeue, LockList, UnlockList,
              LockEvent, UseEvent, EndSession, handlers, ending
<1>3. ASSUME NEW t \in Threads, Sigusr1(t) PROVE Flags'
  BY <1>3 DEF Sigusr1, Send, Asked, Signals, ending
<1>4. ASSUME NEW t \in Threads, Sigint(t) PROVE Flags'
  BY <1>4 DEF Sigint, Send, Signals, ClosingPlaces
<1>5. ASSUME NEW t \in Threads, Closes(t) \/ Crash(t) PROVE Flags'
  BY <1>5 DEF Closes, Terminate, FreeList, FreeBuffer, DestroyLocks, Unlink, Exit, Crash,
              Closing, Fail, handlers, ClosingPlaces
<1>6. ASSUME NEW s \in Signals, Kill(s) PROVE Flags'
  BY <1>6 DEF Kill, Send, Signals
<1>7. CASE Connect
  BY <1>7 DEF Connect, handlers, ending
<1>8. CASE UNCHANGED vars
  BY <1>8 DEF vars, handlers, ending
<1> QED
  BY <1>1, <1>2, <1>3, <1>4, <1>5, <1>6, <1>7, <1>8 DEF Next

(* A step that moves no connection; it may take the host to or from a      *)
(* place with a connection only by CallEnqueue, from one such to another.  *)
Stays == /\ UNCHANGED connections
         /\ (pc'[Host] \in {"push", "pushing", "return"}) = (pc[Host] \in {"push", "pushing", "return"})

LEMMA StepsStay == Places /\ [Next]_vars => Moves \/ Stays
<1> SUFFICES ASSUME Places, [Next]_vars, ~ Moves PROVE Stays
  OBVIOUS
<1> USE HostIsNoWorker
<1>1. CASE HostRuns
  BY <1>1 DEF HostRuns, Test, BeginDump, LockShown, UnlockShown, EndDump, SetupSignalHandlers,
              SetHandler, Reset, SleepInRead, CallEnqueue, Goto, Moves, Stays, Places
<1>2. ASSUME NEW w \in Workers, WorkerRuns(w) \/ SessionRuns(w) PROVE Stays
  <2>1. UNCHANGED connections /\ \E from, to : Goto(w, from, to)
    BY <1>2 DEF WorkerRuns, SessionRuns, BlockSigusr1, CallDequeue, LockList, UnlockList,
                LockEvent, UseEvent, EndSession, Moves
  <2> QED
    BY <2>1 DEF Stays, Goto, Places
<1>3. ASSUME NEW t \in Threads, Sigusr1(t) PROVE Stays
  BY <1>3 DEF Sigusr1, Stays, Places
<1>4. ASSUME NEW t \in Threads, Sigint(t) \/ Closes(t) \/ Crash(t) PROVE Stays
  BY <1>4 DEF Sigint, Closes, Terminate, FreeList, FreeBuffer, DestroyLocks, Unlink, Exit, Crash,
              Stays
<1>5. ASSUME NEW s \in Signals, Kill(s) PROVE Stays
  BY <1>5 DEF Kill, Stays
<1>6. CASE UNCHANGED vars
  BY <1>6 DEF vars, Stays
<1> QED
  BY <1>1, <1>2, <1>3, <1>4, <1>5, <1>6 DEF Next, Moves

------------------------------------------------------------------------------
\* The line of connections

Line == taken \o queue \o incoming \o fifo

LEMMA HeadAndTail ==
  ASSUME NEW S, NEW s \in Seq(S), s # <<>>
  PROVE  /\ <<Head(s)>> \in Seq(S) /\ Tail(s) \in Seq(S)
         /\ Len(<<Head(s)>>) = 1 /\ Len(Tail(s)) = Len(s) - 1
         /\ <<Head(s)>> \o Tail(s) = s
<1>1. Head(s) \in S /\ Tail(s) \in Seq(S) /\ <<Head(s)>> \in Seq(S)
  BY HeadTailProperties
<1>2. Len(<<Head(s)>>) = 1 /\ Len(Tail(s)) = Len(s) - 1
  BY HeadTailProperties
<1>3. <<Head(s)>> \o Tail(s) = s
  <2> DEFINE c == <<Head(s)>> \o Tail(s)
  <2>1. c \in Seq(S) /\ Len(c) = Len(s)
    BY <1>1, <1>2, ConcatProperties, LenProperties
  <2>2. ASSUME NEW k \in 1 .. Len(c) PROVE c[k] = s[k]
    BY <1>1, <1>2, <2>1, <2>2, HeadTailProperties, LenProperties
  <2>3. c = s
    BY <2>1, <2>2, SeqEqual
  <2> QED
    BY <2>3
<1> QED
  BY <1>1, <1>2, <1>3

LEMMA ConnectsAtEnd ==
  ASSUME Connections, Connect
  PROVE  Connections' /\ Line' = Line \o <<sent + 1>>
<1> DEFINE S == 1 .. sent + 1
<1>1. sent \in Nat /\ sent' = sent + 1 /\ sent' \in 0 .. MaxClients
  BY MaxClientsAssumption DEF Connections, Connect
<1>2. fifo \in Seq(S) /\ incoming \in Seq(S) /\ queue \in Seq(S) /\ taken \in Seq(S)
  <2>1. 1 .. sent \subseteq S
    BY <1>1
  <2> QED
    BY <2>1, SeqMonotonic DEF Connections
<1>3. sent + 1 \in S /\ <<sent + 1>> \in Seq(S)
  BY <1>1
<1>4. fifo' = fifo \o <<sent + 1>>
  BY <1>1, <1>2, <1>3, AppendIsConcat DEF Connect
<1>5. fifo' \in Seq(S)
  BY <1>2, <1>3, <1>4, ConcatProperties
<1>6. Connections'
  BY <1>1, <1>2, <1>5 DEF Connections, Connect
<1>7. (taken \o queue) \o incoming \in Seq(S)
  BY <1>2, ConcatProperties
<1>8. Line' = Line \o <<sent + 1>>
  <2> DEFINE before == (taken \o queue) \o incoming
  <2>1. Line' = before \o (fifo \o <<sent + 1>>)
    BY <1>4 DEF Line, Connect
  <2>2. Line = before \o fifo
    BY DEF Line
  <2>3. before \in Seq(S) /\ fifo \in Seq(S) /\ <<sent + 1>> \in Seq(S)
    BY <1>2, <1>3, <1>7
  <2> HIDE DEF S, before
  <2>4. before \o (fifo \o <<sent + 1>>) = (before \o fifo) \o <<sent + 1>>
    BY <2>3, ConcatAssociative
  <2> QED
    BY <2>1, <2>2, <2>4
<1> QED
  BY <1>6, <1>8

LEMMA AcceptsInOrder ==
  ASSUME Connections, Places, Accept
  PROVE  Connections' /\ Line' = Line
<1> DEFINE S == 1 .. sent
<1>1. pc[Host] \in {"accept", "asleep"} /\ pc'[Host] = "push"
  BY HostIsNoWorker DEF Accept, Goto, Places
<1>2. incoming = <<>>
  BY <1>1, EmptySeq DEF Connections
<1>3. fifo \in Seq(S) /\ fifo # <<>> /\ queue \in Seq(S) /\ taken \in Seq(S)
  BY DEF Connections, Accept
<1>4. /\ incoming' \in Seq(S) /\ fifo' \in Seq(S) /\ Len(incoming') = 1
      /\ incoming' \o fifo' = fifo
  BY <1>3, HeadAndTail DEF Accept
<1>5. Connections'
  BY <1>1, <1>4 DEF Connections, Accept
<1>6. Line = (taken \o queue) \o fifo
  BY <1>2, <1>3, ConcatEmptySeq, ConcatProperties DEF Line
<1>7. Line' = (taken \o queue) \o (incoming' \o fifo')
  <2> DEFINE a == taken \o queue  b == incoming'  c == fifo'
  <2>1. Line' = (a \o b) \o c
    BY DEF Line, Accept
  <2>2. a \in Seq(S) /\ b \in Seq(S) /\ c \in Seq(S)
    BY <1>3, <1>4, ConcatProperties
  <2> HIDE DEF S, a, b, c
  <2>3. (a \o b) \o c = a \o (b \o c)
    BY <2>2, ConcatAssociative, SMTT(20)
  <2>4. Line' = a \o (b \o c)
    BY <2>1, <2>3
  <2> QED
    BY <2>4 DEF a, b, c
<1> QED
  BY <1>4, <1>5, <1>6, <1>7

LEMMA EnqueuesInOrder ==
  ASSUME Connections, Places, Enqueue
  PROVE  Connections' /\ Line' = Line
<1> DEFINE S == 1 .. sent
<1>1. pc[Host] = "pushing" /\ pc'[Host] = "test"
  BY HostIsNoWorker DEF Enqueue, Goto, Places
<1>2. /\ fifo \in Seq(S) /\ incoming \in Seq(S) /\ queue \in Seq(S) /\ taken \in Seq(S)
      /\ Len(incoming) = 1
  BY <1>1 DEF Connections
<1>3. queue' \in Seq(S) /\ Len(queue') = Len(queue) + 1
  <2> DEFINE b == queue  c == incoming
  <2>1. queue' = b \o c
    BY DEF Enqueue
  <2>2. b \in Seq(S) /\ c \in Seq(S) /\ Len(c) = 1
    BY <1>2
  <2> HIDE DEF S, b, c
  <2>3. b \o c \in Seq(S) /\ Len(b \o c) = Len(b) + Len(c)
    BY <2>2, ConcatProperties
  <2>4. queue' \in Seq(S) /\ Len(queue') = Len(b) + 1
    BY <2>1, <2>2, <2>3
  <2> QED
    BY <2>4 DEF b
<1>4. Len(queue') <= MAX_SESSION_COUNT
  BY <1>2, <1>3, LenProperties, SessionsAssumption DEF Enqueue
<1>5. Connections'
  BY <1>1, <1>3, <1>4, EmptySeq DEF Connections, Enqueue
<1>6. taken \o (queue \o incoming) = (taken \o queue) \o incoming
  <2> DEFINE a == taken  b == queue  c == incoming
  <2>1. a \in Seq(S) /\ b \in Seq(S) /\ c \in Seq(S)
    BY <1>2
  <2> HIDE DEF S, a, b, c
  <2>2. a \o (b \o c) = (a \o b) \o c
    BY <2>1, ConcatAssociative, SMTT(20)
  <2> QED
    BY <2>2 DEF a, b, c
<1>7. ((taken \o (queue \o incoming)) \o <<>>) \o fifo = (taken \o (queue \o incoming)) \o fifo
  BY <1>2, ConcatEmptySeq, ConcatProperties
<1> QED
  BY <1>5, <1>6, <1>7 DEF Line, Enqueue

LEMMA DequeuesInOrder ==
  ASSUME Connections, Places, NEW w \in Workers, Dequeue(w)
  PROVE  Connections' /\ Line' = Line
<1> DEFINE S == 1 .. sent
<1>1. pc'[Host] = pc[Host]
  BY HostIsNoWorker DEF Dequeue, Goto, Places
<1>2. fifo \in Seq(S) /\ incoming \in Seq(S) /\ queue \in Seq(S) /\ taken \in Seq(S)
  BY DEF Connections
<1>3. queue # <<>>
  BY DEF Dequeue
<1>4. /\ <<Head(queue)>> \in Seq(S) /\ queue' \in Seq(S) /\ Len(queue') = Len(queue) - 1
      /\ <<Head(queue)>> \o queue' = queue
  BY <1>2, <1>3, HeadAndTail DEF Dequeue
<1>5. taken' = taken \o <<Head(queue)>>
  BY <1>2, <1>3, HeadTailProperties, AppendIsConcat DEF Dequeue
<1>6. taken' \in Seq(S)
  BY <1>2, <1>4, <1>5, ConcatProperties
<1>7. Len(queue') <= MAX_SESSION_COUNT
  BY <1>2, <1>4, LenProperties, SessionsAssumption DEF Connections
<1>8. Connections'
  BY <1>1, <1>4, <1>6, <1>7 DEF Connections, Dequeue
<1>9. taken' \o queue' = taken \o queue
  <2> DEFINE a == taken  b == <<Head(queue)>>  c == queue'
  <2>1. a \in Seq(S) /\ b \in Seq(S) /\ c \in Seq(S)
    BY <1>2, <1>4
  <2>2. taken' \o queue' = (a \o b) \o c /\ taken \o queue = a \o (b \o c)
    BY <1>4, <1>5
  <2> HIDE DEF S, a, b, c
  <2>3. (a \o b) \o c = a \o (b \o c)
    BY <2>1, ConcatAssociative
  <2> QED
    BY <2>2, <2>3
<1> QED
  BY <1>8, <1>9 DEF Line, Dequeue

LEMMA InitInv == Init => TypeOK /\ ConnectionsInOrder
<1> SUFFICES ASSUME Init PROVE TypeOK /\ ConnectionsInOrder
  OBVIOUS
<1> USE HostIsNoWorker DEF Init
<1>1. Connections
  BY MaxClientsAssumption, SessionsAssumption, EmptySeq DEF Connections
<1>2. Places
  BY DEF Places, HostPlaces, WorkerPlaces, Threads
<1>3. Flags
  BY DEF Flags, ClosingPlaces, Signals
<1>4. taken \o queue \o incoming \o fifo = <<>>
  BY EmptySeq, ConcatEmptySeq
<1>5. [k \in 1 .. sent |-> k] = <<>>
  OBVIOUS
<1> QED
  BY <1>1, <1>2, <1>3, <1>4, <1>5, TypeParts DEF ConnectionsInOrder

LEMMA InvStep == TypeOK /\ ConnectionsInOrder /\ [Next]_vars => TypeOK' /\ ConnectionsInOrder'
<1> SUFFICES ASSUME TypeOK, ConnectionsInOrder, [Next]_vars
             PROVE  TypeOK' /\ ConnectionsInOrder'
  OBVIOUS
<1>1. Connections /\ Places /\ Places' /\ Flags'
  BY TypeParts, PlacesInv, FlagsInv
<1>2. Line = [k \in 1 .. sent |-> k] /\ sent \in Nat
  BY <1>1, MaxClientsAssumption DEF ConnectionsInOrder, Line, Connections
<1>3. Connections' /\ Line' = [k \in 1 .. sent' |-> k]
  <2>1. CASE Connect
    <3>1. Connections' /\ Line' = Line \o <<sent + 1>> /\ sent' = sent + 1
      BY <1>1, <2>1, ConnectsAtEnd DEF Connect
    <3>2. [k \in 1 .. sent |-> k] \o <<sent + 1>> = [k \in 1 .. sent + 1 |-> k]
      BY <1>2
    <3> QED
      BY <1>2, <3>1, <3>2
  <2>2. CASE Accept
    BY <1>1, <1>2, <2>2, AcceptsInOrder DEF Accept
  <2>3. CASE Enqueue
    BY <1>1, <1>2, <2>3, EnqueuesInOrder DEF Enqueue
  <2>4. ASSUME NEW w \in Workers, Dequeue(w) PROVE Connections' /\ Line' = [k \in 1 .. sent' |-> k]
    BY <1>1, <1>2, <2>4, DequeuesInOrder DEF Dequeue
  <2>5. CASE Stays
    BY <1>1, <1>2, <2>5 DEF Stays, Connections, Line, connections
  <2> QED
    BY <1>1, <2>1, <2>2, <2>3, <2>4, <2>5, StepsStay DEF Moves
<1>4. TypeOK'
  BY <1>1, <1>3 DEF TypeOK, Connections, Places, Flags
<1> QED
  BY <1>3, <1>4 DEF ConnectionsInOrder, Line

THEOREM InvCorrect == Spec => [](TypeOK /\ ConnectionsInOrder)
BY InitInv, InvStep, PTL DEF Spec

(* Type correctness of the server process, and with it that the queue is   *)
(* never over its capacity.                                                *)
THEOREM TypeCorrect == Spec => []TypeOK
BY InvCorrect, PTL

(* No connection is lost, doubled or overtaken between the server's FIFO   *)
(* and the workers, whatever signals come and wherever a close has come to. *)
THEOREM OrderCorrect == Spec => []ConnectionsInOrder
BY InvCorrect, PTL

------------------------------------------------------------------------------
\* The handler of SIGUSR1

(* At the reset of the flag the handler has just been set up, unless the   *)
(* signal came after that, which the reset will forget.                    *)
SetUpAtReset == pc[Host] = "reset" => "SIGUSR1" \in armed \/ forgotten

LEMMA SignalStep == TypeOK /\ SignalSetUp /\ SetUpAtReset /\ [Next]_vars
                      => SignalSetUp' /\ SetUpAtReset'
<1> SUFFICES ASSUME TypeOK, SignalSetUp, SetUpAtReset, [Next]_vars
             PROVE  SignalSetUp' /\ SetUpAtReset'
  OBVIOUS
<1> USE HostIsNoWorker DEF SignalSetUp, SetUpAtReset
<1>0. Places
  BY TypeParts
<1>1. CASE SetupSignalHandlers
  BY <1>0, <1>1 DEF SetupSignalHandlers, SetHandler, Goto, Places
<1>2. CASE Reset
  BY <1>0, <1>2 DEF Reset, Goto, Places
<1>3. CASE HostRuns /\ ~ SetupSignalHandlers /\ ~ Reset
  BY <1>0, <1>3 DEF HostRuns, Test, BeginDump, LockShown, UnlockShown, EndDump, SleepInRead,
                    Accept, CallEnqueue, Enqueue, Goto, Places, handlers
<1>4. ASSUME NEW w \in Workers, WorkerRuns(w) \/ SessionRuns(w) PROVE SignalSetUp' /\ SetUpAtReset'
  BY <1>0, <1>4 DEF WorkerRuns, SessionRuns, BlockSigusr1, CallDequeue, Dequeue, LockList,
                    UnlockList, LockEvent, UseEvent, EndSession, Goto, Places, handlers
<1>5. ASSUME NEW t \in Threads, Sigusr1(t) PROVE SignalSetUp' /\ SetUpAtReset'
  BY <1>0, <1>5 DEF Sigusr1, Places
<1>6. ASSUME NEW t \in Threads, Sigint(t) PROVE SignalSetUp' /\ SetUpAtReset'
  BY <1>6 DEF Sigint
<1>7. ASSUME NEW t \in Threads, Closes(t) \/ Crash(t) PROVE SignalSetUp' /\ SetUpAtReset'
  BY <1>7 DEF Closes, Terminate, FreeList, FreeBuffer, DestroyLocks, Unlink, Exit, Crash,
              handlers
<1>8. ASSUME NEW s \in Signals, Kill(s) PROVE SignalSetUp' /\ SetUpAtReset'
  BY <1>8 DEF Kill
<1>9. CASE Connect \/ UNCHANGED vars
  BY <1>9 DEF Connect, vars, handlers
<1> QED
  BY <1>1, <1>2, <1>3, <1>4, <1>5, <1>6, <1>7, <1>8, <1>9 DEF Next

(* While no dump is pending the next SIGUSR1 finds its handler, unless one *)
(* came between the setup of the handlers and the reset of the flag.       *)
THEOREM HandlerCorrect == Spec => []SignalSetUp
<1>1. Init => SignalSetUp /\ SetUpAtReset
  BY HostIsNoWorker DEF Init, SignalSetUp, SetUpAtReset, Signals
<1> QED
  BY <1>1, SignalStep, TypeCorrect, PTL DEF Spec

------------------------------------------------------------------------------
\* The list's lock

(* A thread that has the write lock to free the list has it alone, and one *)
(* that is past that in server_close has freed the list.                   *)
FreesAlone == \A t \in Threads :
  /\ closing[t] = "free_list" => \A u \in Threads : pc[u] \notin ReadingPlaces \cup {"writing"}
  /\ closing[t] \in {"pcq_destroy", "destroy_locks", "unlink", "exit"} => "list" \in freed

LEMMA FreesAloneStep == TypeOK /\ FreesAlone /\ [Next]_vars => FreesAlone'
<1> SUFFICES ASSUME TypeOK, FreesAlone, [Next]_vars PROVE FreesAlone'
  OBVIOUS
<1> USE HostIsNoWorker DEF FreesAlone, ReadingPlaces
<1>0. Places /\ Flags
  BY TypeParts
<1>1. ASSUME NEW t \in Threads, NEW from, NEW to, Goto(t, from, to),
             UNCHANGED <<closing, freed>>,
             to \in ReadingPlaces \cup {"writing"} => from \in ReadingPlaces \/ ~ Writing
      PROVE  FreesAlone'
  BY <1>0, <1>1 DEF Goto, Places, Writing
<1>2. CASE HostRuns /\ ~ CallEnqueue
  <2>1. /\ UNCHANGED <<closing, freed>>
        /\ \E from, to : /\ Goto(Host, from, to)
                         /\ to \in ReadingPlaces \cup {"writing"} => from \in ReadingPlaces \/ ~ Writing
    BY <1>2 DEF HostRuns, Test, BeginDump, LockShown, UnlockShown, EndDump, SetupSignalHandlers,
                SetHandler, Reset, SleepInRead, Accept, Enqueue, ending
  <2> QED
    BY <1>1, <2>1
<1>3. CASE CallEnqueue
  BY <1>0, <1>3 DEF CallEnqueue, Goto, Places, Flags
<1>4. ASSUME NEW w \in Workers, WorkerRuns(w) \/ SessionRuns(w) PROVE FreesAlone'
  <2>1. /\ UNCHANGED <<closing, freed>>
        /\ \E from, to : /\ Goto(w, from, to)
                         /\ to \in ReadingPlaces \cup {"writing"} => from \in ReadingPlaces \/ ~ Writing
    BY <1>4 DEF WorkerRuns, SessionRuns, BlockSigusr1, CallDequeue, Dequeue, LockList,
                UnlockList, LockEvent, UseEvent, EndSession, ending
  <2> QED
    BY <1>1, <2>1
<1>5. ASSUME NEW t \in Threads, Sigusr1(t) PROVE FreesAlone'
  BY <1>0, <1>5 DEF Sigusr1, Places, ending
<1>6. ASSUME NEW t \in Threads, Sigint(t) PROVE FreesAlone'
  BY <1>0, <1>6 DEF Sigint, Flags
<1>7. ASSUME NEW t \in Threads, Terminate(t) PROVE FreesAlone'
  BY <1>0, <1>7 DEF Terminate, Closing, Fail, Reading, Writing, Flags
<1>8. ASSUME NEW t \in Threads, FreeList(t) PROVE FreesAlone'
  BY <1>0, <1>8 DEF FreeList, Closing, Flags
<1>9. ASSUME NEW t \in Threads, FreeBuffer(t) \/ DestroyLocks(t) \/ Unlink(t) \/ Exit(t)
      PROVE  FreesAlone'
  BY <1>0, <1>9 DEF FreeBuffer, DestroyLocks, Unlink, Exit, Closing, Fail, Flags
<1>10. ASSUME NEW t \in Threads, Crash(t) PROVE FreesAlone'
  BY <1>10 DEF Crash
<1>11. ASSUME NEW s \in Signals, Kill(s) PROVE FreesAlone'
  BY <1>11 DEF Kill
<1>12. CASE Connect \/ UNCHANGED vars
  BY <1>12 DEF Connect, vars, ending
<1> QED
  BY <1>2, <1>3, <1>4, <1>5, <1>6, <1>7, <1>8, <1>9, <1>10, <1>11, <1>12 DEF Next, Closes

LEMMA FreeStep ==
  ASSUME TypeOK, FreesAlone, [Next]_vars, freed' # freed, "list" \notin freed, NEW t \in Threads
  PROVE  pc[t] \notin ReadingPlaces \cup {"writing"}
<1>1. PICK u \in Threads : FreeList(u) \/ FreeBuffer(u) \/ Unlink(u)
  BY DEF Next, HostRuns, Test, BeginDump, LockShown, UnlockShown, EndDump, SetupSignalHandlers,
         SetHandler, Reset, SleepInRead, Accept, CallEnqueue, Enqueue, WorkerRuns, SessionRuns,
         BlockSigusr1, CallDequeue, Dequeue, LockList, UnlockList, LockEvent, UseEvent,
         EndSession, Sigusr1, Sigint, Closes, Terminate, DestroyLocks, Exit, Crash, Kill,
         Connect, vars, ending
<1>2. closing[u] \in {"free_list", "pcq_destroy", "unlink"}
  BY <1>1 DEF FreeList, FreeBuffer, Unlink, Closing
<1> QED
  BY <1>2 DEF FreesAlone

(* Whichever thread the handler of SIGINT runs in, the list is freed only  *)
(* while no thread reads or writes it under its lock.                      *)
THEOREM FreeCorrect == Spec => FreeWaitsForList
<1>1. Init => FreesAlone
  BY DEF Init, FreesAlone
<1>2. TypeOK /\ FreesAlone /\ [Next]_vars =>
        [freed' # freed /\ "list" \notin freed => \A t \in Threads :
           pc[t] \notin ReadingPlaces \cup {"writing"}]_vars
  BY FreeStep
<1> QED
  BY <1>1, <1>2, FreesAloneStep, TypeCorrect, PTL DEF Spec, FreeWaitsForList
===============================================================================
