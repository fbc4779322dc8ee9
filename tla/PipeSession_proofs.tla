------------------------- MODULE PipeSession_proofs -------------------------
(***************************************************************************)
(* Theorems about PipeSession, for any clients, workers, files and         *)
(* SIGINTs:                                                                *)
(*   - TypeCorrect: type correctness, with no end of a FIFO closed twice;  *)
(*   - SessionsCorrect: every session is one worker's, which is left no    *)
(*     descriptor of it;                                                   *)
(*   - ExecutedCorrect: a worker executes calls of the client's file, in   *)
(*     their order;                                                        *)
(*   - AnswersCorrect: no answer that a call returns is out of order.      *)
(* The first two follow from Inv, the others from Inv with RequestsInv     *)
(* (where each request of a client is, from its line of the file to the    *)
(* worker) and AnswersInv (where each answer is, on the way back).         *)
(***************************************************************************)
EXTENDS PipeSession, SequenceTheorems, FiniteSetTheorems, TLAPS

AllOps == Ops \cup {"SETUP", "QUIT"}

(* TypeOK in parts: who is where, what is in the FIFOs and the histories,  *)
(* and how many ends are open.                                             *)
AtOK == at \in [Clients -> ClientPlaces]

PcOK == pc \in [Workers -> WorkerPlaces]

ControlOK ==
  /\ scenario \in Scenarios
  /\ line \in [Clients -> Nat] /\ sigints \in [Clients -> 0 .. 2]
  /\ connections \in Seq(Clients)
  /\ made \in [Clients -> Nat]
  /\ op \in [Clients -> AllOps]
  /\ client \in [Workers -> Clients \cup {NoClient}]
  /\ linked \in [Clients -> SUBSET {"req", "resp"}]

WordsOK ==
  /\ got \in [Clients -> Results]
  /\ returned \in [Clients -> Seq(Results)]
  /\ request \in [Workers -> Messages]
  /\ answer \in [Workers -> Seq(Results)]
  /\ executed \in [Clients -> Seq(Messages)]
  /\ requests \in [Clients -> Seq(Messages)]
  /\ responses \in [Clients -> Seq(Results)]

EndsOK ==
  /\ reqReaders \in Counts /\ reqWriters \in Counts
  /\ respReaders \in Counts /\ respWriters \in Counts

LEMMA TypeParts == TypeOK <=> AtOK /\ PcOK /\ ControlOK /\ WordsOK /\ EndsOK
BY DEF TypeOK, AtOK, PcOK, ControlOK, WordsOK, EndsOK, AllOps

LEMMA Constants ==
  ASSUME NEW s \in Scenarios
  PROVE  /\ DOMAIN s.file \subseteq Clients
         /\ \A c \in DOMAIN s.file : s.file[c] \in Seq(Lines)
         /\ s.sigints \in [Clients -> 0 .. 2]
         /\ s.workers \subseteq Workers
BY ScenariosAssumption

(* Which actions change which variable.                                    *)
Changes ==
  /\ UNCHANGED scenario
  /\ UNCHANGED line \/ \E c \in Clients : Call(c) \/ Skip(c)
  /\ UNCHANGED sigints \/ \E c \in Clients : Sigint(c)
  /\ \/ UNCHANGED connections
     \/ \E c \in Clients : Setup(c)
     \/ \E w \in Workers : Dequeue(w)
  /\ UNCHANGED made \/ \E c \in Clients : Call(c)
  /\ UNCHANGED op \/ \E c \in Clients : Call(c) \/ Quit(c)
  /\ UNCHANGED client \/ \E w \in Workers : Dequeue(w) \/ Free(w)
  /\ UNCHANGED linked \/ \E c \in Clients : Setup(c) \/ Unlink(c)
  /\ \/ UNCHANGED pc
     \/ \E c \in Clients : OpenReq(c) \/ OpenResp(c)
     \/ \E w \in Workers : WorkerRuns(w)

Messaging ==
  /\ UNCHANGED got \/ \E c \in Clients : Call(c) \/ ReadResult(c)
  /\ UNCHANGED returned \/ \E c \in Clients : Return(c)
  /\ UNCHANGED request \/ \E w \in Workers : Dequeue(w) \/ ReadOp(w)
  /\ UNCHANGED answer \/ \E w \in Workers : Dequeue(w) \/ Execute(w)
  /\ UNCHANGED executed \/ \E w \in Workers : Execute(w)
  /\ \/ UNCHANGED requests
     \/ \E c \in Clients : WriteReq(c) \/ CloseReqWriter(c) \/ Sigint(c)
     \/ \E w \in Workers : ReadOp(w) \/ CloseRequestFd(w)
  /\ \/ UNCHANGED responses
     \/ \E c \in Clients : ReadResult(c) \/ ReadBody(c) \/ CloseRespReader(c) \/ Exit(c) \/ Sigint(c)
     \/ \E w \in Workers : WriteAnswer(w) \/ CloseAnswer(w)

Opening ==
  /\ \/ UNCHANGED reqReaders
     \/ \E w \in Workers : OpenRequestFd(w) \/ OpenTmpPipe(w) \/ CloseTmpPipe(w) \/ CloseRequestFd(w)
  /\ UNCHANGED reqWriters \/ \E c \in Clients : OpenReq(c) \/ CloseReqWriter(c) \/ Sigint(c)
  /\ UNCHANGED respReaders \/ \E c \in Clients : OpenResp(c) \/ CloseRespReader(c) \/ Exit(c) \/ Sigint(c)
  /\ UNCHANGED respWriters \/ \E w \in Workers : OpenAnswer(w) \/ CloseAnswer(w)

LEMMA Frame == [Next]_vars => Changes /\ Messaging /\ Opening
<1> SUFFICES ASSUME [Next]_vars PROVE Changes /\ Messaging /\ Opening
  OBVIOUS
<1> USE DEF Changes, Messaging, Opening, input, callers, servers, pipes, ends
<1>1. ASSUME NEW c \in Clients, \/ Setup(c) \/ Call(c) \/ Skip(c) \/ Quit(c) \/ Abandon(c)
                                \/ OpenReq(c) \/ WriteReq(c) \/ CloseReqWriter(c) \/ Unlink(c)
                                \/ OpenResp(c)
      PROVE  Changes /\ Messaging /\ Opening
  BY <1>1 DEF Setup, Call, Skip, Quit, Abandon, OpenReq, WriteReq, CloseReqWriter, Unlink, OpenResp
<1>2. ASSUME NEW c \in Clients, \/ ReadResult(c) \/ ReadBody(c) \/ CloseRespReader(c) \/ Return(c)
                                \/ SetupReturn(c) \/ Exit(c) \/ Sigint(c)
      PROVE  Changes /\ Messaging /\ Opening
  BY <1>2 DEF ReadResult, ReadBody, CloseRespReader, Return, SetupReturn, Exit, Sigint
<1>3. ASSUME NEW w \in Workers, \/ Dequeue(w) \/ OpenAnswer(w) \/ WriteAnswer(w) \/ CloseAnswer(w)
                                \/ OpenRequestFd(w) \/ OpenTmpPipe(w) \/ CloseTmpPipe(w) \/ ReadOp(w)
                                \/ Execute(w) \/ CloseRequestFd(w) \/ Free(w)
      PROVE  Changes /\ Messaging /\ Opening
  BY <1>3 DEF Dequeue, OpenAnswer, WriteAnswer, CloseAnswer, OpenRequestFd, OpenTmpPipe,
       CloseTmpPipe, ReadOp, Execute, CloseRequestFd, Free, OpenFd, WorkerRuns
<1>4. CASE UNCHANGED vars
  BY <1>4 DEF vars
<1> QED
  BY <1>1, <1>2, <1>3, <1>4 DEF Next, ClientRuns, WorkerRuns

LEMMA AtInv == AtOK /\ [Next]_vars => AtOK'
<1> SUFFICES ASSUME AtOK, [Next]_vars PROVE AtOK'
  OBVIOUS
<1> USE DEF AtOK, ClientPlaces
<1>1. ASSUME NEW c \in Clients, \/ Setup(c) \/ Call(c) \/ Skip(c) \/ Quit(c) \/ Abandon(c)
                                \/ OpenReq(c) \/ WriteReq(c) \/ CloseReqWriter(c)
      PROVE  AtOK'
  BY <1>1 DEF Setup, Call, Skip, Quit, Abandon, OpenReq, WriteReq, CloseReqWriter, ClientTo, input,
       callers, servers, pipes, ends
<1>2. ASSUME NEW c \in Clients, Unlink(c) \/ OpenResp(c) \/ ReadResult(c) \/ ReadBody(c)
      PROVE  AtOK'
  BY <1>2 DEF Unlink, OpenResp, ReadResult, ReadBody, ClientTo, input, callers, servers, pipes, ends
<1>3. ASSUME NEW c \in Clients, CloseRespReader(c) \/ Return(c) \/ SetupReturn(c) \/ Exit(c)
      PROVE  AtOK'
  BY <1>3 DEF CloseRespReader, Return, SetupReturn, Exit, ClientTo, input, callers, servers, pipes,
       ends
<1>4. ASSUME NEW c \in Clients, Sigint(c)
      PROVE  AtOK'
  BY <1>4 DEF Sigint, ClientTo, Interrupted, Killed, input, callers, servers, pipes, ends
<1>5. ASSUME NEW w \in Workers, \/ Dequeue(w) \/ OpenAnswer(w) \/ WriteAnswer(w) \/ CloseAnswer(w)
                                \/ OpenRequestFd(w) \/ OpenTmpPipe(w)
      PROVE  AtOK'
  BY <1>5 DEF Dequeue, OpenAnswer, WriteAnswer, CloseAnswer, OpenRequestFd, OpenTmpPipe, WorkerTo,
       GoOn, AfterResp, OpenFd, input, callers, servers, pipes, ends
<1>6. ASSUME NEW w \in Workers, \/ CloseTmpPipe(w) \/ ReadOp(w) \/ Execute(w) \/ CloseRequestFd(w)
                                \/ Free(w)
      PROVE  AtOK'
  BY <1>6 DEF CloseTmpPipe, ReadOp, Execute, CloseRequestFd, Free, WorkerTo, GoOn, input, callers,
       servers, pipes, ends
<1>7. CASE UNCHANGED vars
  BY <1>7 DEF vars, input, callers, servers, pipes, ends
<1> QED
  BY <1>1, <1>2, <1>3, <1>4, <1>5, <1>6, <1>7 DEF Next, ClientRuns, WorkerRuns

LEMMA PcInv == PcOK /\ [Next]_vars => PcOK'
<1> SUFFICES ASSUME PcOK, [Next]_vars PROVE PcOK'
  OBVIOUS
<1> USE DEF PcOK, WorkerPlaces
<1>1. ASSUME NEW c \in Clients, \/ Setup(c) \/ Call(c) \/ Skip(c) \/ Quit(c) \/ Abandon(c)
                                \/ OpenReq(c) \/ WriteReq(c) \/ CloseReqWriter(c)
      PROVE  PcOK'
  BY <1>1 DEF Setup, Call, Skip, Quit, Abandon, OpenReq, WriteReq, CloseReqWriter, ClientTo, input,
       callers, servers, pipes, ends, Unblocked
<1>2. ASSUME NEW c \in Clients, Unlink(c) \/ OpenResp(c) \/ ReadResult(c) \/ ReadBody(c)
      PROVE  PcOK'
  BY <1>2 DEF Unlink, OpenResp, ReadResult, ReadBody, ClientTo, input, callers, servers, pipes,
       ends, Unblocked
<1>3. ASSUME NEW c \in Clients, CloseRespReader(c) \/ Return(c) \/ SetupReturn(c) \/ Exit(c)
      PROVE  PcOK'
  BY <1>3 DEF CloseRespReader, Return, SetupReturn, Exit, ClientTo, input, callers, servers, pipes,
       ends, Unblocked
<1>4. ASSUME NEW c \in Clients, Sigint(c)
      PROVE  PcOK'
  BY <1>4 DEF Sigint, ClientTo, Interrupted, Killed, input, callers, servers, pipes, ends, Unblocked
<1>5. ASSUME NEW w \in Workers, \/ Dequeue(w) \/ OpenAnswer(w) \/ WriteAnswer(w) \/ CloseAnswer(w)
                                \/ OpenRequestFd(w) \/ OpenTmpPipe(w)
      PROVE  PcOK'
  BY <1>5 DEF Dequeue, OpenAnswer, WriteAnswer, CloseAnswer, OpenRequestFd, OpenTmpPipe, WorkerTo,
       GoOn, AfterResp, OpenFd, input, callers, servers, pipes, ends, Unblocked
<1>6. ASSUME NEW w \in Workers, \/ CloseTmpPipe(w) \/ ReadOp(w) \/ Execute(w) \/ CloseRequestFd(w)
                                \/ Free(w)
      PROVE  PcOK'
  BY <1>6 DEF CloseTmpPipe, ReadOp, Execute, CloseRequestFd, Free, WorkerTo, GoOn, input, callers,
       servers, pipes, ends, Unblocked
<1>7. CASE UNCHANGED vars
  BY <1>7 DEF vars, input, callers, servers, pipes, ends
<1> QED
  BY <1>1, <1>2, <1>3, <1>4, <1>5, <1>6, <1>7 DEF Next, ClientRuns, WorkerRuns

LEMMA ControlInv == ControlOK /\ [Next]_vars => ControlOK'
<1> SUFFICES ASSUME ControlOK, [Next]_vars PROVE ControlOK'
  OBVIOUS
<1>1. scenario' \in Scenarios
  BY Frame DEF ControlOK, Changes
<1>2. line' \in [Clients -> Nat]
  <2>1. CASE UNCHANGED line
    BY <2>1 DEF ControlOK
  <2>2. ASSUME NEW c \in Clients, Call(c) PROVE line' \in [Clients -> Nat]
    BY <2>2 DEF ControlOK, Call, Remaining
  <2>3. ASSUME NEW c \in Clients, Skip(c) PROVE line' \in [Clients -> Nat]
    BY <2>3 DEF ControlOK, Skip, Remaining
  <2> QED
    BY <2>1, <2>2, <2>3, Frame DEF Changes
<1>3. sigints' \in [Clients -> 0 .. 2]
  <2>1. CASE UNCHANGED sigints
    BY <2>1 DEF ControlOK
  <2>2. ASSUME NEW c \in Clients, Sigint(c) PROVE sigints' \in [Clients -> 0 .. 2]
    BY <2>2, Constants DEF ControlOK, Sigint
  <2> QED
    BY <2>1, <2>2, Frame DEF Changes
<1>4. connections' \in Seq(Clients)
  <2>1. CASE UNCHANGED connections
    BY <2>1 DEF ControlOK
  <2>2. ASSUME NEW c \in Clients, Setup(c) PROVE connections' \in Seq(Clients)
    BY <2>2 DEF ControlOK, Setup
  <2>3. ASSUME NEW w \in Workers, Dequeue(w) PROVE connections' \in Seq(Clients)
    BY <2>3, HeadTailProperties DEF ControlOK, Dequeue
  <2> QED
    BY <2>1, <2>2, <2>3, Frame DEF Changes
<1>5. made' \in [Clients -> Nat]
  <2>1. CASE UNCHANGED made
    BY <2>1 DEF ControlOK
  <2>2. ASSUME NEW c \in Clients, Call(c) PROVE made' \in [Clients -> Nat]
    BY <2>2 DEF ControlOK, Call
  <2> QED
    BY <2>1, <2>2, Frame DEF Changes
<1>6. op' \in [Clients -> AllOps]
  <2>1. CASE UNCHANGED op
    BY <2>1 DEF ControlOK
  <2>2. ASSUME NEW c \in Clients, Call(c) \/ Quit(c) PROVE op' \in [Clients -> AllOps]
    BY <2>2 DEF ControlOK, Call, Quit, AllOps
  <2> QED
    BY <2>1, <2>2, Frame DEF Changes
<1>7. client' \in [Workers -> Clients \cup {NoClient}]
  <2>1. CASE UNCHANGED client
    BY <2>1 DEF ControlOK
  <2>2. ASSUME NEW w \in Workers, Dequeue(w) PROVE client' \in [Workers -> Clients \cup {NoClient}]
    BY <2>2, HeadTailProperties DEF ControlOK, Dequeue
  <2>3. ASSUME NEW w \in Workers, Free(w) PROVE client' \in [Workers -> Clients \cup {NoClient}]
    BY <2>3 DEF ControlOK, Free
  <2> QED
    BY <2>1, <2>2, <2>3, Frame DEF Changes
<1>8. linked' \in [Clients -> SUBSET {"req", "resp"}]
  <2>1. CASE UNCHANGED linked
    BY <2>1 DEF ControlOK
  <2>2. ASSUME NEW c \in Clients, Setup(c) \/ Unlink(c)
        PROVE  linked' \in [Clients -> SUBSET {"req", "resp"}]
    BY <2>2 DEF ControlOK, Setup, Unlink
  <2> QED
    BY <2>1, <2>2, Frame DEF Changes
<1> QED
  BY <1>1, <1>2, <1>3, <1>4, <1>5, <1>6, <1>7, <1>8 DEF ControlOK

AtWork(w) == pc[w] \notin {"dequeue", "busy"}

(* A worker has a client from pcq_dequeue to the end of the session.       *)
Served == \A w \in Workers : client[w] # NoClient <=> AtWork(w)

LEMMA ServedInv == PcOK /\ ControlOK /\ Served /\ [Next]_vars => Served'
<1> SUFFICES ASSUME PcOK, ControlOK, Served, [Next]_vars PROVE Served'
  OBVIOUS
<1> USE DEF Served, AtWork, PcOK
<1>1. ASSUME NEW w \in Workers, Dequeue(w) PROVE Served'
  <2>1. Head(connections) \in Clients /\ Head(connections) # NoClient
    BY <1>1, NoClientAssumption, HeadTailProperties DEF Dequeue, ControlOK
  <2> QED
    BY <1>1, <2>1 DEF Dequeue, WorkerTo, GoOn, ControlOK
<1>2. ASSUME NEW w \in Workers, Free(w) PROVE Served'
  BY <1>2 DEF Free, WorkerTo, GoOn, ControlOK
<1>3. ASSUME NEW c \in Clients, OpenReq(c) \/ OpenResp(c) PROVE Served'
  BY <1>3 DEF OpenReq, OpenResp, Unblocked
<1>4. ASSUME NEW w \in Workers, OpenAnswer(w) \/ OpenRequestFd(w) \/ OpenTmpPipe(w) PROVE Served'
  BY <1>4 DEF OpenAnswer, OpenRequestFd, OpenTmpPipe, OpenFd, GoOn, AfterResp
<1>5. ASSUME NEW w \in Workers, WriteAnswer(w) \/ CloseAnswer(w) \/ CloseTmpPipe(w) \/ ReadOp(w)
                                \/ Execute(w) \/ CloseRequestFd(w)
      PROVE  Served'
  BY <1>5 DEF WriteAnswer, CloseAnswer, CloseTmpPipe, ReadOp, Execute, CloseRequestFd, WorkerTo,
              GoOn, AfterResp
<1>6. CASE UNCHANGED <<pc, client>>
  BY <1>6
<1> QED
  BY <1>1, <1>2, <1>3, <1>4, <1>5, <1>6, Frame DEF Changes, WorkerRuns

------------------------------------------------------------------------------
\* What the FIFOs, the workers and the histories hold

LEMMA MessageTyped == ASSUME NEW n \in Nat, NEW o \in AllOps PROVE [n |-> n, op |-> o] \in Messages
BY DEF Messages, AllOps

LEMMA MessageFields == ASSUME NEW m \in Messages PROVE m.n \in Nat /\ m.op \in AllOps
BY DEF Messages, AllOps

LEMMA ResultTyped == ASSUME NEW n \in Nat, NEW res \in {0, 1}
  PROVE  [n |-> n, res |-> res] \in Results
BY DEF Results

LEMMA ResultFields == ASSUME NEW r \in Results PROVE r.n \in Nat /\ r.res \in {0, 1}
BY DEF Results

LEMMA NoResultTyped == NoResult \in Results
BY DEF NoResult, Results

LEMMA WordsTyped ==
  ASSUME NEW n \in Nat, NEW o, NEW res \in {0, 1} PROVE Words(n, o, res) \in Seq(Results)
<1>1. [n |-> n, res |-> res] \in Results /\ [n |-> n, res |-> 0] \in Results
  BY ResultTyped
<1>2. <<[n |-> n, res |-> res]>> \in Seq(Results) /\ <<[n |-> n, res |-> 0]>> \in Seq(Results)
  BY <1>1
<1>3. (IF HasBody(o) THEN <<[n |-> n, res |-> 0]>> ELSE <<>>) \in Seq(Results)
  BY <1>2
<1> QED
  BY <1>2, <1>3, ConcatProperties DEF Words

LEMMA HeadsTyped ==
  ASSUME WordsOK, NEW c \in Clients
  PROVE  /\ requests[c] # <<>> => Head(requests[c]) \in Messages /\ Tail(requests[c]) \in Seq(Messages)
         /\ responses[c] # <<>> => Head(responses[c]) \in Results /\ Tail(responses[c]) \in Seq(Results)
<1>1. requests[c] \in Seq(Messages) /\ responses[c] \in Seq(Results)
  BY DEF WordsOK
<1> QED
  BY <1>1, HeadTailProperties

LEMMA ServesClient ==
  ASSUME ControlOK, Served, NEW w \in Workers, AtWork(w)
  PROVE  client[w] \in Clients
BY DEF Served, ControlOK

LEMMA WordsInv == ControlOK /\ Served /\ WordsOK /\ [Next]_vars => WordsOK'
<1> SUFFICES ASSUME ControlOK, Served, WordsOK, [Next]_vars PROVE WordsOK'
  OBVIOUS
<1>1. got' \in [Clients -> Results]
  <2>1. CASE UNCHANGED got
    BY <2>1 DEF WordsOK
  <2>2. ASSUME NEW c \in Clients, Call(c) PROVE got' \in [Clients -> Results]
    BY <2>2, NoResultTyped DEF WordsOK, Call
  <2>3. ASSUME NEW c \in Clients, ReadResult(c) PROVE got' \in [Clients -> Results]
    BY <2>3, HeadsTyped DEF WordsOK, ReadResult, HasWord
  <2> QED
    BY <2>1, <2>2, <2>3, Frame DEF Messaging
<1>2. returned' \in [Clients -> Seq(Results)]
  <2>1. CASE UNCHANGED returned
    BY <2>1 DEF WordsOK
  <2>2. ASSUME NEW c \in Clients, Return(c) PROVE returned' \in [Clients -> Seq(Results)]
    <3>1. got[c].n \in Nat /\ got[c].res \in {0, 1}
      BY ResultFields DEF WordsOK
    <3>2. PICK r \in Results : returned' = [returned EXCEPT ![c] = Append(@, r)]
      BY <2>2, <3>1, NoResultTyped, ResultTyped DEF Return
    <3> QED
      BY <3>2 DEF WordsOK
  <2> QED
    BY <2>1, <2>2, Frame DEF Messaging
<1>3. request' \in [Workers -> Messages]
  <2>1. CASE UNCHANGED request
    BY <2>1 DEF WordsOK
  <2>2. ASSUME NEW w \in Workers, Dequeue(w) PROVE request' \in [Workers -> Messages]
    BY <2>2, MessageTyped DEF WordsOK, Dequeue, AllOps
  <2>3. ASSUME NEW w \in Workers, ReadOp(w) PROVE request' \in [Workers -> Messages]
    <3>1. client[w] \in Clients
      BY <2>3, ServesClient DEF ReadOp, WorkerTo, AtWork
    <3> QED
      <4>1. UNCHANGED request \/ (/\ requests[client[w]] # <<>>
                                  /\ request' = [request EXCEPT ![w] = Head(requests[client[w]])])
        BY <2>3 DEF ReadOp
      <4> QED
        BY <3>1, <4>1, HeadsTyped DEF WordsOK
  <2> QED
    BY <2>1, <2>2, <2>3, Frame DEF Messaging
<1>4. answer' \in [Workers -> Seq(Results)]
  <2>1. CASE UNCHANGED answer
    BY <2>1 DEF WordsOK
  <2>2. ASSUME NEW w \in Workers, Dequeue(w) PROVE answer' \in [Workers -> Seq(Results)]
    <3> DEFINE r == [n |-> 0, res |-> 0]
    <3>0. r \in Results
      BY ResultTyped
    <3> HIDE DEF r
    <3>1. <<r>> \in Seq(Results)
      BY <3>0
    <3> QED
      BY <2>2, <3>1 DEF WordsOK, Dequeue, r
  <2>3. ASSUME NEW w \in Workers, Execute(w) PROVE answer' \in [Workers -> Seq(Results)]
    <3>1. client[w] \in Clients
      BY <2>3, ServesClient DEF Execute, WorkerTo, AtWork
    <3> QED
      BY <3>1, <2>3, WordsTyped, MessageFields DEF WordsOK, Execute
  <2> QED
    BY <2>1, <2>2, <2>3, Frame DEF Messaging
<1>5. executed' \in [Clients -> Seq(Messages)]
  <2>1. CASE UNCHANGED executed
    BY <2>1 DEF WordsOK
  <2>2. ASSUME NEW w \in Workers, Execute(w) PROVE executed' \in [Clients -> Seq(Messages)]
    <3>1. client[w] \in Clients
      BY <2>2, ServesClient DEF Execute, WorkerTo, AtWork
    <3> QED
      BY <3>1, <2>2, MessageTyped, MessageFields DEF WordsOK, Execute
  <2> QED
    BY <2>1, <2>2, Frame DEF Messaging
<1>6. requests' \in [Clients -> Seq(Messages)]
  <2>1. CASE UNCHANGED requests
    BY <2>1 DEF WordsOK
  <2>2. ASSUME NEW c \in Clients, WriteReq(c) PROVE requests' \in [Clients -> Seq(Messages)]
    BY <2>2, MessageTyped DEF WordsOK, WriteReq, ControlOK
  <2>3. ASSUME NEW c \in Clients, CloseReqWriter(c) PROVE requests' \in [Clients -> Seq(Messages)]
    BY <2>3 DEF WordsOK, CloseReqWriter, Kept
  <2>4. ASSUME NEW c \in Clients, Sigint(c) PROVE requests' \in [Clients -> Seq(Messages)]
    <3>1. UNCHANGED requests \/ requests' = [requests EXCEPT ![c] = <<>>]
      <4>1. CASE UNCHANGED requests
        BY <4>1
      <4>2. CASE Killed(c) /\ reqReaders[c] = 0
        BY <4>2 DEF Killed
      <4>3. CASE Killed(c) /\ reqReaders[c] # 0
        BY <4>3 DEF Killed, WordsOK
      <4> QED
        BY <2>4, <4>1, <4>2, <4>3 DEF Sigint
    <3>2. <<>> \in Seq(Messages) /\ <<>> \in Seq(Results)
      OBVIOUS
    <3> QED
      BY <3>1, <3>2 DEF WordsOK
  <2>5. ASSUME NEW w \in Workers, ReadOp(w) PROVE requests' \in [Clients -> Seq(Messages)]
    <3>1. client[w] \in Clients
      BY <2>5, ServesClient DEF ReadOp, WorkerTo, AtWork
    <3> QED
      BY <3>1, <2>5, HeadsTyped DEF WordsOK, ReadOp
  <2>6. ASSUME NEW w \in Workers, CloseRequestFd(w) PROVE requests' \in [Clients -> Seq(Messages)]
    <3>1. client[w] \in Clients
      BY <2>6, ServesClient DEF CloseRequestFd, WorkerTo, AtWork
    <3> QED
      BY <3>1, <2>6 DEF WordsOK, CloseRequestFd, Kept
  <2> QED
    BY <2>1, <2>2, <2>3, <2>4, <2>5, <2>6, Frame DEF Messaging
<1>7. responses' \in [Clients -> Seq(Results)]
  <2>1. CASE UNCHANGED responses
    BY <2>1 DEF WordsOK
  <2>2. ASSUME NEW c \in Clients, ReadResult(c) PROVE responses' \in [Clients -> Seq(Results)]
    BY <2>2, HeadsTyped DEF WordsOK, ReadResult, HasWord
  <2>3. ASSUME NEW c \in Clients, ReadBody(c) PROVE responses' \in [Clients -> Seq(Results)]
    BY <2>3, HeadsTyped DEF WordsOK, ReadBody, HasWord
  <2>4. ASSUME NEW c \in Clients, CloseRespReader(c) PROVE responses' \in [Clients -> Seq(Results)]
    BY <2>4 DEF WordsOK, CloseRespReader, Kept
  <2>5. ASSUME NEW c \in Clients, Exit(c) PROVE responses' \in [Clients -> Seq(Results)]
    BY <2>5 DEF WordsOK, Exit
  <2>6. ASSUME NEW c \in Clients, Sigint(c) PROVE responses' \in [Clients -> Seq(Results)]
    <3>1. \/ UNCHANGED responses
          \/ \E k \in {<<>>, responses[c]} : responses' = [responses EXCEPT ![c] = k]
      BY <2>6 DEF Sigint, Interrupted, Killed, Kept
    <3>2. <<>> \in Seq(Messages) /\ <<>> \in Seq(Results)
      OBVIOUS
    <3> QED
      BY <3>1, <3>2 DEF WordsOK
  <2>7. ASSUME NEW w \in Workers, WriteAnswer(w) PROVE responses' \in [Clients -> Seq(Results)]
    BY <2>7, ConcatProperties DEF WordsOK, WriteAnswer
  <2>8. ASSUME NEW w \in Workers, CloseAnswer(w) PROVE responses' \in [Clients -> Seq(Results)]
    <3>1. client[w] \in Clients
      BY <2>8, ServesClient DEF CloseAnswer, WorkerTo, AtWork
    <3> QED
      BY <3>1, <2>8 DEF WordsOK, CloseAnswer, Kept
  <2> QED
    BY <2>1, <2>2, <2>3, <2>4, <2>5, <2>6, <2>7, <2>8, Frame DEF Messaging
<1> QED
  BY <1>1, <1>2, <1>3, <1>4, <1>5, <1>6, <1>7 DEF WordsOK

------------------------------------------------------------------------------
\* One worker for each client

(* A client that has not begun is nowhere.                                 *)
NotBegun ==
  \A c \in Clients : at[c] = "start" =>
    /\ \A w \in Workers : client[w] # c
    /\ \A k \in 1 .. Len(connections) : connections[k] # c

LEMMA BeginsOnce ==
  ASSUME AtOK, [Next]_vars, NEW c \in Clients, at'[c] = "start"
  PROVE  at[c] = "start" /\ ~ Setup(c)
<1>1. ASSUME NEW d \in Clients, \/ Setup(d) \/ Call(d) \/ Skip(d) \/ Quit(d) \/ Abandon(d)
                                \/ OpenReq(d) \/ WriteReq(d) \/ CloseReqWriter(d) \/ Unlink(d)
      PROVE  at[c] = "start" /\ ~ Setup(c)
  BY <1>1 DEF AtOK, Setup, Call, Skip, Quit, Abandon, OpenReq, WriteReq, CloseReqWriter, Unlink,
              ClientTo, callers
<1>2. ASSUME NEW d \in Clients, \/ OpenResp(d) \/ ReadResult(d) \/ ReadBody(d) \/ CloseRespReader(d)
                                \/ Return(d) \/ SetupReturn(d) \/ Exit(d)
      PROVE  at[c] = "start" /\ ~ Setup(c)
  BY <1>2 DEF AtOK, OpenResp, ReadResult, ReadBody, CloseRespReader, Return, SetupReturn, Exit,
              Setup, ClientTo
<1>3. ASSUME NEW d \in Clients, Sigint(d) PROVE at[c] = "start" /\ ~ Setup(c)
  BY <1>3 DEF AtOK, Sigint, Interrupted, Killed, Setup, ClientTo
<1>4. ASSUME NEW w \in Workers, WorkerRuns(w) PROVE at[c] = "start" /\ ~ Setup(c)
  BY <1>4 DEF AtOK, WorkerRuns, Dequeue, OpenAnswer, WriteAnswer, CloseAnswer, OpenRequestFd,
              OpenTmpPipe, OpenFd, CloseTmpPipe, ReadOp, Execute, CloseRequestFd, Free, Setup,
              ClientTo, callers
<1>5. CASE UNCHANGED vars
  BY <1>5 DEF AtOK, vars, callers, Setup, ClientTo
<1> QED
  BY <1>1, <1>2, <1>3, <1>4, <1>5 DEF Next, ClientRuns

LEMMA OneWorkerInv ==
  AtOK /\ ControlOK /\ NotBegun /\ OneWorkerEach /\ [Next]_vars => NotBegun' /\ OneWorkerEach'
<1> SUFFICES ASSUME AtOK, ControlOK, NotBegun, OneWorkerEach, [Next]_vars
             PROVE  NotBegun' /\ OneWorkerEach'
  OBVIOUS
<1>1. ASSUME NEW c \in Clients, Setup(c) PROVE NotBegun' /\ OneWorkerEach'
  <2>1. at[c] = "start" /\ at'[c] # "start" /\ UNCHANGED client /\ connections' = Append(connections, c)
    BY <1>1 DEF Setup, ClientTo, AtOK, servers
  <2>2. connections \in Seq(Clients)
    BY DEF ControlOK
  <2>3. /\ Len(connections') = Len(connections) + 1
        /\ connections'[Len(connections) + 1] = c
        /\ \A k \in 1 .. Len(connections) : connections'[k] = connections[k]
    BY <2>1, <2>2, AppendProperties
  <2>4. NotBegun'
    BY <1>1, <2>1, <2>2, <2>3, BeginsOnce DEF NotBegun
  <2>5. OneWorkerEach'
    BY <2>1, <2>2, <2>3 DEF NotBegun, OneWorkerEach
  <2> QED
    BY <2>4, <2>5
<1>2. ASSUME NEW w \in Workers, Dequeue(w) PROVE NotBegun' /\ OneWorkerEach'
  <2>1. /\ client' = [client EXCEPT ![w] = Head(connections)]
        /\ connections' = Tail(connections) /\ connections # <<>>
    BY <1>2 DEF Dequeue
  <2>2. connections \in Seq(Clients) /\ client \in [Workers -> Clients \cup {NoClient}]
    BY DEF ControlOK
  <2>3. /\ Head(connections) = connections[1] /\ Len(connections) \in Nat \ {0}
        /\ Len(connections') = Len(connections) - 1
        /\ \A k \in 1 .. Len(connections') : connections'[k] = connections[k + 1]
    BY <2>1, <2>2, HeadTailProperties, LenProperties
  <2>4. NotBegun'
    BY <2>1, <2>2, <2>3, BeginsOnce DEF NotBegun
  <2>5. OneWorkerEach'
    BY <2>1, <2>2, <2>3 DEF OneWorkerEach
  <2> QED
    BY <2>4, <2>5
<1>3. ASSUME NEW w \in Workers, Free(w), UNCHANGED connections PROVE NotBegun' /\ OneWorkerEach'
  <2>1. client' = [client EXCEPT ![w] = NoClient] /\ client \in [Workers -> Clients \cup {NoClient}]
    BY <1>3 DEF Free, ControlOK
  <2> QED
    BY <1>3, <2>1, BeginsOnce, NoClientAssumption DEF NotBegun, OneWorkerEach, ControlOK
<1>4. CASE UNCHANGED <<client, connections>>
  BY <1>4, BeginsOnce DEF NotBegun, OneWorkerEach
<1> QED
  <2>1. ASSUME NEW w \in Workers, Free(w) PROVE UNCHANGED connections
    BY <2>1 DEF Free
  <2> QED
    BY <1>1, <1>2, <1>3, <1>4, <2>1, Frame DEF Changes

------------------------------------------------------------------------------
\* The open ends

(* That no count is negative follows from what it counts.                  *)
EndsInt ==
  /\ reqReaders \in [Clients -> Int] /\ reqWriters \in [Clients -> Int]
  /\ respReaders \in [Clients -> Int] /\ respWriters \in [Clients -> Int]

LEMMA EndsIntInv == EndsInt /\ [Next]_vars => EndsInt'
<1> SUFFICES ASSUME EndsInt, [Next]_vars PROVE EndsInt'
  OBVIOUS
<1> USE DEF EndsInt, Add
<1>1. reqReaders' \in [Clients -> Int]
  <2>1. ASSUME NEW w \in Workers, \/ OpenRequestFd(w) \/ OpenTmpPipe(w) \/ CloseTmpPipe(w)
                                  \/ CloseRequestFd(w)
        PROVE  reqReaders' \in [Clients -> Int]
    BY <2>1 DEF OpenRequestFd, OpenTmpPipe, OpenFd, CloseTmpPipe, CloseRequestFd
  <2> QED
    BY <2>1, Frame DEF Opening
<1>2. reqWriters' \in [Clients -> Int]
  <2>1. ASSUME NEW c \in Clients, OpenReq(c) \/ CloseReqWriter(c) \/ Sigint(c)
        PROVE  reqWriters' \in [Clients -> Int]
    BY <2>1 DEF OpenReq, CloseReqWriter, Sigint, Interrupted, Killed
  <2> QED
    BY <2>1, Frame DEF Opening
<1>3. respReaders' \in [Clients -> Int]
  <2>1. ASSUME NEW c \in Clients, OpenResp(c) \/ CloseRespReader(c) \/ Exit(c) \/ Sigint(c)
        PROVE  respReaders' \in [Clients -> Int]
    BY <2>1 DEF OpenResp, CloseRespReader, Exit, Sigint, Interrupted, Killed
  <2> QED
    BY <2>1, Frame DEF Opening
<1>4. respWriters' \in [Clients -> Int]
  <2>1. ASSUME NEW w \in Workers, OpenAnswer(w) \/ CloseAnswer(w)
        PROVE  respWriters' \in [Clients -> Int]
    BY <2>1 DEF OpenAnswer, CloseAnswer
  <2> QED
    BY <2>1, Frame DEF Opening
<1> QED
  BY <1>1, <1>2, <1>3, <1>4

(* What the workers have open, by worker and for a client without one.     *)
ServerEnds ==
  /\ \A w \in Workers : client[w] # NoClient =>
       /\ reqReaders[client[w]] = One(HoldsFd(w)) + One(HoldsTmp(w))
       /\ respWriters[client[w]] = One(HoldsAnswer(w))
  /\ \A c \in Clients : (\A w \in Workers : client[w] # c) => reqReaders[c] = 0 /\ respWriters[c] = 0

(* What becomes of the request FIFO of a client in a step.                 *)
RequestsStep(c) ==
  \/ requests'[c] = requests[c]
  \/ /\ requests'[c] = <<>>
     /\ \/ CloseReqWriter(c) /\ reqReaders[c] + reqWriters[c] = 1
        \/ Sigint(c) /\ Killed(c) /\ reqReaders[c] = 0
        \/ \E w \in Workers : client[w] = c /\ CloseRequestFd(w)
  \/ WriteReq(c) /\ requests'[c] = Append(requests[c], [n |-> made[c], op |-> op[c]])
  \/ \E w \in Workers : /\ client[w] = c /\ ReadOp(w) /\ requests[c] # <<>>
                         /\ requests'[c] = Tail(requests[c])

LEMMA RequestsChange ==
  ASSUME ControlOK, PcOK, Served, WordsOK, [Next]_vars, NEW c \in Clients
  PROVE  RequestsStep(c)
<1> USE DEF RequestsStep
<1>0. requests \in [Clients -> Seq(Messages)]
  BY DEF WordsOK
<1>1. ASSUME NEW d \in Clients, WriteReq(d) PROVE RequestsStep(c)
  <2>1. CASE c = d
    <3>1. UNCHANGED requests \/ requests' = [requests EXCEPT ![d] = Append(@, [n |-> made[d], op |-> op[d]])]
      BY <1>0, <1>1 DEF WriteReq
    <3> QED
      BY <1>0, <1>1, <2>1, <3>1
  <2>2. CASE c # d
    BY <1>0, <1>1, <2>2 DEF WriteReq
  <2> QED
    BY <2>1, <2>2
<1>2. ASSUME NEW d \in Clients, CloseReqWriter(d) PROVE RequestsStep(c)
  <2>1. requests'[c] = requests[c] \/ (c = d /\ reqReaders[d] + reqWriters[d] = 1 /\ requests'[c] = <<>>)
    BY <1>0, <1>2 DEF CloseReqWriter, Kept
  <2> QED
    BY <1>2, <2>1
<1>3. ASSUME NEW d \in Clients, Sigint(d) PROVE RequestsStep(c)
  <2>1. CASE Killed(d)
    <3>1. requests'[c] = requests[c] \/ (c = d /\ reqReaders[d] = 0 /\ requests'[c] = <<>>)
      BY <1>0, <2>1 DEF Killed
    <3> QED
      BY <1>3, <2>1, <3>1
  <2>2. CASE UNCHANGED requests
    BY <2>2
  <2> QED
    BY <1>3, <2>1, <2>2 DEF Sigint
<1>4. ASSUME NEW w \in Workers, ReadOp(w) PROVE RequestsStep(c)
  <2>1. client[w] \in Clients
    BY <1>4, ServesClient DEF ReadOp, AtWork
  <2>2. UNCHANGED requests \/ (/\ requests[client[w]] # <<>>
                              /\ requests' = [requests EXCEPT ![client[w]] = Tail(@)])
    BY <1>4 DEF ReadOp
  <2>3. \/ requests'[c] = requests[c]
        \/ c = client[w] /\ requests[c] # <<>> /\ requests'[c] = Tail(requests[c])
    BY <1>0, <2>1, <2>2
  <2> QED
    BY <1>4, <2>3
<1>5. ASSUME NEW w \in Workers, CloseRequestFd(w) PROVE RequestsStep(c)
  <2>1. client[w] \in Clients
    BY <1>5, ServesClient DEF CloseRequestFd, WorkerTo, AtWork
  <2>2. requests'[c] = requests[c] \/ (c = client[w] /\ requests'[c] = <<>>)
    BY <1>0, <1>5, <2>1 DEF CloseRequestFd, Kept
  <2> QED
    BY <1>5, <2>2
<1>6. CASE UNCHANGED requests
  BY <1>6
<1> QED
  BY <1>1, <1>2, <1>3, <1>4, <1>5, <1>6, Frame DEF Messaging

(* A request is no SETUP, and what a worker executes is a call.            *)
Requested ==
  /\ \A c \in Clients :
       at[c] \in {"open_req", "opening_req", "write_req", "close_req"} => op[c] # "SETUP"
  /\ \A c \in Clients, k \in Nat : k \in 1 .. Len(requests[c]) => requests[c][k].op # "SETUP"
  /\ \A w \in Workers : pc[w] = "execute" => request[w].op \in Ops

AboutToRequest(c) == at[c] \in {"open_req", "opening_req", "write_req", "close_req"}

(* A client comes to a request only by a call or a quit.                   *)
LEMMA RequestsOnce ==
  ASSUME AtOK, ControlOK, [Next]_vars, NEW c \in Clients, AboutToRequest(c)'
  PROVE  \/ AboutToRequest(c) /\ op'[c] = op[c]
         \/ (Call(c) \/ Quit(c)) /\ op'[c] # "SETUP"
<1> USE DEF AtOK, AboutToRequest
<1>1. ASSUME NEW d \in Clients, Call(d)
      PROVE  (AboutToRequest(c) /\ op'[c] = op[c]) \/ (Call(c) /\ op'[c] # "SETUP")
  BY <1>1 DEF Call, ClientTo, Ops, ControlOK
<1>2. ASSUME NEW d \in Clients, Quit(d)
      PROVE  (AboutToRequest(c) /\ op'[c] = op[c]) \/ (Quit(c) /\ op'[c] # "SETUP")
  BY <1>2 DEF Quit, ClientTo, ControlOK
<1>3. ASSUME NEW d \in Clients, Setup(d) \/ Skip(d) \/ Abandon(d) \/ OpenReq(d) \/ WriteReq(d)
                                \/ CloseReqWriter(d) \/ Unlink(d)
      PROVE  AboutToRequest(c) /\ op'[c] = op[c]
  BY <1>3 DEF Setup, Skip, Abandon, OpenReq, WriteReq, CloseReqWriter, Unlink, ClientTo, callers
<1>4. ASSUME NEW d \in Clients, \/ OpenResp(d) \/ ReadResult(d) \/ ReadBody(d) \/ CloseRespReader(d)
                                \/ Return(d) \/ SetupReturn(d) \/ Exit(d)
      PROVE  AboutToRequest(c) /\ op'[c] = op[c]
  BY <1>4 DEF OpenResp, ReadResult, ReadBody, CloseRespReader, Return, SetupReturn, Exit, ClientTo
<1>5. ASSUME NEW d \in Clients, Sigint(d) PROVE AboutToRequest(c) /\ op'[c] = op[c]
  BY <1>5 DEF Sigint, Interrupted, Killed, ClientTo
<1>6. ASSUME NEW w \in Workers, WorkerRuns(w) PROVE AboutToRequest(c) /\ op'[c] = op[c]
  BY <1>6 DEF WorkerRuns, Dequeue, OpenAnswer, WriteAnswer, CloseAnswer, OpenRequestFd,
              OpenTmpPipe, OpenFd, CloseTmpPipe, ReadOp, Execute, CloseRequestFd, Free, callers
<1>7. CASE UNCHANGED vars
  BY <1>7 DEF vars, callers
<1> QED
  BY <1>1, <1>2, <1>3, <1>4, <1>5, <1>6, <1>7 DEF Next, ClientRuns

LEMMA RequestedInv ==
  AtOK /\ PcOK /\ ControlOK /\ Served /\ WordsOK /\ Requested /\ [Next]_vars => Requested'
<1> SUFFICES ASSUME AtOK, PcOK, ControlOK, Served, WordsOK, Requested, [Next]_vars PROVE Requested'
  OBVIOUS
<1>1. ASSUME NEW c \in Clients, AboutToRequest(c)' PROVE op'[c] # "SETUP"
  BY <1>1, RequestsOnce DEF Requested, AboutToRequest
<1>2. ASSUME NEW c \in Clients, NEW k \in Nat, k \in 1 .. Len(requests'[c])
      PROVE  requests'[c][k].op # "SETUP"
  <2>0. requests[c] \in Seq(Messages)
    BY DEF WordsOK
  <2>1. CASE requests'[c] = requests[c]
    BY <1>2, <2>1 DEF Requested
  <2>2. CASE requests'[c] = <<>>
    BY <1>2, <2>2
  <2>3. CASE WriteReq(c) /\ requests'[c] = Append(requests[c], [n |-> made[c], op |-> op[c]])
    <3>1. op[c] # "SETUP"
      BY <2>3 DEF WriteReq, ClientTo, Requested
    <3> DEFINE m == [n |-> made[c], op |-> op[c]]
    <3>2. m.op = op[c]
      OBVIOUS
    <3>3. requests'[c] = Append(requests[c], m)
      BY <2>3
    <3> HIDE DEF m
    <3> QED
      BY <1>2, <2>0, <3>1, <3>2, <3>3 DEF Requested
  <2>4. CASE requests[c] # <<>> /\ requests'[c] = Tail(requests[c])
    <3>1. /\ Len(Tail(requests[c])) = Len(requests[c]) - 1 /\ Len(requests[c]) \in Nat
          /\ \A j \in 1 .. Len(requests[c]) - 1 : Tail(requests[c])[j] = requests[c][j + 1]
      BY <2>0, <2>4, HeadTailProperties, LenProperties
    <3>2. requests'[c][k] = requests[c][k + 1] /\ k + 1 \in 1 .. Len(requests[c])
      BY <1>2, <2>4, <3>1
    <3> QED
      BY <3>2 DEF Requested
  <2> QED
    BY <2>1, <2>2, <2>3, <2>4, RequestsChange DEF RequestsStep
<1>3. ASSUME NEW w \in Workers, pc'[w] = "execute" PROVE request'[w].op \in Ops
  <2>1. ASSUME NEW v \in Workers, ReadOp(v) PROVE request'[w].op \in Ops
    <3>1. CASE v = w
      <4>1. client[w] \in Clients /\ request'[w] = Head(requests[client[w]]) /\ requests[client[w]] # <<>>
            /\ Head(requests[client[w]]).op # "QUIT"
        BY <1>3, <2>1, <3>1, ServesClient DEF ReadOp, AtWork, GoOn, PcOK, WordsOK
      <4>2. Head(requests[client[w]]) = requests[client[w]][1] /\ Head(requests[client[w]]) \in Messages
            /\ 1 \in 1 .. Len(requests[client[w]])
        BY <4>1, HeadTailProperties, LenProperties DEF WordsOK
      <4> QED
        BY <4>1, <4>2, MessageFields DEF Requested, AllOps
    <3>2. CASE v # w
      <4>1. pc[w] = "execute" /\ request'[w] = request[w]
        BY <1>3, <2>1, <3>2 DEF ReadOp, GoOn, PcOK, WordsOK
      <4> QED
        BY <4>1 DEF Requested
    <3> QED
      BY <3>1, <3>2
  <2>2. ASSUME NEW v \in Workers, Dequeue(v) PROVE request'[w].op \in Ops
    <3>1. pc[w] = "execute" /\ request'[w] = request[w]
      BY <1>3, <2>2 DEF Dequeue, WorkerTo, GoOn, PcOK, WordsOK
    <3> QED
      BY <3>1 DEF Requested
  <2>3. ASSUME NEW v \in Workers, \/ OpenAnswer(v) \/ WriteAnswer(v) \/ CloseAnswer(v)
                                  \/ OpenRequestFd(v)
                                  \/ OpenTmpPipe(v) \/ CloseTmpPipe(v) \/ Execute(v) \/ CloseRequestFd(v) \/ Free(v)
        PROVE request'[w].op \in Ops
    <3>1. pc[w] = "execute" /\ request'[w] = request[w]
      BY <1>3, <2>3 DEF OpenAnswer, WriteAnswer, CloseAnswer, OpenRequestFd, OpenTmpPipe, OpenFd,
           CloseTmpPipe,
          Execute, CloseRequestFd, Free, WorkerTo, GoOn, AfterResp, PcOK
    <3> QED
      BY <3>1 DEF Requested
  <2>4. ASSUME NEW c \in Clients, OpenReq(c) \/ OpenResp(c) PROVE request'[w].op \in Ops
    <3>1. pc[w] = "execute" /\ request'[w] = request[w]
      BY <1>3, <2>4 DEF OpenReq, OpenResp, Unblocked, PcOK
    <3> QED
      BY <3>1 DEF Requested
  <2>5. CASE UNCHANGED <<pc, request>>
    BY <1>3, <2>5 DEF Requested
  <2> QED
    BY <2>1, <2>2, <2>3, <2>4, <2>5, Frame DEF Changes, Messaging, WorkerRuns
<1> QED
  BY <1>1, <1>2, <1>3 DEF Requested, AboutToRequest

Fds(w) == One(HoldsFd(w)) + One(HoldsTmp(w))

(* A step of one worker on the ends of its own client.                     *)
LEMMA OwnEnds ==
  ASSUME ControlOK, EndsInt, OneWorkerEach, ServerEnds, NEW w \in Workers, client[w] \in Clients,
         UNCHANGED client,
         \A v \in Workers : v # w => pc'[v] = pc[v] /\ request'[v] = request[v],
         \A c \in Clients : c # client[w] => reqReaders'[c] = reqReaders[c] /\ respWriters'[c] = respWriters[c],
         reqReaders'[client[w]] = reqReaders[client[w]] + Fds(w)' - Fds(w),
         respWriters'[client[w]] = respWriters[client[w]] + One(HoldsAnswer(w))' - One(HoldsAnswer(w))
  PROVE  ServerEnds'
<1>1. Fds(w) \in Nat /\ Fds(w)' \in Nat /\ One(HoldsAnswer(w)) \in Nat /\ One(HoldsAnswer(w))' \in Nat
  BY DEF Fds, One
<1>2. reqReaders'[client[w]] = Fds(w)' /\ respWriters'[client[w]] = One(HoldsAnswer(w))'
  BY <1>1, NoClientAssumption DEF ServerEnds, Fds, EndsInt
<1>3. ASSUME NEW v \in Workers, client[v] # NoClient, v # w
      PROVE  reqReaders'[client[v]] = Fds(v)' /\ respWriters'[client[v]] = One(HoldsAnswer(v))'
  <2>1. client[v] \in Clients /\ client[v] # client[w]
    BY <1>3 DEF OneWorkerEach, ControlOK
  <2>2. reqReaders[client[v]] = Fds(v) /\ respWriters[client[v]] = One(HoldsAnswer(v))
    BY <1>3 DEF ServerEnds, Fds
  <2>3. pc'[v] = pc[v] /\ request'[v] = request[v]
    BY <1>3
  <2>4. Fds(v)' = Fds(v) /\ One(HoldsAnswer(v))' = One(HoldsAnswer(v))
    BY <2>3 DEF Fds, HoldsFd, HoldsTmp, HoldsAnswer, Answering
  <2> QED
    BY <2>1, <2>2, <2>4
<1>4. ASSUME NEW c \in Clients, \A v \in Workers : client'[v] # c
      PROVE  reqReaders'[c] = 0 /\ respWriters'[c] = 0
  BY <1>4 DEF ServerEnds
<1> QED
  BY <1>2, <1>3, <1>4 DEF ServerEnds, Fds

LEMMA ServerEndsInv ==
  PcOK /\ ControlOK /\ WordsOK /\ EndsInt /\ Served /\ Requested /\ OneWorkerEach /\ ServerEnds /\ [Next]_vars => ServerEnds'
<1> SUFFICES ASSUME PcOK, ControlOK, WordsOK, EndsInt, Served, Requested, OneWorkerEach, ServerEnds, [Next]_vars
             PROVE  ServerEnds'
  OBVIOUS
<1>1. ASSUME NEW c \in Clients, OpenReq(c) \/ OpenResp(c) PROVE ServerEnds'
  BY <1>1 DEF OpenReq, OpenResp, Unblocked, PcOK, ServerEnds, One, HoldsFd, HoldsTmp, HoldsAnswer,
       Answering
<1>2. ASSUME NEW w \in Workers, Dequeue(w) PROVE ServerEnds'
  <2>1. Head(connections) \in Clients /\ \A v \in Workers : client[v] # Head(connections)
    <3>1. connections # <<>> /\ connections \in Seq(Clients)
      BY <1>2 DEF Dequeue, ControlOK
    <3>2. Head(connections) = connections[1] /\ 1 \in 1 .. Len(connections) /\ Head(connections) \in Clients
      BY <3>1, HeadTailProperties, LenProperties
    <3> QED
      BY <3>2 DEF OneWorkerEach
  <2> DEFINE c == Head(connections)
  <2>2. /\ client' = [client EXCEPT ![w] = c] /\ client \in [Workers -> Clients \cup {NoClient}]
        /\ pc' = [pc EXCEPT ![w] = "open_resp"]
        /\ request' = [request EXCEPT ![w] = [n |-> 0, op |-> "SETUP"]]
        /\ UNCHANGED <<reqReaders, respWriters>> /\ client[w] = NoClient
    BY <1>2 DEF Dequeue, WorkerTo, GoOn, ControlOK, pipes, ends, Served, AtWork
  <2>3. pc'[w] = "open_resp" /\ request'[w].op = "SETUP" /\ client'[w] = c
    BY <2>2 DEF PcOK, WordsOK, ControlOK
  <2>4. ~ HoldsFd(w)' /\ ~ HoldsTmp(w)' /\ ~ HoldsAnswer(w)'
    BY <2>3 DEF HoldsFd, HoldsTmp, HoldsAnswer, Answering
  <2>5. reqReaders'[c] = 0 /\ respWriters'[c] = 0
    BY <2>1, <2>2 DEF ServerEnds
  <2>6. ASSUME NEW v \in Workers, v # w
        PROVE  /\ client'[v] = client[v]
               /\ HoldsFd(v)' = HoldsFd(v) /\ HoldsTmp(v)' = HoldsTmp(v) /\ HoldsAnswer(v)' = HoldsAnswer(v)
    BY <2>2, <2>6 DEF PcOK, WordsOK, ControlOK, HoldsFd, HoldsTmp, HoldsAnswer, Answering
  <2>7. ASSUME NEW d \in Clients, \A v \in Workers : client'[v] # d
        PROVE  \A v \in Workers : client[v] # d
    BY <2>2, <2>6, <2>7, NoClientAssumption
  <2> HIDE DEF c
  <2> QED
    BY <2>2, <2>3, <2>4, <2>5, <2>6, <2>7 DEF ServerEnds, One
<1>3. ASSUME NEW w \in Workers, \/ OpenAnswer(w) \/ WriteAnswer(w) \/ CloseAnswer(w)
                                \/ OpenRequestFd(w)
                                \/ OpenTmpPipe(w) \/ CloseTmpPipe(w) \/ ReadOp(w) \/ Execute(w) \/ CloseRequestFd(w)
      PROVE ServerEnds'
  <2>0. UNCHANGED client /\ client[w] \in Clients
    BY <1>3, ServesClient DEF OpenAnswer, WriteAnswer, CloseAnswer, OpenRequestFd, OpenTmpPipe,
         OpenFd, CloseTmpPipe,
          ReadOp, Execute, CloseRequestFd, WorkerTo, AtWork
  <2>1. \A v \in Workers : v # w => pc'[v] = pc[v] /\ request'[v] = request[v]
    BY <1>3 DEF OpenAnswer, WriteAnswer, CloseAnswer, OpenRequestFd, OpenTmpPipe, OpenFd,
         CloseTmpPipe,
          ReadOp, Execute, CloseRequestFd, WorkerTo, GoOn, PcOK, WordsOK
  <2>2. \A c \in Clients : c # client[w] => reqReaders'[c] = reqReaders[c] /\ respWriters'[c] = respWriters[c]
    BY <1>3 DEF OpenAnswer, WriteAnswer, CloseAnswer, OpenRequestFd, OpenTmpPipe, OpenFd,
         CloseTmpPipe,
          ReadOp, Execute, CloseRequestFd, Add, EndsInt, pipes, ends
  <2>3. /\ reqReaders'[client[w]] = reqReaders[client[w]] + Fds(w)' - Fds(w)
        /\ respWriters'[client[w]] = respWriters[client[w]] + One(HoldsAnswer(w))' - One(HoldsAnswer(w))
    <3> USE <2>0 DEF Fds, HoldsFd, HoldsTmp, HoldsAnswer, Answering, One, WorkerTo, GoOn, PcOK,
         EndsInt, Add
    <3>1. CASE OpenAnswer(w)
      BY <3>1 DEF OpenAnswer, AfterResp
    <3>2. CASE WriteAnswer(w)
      BY <3>2 DEF WriteAnswer, ends
    <3>3. CASE CloseAnswer(w)
      BY <3>3 DEF CloseAnswer, AfterResp
    <3>4. CASE OpenRequestFd(w)
      BY <3>4 DEF OpenRequestFd, OpenFd
    <3>5. CASE OpenTmpPipe(w)
      BY <3>5 DEF OpenTmpPipe, OpenFd
    <3>6. CASE CloseTmpPipe(w)
      BY <3>6 DEF CloseTmpPipe
    <3>7. CASE ReadOp(w)
      BY <3>7 DEF ReadOp, ends
    <3>8. CASE Execute(w)
      <4>1. pc[w] = "execute" /\ request[w].op # "SETUP"
        BY <3>8 DEF Execute, Requested, Ops
      <4>2. UNCHANGED <<request, reqReaders, respWriters>> /\ pc' = [pc EXCEPT ![w] = "open_resp"]
        BY <3>8 DEF Execute, ends, pipes
      <4> QED
        BY <4>1, <4>2
    <3>9. CASE CloseRequestFd(w)
      BY <3>9 DEF CloseRequestFd
    <3> QED
      BY <1>3, <3>1, <3>2, <3>3, <3>4, <3>5, <3>6, <3>7, <3>8, <3>9
  <2> QED
    BY <2>0, <2>1, <2>2, <2>3, OwnEnds
<1>4. ASSUME NEW w \in Workers, Free(w) PROVE ServerEnds'
  <2>1. pc' = [pc EXCEPT ![w] = "dequeue"] /\ client' = [client EXCEPT ![w] = NoClient] /\ pc[w] = "free"
        /\ UNCHANGED <<request, reqReaders, respWriters>> /\ client \in [Workers -> Clients \cup {NoClient}]
    BY <1>4 DEF Free, WorkerTo, GoOn, pipes, ends, ControlOK
  <2>2. client[w] \in Clients /\ reqReaders[client[w]] = 0 /\ respWriters[client[w]] = 0
    BY <2>1, ServesClient, NoClientAssumption DEF AtWork, ServerEnds, HoldsFd, HoldsTmp,
         HoldsAnswer, Answering, One
  <2>3. ASSUME NEW v \in Workers, v # w
        PROVE  /\ client'[v] = client[v]
               /\ HoldsFd(v)' = HoldsFd(v) /\ HoldsTmp(v)' = HoldsTmp(v) /\ HoldsAnswer(v)' = HoldsAnswer(v)
    BY <2>1, <2>3 DEF PcOK, HoldsFd, HoldsTmp, HoldsAnswer, Answering
  <2>4. ASSUME NEW d \in Clients, \A v \in Workers : client'[v] # d
        PROVE  d = client[w] \/ \A v \in Workers : client[v] # d
    BY <2>3, <2>4
  <2>5. client'[w] = NoClient
    BY <2>1
  <2> QED
    BY <2>1, <2>2, <2>3, <2>4, <2>5 DEF ServerEnds, One
<1>5. CASE UNCHANGED <<client, pc, request, reqReaders, respWriters>>
  BY <1>5 DEF ServerEnds, HoldsFd, HoldsTmp, HoldsAnswer, Answering
<1> QED
  BY <1>1, <1>2, <1>3, <1>4, <1>5, Frame DEF Changes, Messaging, Opening, WorkerRuns

(* What the clients have open; an end for reading may be open more often.  *)
HoldsReq(c) == at[c] \in {"opening_req", "write_req", "close_req"}

HoldsResp(c) == at[c] \in {"opening_resp", "read_result", "read_body", "close_resp", "close_failed"}

ClientEnds ==
  \A c \in Clients : reqWriters[c] = One(HoldsReq(c)) /\ respReaders[c] >= One(HoldsResp(c))

LEMMA ClientEndsInv == AtOK /\ EndsInt /\ ClientEnds /\ [Next]_vars => ClientEnds'
<1> SUFFICES ASSUME AtOK, EndsInt, ClientEnds, [Next]_vars PROVE ClientEnds'
  OBVIOUS
<1> USE DEF AtOK, EndsInt, ClientEnds, HoldsReq, HoldsResp, One, Add
<1>1. ASSUME NEW c \in Clients, Setup(c) \/ Call(c) \/ Skip(c) \/ Quit(c) \/ Abandon(c)
      PROVE  ClientEnds'
  BY <1>1 DEF Setup, Call, Skip, Quit, Abandon, ClientTo, callers, pipes, ends
<1>2. ASSUME NEW c \in Clients, OpenReq(c) PROVE ClientEnds'
  BY <1>2 DEF OpenReq, ClientTo
<1>3. ASSUME NEW c \in Clients, WriteReq(c) \/ Unlink(c) PROVE ClientEnds'
  BY <1>3 DEF WriteReq, Unlink, ClientTo, ends
<1>4. ASSUME NEW c \in Clients, CloseReqWriter(c) PROVE ClientEnds'
  BY <1>4 DEF CloseReqWriter, ClientTo
<1>5. ASSUME NEW c \in Clients, OpenResp(c) PROVE ClientEnds'
  BY <1>5 DEF OpenResp, ClientTo
<1>6. ASSUME NEW c \in Clients, ReadResult(c) \/ ReadBody(c) \/ Return(c) \/ SetupReturn(c)
      PROVE  ClientEnds'
  BY <1>6 DEF ReadResult, ReadBody, Return, SetupReturn, ClientTo, pipes, ends
<1>7. ASSUME NEW c \in Clients, CloseRespReader(c) PROVE ClientEnds'
  BY <1>7 DEF CloseRespReader, ClientTo
<1>8. ASSUME NEW c \in Clients, Exit(c) PROVE ClientEnds'
  BY <1>8 DEF Exit, ClientTo
<1>9. ASSUME NEW c \in Clients, Sigint(c) PROVE ClientEnds'
  <2>1. CASE Killed(c)
    BY <1>9, <2>1 DEF Killed
  <2>2. CASE Interrupted(c)
    BY <1>9, <2>2 DEF Interrupted, ClientTo
  <2>3. CASE UNCHANGED <<at, reqWriters, respReaders>>
    BY <2>3
  <2> QED
    BY <1>9, <2>1, <2>2, <2>3 DEF Sigint
<1>10. ASSUME NEW w \in Workers, OpenAnswer(w) \/ OpenRequestFd(w) \/ OpenTmpPipe(w)
       PROVE  ClientEnds'
  BY <1>10 DEF OpenAnswer, OpenRequestFd, OpenTmpPipe, OpenFd
<1>11. ASSUME NEW w \in Workers, \/ Dequeue(w) \/ WriteAnswer(w) \/ CloseAnswer(w) \/ CloseTmpPipe(w)
                                 \/ ReadOp(w) \/ Execute(w) \/ CloseRequestFd(w) \/ Free(w)
      PROVE  ClientEnds'
  BY <1>11 DEF Dequeue, WriteAnswer, CloseAnswer, CloseTmpPipe, ReadOp, Execute, CloseRequestFd,
       Free, callers,
     pipes, ends
<1>12. CASE UNCHANGED vars
  BY <1>12 DEF vars, callers, pipes, ends
<1> QED
  BY <1>1, <1>2, <1>3, <1>4, <1>5, <1>6, <1>7, <1>8, <1>9, <1>10, <1>11, <1>12 DEF Next,
       ClientRuns, WorkerRuns

LEMMA EndsCounted == EndsInt /\ ServerEnds /\ ClientEnds => EndsOK /\ WorkerEnds
<1> SUFFICES ASSUME EndsInt, ServerEnds, ClientEnds PROVE EndsOK /\ WorkerEnds
  OBVIOUS
<1>1. WorkerEnds
  BY NoClientAssumption DEF ServerEnds, WorkerEnds
<1>2. ASSUME NEW c \in Clients PROVE reqReaders[c] >= 0 /\ respWriters[c] >= 0
  BY <1>1 DEF WorkerEnds, One, EndsInt
<1>3. ASSUME NEW c \in Clients PROVE reqWriters[c] >= 0 /\ respReaders[c] >= 0
  BY DEF ClientEnds, One, EndsInt
<1> QED
  BY <1>1, <1>2, <1>3 DEF EndsOK, EndsInt, Counts

------------------------------------------------------------------------------
(* The inductive invariant: the types, who serves whom, what may be asked  *)
(* of a worker, and which ends each side has open at its place.            *)
Inv == /\ AtOK /\ PcOK /\ ControlOK /\ WordsOK /\ EndsInt
       /\ Served /\ NotBegun /\ OneWorkerEach /\ Requested /\ ServerEnds /\ ClientEnds

LEMMA InitInv == Init => Inv
<1> SUFFICES ASSUME Init PROVE Inv
  OBVIOUS
<1> USE DEF Init
<1>1. AtOK /\ PcOK
  BY DEF AtOK, PcOK, ClientPlaces, WorkerPlaces
<1>2. ControlOK
  BY DEF ControlOK, AllOps
<1>3. WordsOK
  BY DEF WordsOK, NoResult, Results, Messages
<1>4. EndsInt
  BY DEF EndsInt
<1>5. Served /\ NotBegun
  BY NoClientAssumption DEF Served, AtWork, NotBegun
<1>6. OneWorkerEach
  BY NoClientAssumption DEF OneWorkerEach
<1>7. Requested
  BY DEF Requested
<1>8. ServerEnds /\ ClientEnds
  BY NoClientAssumption DEF ServerEnds, ClientEnds, HoldsReq, HoldsResp, One
<1> QED
  BY <1>1, <1>2, <1>3, <1>4, <1>5, <1>6, <1>7, <1>8 DEF Inv

LEMMA StepInv == Inv /\ [Next]_vars => Inv'
BY AtInv, PcInv, ControlInv, WordsInv, EndsIntInv, ServedInv, OneWorkerInv, RequestedInv,
     ServerEndsInv, ClientEndsInv
   DEF Inv

LEMMA InvCorrect == Spec => []Inv
BY InitInv, StepInv, PTL DEF Spec

(* Every variable keeps its type; in particular no client and no worker    *)
(* closes an end of a FIFO that it has not open, though a handler, a call  *)
(* and a SIGINT each have their own path of returns.                       *)
THEOREM TypeCorrect == Spec => []TypeOK
<1>1. Inv => TypeOK
  BY TypeParts, EndsCounted DEF Inv
<1> QED
  BY <1>1, InvCorrect, PTL

(* No two workers serve one client and none is served twice, and what is   *)
(* open of a session on the server's side is what its worker has open at   *)
(* its place in process_incoming_requests: nothing when it has ended.      *)
THEOREM SessionsCorrect == Spec => []SessionsApart
<1>1. Inv => SessionsApart
  BY EndsCounted DEF Inv, SessionsApart
<1> QED
  BY <1>1, InvCorrect, PTL

------------------------------------------------------------------------------
\* The calls of a file

(* The lines m .. k - 1 are cut short, and the line before them is not.    *)
Run(f, j, k) == /\ \A m \in j .. k - 1 : f[m] = "SHORT"
                /\ j = 1 \/ f[j - 1] # "SHORT"

LEMMA CallLinesFinite ==
  ASSUME NEW f \in Seq(Lines)
  PROVE  IsFiniteSet(CallLines(f)) /\ Cardinality(CallLines(f)) \in Nat
<1>1. IsFiniteSet(1 .. Len(f))
  BY FS_Interval, LenProperties
<1>2. CallLines(f) \subseteq 1 .. Len(f)
  BY DEF CallLines
<1> QED
  BY <1>1, <1>2, FS_Subset, FS_CardinalityType

(* The call on line k is the one after those of the lines before it.       *)
LEMMA CallOfLine ==
  ASSUME NEW f \in Seq(Lines), NEW k \in CallLines(f)
  PROVE  CallsOf(f)[Cardinality({j \in CallLines(f) : j < k}) + 1] = f[k]
<1> DEFINE CL == CallLines(f)
           UpTo(x) == {j \in CL : j <= x}
           n == Cardinality({j \in CL : j < k})
<1>1. IsFiniteSet(CL) /\ Cardinality(CL) \in Nat /\ CL \subseteq Nat
  BY CallLinesFinite DEF CallLines
<1>2. \A x \in CL : IsFiniteSet(UpTo(x)) /\ Cardinality(UpTo(x)) <= Cardinality(CL)
  <2> SUFFICES ASSUME NEW x \in CL
               PROVE IsFiniteSet(UpTo(x)) /\ Cardinality(UpTo(x)) <= Cardinality(CL)
    OBVIOUS
  <2>1. UpTo(x) \subseteq CL
    OBVIOUS
  <2> QED
    BY <1>1, <2>1, FS_Subset
<1>3. Cardinality(UpTo(k)) = n + 1 /\ n \in Nat
  <2>1. UpTo(k) = {j \in CL : j < k} \cup {k} /\ k \notin {j \in CL : j < k}
    BY <1>1
  <2>2. {j \in CL : j < k} \subseteq CL
    OBVIOUS
  <2>3. IsFiniteSet({j \in CL : j < k})
    BY <1>1, <2>2, FS_Subset
  <2> QED
    BY <2>1, <2>3, FS_AddElement, FS_CardinalityType
<1>4. ASSUME NEW x \in CL, NEW y \in CL, x < y PROVE Cardinality(UpTo(x)) # Cardinality(UpTo(y))
  <2>1. UpTo(x) \subseteq UpTo(y) /\ UpTo(x) # UpTo(y)
    <3>1. UpTo(x) \subseteq UpTo(y)
      BY <1>1, <1>4
    <3>2. y \in UpTo(y) /\ y \notin UpTo(x)
      BY <1>1, <1>4
    <3> QED
      BY <3>1, <3>2
  <2> QED
    BY <1>2, <2>1, FS_Subset
<1>5. \A x \in CL : Cardinality(UpTo(x)) = n + 1 => x = k
  <2>1. k \in CL
    OBVIOUS
  <2> HIDE DEF CL, UpTo, n
  <2> QED
    BY <1>1, <1>3, <1>4, <2>1
<1>6. (CHOOSE x \in CL : Cardinality(UpTo(x)) = n + 1) = k
  BY <1>3, <1>5
<1>7. n + 1 \in 1 .. Cardinality(CL)
  <2>1. k \in CL
    OBVIOUS
  <2> HIDE DEF CL, UpTo, n
  <2> QED
    BY <1>1, <1>2, <1>3, <2>1
<1>8. CallsOf(f)[n + 1] = f[CHOOSE x \in CL : Cardinality(UpTo(x)) = n + 1]
  BY <1>7 DEF CallsOf
<1> QED
  BY <1>6, <1>8

(* Whether a run of lines that are cut short swallows the next line goes   *)
(* by its length.                                                          *)
LEMMA RunSwallows ==
  ASSUME NEW f \in Seq(Lines), NEW k \in 1 .. Len(f), NEW j \in 1 .. k, Run(f, j, k)
  PROVE  Swallowed(f, k) <=> (k - j) % 2 = 1
<1>1. ASSUME NEW i \in 1 .. k - 1, Run(f, i, k) PROVE i = j
  <2>1. CASE i < j
    <3>1. j - 1 \in i .. k - 1 /\ j # 1
      BY <2>1, LenProperties
    <3> QED
      BY <1>1, <3>1 DEF Run
  <2>2. CASE i > j
    <3>1. i - 1 \in j .. k - 1 /\ i # 1
      BY <2>2, LenProperties
    <3> QED
      BY <1>1, <3>1 DEF Run
  <2> QED
    BY <2>1, <2>2, LenProperties
<1>2. Swallowed(f, k) <=> \E i \in 1 .. k - 1 : Run(f, i, k) /\ (k - i) % 2 = 1
  BY DEF Swallowed, Run
<1>3. j = k => (k - j) % 2 = 0
  BY LenProperties
<1>4. j # k => j \in 1 .. k - 1
  BY LenProperties
<1> QED
  BY <1>1, <1>2, <1>3, <1>4

(* The client is at a line that is not swallowed.                          *)
LineInv ==
  \A c \in DOMAIN scenario.file :
    line[c] <= Len(scenario.file[c]) =>
      \E j \in 1 .. line[c] : Run(scenario.file[c], j, line[c]) /\ (line[c] - j) % 2 = 0

(* It has made the calls of the lines before that one.                     *)
CallsMade ==
  \A c \in DOMAIN scenario.file :
    made[c] = Cardinality({k \in CallLines(scenario.file[c]) : k < line[c]})

LineOK == \A c \in Clients : line[c] \in Nat \ {0}

LEMMA LineStep ==
  ASSUME NEW f \in Seq(Lines), NEW k \in 1 .. Len(f), NEW j \in 1 .. k, Run(f, j, k), (k - j) % 2 = 0
  PROVE  /\ f[k] # "SHORT" => Run(f, k + 1, k + 1) /\ (k + 1 - (k + 1)) % 2 = 0
         /\ f[k] = "SHORT" /\ k + 2 <= Len(f) =>
              \E i \in 1 .. k + 2 : Run(f, i, k + 2) /\ (k + 2 - i) % 2 = 0
         /\ ~ Swallowed(f, k)
         /\ f[k] = "SHORT" /\ k + 1 <= Len(f) => Swallowed(f, k + 1)
<1>0. k \in Nat \ {0} /\ j \in Nat \ {0} /\ j <= k /\ Len(f) \in Nat
  BY LenProperties
<1>1. f[k] # "SHORT" => Run(f, k + 1, k + 1) /\ (k + 1 - (k + 1)) % 2 = 0
  BY <1>0 DEF Run
<1>2. ASSUME f[k] = "SHORT", k + 2 <= Len(f)
      PROVE  \E i \in 1 .. k + 2 : Run(f, i, k + 2) /\ (k + 2 - i) % 2 = 0
  <2>1. CASE f[k + 1] = "SHORT"
    <3>1. \A m \in j .. k + 1 : f[m] = "SHORT"
      BY <1>0, <1>2, <2>1 DEF Run
    <3>2. Run(f, j, k + 2) /\ (k + 2 - j) % 2 = 0 /\ j \in 1 .. k + 2
      BY <1>0, <3>1 DEF Run
    <3> QED
      BY <3>2
  <2>2. CASE f[k + 1] # "SHORT"
    <3>1. Run(f, k + 2, k + 2) /\ (k + 2 - (k + 2)) % 2 = 0 /\ k + 2 \in 1 .. k + 2
      BY <1>0, <2>2 DEF Run
    <3> QED
      BY <3>1
  <2> QED
    BY <2>1, <2>2
<1>3. ~ Swallowed(f, k)
  BY RunSwallows
<1>4. ASSUME f[k] = "SHORT", k + 1 <= Len(f) PROVE Swallowed(f, k + 1)
  <2>1. \A m \in j .. k : f[m] = "SHORT"
    BY <1>0, <1>4 DEF Run
  <2>2. Run(f, j, k + 1) /\ (k + 1 - j) % 2 = 1 /\ j \in 1 .. k + 1 /\ k + 1 \in 1 .. Len(f)
    BY <1>0, <1>4, <2>1 DEF Run
  <2> QED
    BY <2>2, RunSwallows
<1> QED
  BY <1>1, <1>2, <1>3, <1>4

LEMMA CountedCalls ==
  ASSUME NEW f \in Seq(Lines), NEW k \in 1 .. Len(f)
  PROVE  /\ k \in CallLines(f) =>
              Cardinality({j \in CallLines(f) : j < k + 1}) = Cardinality({j \in CallLines(f) : j < k}) + 1
         /\ k \notin CallLines(f) =>
              {j \in CallLines(f) : j < k + 1} = {j \in CallLines(f) : j < k}
         /\ k \notin CallLines(f) /\ k + 1 \notin CallLines(f) =>
              {j \in CallLines(f) : j < k + 2} = {j \in CallLines(f) : j < k}
<1> DEFINE CL == CallLines(f)
           Below(x) == {j \in CL : j < x}
<1>1. k \in Nat /\ CL \subseteq Nat
  BY LenProperties DEF CallLines
<1>2. IsFiniteSet(Below(k))
  <2>1. Below(k) \subseteq CL
    OBVIOUS
  <2> QED
    BY <2>1, CallLinesFinite, FS_Subset
<1>3. ASSUME k \in CL PROVE Cardinality(Below(k + 1)) = Cardinality(Below(k)) + 1
  <2>1. Below(k + 1) = Below(k) \cup {k} /\ k \notin Below(k)
    BY <1>1, <1>3
  <2> QED
    BY <1>2, <2>1, FS_AddElement
<1>4. ASSUME k \notin CL PROVE Below(k + 1) = Below(k)
  BY <1>1, <1>4
<1>5. ASSUME k \notin CL, k + 1 \notin CL PROVE Below(k + 2) = Below(k)
  BY <1>1, <1>5
<1> QED
  BY <1>3, <1>4, <1>5

LEMMA LineOKInv == ControlOK /\ LineOK /\ [Next]_vars => LineOK'
<1> SUFFICES ASSUME ControlOK, LineOK, [Next]_vars PROVE LineOK'
  OBVIOUS
<1>1. ASSUME NEW c \in Clients, Call(c) \/ Skip(c) PROVE LineOK'
  BY <1>1 DEF ControlOK, LineOK, Call, Skip, Remaining
<1> QED
  BY <1>1, Frame DEF Changes, LineOK

LEMMA CallsMadeInv ==
  ControlOK /\ LineOK /\ LineInv /\ CallsMade /\ [Next]_vars => LineInv' /\ CallsMade'
<1> SUFFICES ASSUME ControlOK, LineOK, LineInv, CallsMade, [Next]_vars, NEW c \in DOMAIN scenario.file
             PROVE  /\ line'[c] <= Len(scenario.file[c]) =>
                         \E j \in 1 .. line'[c] :
                            Run(scenario.file[c], j, line'[c]) /\ (line'[c] - j) % 2 = 0
                    /\ made'[c] = Cardinality({k \in CallLines(scenario.file[c]) : k < line'[c]})
  BY Frame DEF LineInv, CallsMade, Changes
<1> DEFINE f == scenario.file[c]
           k == line[c]
<1>1. c \in Clients /\ f \in Seq(Lines) /\ k \in Nat \ {0} /\ Len(f) \in Nat
  BY Constants, LenProperties DEF ControlOK, LineOK
<1>2. CASE HasLine(c)
  <2>1. k \in 1 .. Len(f) /\ f[k] \in Lines
    BY <1>1, <1>2 DEF HasLine
  <2>2. PICK j \in 1 .. k : Run(f, j, k) /\ (k - j) % 2 = 0
    BY <2>1 DEF LineInv
  <2>3. Call(c) \/ Skip(c) => line' = [line EXCEPT ![c] = Remaining(c)]
    BY DEF Call, Skip
  <2> DEFINE Count(n) == Cardinality({i \in CallLines(f) : i < n})
  <2>4. /\ f[k] # "SHORT" => Run(f, k + 1, k + 1) /\ (k + 1 - (k + 1)) % 2 = 0
        /\ f[k] = "SHORT" /\ k + 2 <= Len(f) =>
             \E i \in 1 .. k + 2 : Run(f, i, k + 2) /\ (k + 2 - i) % 2 = 0
        /\ ~ Swallowed(f, k)
        /\ f[k] = "SHORT" /\ k + 1 <= Len(f) => Swallowed(f, k + 1)
    <3> HIDE DEF f, k
    <3> QED
      BY <1>1, <2>1, <2>2, LineStep
  <2>5. /\ k \in CallLines(f) => Count(k + 1) = Count(k) + 1
        /\ k \notin CallLines(f) => Count(k + 1) = Count(k)
        /\ k \notin CallLines(f) /\ k + 1 \notin CallLines(f) => Count(k + 2) = Count(k)
    <3> HIDE DEF f, k
    <3> QED
      BY <1>1, <2>1, CountedCalls
  <2>6. made[c] = Count(k)
    BY DEF CallsMade
  <2>7. CASE Call(c)
    <3>1. f[k] \in Ops /\ line'[c] = k + 1 /\ made'[c] = made[c] + 1 /\ f[k] # "SHORT"
      BY <1>1, <2>7 DEF Call, Remaining, ControlOK, Ops
    <3>2. k \in CallLines(f)
      BY <2>1, <2>4, <3>1 DEF CallLines
    <3>3. made'[c] = Count(line'[c])
      BY <2>5, <2>6, <3>1, <3>2
    <3>4. k + 1 \in 1 .. line'[c]
      BY <1>1, <3>1
    <3> HIDE DEF f, k
    <3> QED
      BY <2>4, <3>1, <3>3, <3>4 DEF f
  <2>8. CASE Skip(c)
    <3>1. f[k] \notin Ops /\ made'[c] = made[c] /\ k \notin CallLines(f)
      BY <2>8 DEF Skip, callers, CallLines
    <3>2. CASE f[k] # "SHORT"
      <4>1. line'[c] = k + 1
        BY <1>1, <2>3, <2>8, <3>2 DEF Remaining, ControlOK
      <4>2. k + 1 \in 1 .. line'[c] /\ made'[c] = Count(line'[c])
        BY <1>1, <2>5, <2>6, <3>1, <4>1
      <4> HIDE DEF f, k
      <4> QED
        BY <2>4, <3>2, <4>1, <4>2 DEF f
    <3>3. CASE f[k] = "SHORT"
      <4>1. line'[c] = k + 2
        BY <1>1, <2>3, <2>8, <3>3 DEF Remaining, ControlOK
      <4>2. k + 1 \notin CallLines(f)
        BY <1>1, <2>4, <3>3 DEF CallLines
      <4>3. made'[c] = Count(line'[c])
        BY <2>5, <2>6, <3>1, <4>1, <4>2
      <4>4. ASSUME line'[c] <= Len(f)
            PROVE  \E i \in 1 .. line'[c] : Run(f, i, line'[c]) /\ (line'[c] - i) % 2 = 0
        <5>1. PICK i \in 1 .. k + 2 : Run(f, i, k + 2) /\ (k + 2 - i) % 2 = 0
          BY <2>4, <3>3, <4>1, <4>4
        <5> HIDE DEF f, k
        <5>2. i \in 1 .. line'[c] /\ Run(f, i, line'[c]) /\ (line'[c] - i) % 2 = 0
          BY <1>1, <4>1, <5>1
        <5> QED
          BY <5>2
      <4> QED
        BY <4>3, <4>4
    <3> QED
      BY <3>2, <3>3
  <2>9. CASE ~ Call(c) /\ ~ Skip(c)
    <3>1. line'[c] = line[c] /\ made'[c] = made[c]
      BY <1>1, <2>9, Frame DEF Changes, Call, Skip, ControlOK, callers
    <3> QED
      BY <3>1 DEF LineInv, CallsMade
  <2> QED
    BY <2>7, <2>8, <2>9
<1>3. CASE ~ HasLine(c)
  <2>1. line'[c] = line[c] /\ made'[c] = made[c]
    BY <1>1, <1>3, Frame DEF Changes, Call, Skip, ControlOK, callers
  <2> QED
    BY <2>1 DEF LineInv, CallsMade
<1> QED
  BY <1>2, <1>3

------------------------------------------------------------------------------
\* Every step, from one client's and from one worker's view

OwnStep(c) ==
  Setup(c) \/ Call(c) \/ Skip(c) \/ Quit(c) \/ Abandon(c) \/ ClientRuns(c) \/ Sigint(c)

SameClient(c) ==
  /\ op'[c] = op[c] /\ made'[c] = made[c] /\ got'[c] = got[c] /\ returned'[c] = returned[c]
  /\ sigints'[c] = sigints[c]

(* Only its own steps change a client's variables, but for a worker that   *)
(* opens the other end of the FIFO for which it sleeps.                    *)
ClientStep(c) ==
  \/ OwnStep(c)
  \/ /\ SameClient(c)
     /\ \/ at'[c] = at[c]
        \/ \E w \in Workers : /\ client[w] = c /\ OpenAnswer(w)
                              /\ at[c] = "opening_resp" /\ at'[c] = "read_result"
        \/ \E w \in Workers : /\ client[w] = c
                              /\ OpenRequestFd(w) \/ OpenTmpPipe(w)
                              /\ "req" \in linked[c]
                              /\ at[c] = "opening_req" /\ at'[c] = "write_req"

LEMMA ClientSteps ==
  ASSUME AtOK, ControlOK, WordsOK, [Next]_vars, NEW c \in Clients
  PROVE  ClientStep(c)
<1> USE DEF ControlOK, WordsOK, AtOK
<1>1. ASSUME NEW d \in Clients, OwnStep(d) PROVE ClientStep(c)
  <2>1. CASE c = d
    BY <1>1, <2>1 DEF ClientStep
  <2>2. CASE c # d
    <3>1. ASSUME Setup(d) \/ Call(d) \/ Skip(d) \/ Quit(d) \/ Abandon(d) \/ OpenReq(d) \/ WriteReq(d)
                 \/ CloseReqWriter(d) \/ Unlink(d)
          PROVE  SameClient(c) /\ at'[c] = at[c]
      BY <2>2, <3>1 DEF Setup, Call, Skip, Quit, Abandon, OpenReq, WriteReq, CloseReqWriter, Unlink,
                        ClientTo, callers, input, SameClient
    <3>2. ASSUME OpenResp(d) \/ ReadResult(d) \/ ReadBody(d) \/ CloseRespReader(d) \/ Return(d)
                 \/ SetupReturn(d) \/ Exit(d)
          PROVE  SameClient(c) /\ at'[c] = at[c]
      BY <2>2, <3>2 DEF OpenResp, ReadResult, ReadBody, CloseRespReader, Return, SetupReturn, Exit,
                        ClientTo, input, SameClient
    <3>3. ASSUME Sigint(d) PROVE SameClient(c) /\ at'[c] = at[c]
      BY <2>2, <3>3 DEF Sigint, Interrupted, Killed, ClientTo, SameClient
    <3> QED
      BY <1>1, <3>1, <3>2, <3>3 DEF OwnStep, ClientRuns, ClientStep
  <2> QED
    BY <2>1, <2>2
<1>2. ASSUME NEW w \in Workers, OpenAnswer(w) PROVE ClientStep(c)
  BY <1>2 DEF OpenAnswer, ClientStep, SameClient, input
<1>3. ASSUME NEW w \in Workers, OpenRequestFd(w) \/ OpenTmpPipe(w) PROVE ClientStep(c)
  <2>1. SameClient(c)
    BY <1>3 DEF OpenRequestFd, OpenTmpPipe, OpenFd, SameClient, input
  <2>2. \/ at'[c] = at[c]
        \/ /\ client[w] = c /\ "req" \in linked[c] /\ at[c] = "opening_req" /\ at'[c] = "write_req"
    BY <1>3 DEF OpenRequestFd, OpenTmpPipe, OpenFd
  <2> QED
    BY <1>3, <2>1, <2>2 DEF ClientStep
<1>4. ASSUME NEW w \in Workers, \/ Dequeue(w) \/ WriteAnswer(w) \/ CloseAnswer(w) \/ CloseTmpPipe(w)
                                \/ ReadOp(w) \/ Execute(w) \/ CloseRequestFd(w) \/ Free(w)
      PROVE  ClientStep(c)
  BY <1>4 DEF Dequeue, WriteAnswer, CloseAnswer, CloseTmpPipe, ReadOp, Execute, CloseRequestFd,
              Free, ClientStep, SameClient, input, callers
<1>5. CASE UNCHANGED vars
  BY <1>5 DEF vars, ClientStep, SameClient, input, callers
<1> QED
  BY <1>1, <1>2, <1>3, <1>4, <1>5 DEF Next, OwnStep, WorkerRuns

SameWorker(w) == client'[w] = client[w] /\ request'[w] = request[w] /\ answer'[w] = answer[w]

(* Only its own steps change a worker's variables, but for its client's    *)
(* open of the other end of the FIFO for which it sleeps.                  *)
WorkerStep(w) ==
  \/ WorkerRuns(w)
  \/ /\ SameWorker(w)
     /\ \/ pc'[w] = pc[w]
        \/ \E c \in Clients :
             /\ client[w] = c
             /\ \/ /\ OpenReq(c)
                   /\ \/ pc[w] = "opening_req" /\ pc'[w] = "read_op"
                      \/ pc[w] = "opening_tmp" /\ pc'[w] = "close_tmp"
                \/ OpenResp(c) /\ pc[w] = "opening_resp" /\ pc'[w] = "write_resp"

LEMMA WorkerSteps ==
  ASSUME PcOK, ControlOK, WordsOK, [Next]_vars, NEW w \in Workers
  PROVE  WorkerStep(w)
<1> USE DEF ControlOK, WordsOK, PcOK, WorkerStep, SameWorker
<1>1. ASSUME NEW v \in Workers, v # w, WorkerRuns(v) PROVE WorkerStep(w)
  <2>1. CASE Dequeue(v) \/ ReadOp(v) \/ Execute(v) \/ Free(v)
    BY <1>1, <2>1 DEF Dequeue, ReadOp, Execute, Free, WorkerTo, GoOn
  <2>2. CASE OpenAnswer(v) \/ OpenRequestFd(v) \/ OpenTmpPipe(v)
    BY <1>1, <2>2 DEF OpenAnswer, OpenRequestFd, OpenTmpPipe, OpenFd, GoOn, AfterResp
  <2>3. CASE WriteAnswer(v) \/ CloseAnswer(v) \/ CloseTmpPipe(v) \/ CloseRequestFd(v)
    BY <1>1, <2>3 DEF WriteAnswer, CloseAnswer, CloseTmpPipe, CloseRequestFd, WorkerTo, GoOn,
         AfterResp
  <2> QED
    BY <1>1, <2>1, <2>2, <2>3 DEF WorkerRuns
<1>2. ASSUME NEW c \in Clients, OpenReq(c) PROVE WorkerStep(w)
  BY <1>2 DEF OpenReq, Unblocked
<1>3. ASSUME NEW c \in Clients, OpenResp(c) PROVE WorkerStep(w)
  BY <1>3 DEF OpenResp, Unblocked
<1>4. CASE UNCHANGED <<pc, client, request, answer>>
  BY <1>4
<1> QED
  <2>1. ASSUME NEW c \in Clients, OwnStep(c)
        PROVE  OpenReq(c) \/ OpenResp(c) \/ UNCHANGED <<pc, client, request, answer>>
    BY <2>1 DEF OwnStep, ClientRuns, Setup, Call, Skip, Quit, Abandon, WriteReq, CloseReqWriter,
          Unlink, ReadResult, ReadBody, CloseRespReader, Return, SetupReturn, Exit, Sigint, servers
  <2>2. UNCHANGED vars => UNCHANGED <<pc, client, request, answer>>
    BY DEF vars, servers
  <2> QED
    BY <1>1, <1>2, <1>3, <1>4, <2>1, <2>2 DEF Next, OwnStep

------------------------------------------------------------------------------
\* The session of a client

(* It has not come to its first request: the worker has not opened the     *)
(* request FIFO.                                                           *)
AtSetup(w) == pc[w] = "open_fd" \/ (Answering(w) /\ request[w].op = "SETUP")

Fresh(c) ==
  \/ at[c] = "start"
  \/ \E k \in 1 .. Len(connections) : connections[k] = c
  \/ \E w \in Workers : client[w] = c /\ AtSetup(w)

LEMMA ConnectionsStep ==
  ASSUME AtOK, ControlOK, [Next]_vars, NEW c \in Clients,
         NEW k \in 1 .. Len(connections'), connections'[k] = c
  PROVE  Fresh(c)
<1>0. connections \in Seq(Clients)
  BY DEF ControlOK
<1>1. ASSUME NEW d \in Clients, Setup(d) PROVE Fresh(c)
  <2>1. connections' = Append(connections, d) /\ at[d] = "start"
    BY <1>1 DEF Setup, ClientTo
  <2>2. connections'[k] = d \/ (k \in 1 .. Len(connections) /\ connections'[k] = connections[k])
    BY <1>0, <2>1, AppendProperties
  <2> QED
    BY <2>1, <2>2 DEF Fresh
<1>2. ASSUME NEW w \in Workers, Dequeue(w) PROVE Fresh(c)
  <2>1. connections' = Tail(connections) /\ connections # <<>>
    BY <1>2 DEF Dequeue
  <2>2. k + 1 \in 1 .. Len(connections) /\ connections[k + 1] = c
    BY <1>0, <2>1, HeadTailProperties, LenProperties
  <2> QED
    BY <2>2 DEF Fresh
<1>3. CASE UNCHANGED connections
  BY <1>3 DEF Fresh
<1> QED
  BY <1>1, <1>2, <1>3, Frame DEF Changes

LEMMA FreshStep ==
  ASSUME AtOK, PcOK, ControlOK, WordsOK, Requested, [Next]_vars, NEW c \in Clients, Fresh(c)'
  PROVE  Fresh(c)
<1>1. ASSUME at'[c] = "start" PROVE Fresh(c)
  BY <1>1, BeginsOnce DEF Fresh
<1>2. ASSUME NEW w \in Workers, client'[w] = c, AtSetup(w)' PROVE Fresh(c)
  <2> USE DEF AtSetup, Answering
  <2>1. CASE Dequeue(w)
    <3>1. client'[w] = Head(connections) /\ connections # <<>> /\ connections \in Seq(Clients)
      BY <2>1 DEF Dequeue, ControlOK
    <3>2. connections[1] = c /\ 1 \in 1 .. Len(connections)
      BY <1>2, <3>1, HeadTailProperties, LenProperties
    <3> QED
      BY <3>2 DEF Fresh
  <2>2. CASE Free(w)
    BY <1>2, <2>2, NoClientAssumption DEF Free, ControlOK
  <2>3. CASE Execute(w)
    BY <1>2, <2>3 DEF Execute, WorkerTo, GoOn, PcOK, Requested, Ops
  <2>4. CASE OpenRequestFd(w) \/ OpenTmpPipe(w)
    BY <1>2, <2>4 DEF OpenRequestFd, OpenTmpPipe, OpenFd, GoOn, PcOK
  <2>5. CASE CloseTmpPipe(w) \/ ReadOp(w) \/ CloseRequestFd(w)
    BY <1>2, <2>5 DEF CloseTmpPipe, ReadOp, CloseRequestFd, WorkerTo, GoOn, PcOK
  <2>6. CASE OpenAnswer(w) \/ WriteAnswer(w) \/ CloseAnswer(w)
    <3>1. client[w] = c /\ AtSetup(w)
      BY <1>2, <2>6 DEF OpenAnswer, WriteAnswer, CloseAnswer, WorkerTo, GoOn, AfterResp, PcOK
    <3> QED
      BY <3>1 DEF Fresh
  <2>7. CASE SameWorker(w) /\ (pc'[w] = pc[w] \/ (pc[w] = "opening_resp" /\ pc'[w] = "write_resp"))
    <3>1. client[w] = c /\ AtSetup(w)
      BY <1>2, <2>7 DEF SameWorker
    <3> QED
      BY <3>1 DEF Fresh
  <2> QED
    BY <1>2, <2>1, <2>2, <2>3, <2>4, <2>5, <2>6, <2>7, WorkerSteps DEF WorkerStep, WorkerRuns
<1> QED
  BY <1>1, <1>2, ConnectionsStep DEF Fresh

LEMMA FreshEnds ==
  ASSUME NotBegun, OneWorkerEach, ServerEnds, NEW c \in Clients, Fresh(c)
  PROVE  reqReaders[c] = 0
<1>1. ASSUME NEW w \in Workers, client[w] = c, AtSetup(w) PROVE reqReaders[c] = 0
  BY <1>1, NoClientAssumption DEF ServerEnds, AtSetup, Answering, HoldsFd, HoldsTmp, One
<1>2. ASSUME \A w \in Workers : client[w] # c PROVE reqReaders[c] = 0
  BY <1>2 DEF ServerEnds
<1> QED
  BY <1>1, <1>2 DEF Fresh, NotBegun, OneWorkerEach

(* Once the worker has closed the request FIFO, nobody opens it again.     *)
Connected(c) == Fresh(c) \/ reqReaders[c] > 0

LEMMA ConnectedStep ==
  ASSUME AtOK, PcOK, ControlOK, WordsOK, EndsInt, Served, Requested, ServerEnds, [Next]_vars,
         NEW c \in Clients, Connected(c)'
  PROVE  Connected(c)
<1>1. CASE Fresh(c)'
  BY <1>1, FreshStep DEF Connected
<1>2. CASE reqReaders'[c] > 0
  <2>1. ASSUME NEW w \in Workers, OpenRequestFd(w) \/ OpenTmpPipe(w), client[w] = c
        PROVE  Connected(c)
    <3>1. CASE pc[w] = "open_fd"
      BY <2>1, <3>1 DEF Connected, Fresh, AtSetup
    <3>2. CASE pc[w] = "open_tmp"
      BY <2>1, <3>2, NoClientAssumption DEF Connected, ServerEnds, HoldsFd, HoldsTmp, One
    <3> QED
      BY <2>1, <3>1, <3>2 DEF OpenRequestFd, OpenTmpPipe, OpenFd
  <2>2. ASSUME NEW w \in Workers, OpenRequestFd(w) \/ OpenTmpPipe(w), client[w] # c
        PROVE  Connected(c)
    BY <1>2, <2>2 DEF OpenRequestFd, OpenTmpPipe, OpenFd, Add, EndsInt, Connected
  <2>3. ASSUME NEW w \in Workers, CloseTmpPipe(w) \/ CloseRequestFd(w) PROVE Connected(c)
    BY <1>2, <2>3 DEF CloseTmpPipe, CloseRequestFd, Add, EndsInt, Connected
  <2> QED
    BY <1>2, <2>1, <2>2, <2>3, Frame DEF Opening, Connected
<1> QED
  BY <1>1, <1>2 DEF Connected

FreshInv ==
  \A c \in Clients : Fresh(c) => at[c] \notin {"write_req", "close_req"} /\ requests[c] = <<>>

LEMMA FreshInvStep ==
  ASSUME AtOK, PcOK, ControlOK, WordsOK, EndsInt, Served, NotBegun, OneWorkerEach, Requested,
         ServerEnds, FreshInv, [Next]_vars
  PROVE  FreshInv'
<1> SUFFICES ASSUME NEW c \in Clients, Fresh(c)'
             PROVE  at'[c] \notin {"write_req", "close_req"} /\ requests'[c] = <<>>
  BY DEF FreshInv
<1>1. Fresh(c) /\ at[c] \notin {"write_req", "close_req"} /\ requests[c] = <<>> /\ reqReaders[c] = 0
  BY FreshStep, FreshEnds DEF FreshInv
<1>2. requests'[c] = <<>>
  BY <1>1, RequestsChange DEF RequestsStep, WriteReq, ClientTo
<1>3. at'[c] \notin {"write_req", "close_req"}
  <2>1. CASE OwnStep(c)
    <3> USE <1>1 DEF AtOK, ClientTo
    <3>1. CASE Setup(c) \/ Call(c) \/ Skip(c) \/ Quit(c) \/ Abandon(c)
      BY <3>1 DEF Setup, Call, Skip, Quit, Abandon, callers
    <3>2. CASE Sigint(c)
      BY <3>2 DEF Sigint, Interrupted, Killed
    <3>3. CASE ClientRuns(c)
      BY <3>3 DEF ClientRuns, OpenReq, WriteReq, CloseReqWriter, Unlink, OpenResp, ReadResult,
           ReadBody, CloseRespReader, Return, SetupReturn, Exit
    <3> QED
      BY <2>1, <3>1, <3>2, <3>3 DEF OwnStep
  <2>2. ASSUME NEW w \in Workers, \/ client[w] = c, OpenRequestFd(w)
                                  \/ OpenTmpPipe(w), "req" \in linked[c]
        PROVE  FALSE
    <3>1. pc'[w] \in {"read_op", "opening_req", "close_tmp", "opening_tmp"} /\ UNCHANGED <<client, connections>>
          /\ pc[w] # "dequeue"
      BY <2>2 DEF OpenRequestFd, OpenTmpPipe, OpenFd, GoOn, PcOK
    <3>2. ~ AtSetup(w)' /\ client'[w] = c
      BY <2>2, <3>1 DEF AtSetup, Answering
    <3>3. \A v \in Workers : client'[v] = c => v = w
      BY <2>2, <3>1, NoClientAssumption DEF OneWorkerEach
    <3>4. \A k \in 1 .. Len(connections') : connections'[k] # c
      BY <2>2, <3>1 DEF OneWorkerEach
    <3>5. at'[c] # "start"
      BY <2>2, BeginsOnce DEF NotBegun
    <3> QED
      BY <3>2, <3>3, <3>4, <3>5 DEF Fresh
  <2> QED
    BY <1>1, <2>1, <2>2, ClientSteps DEF ClientStep
<1> QED
  BY <1>2, <1>3

------------------------------------------------------------------------------
\* A client's calls and its QUIT

(* A call that is made and not yet written.                                *)
Unwritten(c) == op[c] \in Ops /\ at[c] \in {"open_req", "opening_req", "write_req"}

Written(c) == made[c] - One(Unwritten(c))

CallStep(c) ==
  \/ Call(c) /\ ~ Unwritten(c) /\ Unwritten(c)' /\ made'[c] = made[c] + 1
  \/ /\ made'[c] = made[c]
     /\ Unwritten(c)' => Unwritten(c) /\ op'[c] = op[c]
     /\ Unwritten(c) /\ ~ Unwritten(c)' => WriteReq(c) \/ sigints'[c] = sigints[c] + 1

LEMMA CallSteps ==
  ASSUME AtOK, ControlOK, WordsOK, [Next]_vars, NEW c \in Clients
  PROVE  CallStep(c) /\ sigints'[c] >= sigints[c]
<1>0. sigints[c] \in Nat
  <2>1. sigints \in [Clients -> 0 .. 2]
    BY DEF ControlOK
  <2>2. sigints[c] \in 0 .. 2
    BY <2>1
  <2> QED
    BY <2>2
<1> USE <1>0 DEF CallStep, Unwritten, AtOK, ControlOK, ClientTo
<1>1. CASE Call(c)
  <2>1. /\ at'[c] = "open_req" /\ op'[c] \in Ops /\ made'[c] = made[c] + 1 /\ sigints'[c] = sigints[c]
        /\ at[c] = "ready"
    BY <1>1 DEF Call
  <2> QED
    BY <1>1, <2>1
<1>2. CASE Setup(c) \/ Skip(c) \/ Quit(c) \/ Abandon(c)
  BY <1>2 DEF Setup, Skip, Quit, Abandon, callers, input, Ops
<1>3. CASE Sigint(c)
  <2>1. made'[c] = made[c] /\ op'[c] = op[c] /\ sigints'[c] = sigints[c] + 1
    BY <1>3 DEF Sigint
  <2>2. at'[c] \notin {"open_req", "opening_req", "write_req"} \/ at'[c] = at[c]
    BY <1>3 DEF Sigint, Interrupted, Killed
  <2> QED
    BY <2>1, <2>2
<1>4. CASE WriteReq(c)
  BY <1>4 DEF WriteReq, input
<1>5. CASE OpenReq(c) \/ CloseReqWriter(c) \/ Unlink(c) \/ OpenResp(c) \/ ReadResult(c) \/ ReadBody(c)
  BY <1>5 DEF OpenReq, CloseReqWriter, Unlink, OpenResp, ReadResult, ReadBody, input
<1>6. CASE CloseRespReader(c) \/ Return(c) \/ SetupReturn(c) \/ Exit(c)
  BY <1>6 DEF CloseRespReader, Return, SetupReturn, Exit, input
<1>7. CASE SameClient(c) /\ at'[c] = at[c]
  BY <1>7 DEF SameClient
<1>8. CASE SameClient(c) /\ at[c] = "opening_resp" /\ at'[c] = "read_result"
  BY <1>8 DEF SameClient
<1>9. CASE SameClient(c) /\ at[c] = "opening_req" /\ at'[c] = "write_req"
  BY <1>9 DEF SameClient
<1> QED
  BY <1>1, <1>2, <1>3, <1>4, <1>5, <1>6, <1>7, <1>8, <1>9, ClientSteps
     DEF ClientStep, OwnStep, ClientRuns

(* A client that quits makes no other call, and once it has written QUIT   *)
(* it writes nothing more.                                                 *)
Quitting(c) ==
  op[c] = "QUIT" /\ at[c] \in {"close_req", "unlink_req", "unlink_resp", "exit", "gone"}

QuitInv ==
  \A c \in Clients : op[c] = "QUIT" =>
    \/ at[c] \in {"open_req", "opening_req", "write_req", "fail"}
    \/ Quitting(c)

LEMMA QuitStep ==
  ASSUME AtOK, ControlOK, WordsOK, QuitInv, [Next]_vars, NEW c \in Clients
  PROVE  /\ op[c] = "QUIT" => op'[c] = "QUIT"
         /\ Quitting(c) => Quitting(c)'
         /\ op'[c] = "QUIT" => \/ at'[c] \in {"open_req", "opening_req", "write_req", "fail"}
                               \/ Quitting(c)'
<1> USE DEF QuitInv, Quitting, AtOK, ControlOK, ClientTo
<1>1. CASE Call(c)
  BY <1>1 DEF Call, Ops
<1>2. CASE Setup(c) \/ Skip(c) \/ Quit(c) \/ Abandon(c)
  BY <1>2 DEF Setup, Skip, Quit, Abandon, callers
<1>3. CASE Sigint(c)
  BY <1>3 DEF Sigint, Interrupted, Killed
<1>4. CASE OpenReq(c) \/ WriteReq(c) \/ CloseReqWriter(c) \/ Unlink(c)
  BY <1>4 DEF OpenReq, WriteReq, CloseReqWriter, Unlink
<1>5. CASE OpenResp(c) \/ ReadResult(c) \/ ReadBody(c) \/ CloseRespReader(c) \/ Return(c)
  BY <1>5 DEF OpenResp, ReadResult, ReadBody, CloseRespReader, Return, Ops
<1>6. CASE SetupReturn(c) \/ Exit(c)
  BY <1>6 DEF SetupReturn, Exit
<1>7. CASE SameClient(c) /\ at'[c] = at[c]
  BY <1>7 DEF SameClient
<1>8. CASE SameClient(c) /\ at[c] = "opening_resp" /\ at'[c] = "read_result"
  BY <1>8 DEF SameClient
<1>9. CASE SameClient(c) /\ at[c] = "opening_req" /\ at'[c] = "write_req"
  BY <1>9 DEF SameClient
<1> QED
  BY <1>1, <1>2, <1>3, <1>4, <1>5, <1>6, <1>7, <1>8, <1>9, ClientSteps
     DEF ClientStep, OwnStep, ClientRuns

------------------------------------------------------------------------------
\* The requests of a client, in the order of its FIFO

(* They are those executed, the one that its worker is about to execute,   *)
(* and those that wait in the FIFO.                                        *)
Executes(w, c) == client[w] = c /\ pc[w] = "execute"

Executing(c) == \E w \in Workers : Executes(w, c)

Current(c) == request[CHOOSE w \in Workers : Executes(w, c)]

Taken(c) == Len(executed[c]) + One(Executing(c))

Asked(c) == Taken(c) + Len(requests[c])

Asking(c, k) ==
  IF k <= Len(executed[c]) THEN executed[c][k]
  ELSE IF k <= Taken(c) THEN Current(c) ELSE requests[c][k - Taken(c)]

(* A step takes the next request, executes the one taken, adds a request,  *)
(* or loses those that wait.                                               *)
Added(c) ==
  /\ WriteReq(c) /\ reqReaders[c] > 0
  /\ Asked(c)' = Asked(c) + 1 /\ Taken(c)' = Taken(c)
  /\ Asking(c, Asked(c))' = [n |-> made[c], op |-> op[c]]
  /\ \A k \in 1 .. Asked(c) : Asking(c, k)' = Asking(c, k)

Lost(c) ==
  /\ \/ CloseReqWriter(c) /\ reqReaders[c] + reqWriters[c] = 1
     \/ Sigint(c) /\ Killed(c) /\ reqReaders[c] = 0
     \/ \E w \in Workers : client[w] = c /\ CloseRequestFd(w)
  /\ Asked(c)' = Taken(c) /\ Taken(c)' = Taken(c)
  /\ \A k \in 1 .. Taken(c) : Asking(c, k)' = Asking(c, k)

TookQuit(c) ==
  /\ Asked(c) > Taken(c) /\ Asking(c, Taken(c) + 1).op = "QUIT"
  /\ Asked(c)' = Asked(c) - 1 /\ Taken(c)' = Taken(c)
  /\ \A k \in 1 .. Taken(c) : Asking(c, k)' = Asking(c, k)

Continued(c) ==
  /\ Asked(c)' = Asked(c)
  /\ \A k \in 1 .. Asked(c) : Asking(c, k)' = Asking(c, k)
  /\ Taken(c)' = Taken(c) \/ (Taken(c)' = Taken(c) + 1 /\ Asking(c, Taken(c) + 1).op # "QUIT")

LEMMA CurrentIs ==
  ASSUME OneWorkerEach, NEW c \in Clients, NEW w \in Workers, Executes(w, c)
  PROVE  Executing(c) /\ Current(c) = request[w]
<1>1. \A v \in Workers : Executes(v, c) => v = w
  BY NoClientAssumption DEF OneWorkerEach, Executes
<1>2. (CHOOSE v \in Workers : Executes(v, c)) = w
  BY <1>1
<1> QED
  BY <1>2 DEF Executing, Current

LEMMA SameMessage == ASSUME NEW m \in Messages PROVE [n |-> m.n, op |-> m.op] = m
BY DEF Messages

LEMMA AskedSizes ==
  ASSUME WordsOK, NEW c \in Clients
  PROVE  /\ Len(executed[c]) \in Nat /\ Len(requests[c]) \in Nat
         /\ Taken(c) \in Nat /\ Asked(c) \in Nat /\ Taken(c) <= Asked(c)
         /\ Len(executed[c]) <= Taken(c) /\ Taken(c) <= Len(executed[c]) + 1
         /\ Taken(c) = IF Executing(c) THEN Len(executed[c]) + 1 ELSE Len(executed[c])
<1>1. executed[c] \in Seq(Messages) /\ requests[c] \in Seq(Messages)
  BY DEF WordsOK
<1>2. Len(executed[c]) \in Nat /\ Len(requests[c]) \in Nat
  BY <1>1, LenProperties
<1>3. PICK e \in Nat, r \in Nat : e = Len(executed[c]) /\ r = Len(requests[c])
  BY <1>2
<1>4. Taken(c) = IF Executing(c) THEN e + 1 ELSE e
  <2>1. CASE Executing(c)
    BY <1>3, <2>1 DEF Taken, One
  <2>2. CASE ~ Executing(c)
    BY <1>3, <2>2 DEF Taken, One
  <2> QED
    BY <2>1, <2>2
<1>5. Taken(c) \in Nat /\ e <= Taken(c) /\ Taken(c) <= e + 1
  BY <1>4
<1>6. Asked(c) \in Nat /\ Taken(c) <= Asked(c)
  <2>1. Asked(c) = Taken(c) + r
    BY <1>3 DEF Asked
  <2> QED
    BY <1>5, <2>1
<1> QED
  BY <1>3, <1>4, <1>5, <1>6

(* A worker executes the request it has taken.                             *)
LEMMA ExecuteKeeps ==
  ASSUME ControlOK, PcOK, WordsOK, Served, OneWorkerEach, WordsOK', OneWorkerEach',
         NEW c \in Clients, NEW w \in Workers, client[w] = c, Execute(w)
  PROVE  Continued(c)
<1>1. /\ executed'[c] = Append(executed[c], request[w]) /\ requests'[c] = requests[c]
      /\ client' = client /\ pc'[w] = "open_resp" /\ pc[w] = "execute"
  <2>1. [n |-> request[w].n, op |-> request[w].op] = request[w]
    BY SameMessage DEF WordsOK
  <2> QED
    BY <2>1 DEF Execute, WorkerTo, GoOn, PcOK, WordsOK, pipes
<1>2. Executing(c) /\ Current(c) = request[w]
  BY <1>1, CurrentIs DEF Executes
<1>3. ~ Executing(c)'
  <2>1. \A v \in Workers : client'[v] = c => v = w
    BY <1>1, NoClientAssumption DEF OneWorkerEach
  <2> QED
    BY <1>1, <2>1 DEF Executing, Executes
<1>4. /\ Len(executed'[c]) = Len(executed[c]) + 1 /\ executed'[c][Len(executed[c]) + 1] = request[w]
      /\ \A k \in 1 .. Len(executed[c]) : executed'[c][k] = executed[c][k]
  BY <1>1, AppendProperties DEF WordsOK
<1>5. Taken(c)' = Taken(c) /\ Taken(c) = Len(executed[c]) + 1 /\ Asked(c)' = Asked(c)
  BY <1>1, <1>2, <1>3, <1>4, AskedSizes DEF Taken, Asked, One
<1>6. ASSUME NEW k \in 1 .. Asked(c) PROVE Asking(c, k)' = Asking(c, k)
  BY <1>1, <1>2, <1>4, <1>5, AskedSizes DEF Asking
<1> QED
  BY <1>5, <1>6 DEF Continued

(* It takes the next request.                                              *)
LEMMA ReadOpKeeps ==
  ASSUME ControlOK, PcOK, WordsOK, Served, OneWorkerEach, WordsOK', OneWorkerEach',
         NEW c \in Clients, NEW w \in Workers, client[w] = c, ReadOp(w)
  PROVE  Continued(c) \/ TookQuit(c)
<1>0. executed'[c] = executed[c] /\ client' = client /\ pc[w] = "read_op"
  BY DEF ReadOp
<1>1. \A v \in Workers : client[v] = c => v = w
  BY NoClientAssumption DEF OneWorkerEach
<1>2. ~ Executing(c) /\ Taken(c) = Len(executed[c])
  <2>1. ~ Executing(c)
    BY <1>0, <1>1 DEF Executing, Executes
  <2> QED
    BY <2>1, AskedSizes
<1>3. CASE requests[c] = <<>>
  <2>1. pc'[w] = "close_fd" /\ requests'[c] = requests[c]
    BY <1>3 DEF ReadOp, GoOn, PcOK
  <2>2. ~ Executing(c)'
    BY <1>0, <1>1, <2>1 DEF Executing, Executes
  <2>3. Taken(c)' = Taken(c) /\ Asked(c)' = Asked(c)
    BY <1>0, <1>2, <2>1, <2>2 DEF Taken, Asked, One
  <2> QED
    BY <1>0, <2>1, <2>3, <1>2, AskedSizes DEF Continued, Asking
<1>4. CASE requests[c] # <<>>
  <2>1. /\ requests'[c] = Tail(requests[c]) /\ request'[w] = Head(requests[c])
        /\ pc'[w] = IF Head(requests[c]).op = "QUIT" THEN "close_fd" ELSE "execute"
    BY <1>4 DEF ReadOp, GoOn, PcOK, WordsOK
  <2>2. /\ Len(requests[c]) >= 1 /\ Len(requests'[c]) = Len(requests[c]) - 1
        /\ Head(requests[c]) = requests[c][1]
        /\ \A k \in 1 .. Len(requests[c]) - 1 : requests'[c][k] = requests[c][k + 1]
    BY <1>4, <2>1, HeadTailProperties, LenProperties DEF WordsOK
  <2>3. Asking(c, Taken(c) + 1) = Head(requests[c]) /\ Asked(c) > Taken(c)
    <3>1. Len(executed[c]) \in Nat /\ Len(requests[c]) \in Nat
      BY AskedSizes
    <3>2. ~ (Taken(c) + 1 <= Taken(c)) /\ Taken(c) + 1 - Taken(c) = 1
      BY <1>2, <3>1
    <3>3. Asking(c, Taken(c) + 1) = requests[c][1]
      BY <1>2, <3>1, <3>2 DEF Asking
    <3>4. PICK r \in Nat : r = Len(requests[c])
      BY <3>1
    <3>5. Asked(c) = Taken(c) + r /\ r >= 1 /\ Taken(c) \in Nat
      BY <1>2, <2>2, <3>1, <3>4 DEF Asked
    <3> QED
      BY <2>2, <3>3, <3>5
  <2>4. CASE Head(requests[c]).op = "QUIT"
    <3>1. ~ Executing(c)'
      BY <1>0, <1>1, <2>1, <2>4 DEF Executing, Executes
    <3>2. Taken(c)' = Taken(c) /\ Asked(c)' = Asked(c) - 1
      BY <1>0, <1>2, <2>2, <3>1, AskedSizes DEF Taken, Asked, One
    <3>3. ASSUME NEW k \in 1 .. Taken(c) PROVE Asking(c, k)' = Asking(c, k)
      BY <1>0, <1>2, <3>2 DEF Asking
    <3> QED
      BY <2>3, <2>4, <3>2, <3>3 DEF TookQuit
  <2>5. CASE Head(requests[c]).op # "QUIT"
    <3>1. Executes(w, c)'
      BY <1>0, <2>1, <2>5 DEF Executes
    <3>2. Executing(c)' /\ Current(c)' = Head(requests[c])
      <4>1. Executing(c)' /\ Current(c)' = request'[w]
        <5>1. \A v \in Workers : Executes(v, c)' => v = w
          BY <1>0, <1>1 DEF Executes
        <5>2. (CHOOSE v \in Workers : Executes(v, c)') = w
          BY <3>1, <5>1
        <5> QED
          BY <3>1, <5>2 DEF Executing, Current
      <4> QED
        BY <2>1, <4>1
    <3>3. Taken(c)' = Taken(c) + 1 /\ Asked(c)' = Asked(c)
      <4>1. Len(executed[c]) \in Nat /\ Len(requests[c]) \in Nat
        BY AskedSizes
      <4>2. Taken(c)' = Len(executed[c]) + 1
        BY <1>0, <3>2 DEF Taken, One
      <4>3. PICK e \in Nat, r \in Nat : e = Len(executed[c]) /\ r = Len(requests[c])
        BY <4>1
      <4>4. Asked(c) = e + r /\ Asked(c)' = e + 1 + (r - 1) /\ Taken(c)' = Taken(c) + 1
        BY <1>2, <2>2, <4>2, <4>3 DEF Asked
      <4> QED
        BY <4>4
    <3>4. ASSUME NEW k \in 1 .. Asked(c) PROVE Asking(c, k)' = Asking(c, k)
      <4>1. CASE k <= Len(executed[c])
        BY <1>0, <4>1 DEF Asking
      <4>2. CASE k = Taken(c) + 1
        BY <1>0, <1>2, <2>3, <3>2, <3>3, <4>2, AskedSizes DEF Asking
      <4>3. CASE k > Taken(c) + 1
        <5>1. k - Taken(c) \in 2 .. Len(requests[c])
          BY <4>3, AskedSizes DEF Asked
        <5>2. Asking(c, k) = requests[c][k - Taken(c)]
          BY <1>2, <4>3, AskedSizes DEF Asking
        <5>3. Asking(c, k)' = requests'[c][k - Taken(c) - 1]
          BY <1>0, <1>2, <3>3, <4>3, AskedSizes DEF Asking
        <5> QED
          BY <2>2, <5>1, <5>2, <5>3, AskedSizes
      <4> QED
        BY <1>2, <4>1, <4>2, <4>3, AskedSizes
    <3> QED
      BY <2>3, <2>5, <3>3, <3>4 DEF Continued
  <2> QED
    BY <2>4, <2>5
<1> QED
  BY <1>3, <1>4

(* Any other step leaves what is taken as it is.                           *)
LEMMA TakenKeeps ==
  ASSUME ControlOK, PcOK, WordsOK, Served, OneWorkerEach, WordsOK', OneWorkerEach', [Next]_vars,
         NEW c \in Clients, \A w \in Workers : client[w] = c => ~ Execute(w) /\ ~ ReadOp(w)
  PROVE  /\ executed'[c] = executed[c] /\ Executing(c)' = Executing(c)
         /\ Executing(c) => Current(c)' = Current(c)
<1>1. executed'[c] = executed[c]
  <2>1. ASSUME NEW w \in Workers, Execute(w) PROVE executed'[c] = executed[c]
    BY <2>1 DEF Execute, WordsOK
  <2> QED
    BY <2>1, Frame DEF Messaging
<1>2. ASSUME NEW w \in Workers, Executes(w, c)' PROVE Executes(w, c) /\ request'[w] = request[w]
  <2>1. CASE Dequeue(w) \/ CloseTmpPipe(w) \/ CloseRequestFd(w) \/ Free(w) \/ WriteAnswer(w)
    BY <1>2, <2>1 DEF Dequeue, CloseTmpPipe, CloseRequestFd, Free, WriteAnswer, WorkerTo, GoOn,
                      PcOK, Executes
  <2>2. CASE OpenAnswer(w) \/ CloseAnswer(w) \/ OpenRequestFd(w) \/ OpenTmpPipe(w)
    BY <1>2, <2>2 DEF OpenAnswer, CloseAnswer, OpenRequestFd, OpenTmpPipe, OpenFd, AfterResp,
                      WorkerTo, GoOn, PcOK, Executes
  <2>3. CASE ReadOp(w) \/ Execute(w)
    <3>1. client'[w] = client[w]
      BY <2>3 DEF ReadOp, Execute
    <3> QED
      BY <1>2, <2>3, <3>1 DEF Executes
  <2>4. CASE SameWorker(w) /\ (pc'[w] = pc[w] \/ pc'[w] \in {"read_op", "close_tmp", "write_resp"})
    BY <1>2, <2>4 DEF SameWorker, Executes
  <2> QED
    BY <2>1, <2>2, <2>3, <2>4, WorkerSteps DEF WorkerStep, WorkerRuns
<1>3. ASSUME NEW w \in Workers, Executes(w, c) PROVE Executes(w, c)'
  <2>1. ~ WorkerRuns(w)
    BY <1>3 DEF WorkerRuns, Executes, Dequeue, OpenAnswer, WriteAnswer, CloseAnswer, OpenRequestFd,
                OpenTmpPipe, OpenFd, CloseTmpPipe, CloseRequestFd, Free, WorkerTo
  <2> QED
    BY <1>3, <2>1, WorkerSteps DEF WorkerStep, SameWorker, Executes
<1>4. Executing(c)' = Executing(c)
  <2>1. Executing(c)' <=> Executing(c)
    BY <1>2, <1>3 DEF Executing
  <2> QED
    BY <2>1 DEF Executing
<1>5. ASSUME NEW w \in Workers, Executes(w, c) PROVE Current(c)' = Current(c)
  <2>1. Current(c) = request[w]
    BY <1>5, CurrentIs
  <2>2. Executes(w, c)' /\ request'[w] = request[w]
    BY <1>2, <1>3, <1>5
  <2>3. \A v \in Workers : Executes(v, c)' => v = w
    BY <1>2, <1>5, NoClientAssumption DEF OneWorkerEach, Executes
  <2>4. (CHOOSE v \in Workers : Executes(v, c)') = w
    BY <2>2, <2>3
  <2> QED
    BY <2>1, <2>2, <2>4 DEF Current
<1> QED
  BY <1>1, <1>4, <1>5 DEF Executing

LEMMA AskedSteps ==
  ASSUME ControlOK, PcOK, WordsOK, Served, OneWorkerEach, WordsOK', OneWorkerEach', EndsInt,
         [Next]_vars, NEW c \in Clients
  PROVE  Continued(c) \/ Added(c) \/ Lost(c) \/ TookQuit(c)
<1>1. CASE \E w \in Workers : client[w] = c /\ (Execute(w) \/ ReadOp(w))
  BY <1>1, ExecuteKeeps, ReadOpKeeps
<1>2. CASE \A w \in Workers : client[w] = c => ~ Execute(w) /\ ~ ReadOp(w)
  <2>0. /\ executed'[c] = executed[c] /\ Executing(c)' = Executing(c)
        /\ Executing(c) => Current(c)' = Current(c)
    BY <1>2, TakenKeeps
  <2>1. Taken(c)' = Taken(c)
    BY <2>0 DEF Taken
  <2>2. ASSUME NEW k \in 1 .. Taken(c) PROVE Asking(c, k)' = Asking(c, k)
    <3>1. CASE Executing(c)
      BY <2>0, <2>1, <3>1 DEF Asking
    <3>2. CASE ~ Executing(c)
      <4>1. k <= Len(executed[c]) /\ k <= Len(executed'[c])
        BY <2>0, <3>2, AskedSizes
      <4> QED
        BY <2>0, <4>1 DEF Asking
    <3> QED
      BY <3>1, <3>2
  <2>3. ASSUME NEW k \in Nat, k > Taken(c)
        PROVE  /\ Asking(c, k) = requests[c][k - Taken(c)]
               /\ Asking(c, k)' = requests'[c][k - Taken(c)]
    <3>1. ~ (k <= Taken(c)) /\ ~ (k <= Len(executed[c])) /\ ~ (k <= Len(executed'[c]))
      BY <2>0, <2>3, AskedSizes
    <3> QED
      BY <2>0, <2>1, <3>1 DEF Asking
  <2>4. requests[c] \in Seq(Messages) /\ Len(requests[c]) \in Nat /\ Taken(c) \in Nat
    BY AskedSizes DEF WordsOK
  <2>5. CASE requests'[c] = requests[c]
    <3>1. Asked(c)' = Asked(c) /\ Asked(c) \in Nat
      BY <2>1, <2>5, AskedSizes DEF Asked
    <3>2. ASSUME NEW k \in 1 .. Asked(c) PROVE Asking(c, k)' = Asking(c, k)
      BY <2>2, <2>3, <2>4, <2>5, <3>1
    <3> QED
      BY <2>1, <3>1, <3>2 DEF Continued
  <2>6. CASE /\ requests'[c] = <<>>
             /\ \/ CloseReqWriter(c) /\ reqReaders[c] + reqWriters[c] = 1
                \/ Sigint(c) /\ Killed(c) /\ reqReaders[c] = 0
                \/ \E w \in Workers : client[w] = c /\ CloseRequestFd(w)
    <3>1. Asked(c)' = Taken(c) + 0
      BY <2>1, <2>6 DEF Asked
    <3> QED
      BY <2>1, <2>2, <2>4, <2>6, <3>1 DEF Lost
  <2>7. CASE WriteReq(c) /\ reqReaders[c] > 0 /\ requests'[c] = Append(requests[c], [n |-> made[c], op |-> op[c]])
    <3> DEFINE m == [n |-> made[c], op |-> op[c]]
    <3> HIDE DEF m
    <3>1. /\ Len(requests'[c]) = Len(requests[c]) + 1 /\ requests'[c][Len(requests[c]) + 1] = m
          /\ \A k \in 1 .. Len(requests[c]) : requests'[c][k] = requests[c][k]
      BY <2>4, <2>7, AppendProperties DEF m
    <3>2. PICK r \in Nat, t \in Nat : r = Len(requests[c]) /\ t = Taken(c)
      BY <2>4
    <3>3. Asked(c) = t + r /\ Asked(c)' = t + (r + 1)
      BY <2>1, <3>1, <3>2 DEF Asked
    <3>4. Asking(c, Asked(c))' = m
      <4> DEFINE k == t + (r + 1)
      <4>1. k \in Nat /\ k > Taken(c) /\ k - Taken(c) = r + 1
        BY <3>2
      <4>2. Asking(c, k)' = requests'[c][k - Taken(c)]
        BY <2>3, <4>1
      <4> QED
        BY <3>1, <3>2, <3>3, <4>1, <4>2
    <3>5. ASSUME NEW k \in 1 .. Asked(c) PROVE Asking(c, k)' = Asking(c, k)
      <4>1. CASE k <= Taken(c)
        BY <2>2, <3>2, <4>1
      <4>2. CASE k > Taken(c)
        <5>1. k \in Nat /\ k - Taken(c) \in 1 .. Len(requests[c])
          BY <3>2, <3>3, <4>2
        <5> QED
          BY <2>3, <3>1, <4>2, <5>1
      <4> QED
        BY <3>2, <3>3, <4>1, <4>2
    <3> QED
      BY <2>1, <2>7, <3>3, <3>4, <3>5 DEF Added, m
  <2>8. WriteReq(c) => reqReaders[c] > 0 \/ requests'[c] = requests[c]
    BY DEF WriteReq, WordsOK
  <2> QED
    BY <1>2, <2>5, <2>6, <2>7, <2>8, RequestsChange DEF RequestsStep
<1> QED
  BY <1>1, <1>2

IsCall(c, n, o) == c \in DOMAIN scenario.file => o = CallsOf(scenario.file[c])[n]

(* A request is a call of the client's file, with its operation; requests  *)
(* come in the order of the calls, and a SIGINT may be the cause that one  *)
(* is missing between them.                                                *)
GoodRequest(c, k) ==
  /\ Asking(c, k).op \in Ops
  /\ Asking(c, k).n \in k .. Written(c)
  /\ Asking(c, k).n <= k + sigints[c]
  /\ IsCall(c, Asking(c, k).n, Asking(c, k).op)
  /\ \A j \in 1 .. k - 1 : Asking(c, j).n < Asking(c, k).n

LastQuit(c, k) ==
  Asking(c, k).op = "QUIT" /\ k = Asked(c) /\ k > Taken(c) /\ Quitting(c)

AskedInv == \A c \in Clients : \A k \in 1 .. Asked(c) : GoodRequest(c, k) \/ LastQuit(c, k)

(* While the session lasts, only a SIGINT keeps a call from the FIFO.      *)
FewLost ==
  \A c \in Clients :
    op[c] # "QUIT" /\ Connected(c) => Written(c) <= Asked(c) + sigints[c]

UnwrittenInv == \A c \in Clients : Unwritten(c) => made[c] > 0 /\ IsCall(c, made[c], op[c])

LEMMA WrittenGrows ==
  ASSUME AtOK, ControlOK, WordsOK, [Next]_vars, NEW c \in Clients
  PROVE  /\ Written(c) \in Int /\ Written(c)' \in Int /\ made[c] \in Nat /\ sigints[c] \in Nat
         /\ sigints'[c] \in Nat
         /\ Written(c) <= Written(c)' /\ sigints[c] <= sigints'[c]
         /\ Written(c)' <= Written(c) + 1
         /\ Written(c)' = Written(c) \/ WriteReq(c) \/ sigints'[c] = sigints[c] + 1
<1>1. made[c] \in Nat /\ made'[c] \in Nat
  BY ControlInv DEF ControlOK
<1>2. sigints[c] \in Nat /\ sigints'[c] \in Nat
  <2>1. sigints \in [Clients -> 0 .. 2] /\ sigints' \in [Clients -> 0 .. 2]
    BY ControlInv DEF ControlOK
  <2>2. sigints[c] \in 0 .. 2 /\ sigints'[c] \in 0 .. 2
    BY <2>1
  <2> QED
    BY <2>2
<1>3. CASE Unwritten(c)
  BY <1>1, <1>2, <1>3, CallSteps DEF CallStep, Written, One
<1>4. CASE ~ Unwritten(c)
  BY <1>1, <1>2, <1>4, CallSteps DEF CallStep, Written, One
<1> QED
  BY <1>3, <1>4

LEMMA GoodStays ==
  ASSUME AtOK, ControlOK, WordsOK, [Next]_vars, NEW c \in Clients, NEW k \in Nat \ {0},
         GoodRequest(c, k),
         \A j \in 1 .. k : Asking(c, j)' = Asking(c, j)
  PROVE  GoodRequest(c, k)' 
<1>1. Asking(c, k)' = Asking(c, k) /\ \A j \in 1 .. k - 1 : Asking(c, j)' = Asking(c, j)
  OBVIOUS
<1>2. scenario' = scenario
  BY Frame DEF Changes
<1>3. ASSUME NEW n \in Int, n \in k .. Written(c) PROVE n \in k .. Written(c)'
  BY <1>3, WrittenGrows
<1>4. ASSUME NEW n \in Int, n <= k + sigints[c] PROVE n <= k + sigints'[c]
  BY <1>4, WrittenGrows
<1>5. Asking(c, k).n \in Int
  BY WrittenGrows DEF GoodRequest
<1> QED
  BY <1>1, <1>2, <1>3, <1>4, <1>5 DEF GoodRequest, IsCall

LEMMA UnwrittenInvStep ==
  ASSUME AtOK, ControlOK, WordsOK, LineOK, LineInv, CallsMade, UnwrittenInv, [Next]_vars
  PROVE  UnwrittenInv'
<1> SUFFICES ASSUME NEW c \in Clients, Unwritten(c)'
             PROVE  made'[c] > 0 /\ IsCall(c, made[c], op[c])'
  BY DEF UnwrittenInv
<1>0. scenario' = scenario
  BY Frame DEF Changes
<1>1. CASE Unwritten(c) /\ op'[c] = op[c] /\ made'[c] = made[c]
  BY <1>0, <1>1 DEF UnwrittenInv, IsCall
<1>2. CASE Call(c) /\ made'[c] = made[c] + 1
  <2>1. made'[c] > 0
    BY <1>2, WrittenGrows
  <2>2. ASSUME c \in DOMAIN scenario.file PROVE op'[c] = CallsOf(scenario.file[c])[made'[c]]
    <3> DEFINE f == scenario.file[c]
               k == line[c]
    <3>1. f \in Seq(Lines) /\ k \in 1 .. Len(f) /\ f[k] \in Ops /\ op'[c] = f[k]
      <4>1. f \in Seq(Lines) /\ Len(f) \in Nat /\ k \in Nat \ {0}
        BY <2>2, Constants, LenProperties DEF ControlOK, LineOK
      <4> QED
        BY <1>2, <4>1 DEF Call, HasLine, ControlOK
    <3>2. PICK j \in 1 .. k : Run(f, j, k) /\ (k - j) % 2 = 0
      BY <2>2, <3>1 DEF LineInv
    <3>3. made[c] = Cardinality({i \in CallLines(f) : i < k})
      BY <2>2 DEF CallsMade
    <3> HIDE DEF f, k
    <3>4. k \in CallLines(f)
      BY <3>1, <3>2, LineStep DEF CallLines
    <3>5. CallsOf(f)[made[c] + 1] = f[k]
      BY <3>1, <3>3, <3>4, CallOfLine
    <3> QED
      BY <1>2, <3>1, <3>5 DEF f
  <2> QED
    BY <1>0, <2>1, <2>2 DEF IsCall
<1> QED
  BY <1>1, <1>2, CallSteps DEF CallStep

LEMMA AskedInvStep ==
  ASSUME AtOK, ControlOK, PcOK, WordsOK, EndsInt, Served, OneWorkerEach, Requested, QuitInv,
         AskedInv, FewLost, UnwrittenInv, WordsOK', OneWorkerEach', [Next]_vars
  PROVE  AskedInv'
<1> SUFFICES ASSUME NEW c \in Clients, NEW k \in 1 .. Asked(c)'
             PROVE  GoodRequest(c, k)' \/ LastQuit(c, k)'
  BY DEF AskedInv
<1>0. Asked(c) \in Nat /\ Taken(c) \in Nat /\ Taken(c) <= Asked(c)
  BY AskedSizes
<1>1. ASSUME NEW n \in 0 .. Asked(c), k \in 1 .. n, GoodRequest(c, k),
             \A j \in 1 .. n : Asking(c, j)' = Asking(c, j)
      PROVE  GoodRequest(c, k)'
  <2>1. k \in Nat \ {0} /\ \A j \in 1 .. k : Asking(c, j)' = Asking(c, j)
    BY <1>0, <1>1
  <2> QED
    BY <1>1, <2>1, GoodStays
<1>2. ASSUME Asked(c)' = Taken(c), \A j \in 1 .. Taken(c) : Asking(c, j)' = Asking(c, j)
      PROVE  GoodRequest(c, k)'
  <2>1. k \in 1 .. Taken(c) /\ k \in 1 .. Asked(c) /\ ~ (k > Taken(c))
    BY <1>0, <1>2
  <2>2. GoodRequest(c, k)
    BY <2>1 DEF AskedInv, LastQuit
  <2> QED
    BY <1>0, <1>1, <1>2, <2>1, <2>2
<1>3. CASE Continued(c)
  <2>1. k \in 1 .. Asked(c) /\ Asking(c, k)' = Asking(c, k)
    BY <1>3 DEF Continued
  <2>2. CASE GoodRequest(c, k)
    BY <1>0, <1>1, <1>3, <2>1, <2>2 DEF Continued
  <2>3. CASE LastQuit(c, k)
    <3>1. Quitting(c)' /\ k = Asked(c)' /\ Asking(c, k).op = "QUIT" /\ k > Taken(c)
      BY <1>3, <2>3, QuitStep DEF LastQuit, Continued
    <3>2. k > Taken(c)'
      <4>1. CASE Taken(c)' = Taken(c)
        BY <3>1, <4>1
      <4>2. CASE Taken(c)' = Taken(c) + 1 /\ Asking(c, Taken(c) + 1).op # "QUIT"
        <5>1. k # Taken(c) + 1
          BY <3>1, <4>2
        <5> QED
          BY <1>0, <2>1, <3>1, <4>2, <5>1
      <4> QED
        BY <1>3, <4>1, <4>2 DEF Continued
    <3> QED
      BY <2>1, <3>1, <3>2 DEF LastQuit
  <2> QED
    BY <2>1, <2>2, <2>3 DEF AskedInv
<1>4. CASE Lost(c)
  BY <1>2, <1>4 DEF Lost
<1>5. CASE TookQuit(c)
  <2>1. Taken(c) + 1 \in 1 .. Asked(c) /\ Asking(c, Taken(c) + 1).op = "QUIT"
    BY <1>0, <1>5 DEF TookQuit
  <2>2. Taken(c) + 1 = Asked(c)
    BY <2>1 DEF AskedInv, GoodRequest, LastQuit, Ops
  <2> QED
    BY <1>0, <1>2, <1>5, <2>2 DEF TookQuit
<1>6. CASE Added(c)
  <2>0. /\ at[c] = "write_req" /\ at'[c] = "close_req" /\ op'[c] = op[c] /\ made'[c] = made[c]
        /\ sigints'[c] = sigints[c] /\ scenario' = scenario /\ reqReaders[c] > 0
    BY <1>6 DEF Added, WriteReq, ClientTo, AtOK, input
  <2>1. ASSUME NEW j \in 1 .. Asked(c) PROVE GoodRequest(c, j)
    BY <2>0 DEF AskedInv, LastQuit, Quitting
  <2>2. CASE k \in 1 .. Asked(c)
    BY <1>0, <1>1, <1>6, <2>1, <2>2 DEF Added
  <2>3. CASE k = Asked(c) + 1
    <3> DEFINE m == [n |-> made[c], op |-> op[c]]
    <3>0. Asked(c)' = k /\ Asking(c, k)' = m /\ m.n = made[c] /\ m.op = op[c]
      BY <1>6, <2>3 DEF Added
    <3> HIDE DEF m
    <3>1. CASE op[c] = "QUIT"
      <4>1. Quitting(c)'
        BY <2>0, <3>1 DEF Quitting
      <4>2. k > Taken(c)'
        BY <1>0, <1>6, <2>3 DEF Added
      <4> QED
        BY <3>0, <3>1, <4>1, <4>2 DEF LastQuit
    <3>2. CASE op[c] # "QUIT"
      <4>1. op[c] \in Ops /\ Unwritten(c) /\ ~ Unwritten(c)'
        BY <2>0, <3>2 DEF Requested, ControlOK, AllOps, Unwritten
      <4>2. made[c] \in Nat /\ Written(c) = made[c] - 1 /\ Written(c)' = made[c] /\ sigints[c] \in Nat
        BY <2>0, <4>1, WrittenGrows DEF Written, One
      <4>3. made[c] <= k + sigints[c]
        BY <1>0, <2>0, <2>3, <3>2, <4>2 DEF FewLost, Connected
      <4>4. ASSUME NEW j \in 1 .. Asked(c) PROVE Asking(c, j)'.n \in j .. made[c] - 1
        BY <1>6, <2>1, <4>2 DEF Added, GoodRequest
      <4>5. made[c] > 0 /\ IsCall(c, made[c], op[c])
        BY <4>1 DEF UnwrittenInv
      <4>6. made[c] >= k
        <5>1. CASE Asked(c) = 0
          BY <2>3, <4>2, <4>5, <5>1
        <5>2. CASE Asked(c) # 0
          <6>1. Asked(c) \in 1 .. Asked(c)
            BY <1>0, <5>2
          <6>2. \A j \in 1 .. Asked(c) : j <= made[c] - 1
            BY <4>2, <4>4
          <6> QED
            BY <1>0, <2>3, <4>2, <6>1, <6>2
        <5> QED
          BY <5>1, <5>2
      <4>7. ASSUME NEW j \in 1 .. k - 1 PROVE Asking(c, j)'.n < made[c]
        <5>1. j \in 1 .. Asked(c)
          BY <1>0, <2>3
        <5> QED
          BY <4>2, <4>4, <5>1
      <4>8. k \in Nat /\ made[c] \in k .. Written(c)'
        BY <1>0, <2>3, <4>2, <4>6
      <4> QED
        BY <2>0, <3>0, <4>1, <4>3, <4>5, <4>7, <4>8 DEF GoodRequest, IsCall
    <3> QED
      BY <3>1, <3>2
  <2>4. Asked(c)' = Asked(c) + 1
    BY <1>6 DEF Added
  <2> QED
    BY <1>0, <2>2, <2>3, <2>4
<1> QED
  BY <1>3, <1>4, <1>5, <1>6, AskedSteps

(* A request that is written to a reader is asked.                         *)
LEMMA WriteAdds ==
  ASSUME WordsOK, WordsOK', NEW c \in Clients, WriteReq(c), reqReaders[c] > 0,
         Taken(c)' \in {Taken(c), Taken(c) + 1}
  PROVE  Asked(c)' > Asked(c)
<1> DEFINE m == [n |-> made[c], op |-> op[c]]
<1>1. requests'[c] = Append(requests[c], m)
  BY DEF WriteReq, WordsOK
<1>2. requests[c] \in Seq(Messages) /\ Len(requests[c]) \in Nat
  BY AskedSizes DEF WordsOK
<1> HIDE DEF m
<1>3. Len(requests'[c]) = Len(requests[c]) + 1
  BY <1>1, <1>2, AppendProperties
<1>4. PICK r \in Nat, t \in Nat : r = Len(requests[c]) /\ t = Taken(c)
  BY <1>2, AskedSizes
<1>5. Asked(c) = t + r /\ Asked(c)' = Taken(c)' + (r + 1)
  BY <1>3, <1>4 DEF Asked
<1> QED
  BY <1>4, <1>5

LEMMA FewLostStep ==
  ASSUME AtOK, ControlOK, PcOK, WordsOK, EndsInt, Served, NotBegun, OneWorkerEach, Requested,
         ServerEnds, ClientEnds, FreshInv, QuitInv, AskedInv, FewLost,
         WordsOK', OneWorkerEach', [Next]_vars
  PROVE  FewLost'
<1> SUFFICES ASSUME NEW c \in Clients, op'[c] # "QUIT", Connected(c)'
             PROVE  Written(c)' <= Asked(c)' + sigints'[c]
  BY DEF FewLost
<1>0. /\ Asked(c) \in Nat /\ Taken(c) \in Nat /\ Taken(c) <= Asked(c)
      /\ Written(c) \in Int /\ Written(c)' \in Int /\ sigints[c] \in Nat /\ sigints'[c] \in Nat
  BY AskedSizes, WrittenGrows
<1>1. op[c] # "QUIT" /\ Connected(c)
  BY QuitStep, ConnectedStep
<1>2. Written(c) <= Asked(c) + sigints[c]
  BY <1>1 DEF FewLost
<1>3. reqReaders[c] = 0 => /\ Fresh(c) /\ at[c] \notin {"write_req", "close_req"}
                           /\ requests[c] = <<>>
  BY <1>1 DEF Connected, FreshInv
<1>4. CASE Asked(c)' = Asked(c) /\ ~ WriteReq(c)
  BY <1>0, <1>2, <1>4, WrittenGrows
<1>5. ASSUME WriteReq(c) PROVE reqReaders[c] > 0
  <2>1. reqReaders[c] # 0
    BY <1>3, <1>5 DEF WriteReq, ClientTo
  <2> QED
    BY <1>1, <2>1, FreshEnds DEF Connected
<1>6. CASE Continued(c)
  <2>1. ~ WriteReq(c)
    BY <1>0, <1>5, <1>6, WriteAdds DEF Continued
  <2> QED
    BY <1>0, <1>4, <1>6, <2>1 DEF Continued
<1>7. CASE Added(c)
  BY <1>0, <1>2, <1>7, WrittenGrows DEF Added
<1>8. CASE TookQuit(c)
  <2>1. Taken(c) + 1 \in 1 .. Asked(c) /\ Asking(c, Taken(c) + 1).op = "QUIT"
    BY <1>0, <1>8 DEF TookQuit
  <2>2. Quitting(c)
    BY <2>1 DEF AskedInv, GoodRequest, LastQuit, Ops
  <2> QED
    BY <1>1, <2>2 DEF Quitting
<1>9. CASE Lost(c)
  <2>1. ~ WriteReq(c)
    BY <1>0, <1>5, <1>9, WriteAdds DEF Lost
  <2>2. CASE reqReaders[c] = 0
    <3>1. Asked(c) = Taken(c) + 0
      BY <1>3, <2>2 DEF Asked
    <3> QED
      BY <1>0, <1>4, <1>9, <2>1, <3>1 DEF Lost
  <2>3. CASE CloseReqWriter(c) /\ reqReaders[c] + reqWriters[c] = 1
    <3>1. reqWriters[c] = 1
      BY <2>3 DEF CloseReqWriter, ClientTo, ClientEnds, HoldsReq, One
    <3> QED
      BY <2>2, <2>3, <3>1 DEF EndsInt
  <2>4. ASSUME NEW w \in Workers, client[w] = c, CloseRequestFd(w) PROVE FALSE
    <3>1. pc[w] = "close_fd" /\ reqReaders'[c] = reqReaders[c] - 1
      BY <2>4 DEF CloseRequestFd, WorkerTo, Add, EndsInt
    <3>2. reqReaders[c] = 1
      BY <2>4, <3>1, NoClientAssumption DEF ServerEnds, HoldsFd, HoldsTmp, One
    <3>3. ~ Fresh(c)'
      BY <3>2, FreshStep, FreshEnds
    <3> QED
      BY <3>1, <3>2, <3>3 DEF Connected
  <2> QED
    BY <1>9, <2>2, <2>3, <2>4 DEF Lost
<1> QED
  BY <1>6, <1>7, <1>8, <1>9, AskedSteps

------------------------------------------------------------------------------
RequestsInv ==
  /\ LineOK /\ LineInv /\ CallsMade /\ FreshInv /\ QuitInv /\ UnwrittenInv /\ AskedInv /\ FewLost

LEMMA InitRequests == Init => RequestsInv
<1> SUFFICES ASSUME Init PROVE RequestsInv
  OBVIOUS
<1>1. LineOK /\ LineInv
  <2>1. ASSUME NEW f PROVE Run(f, 1, 1) /\ (1 - 1) % 2 = 0 /\ 1 \in 1 .. 1
    BY DEF Run
  <2>2. \A c \in DOMAIN scenario.file : c \in Clients
    BY Constants DEF Init
  <2> QED
    BY <2>1, <2>2 DEF Init, LineOK, LineInv
<1>2. CallsMade
  <2>1. ASSUME NEW c \in DOMAIN scenario.file
        PROVE  made[c] = Cardinality({k \in CallLines(scenario.file[c]) : k < line[c]})
    <3>1. c \in Clients
      BY Constants DEF Init
    <3>2. {k \in CallLines(scenario.file[c]) : k < line[c]} = {}
      BY <3>1 DEF Init, CallLines
    <3> QED
      BY <3>1, <3>2, FS_EmptySet DEF Init
  <2> QED
    BY <2>1 DEF CallsMade
<1>3. FreshInv /\ QuitInv /\ UnwrittenInv
  BY DEF Init, FreshInv, QuitInv, UnwrittenInv, Unwritten, Ops
<1>4. ASSUME NEW c \in Clients PROVE Asked(c) = 0 /\ Written(c) = 0 /\ sigints[c] = 0
  <2>1. Len(executed[c]) = 0 /\ Len(requests[c]) = 0 /\ sigints[c] = 0
    BY DEF Init
  <2>2. ~ Executing(c)
    BY NoClientAssumption DEF Init, Executing, Executes
  <2>3. Asked(c) = 0
    BY <2>1, <2>2 DEF Asked, Taken, One
  <2>4. Written(c) = 0
    BY DEF Init, Written, Unwritten, One, Ops
  <2> QED
    BY <2>1, <2>3, <2>4
<1>5. AskedInv /\ FewLost
  BY <1>4 DEF AskedInv, FewLost
<1> QED
  BY <1>1, <1>2, <1>3, <1>5 DEF RequestsInv

LEMMA StepRequests == Inv /\ RequestsInv /\ [Next]_vars => RequestsInv'
<1> SUFFICES ASSUME Inv, RequestsInv, [Next]_vars PROVE RequestsInv'
  OBVIOUS
<1> USE DEF Inv, RequestsInv
<1>1. WordsOK' /\ OneWorkerEach'
  BY StepInv
<1>2. LineOK' /\ LineInv' /\ CallsMade'
  BY LineOKInv, CallsMadeInv
<1>3. FreshInv'
  BY FreshInvStep
<1>4. QuitInv'
  BY QuitStep DEF QuitInv
<1>5. UnwrittenInv' /\ AskedInv'
  BY <1>1, UnwrittenInvStep, AskedInvStep
<1>6. FewLost'
  BY <1>1, FewLostStep
<1> QED
  BY <1>2, <1>3, <1>4, <1>5, <1>6

LEMMA RequestsCorrect == Spec => []RequestsInv
BY InitInv, StepInv, InitRequests, StepRequests, PTL DEF Spec

(* What a worker executes for a client are the calls of its file, each     *)
(* with its operation and in their order, none twice; for each SIGINT at   *)
(* most one that was made is missing.                                      *)
THEOREM ExecutedCorrect == Spec => []ExecutedInOrder
<1>1. Inv /\ RequestsInv => ExecutedInOrder
  <2> SUFFICES ASSUME Inv, RequestsInv, NEW c \in DOMAIN scenario.file,
                      NEW k \in 1 .. Len(executed[c])
               PROVE  LET n == executed[c][k].n
                      IN  /\ n \in k .. made[c]
                          /\ n <= k + sigints[c]
                          /\ executed[c][k].op = CallsOf(scenario.file[c])[n]
                          /\ \A j \in 1 .. k - 1 : executed[c][j].n < n
    BY DEF ExecutedInOrder
  <2>1. c \in Clients
    BY Constants DEF Inv, ControlOK
  <2>2. Len(executed[c]) \in Nat /\ k \in 1 .. Asked(c) /\ k <= Taken(c)
    BY <2>1, AskedSizes DEF Inv
  <2>3. GoodRequest(c, k)
    BY <2>1, <2>2, AskedSizes DEF Inv, RequestsInv, AskedInv, LastQuit
  <2>4. \A j \in 1 .. k : Asking(c, j) = executed[c][j]
    BY <2>2 DEF Asking
  <2>5. Written(c) <= made[c] /\ made[c] \in Nat /\ Written(c) \in Int
    BY <2>1 DEF Written, One, Inv, ControlOK
  <2>6. executed[c][k].n \in k .. made[c]
    BY <2>2, <2>3, <2>4, <2>5 DEF GoodRequest
  <2> QED
    BY <2>2, <2>3, <2>4, <2>6 DEF GoodRequest, IsCall
<1> QED
  BY <1>1, InvCorrect, RequestsCorrect, PTL

------------------------------------------------------------------------------
\* The answers of a client

(* A number is that of no call, or of one that was executed.               *)
Known(c, n) == n = 0 \/ \E j \in 1 .. Len(executed[c]) : executed[c][j].n = n

Before(m, n) == n = 0 \/ m <= n

(* An answer that is still to be read comes after those that were.         *)
Later(c, n) == /\ Known(c, n)
               /\ Before(got[c].n, n)
               /\ \A j \in 1 .. Len(returned[c]) : Before(returned[c][j].n, n)

Sending(w) == pc[w] \in {"open_resp", "opening_resp", "write_resp"}

GotInv(c) == Known(c, got[c].n)

ReturnedInv(c) ==
  \A k \in 1 .. Len(returned[c]) :
    /\ Known(c, returned[c][k].n) /\ returned[c][k].n <= k
    /\ Before(returned[c][k].n, got[c].n)
    /\ \A j \in 1 .. k - 1 : Before(returned[c][j].n, returned[c][k].n)

ResponsesInv(c) ==
  \A k \in 1 .. Len(responses[c]) :
    /\ Later(c, responses[c][k].n)
    /\ \A j \in 1 .. k - 1 : Before(responses[c][j].n, responses[c][k].n)

SendsLater(w, c) ==
  /\ Later(c, request[w].n)
  /\ \A k \in 1 .. Len(answer[w]) : answer[w][k].n = request[w].n
  /\ \A j \in 1 .. Len(responses[c]) : Before(responses[c][j].n, request[w].n)

SendingInv(c) == \A w \in Workers : client[w] = c /\ Sending(w) => SendsLater(w, c)

(* Every call of a client has returned but the one it is in.               *)
Calling(c) == InCall(c) /\ op[c] \in Ops

ReturnedCount(c) ==
  /\ at[c] = "start" => op[c] \notin Ops
  /\ at[c] # "gone" => Len(returned[c]) = IF Calling(c) THEN made[c] - 1 ELSE made[c]

AnswersInv ==
  \A c \in Clients : /\ GotInv(c) /\ ReturnedInv(c) /\ ResponsesInv(c) /\ SendingInv(c)
                     /\ ReturnedCount(c)

(* What a step does to the responses and to the worker that sends one.     *)
Shorter(c) ==
  \/ responses'[c] = responses[c]
  \/ responses'[c] = <<>>
  \/ responses[c] # <<>> /\ responses'[c] = Tail(responses[c])

LEMMA ResponsesStep ==
  ASSUME ControlOK, PcOK, Served, WordsOK, [Next]_vars, NEW c \in Clients
  PROVE  Shorter(c) \/ \E w \in Workers : client[w] = c /\ WriteAnswer(w)
<1> USE DEF WordsOK, Shorter
<1>1. ASSUME NEW d \in Clients, ReadResult(d) \/ ReadBody(d) PROVE Shorter(c)
  BY <1>1 DEF ReadResult, ReadBody, HasWord
<1>2. ASSUME NEW d \in Clients, CloseRespReader(d) \/ Exit(d) PROVE Shorter(c)
  BY <1>2 DEF CloseRespReader, Exit, Kept
<1>3. ASSUME NEW d \in Clients, Sigint(d) PROVE Shorter(c)
  BY <1>3 DEF Sigint, Interrupted, Killed, Kept
<1>4. ASSUME NEW w \in Workers, WriteAnswer(w), client[w] # c PROVE Shorter(c)
  BY <1>4 DEF WriteAnswer
<1>5. ASSUME NEW w \in Workers, CloseAnswer(w) PROVE Shorter(c)
  BY <1>5 DEF CloseAnswer, Kept
<1>6. CASE UNCHANGED responses
  BY <1>6
<1> QED
  BY <1>1, <1>2, <1>3, <1>4, <1>5, <1>6, Frame DEF Messaging

LEMMA SendingStep ==
  ASSUME ControlOK, PcOK, WordsOK, [Next]_vars, NEW w \in Workers, Sending(w)', ~ Execute(w)
  PROVE  \/ client'[w] = client[w] /\ Sending(w) /\ request'[w] = request[w] /\ answer'[w] = answer[w]
         \/ request'[w].n = 0 /\ answer'[w] = << [n |-> 0, res |-> 0] >>
<1> USE DEF Sending, PcOK
<1>1. CASE Dequeue(w)
  BY <1>1 DEF Dequeue, WordsOK
<1>2. CASE OpenAnswer(w) \/ WriteAnswer(w) \/ CloseAnswer(w)
  BY <1>2 DEF OpenAnswer, WriteAnswer, CloseAnswer, WorkerTo, GoOn, AfterResp
<1>3. CASE OpenRequestFd(w) \/ OpenTmpPipe(w) \/ CloseTmpPipe(w)
  BY <1>3 DEF OpenRequestFd, OpenTmpPipe, OpenFd, CloseTmpPipe, WorkerTo, GoOn
<1>4. CASE ReadOp(w) \/ CloseRequestFd(w) \/ Free(w)
  BY <1>4 DEF ReadOp, CloseRequestFd, Free, WorkerTo, GoOn
<1>5. CASE /\ SameWorker(w)
           /\ pc'[w] = pc[w] \/ pc'[w] \in {"read_op", "close_tmp"}
              \/ (pc[w] = "opening_resp" /\ pc'[w] = "write_resp")
  BY <1>5 DEF SameWorker
<1> QED
  BY <1>1, <1>2, <1>3, <1>4, <1>5, WorkerSteps DEF WorkerStep, WorkerRuns

(* The numbers.                                                            *)
LEMMA Numbers ==
  ASSUME WordsOK, NEW c \in Clients
  PROVE  /\ got[c].n \in Nat
         /\ Len(returned[c]) \in Nat /\ Len(responses[c]) \in Nat /\ Len(executed[c]) \in Nat
         /\ \A k \in 1 .. Len(returned[c]) : returned[c][k].n \in Nat
         /\ \A k \in 1 .. Len(responses[c]) : responses[c][k].n \in Nat
         /\ \A k \in 1 .. Len(executed[c]) : executed[c][k].n \in Nat
<1>1. /\ got[c] \in Results /\ returned[c] \in Seq(Results) /\ responses[c] \in Seq(Results)
      /\ executed[c] \in Seq(Messages)
  BY DEF WordsOK
<1>2. \A k \in 1 .. Len(returned[c]) : returned[c][k] \in Results
  BY <1>1, ElementOfSeq
<1>3. \A k \in 1 .. Len(responses[c]) : responses[c][k] \in Results
  BY <1>1, ElementOfSeq
<1>4. \A k \in 1 .. Len(executed[c]) : executed[c][k] \in Messages
  BY <1>1, ElementOfSeq
<1> QED
  BY <1>1, <1>2, <1>3, <1>4, ResultFields, MessageFields, LenProperties

LEMMA LaterStays ==
  ASSUME NEW c \in Clients, NEW n, Later(c, n), got'[c] = got[c], returned'[c] = returned[c],
         executed'[c] = executed[c]
  PROVE  Later(c, n)'
BY DEF Later, Known

(* What remains of the responses keeps its order.                          *)
LEMMA ShorterResponses ==
  ASSUME WordsOK, NEW c \in Clients, ResponsesInv(c), Shorter(c)
  PROVE  /\ \A k \in 1 .. Len(responses'[c]) : \E i \in 1 .. Len(responses[c]) : responses'[c][k] = responses[c][i]
         /\ \A k \in 1 .. Len(responses'[c]) : \A j \in 1 .. k - 1 : Before(responses'[c][j].n, responses'[c][k].n)
<1>1. responses[c] \in Seq(Results) /\ Len(responses[c]) \in Nat
  BY Numbers DEF WordsOK
<1>2. CASE responses'[c] = responses[c]
  BY <1>1, <1>2 DEF ResponsesInv
<1>3. CASE responses'[c] = <<>>
  BY <1>3
<1>4. CASE responses[c] # <<>> /\ responses'[c] = Tail(responses[c])
  <2>1. /\ Len(responses'[c]) = Len(responses[c]) - 1
        /\ \A k \in 1 .. Len(responses'[c]) : responses'[c][k] = responses[c][k + 1]
    BY <1>1, <1>4, HeadTailProperties
  <2>2. ASSUME NEW k \in 1 .. Len(responses'[c]), NEW j \in 1 .. k - 1
        PROVE  Before(responses'[c][j].n, responses'[c][k].n)
    <3>1. k + 1 \in 1 .. Len(responses[c]) /\ j + 1 \in 1 .. k + 1 - 1 /\ j \in 1 .. Len(responses'[c])
      BY <1>1, <2>1
    <3>2. Before(responses[c][j + 1].n, responses[c][k + 1].n)
      BY <3>1 DEF ResponsesInv
    <3> QED
      BY <2>1, <3>1, <3>2
  <2>3. ASSUME NEW k \in 1 .. Len(responses'[c])
        PROVE  \E i \in 1 .. Len(responses[c]) : responses'[c][k] = responses[c][i]
    <3>1. k + 1 \in 1 .. Len(responses[c])
      BY <1>1, <2>1
    <3> QED
      BY <2>1, <3>1
  <2> QED
    BY <2>2, <2>3
<1> QED
  BY <1>2, <1>3, <1>4 DEF Shorter

(* A step that executes no request of the client, and changes neither what *)
(* it got nor what it returned.                                            *)
LEMMA OtherAnswers ==
  ASSUME ControlOK, PcOK, WordsOK, [Next]_vars, NEW c \in Clients,
         GotInv(c), ReturnedInv(c), ResponsesInv(c), SendingInv(c),
         got'[c] = got[c], returned'[c] = returned[c], executed'[c] = executed[c], Shorter(c),
         \A w \in Workers : client'[w] = c => ~ Execute(w)
  PROVE  GotInv(c)' /\ ReturnedInv(c)' /\ ResponsesInv(c)' /\ SendingInv(c)'
<1>1. GotInv(c)' /\ ReturnedInv(c)'
  BY DEF GotInv, ReturnedInv, Known
<1>2. ResponsesInv(c)'
  BY ShorterResponses, LaterStays DEF ResponsesInv
<1>3. ASSUME NEW w \in Workers, client'[w] = c, Sending(w)' PROVE SendsLater(w, c)'
  <2>1. CASE client'[w] = client[w] /\ Sending(w) /\ request'[w] = request[w] /\ answer'[w] = answer[w]
    <3>1. SendsLater(w, c)
      BY <1>3, <2>1 DEF SendingInv
    <3>2. Later(c, request[w].n)'
      <4> DEFINE n == request[w].n
      <4>1. Later(c, n)
        BY <3>1 DEF SendsLater
      <4> HIDE DEF n
      <4>2. Later(c, request[w].n) /\ request'[w].n = request[w].n
        BY <4>1, <2>1 DEF n
      <4> QED
        BY <4>2 DEF Later, Known
    <3> QED
      BY <2>1, <3>1, <3>2, ShorterResponses DEF SendsLater
  <2>2. CASE request'[w].n = 0 /\ answer'[w] = << [n |-> 0, res |-> 0] >>
    BY <2>2 DEF SendsLater, Later, Known, Before
  <2> QED
    BY <1>3, <2>1, <2>2, SendingStep
<1> QED
  BY <1>1, <1>2, <1>3 DEF SendingInv

(* A call begins with no result.                                           *)
LEMMA CallAnswers ==
  ASSUME ControlOK, PcOK, WordsOK, NEW c \in Clients, Call(c),
         GotInv(c), ReturnedInv(c), ResponsesInv(c), SendingInv(c)
  PROVE  GotInv(c)' /\ ReturnedInv(c)' /\ ResponsesInv(c)' /\ SendingInv(c)'
<1>1. got'[c].n = 0 /\ returned' = returned
  BY DEF Call, WordsOK, NoResult
<1>2. UNCHANGED <<executed, responses, pc, client, request, answer>>
  BY DEF Call, servers, pipes
<1>3. ASSUME NEW n \in Nat, Later(c, n) PROVE Later(c, n)'
  BY <1>1, <1>2, <1>3 DEF Later, Known, Before
<1>4. GotInv(c)' /\ ReturnedInv(c)'
  BY <1>1, <1>2 DEF GotInv, ReturnedInv, Known, Before
<1>5. ResponsesInv(c)'
  BY <1>2, <1>3, Numbers DEF ResponsesInv
<1>6. ASSUME NEW w \in Workers, client'[w] = c, Sending(w)' PROVE SendsLater(w, c)'
  <2>1. SendsLater(w, c) /\ request[w].n \in Nat
    BY <1>2, <1>6, MessageFields DEF SendingInv, Sending, WordsOK
  <2>2. Later(c, request[w].n)'
    BY <1>1, <1>2, <2>1 DEF SendsLater, Later, Known, Before
  <2> QED
    BY <1>2, <2>1, <2>2 DEF SendsLater
<1> QED
  BY <1>4, <1>5, <1>6 DEF SendingInv

(* The client reads the first of the responses.                            *)
LEMMA ReadAnswers ==
  ASSUME ControlOK, PcOK, WordsOK, NEW c \in Clients, ReadResult(c), got'[c] # got[c],
         GotInv(c), ReturnedInv(c), ResponsesInv(c), SendingInv(c)
  PROVE  GotInv(c)' /\ ReturnedInv(c)' /\ ResponsesInv(c)' /\ SendingInv(c)'
<1>1. /\ responses[c] # <<>> /\ got'[c] = Head(responses[c]) /\ responses'[c] = Tail(responses[c])
      /\ UNCHANGED <<executed, returned, pc, client, request, answer>>
  BY DEF ReadResult, HasWord, WordsOK, servers
<1>2. /\ Len(responses[c]) \in Nat \ {0} /\ Len(responses'[c]) = Len(responses[c]) - 1
      /\ got'[c] = responses[c][1]
      /\ \A k \in 1 .. Len(responses'[c]) : responses'[c][k] = responses[c][k + 1]
  BY <1>1, HeadTailProperties, LenProperties DEF WordsOK
<1>3. got'[c].n \in Nat /\ 1 \in 1 .. Len(responses[c])
  BY <1>2, Numbers
<1>4. Later(c, got'[c].n)
  BY <1>2, <1>3 DEF ResponsesInv
<1>5. ASSUME NEW n, Later(c, n), Before(got'[c].n, n) PROVE Later(c, n)'
  BY <1>1, <1>5 DEF Later, Known
<1>6. GotInv(c)' /\ ReturnedInv(c)'
  BY <1>1, <1>4 DEF GotInv, ReturnedInv, Later, Known
<1>7. ResponsesInv(c)'
  <2>1. ASSUME NEW k \in 1 .. Len(responses'[c])
        PROVE  Later(c, responses'[c][k].n) /\ Before(got'[c].n, responses'[c][k].n)
    <3>1. k + 1 \in 1 .. Len(responses[c]) /\ 1 \in 1 .. k + 1 - 1
      BY <1>2
    <3> QED
      BY <1>2, <3>1 DEF ResponsesInv
  <2>2. \A k \in 1 .. Len(responses'[c]) : \A j \in 1 .. k - 1 :
           Before(responses'[c][j].n, responses'[c][k].n)
    BY <1>1, ShorterResponses DEF Shorter
  <2> QED
    BY <1>5, <2>1, <2>2 DEF ResponsesInv
<1>8. ASSUME NEW w \in Workers, client'[w] = c, Sending(w)' PROVE SendsLater(w, c)'
  <2>1. SendsLater(w, c)
    BY <1>1, <1>8 DEF SendingInv, Sending
  <2>2. Before(got'[c].n, request[w].n)
    BY <1>2, <1>3, <2>1 DEF SendsLater
  <2>3. Later(c, request[w].n)'
    BY <1>1, <2>1, <2>2 DEF SendsLater, Later, Known
  <2>4. \A j \in 1 .. Len(responses'[c]) : \E i \in 1 .. Len(responses[c]) : responses'[c][j] = responses[c][i]
    BY <1>1, ShorterResponses DEF Shorter
  <2> QED
    BY <1>1, <2>1, <2>3, <2>4 DEF SendsLater
<1> QED
  BY <1>6, <1>7, <1>8 DEF SendingInv

(* A call returns with what it got, or with no result.                     *)
LEMMA ReturnAnswers ==
  ASSUME ControlOK, PcOK, WordsOK, NEW c \in Clients, Return(c),
         GotInv(c), ReturnedInv(c), ResponsesInv(c), SendingInv(c), ReturnedCount(c),
         \A j \in 1 .. Len(executed[c]) : executed[c][j].n <= made[c]
  PROVE  GotInv(c)' /\ ReturnedInv(c)' /\ ResponsesInv(c)' /\ SendingInv(c)'
<1>1. PICK r : returned'[c] = Append(returned[c], r) /\ r.n \in {0, got[c].n}
  <2> DEFINE r == IF at[c] = "fail" THEN NoResult
                  ELSE [n |-> got[c].n, res |-> IF HasBody(op[c]) THEN got[c].res ELSE 0]
  <2>1. returned'[c] = Append(returned[c], r)
    BY DEF Return, WordsOK
  <2>2. r.n \in {0, got[c].n}
    BY DEF NoResult
  <2> QED
    BY <2>1, <2>2
<1>2. UNCHANGED <<got, executed, responses, pc, client, request, answer>>
  BY DEF Return, servers, pipes
<1>3. /\ Len(returned[c]) \in Nat /\ Len(returned'[c]) = Len(returned[c]) + 1
      /\ returned'[c][Len(returned[c]) + 1] = r
      /\ \A k \in 1 .. Len(returned[c]) : returned'[c][k] = returned[c][k]
  BY <1>1, AppendProperties, Numbers DEF WordsOK
<1>4. got[c].n \in Nat /\ r.n \in Nat /\ made[c] \in Nat /\ Len(returned[c]) + 1 = made[c]
  BY <1>1, <1>3, Numbers, SMTT(20) DEF Return, ReturnedCount, Calling, InCall, ControlOK
<1>5. Known(c, r.n) /\ r.n <= made[c]
  <2>1. Known(c, r.n)
    BY <1>1 DEF GotInv, Known
  <2> QED
    BY <1>4, <2>1 DEF Known
<1>6. Before(r.n, got[c].n) /\ \A j \in 1 .. Len(returned[c]) : Before(returned[c][j].n, r.n)
  BY <1>1, <1>4 DEF Before, ReturnedInv
<1>7. ASSUME NEW n, Later(c, n) PROVE Before(r.n, n)
  <2>1. Before(got[c].n, n) /\ (n = 0 \/ n \in Nat)
    BY <1>7, Numbers DEF Later, Known
  <2> QED
    BY <1>1, <1>4, <2>1 DEF Before
<1>8. ASSUME NEW n, Later(c, n) PROVE Later(c, n)'
  <2>1. ASSUME NEW j \in 1 .. Len(returned'[c]) PROVE Before(returned'[c][j].n, n)
    <3>1. CASE j \in 1 .. Len(returned[c])
      BY <1>3, <1>8, <3>1 DEF Later
    <3>2. CASE j = Len(returned[c]) + 1
      BY <1>3, <1>7, <1>8, <3>2
    <3> QED
      BY <1>3, <3>1, <3>2
  <2> QED
    BY <1>2, <1>8, <2>1 DEF Later, Known
<1>9. ReturnedInv(c)'
  <2>1. ASSUME NEW k \in 1 .. Len(returned'[c])
        PROVE  /\ Known(c, returned'[c][k].n) /\ returned'[c][k].n <= k
               /\ Before(returned'[c][k].n, got[c].n)
               /\ \A j \in 1 .. k - 1 : Before(returned'[c][j].n, returned'[c][k].n)
    <3>1. CASE k \in 1 .. Len(returned[c])
      <4>1. \A j \in 1 .. k - 1 : j \in 1 .. Len(returned[c])
        BY <1>3, <3>1
      <4> QED
        BY <1>3, <3>1, <4>1 DEF ReturnedInv
    <3>2. CASE k = Len(returned[c]) + 1
      <4>1. \A j \in 1 .. k - 1 : j \in 1 .. Len(returned[c])
        BY <1>3, <3>2
      <4> QED
        BY <1>3, <1>4, <1>5, <1>6, <3>2, <4>1
    <3> QED
      BY <1>3, <3>1, <3>2
  <2> QED
    BY <1>2, <2>1 DEF ReturnedInv, Known
<1>10. GotInv(c)' /\ ResponsesInv(c)'
  BY <1>2, <1>8 DEF GotInv, Known, ResponsesInv
<1>11. ASSUME NEW w \in Workers, client'[w] = c, Sending(w)' PROVE SendsLater(w, c)'
  <2>1. SendsLater(w, c)
    BY <1>2, <1>11 DEF SendingInv, Sending
  <2>2. PICK n : n = request[w].n
    OBVIOUS
  <2>3. Later(c, n)' /\ request'[w].n = n
    BY <1>2, <1>8, <2>1, <2>2 DEF SendsLater
  <2>4. Later(c, request[w].n)'
    BY <2>3 DEF Later, Known
  <2> QED
    BY <1>2, <2>1, <2>4 DEF SendsLater
<1> QED
  BY <1>9, <1>10, <1>11 DEF SendingInv

LEMMA WordNumbers ==
  ASSUME NEW n, NEW o, NEW res
  PROVE  \A k \in 1 .. Len(Words(n, o, res)) : Words(n, o, res)[k].n = n
<1> DEFINE a == [n |-> n, res |-> res]
           b == [n |-> n, res |-> 0]
<1>1. a.n = n /\ b.n = n
  OBVIOUS
<1>2. Words(n, o, res) = <<a>> \o IF HasBody(o) THEN <<b>> ELSE <<>>
  BY DEF Words
<1> HIDE DEF a, b
<1>3. <<a>> \in Seq({a, b}) /\ (IF HasBody(o) THEN <<b>> ELSE <<>>) \in Seq({a, b})
  <2>1. <<a>> \in Seq({a, b}) /\ <<b>> \in Seq({a, b}) /\ <<>> \in Seq({a, b})
    OBVIOUS
  <2> QED
    BY <2>1
<1>4. Words(n, o, res) \in Seq({a, b})
  BY <1>2, <1>3, ConcatProperties
<1>5. \A k \in 1 .. Len(Words(n, o, res)) : Words(n, o, res)[k] \in {a, b}
  BY <1>4, ElementOfSeq
<1> QED
  BY <1>1, <1>5

(* The worker executes a later request than any that was answered.         *)
LEMMA ExecuteAnswers ==
  ASSUME ControlOK, PcOK, WordsOK, OneWorkerEach, NEW c \in Clients, NEW w \in Workers,
         client[w] = c, Execute(w), \A j \in 1 .. Len(executed[c]) : executed[c][j].n < request[w].n,
         GotInv(c), ReturnedInv(c), ResponsesInv(c), SendingInv(c)
  PROVE  GotInv(c)' /\ ReturnedInv(c)' /\ ResponsesInv(c)' /\ SendingInv(c)'
<1>1. UNCHANGED <<got, returned, responses, client, request>>
  BY DEF Execute, callers, pipes
<1>2. PICK m : m.n = request[w].n /\ executed'[c] = Append(executed[c], m)
  <2> DEFINE m == [n |-> request[w].n, op |-> request[w].op]
  <2>1. m.n = request[w].n /\ executed'[c] = Append(executed[c], m)
    BY DEF Execute, WordsOK
  <2> QED
    BY <2>1
<1>3. /\ Len(executed[c]) \in Nat /\ Len(executed'[c]) = Len(executed[c]) + 1
      /\ executed'[c][Len(executed[c]) + 1] = m
      /\ \A k \in 1 .. Len(executed[c]) : executed'[c][k] = executed[c][k]
  BY <1>2, AppendProperties, Numbers DEF WordsOK
<1>4. request[w].n \in Nat
  BY MessageFields DEF WordsOK
<1>5. ASSUME NEW n, Known(c, n) PROVE Known(c, n)'
  BY <1>3, <1>5 DEF Known
<1>6. ASSUME NEW n, Known(c, n) PROVE Before(n, request[w].n)
  BY <1>4, <1>6, Numbers DEF Known, Before
<1>7. Known(c, request[w].n)'
  <2>1. Len(executed[c]) + 1 \in 1 .. Len(executed'[c])
    BY <1>3
  <2> QED
    BY <1>1, <1>2, <1>3, <2>1 DEF Known
<1>8. ASSUME NEW n, Later(c, n) PROVE Later(c, n)'
  BY <1>1, <1>5, <1>8 DEF Later
<1>9. GotInv(c)' /\ ReturnedInv(c)' /\ ResponsesInv(c)'
  BY <1>1, <1>5, <1>8 DEF GotInv, ReturnedInv, ResponsesInv
<1>10. SendsLater(w, c)'
  <2>1. Later(c, request[w].n)'
    BY <1>1, <1>6, <1>7 DEF Later, GotInv, ReturnedInv
  <2>2. \A j \in 1 .. Len(responses[c]) : Before(responses[c][j].n, request[w].n)
    BY <1>6 DEF ResponsesInv, Later
  <2>3. \A k \in 1 .. Len(answer'[w]) : answer'[w][k].n = request[w].n
    <3>1. PICK res : answer'[w] = Words(request[w].n, request[w].op, res)
      BY DEF Execute, WordsOK
    <3> QED
      BY <3>1, WordNumbers
  <2> QED
    BY <1>1, <2>1, <2>2, <2>3 DEF SendsLater
<1>11. \A v \in Workers : client'[v] = c => v = w
  BY <1>1, NoClientAssumption DEF OneWorkerEach
<1> QED
  BY <1>9, <1>10, <1>11 DEF SendingInv

(* It writes a response behind those it wrote.                             *)
LEMMA WriteAnswers ==
  ASSUME ControlOK, PcOK, WordsOK, OneWorkerEach, NEW c \in Clients, NEW w \in Workers,
         client[w] = c, WriteAnswer(w),
         GotInv(c), ReturnedInv(c), ResponsesInv(c), SendingInv(c)
  PROVE  GotInv(c)' /\ ReturnedInv(c)' /\ ResponsesInv(c)' /\ SendingInv(c)'
<1>1. /\ UNCHANGED <<got, returned, executed, client, request, answer>>
      /\ pc[w] = "write_resp" /\ pc'[w] = "close_resp"
  BY DEF WriteAnswer, callers, WorkerTo, GoOn, PcOK
<1>2. responses'[c] = responses[c] \/ responses'[c] = responses[c] \o answer[w]
  BY DEF WriteAnswer, WordsOK
<1>3. SendsLater(w, c)
  BY <1>1 DEF SendingInv, Sending
<1>4. ASSUME NEW n, Later(c, n) PROVE Later(c, n)'
  BY <1>1, <1>4 DEF Later, Known
<1>5. SendingInv(c)'
  <2>1. \A v \in Workers : client'[v] = c => v = w
    BY <1>1, NoClientAssumption DEF OneWorkerEach
  <2> QED
    BY <1>1, <2>1 DEF SendingInv, Sending
<1>6. ResponsesInv(c)'
  <2>1. CASE responses'[c] = responses[c]
    BY <1>4, <2>1 DEF ResponsesInv
  <2>2. CASE responses'[c] = responses[c] \o answer[w]
    <3>1. PICK l \in Nat, a \in Nat : l = Len(responses[c]) /\ a = Len(answer[w])
      BY LenProperties DEF WordsOK
    <3>2. /\ Len(responses'[c]) = l + a
          /\ \A k \in 1 .. l : responses'[c][k] = responses[c][k]
          /\ \A k \in l + 1 .. l + a : responses'[c][k] = answer[w][k - l]
      BY <2>2, <3>1, ConcatProperties DEF WordsOK
    <3>3. ASSUME NEW k \in l + 1 .. l + a PROVE responses'[c][k].n = request[w].n
      <4>1. k - l \in 1 .. a
        OBVIOUS
      <4> QED
        BY <1>3, <3>1, <3>2, <4>1 DEF SendsLater
    <3>4. request[w].n \in Nat
      BY MessageFields DEF WordsOK
    <3>5. ASSUME NEW k \in 1 .. l + a
          PROVE  /\ Later(c, responses'[c][k].n)
                 /\ \A j \in 1 .. k - 1 : Before(responses'[c][j].n, responses'[c][k].n)
      <4>1. CASE k \in 1 .. l
        <5>1. \A j \in 1 .. k - 1 : j \in 1 .. l
          BY <3>1, <4>1
        <5> QED
          BY <3>1, <3>2, <4>1, <5>1 DEF ResponsesInv
      <4>2. CASE k \in l + 1 .. l + a
        <5>1. ASSUME NEW j \in 1 .. k - 1 PROVE Before(responses'[c][j].n, request[w].n)
          <6>1. CASE j \in 1 .. l
            BY <1>3, <3>1, <3>2, <6>1 DEF SendsLater
          <6>2. CASE j \in l + 1 .. l + a
            BY <3>3, <3>4, <6>2 DEF Before
          <6> QED
            BY <4>2, <6>1, <6>2
        <5> QED
          BY <1>3, <3>3, <4>2, <5>1 DEF SendsLater
      <4> QED
        BY <4>1, <4>2
    <3> QED
      BY <1>4, <3>2, <3>5 DEF ResponsesInv
  <2> QED
    BY <1>2, <2>1, <2>2
<1>7. GotInv(c)' /\ ReturnedInv(c)'
  BY <1>1 DEF GotInv, ReturnedInv, Known
<1> QED
  BY <1>5, <1>6, <1>7

LEMMA CountSteps ==
  ASSUME AtOK, ControlOK, WordsOK, [Next]_vars, NEW c \in Clients, ReturnedCount(c)
  PROVE  ReturnedCount(c)'
<1> USE DEF AtOK, ControlOK, ClientTo, ReturnedCount, Calling, InCall
<1>0. made[c] \in Nat /\ Len(returned[c]) \in Nat
  BY Numbers
<1>1. CASE Call(c)
  <2>1. /\ at[c] = "ready" /\ at'[c] = "open_req" /\ op'[c] \in Ops /\ made'[c] = made[c] + 1
        /\ returned'[c] = returned[c]
    BY <1>1 DEF Call
  <2> QED
    BY <1>0, <2>1
<1>2. CASE Return(c)
  <2>1. /\ at[c] \in {"return", "fail"} /\ op[c] \in Ops /\ at'[c] = "ready" /\ op'[c] = op[c]
        /\ made'[c] = made[c]
    BY <1>2 DEF Return
  <2>2. PICK r : returned'[c] = Append(returned[c], r)
    BY <1>2 DEF Return, WordsOK
  <2>3. Len(returned'[c]) = Len(returned[c]) + 1
    BY <2>2, AppendProperties DEF WordsOK
  <2> QED
    BY <1>0, <2>1, <2>3
<1>3. CASE /\ made'[c] = made[c] /\ returned'[c] = returned[c]
           /\ at'[c] # "gone" => at[c] # "gone" /\ (Calling(c)' <=> Calling(c))
           /\ at'[c] = "start" => at[c] = "start" /\ op'[c] = op[c]
  BY <1>3
<1>4. CASE Setup(c) \/ Skip(c) \/ Quit(c) \/ Abandon(c)
  <2>1. made'[c] = made[c] /\ returned'[c] = returned[c]
    BY <1>4 DEF Setup, Skip, Quit, Abandon, callers
  <2>2. /\ at'[c] # "gone" => at[c] # "gone" /\ (Calling(c)' <=> Calling(c))
        /\ at'[c] = "start" => at[c] = "start" /\ op'[c] = op[c]
    BY <1>4 DEF Setup, Skip, Quit, Abandon, callers, Ops
  <2> QED
    BY <1>3, <2>1, <2>2
<1>5. CASE Sigint(c)
  <2>1. made'[c] = made[c] /\ returned'[c] = returned[c] /\ op'[c] = op[c]
    BY <1>5 DEF Sigint
  <2>2. /\ at'[c] # "gone" => at[c] # "gone" /\ (Calling(c)' <=> Calling(c))
        /\ at'[c] = "start" => at[c] = "start"
    BY <1>5, <2>1 DEF Sigint, Interrupted, Killed
  <2> QED
    BY <1>3, <2>1, <2>2
<1>6. CASE OpenReq(c) \/ WriteReq(c) \/ CloseReqWriter(c) \/ Unlink(c) \/ OpenResp(c)
  <2>1. made'[c] = made[c] /\ returned'[c] = returned[c] /\ op'[c] = op[c]
    BY <1>6 DEF OpenReq, WriteReq, CloseReqWriter, Unlink, OpenResp
  <2>2. /\ at'[c] # "gone" => at[c] # "gone" /\ (Calling(c)' <=> Calling(c))
        /\ at'[c] = "start" => at[c] = "start"
    BY <1>6, <2>1 DEF OpenReq, WriteReq, CloseReqWriter, Unlink, OpenResp, Ops
  <2> QED
    BY <1>3, <2>1, <2>2
<1>7. CASE ReadResult(c) \/ ReadBody(c) \/ CloseRespReader(c) \/ SetupReturn(c) \/ Exit(c)
  <2>1. made'[c] = made[c] /\ returned'[c] = returned[c] /\ op'[c] = op[c]
    BY <1>7 DEF ReadResult, ReadBody, CloseRespReader, SetupReturn, Exit
  <2>2. /\ at'[c] # "gone" => at[c] # "gone" /\ (Calling(c)' <=> Calling(c))
        /\ at'[c] = "start" => at[c] = "start"
    BY <1>7, <2>1 DEF ReadResult, ReadBody, CloseRespReader, SetupReturn, Exit
  <2> QED
    BY <1>3, <2>1, <2>2
<1>8. CASE /\ SameClient(c)
           /\ \/ at'[c] = at[c]
              \/ at[c] = "opening_resp" /\ at'[c] = "read_result"
              \/ at[c] = "opening_req" /\ at'[c] = "write_req"
  BY <1>3, <1>8 DEF SameClient
<1> QED
  BY <1>1, <1>2, <1>4, <1>5, <1>6, <1>7, <1>8, ClientSteps DEF ClientStep, OwnStep, ClientRuns

LEMMA AnswerSteps ==
  ASSUME Inv, RequestsInv, [Next]_vars, NEW c \in Clients,
         GotInv(c), ReturnedInv(c), ResponsesInv(c), SendingInv(c), ReturnedCount(c)
  PROVE  GotInv(c)' /\ ReturnedInv(c)' /\ ResponsesInv(c)' /\ SendingInv(c)'
<1> USE DEF Inv
<1>1. Len(executed[c]) \in Nat /\ \A j \in 1 .. Len(executed[c]) : Asking(c, j) = executed[c][j]
  BY AskedSizes DEF Asking
<1>2. CASE Call(c)
  BY <1>2, CallAnswers
<1>3. CASE Return(c)
  <2>1. ASSUME NEW j \in 1 .. Len(executed[c]) PROVE executed[c][j].n <= made[c]
    <3>1. j \in 1 .. Asked(c) /\ j <= Taken(c)
      BY <1>1, AskedSizes
    <3>2. GoodRequest(c, j)
      BY <1>1, <3>1, AskedSizes DEF RequestsInv, AskedInv, LastQuit
    <3>3. Written(c) <= made[c] /\ made[c] \in Nat /\ Written(c) \in Int
      BY DEF Written, One, ControlOK
    <3> QED
      BY <1>1, <3>2, <3>3 DEF GoodRequest
  <2> QED
    BY <1>3, <2>1, ReturnAnswers
<1>4. CASE ReadResult(c) /\ got'[c] # got[c]
  BY <1>4, ReadAnswers
<1>5. ASSUME NEW w \in Workers, client[w] = c, Execute(w)
      PROVE  GotInv(c)' /\ ReturnedInv(c)' /\ ResponsesInv(c)' /\ SendingInv(c)'
  <2> DEFINE k == Len(executed[c]) + 1
  <2>1. Executing(c) /\ Current(c) = request[w]
    BY <1>5, CurrentIs DEF Execute, WorkerTo, Executes
  <2>2. Taken(c) = k
    BY <2>1, AskedSizes
  <2>3. k \in 1 .. Asked(c) /\ ~ (k > Taken(c)) /\ Asking(c, k) = request[w]
    BY <1>1, <2>1, <2>2, AskedSizes DEF Asking
  <2>4. GoodRequest(c, k)
    BY <2>3 DEF RequestsInv, AskedInv, LastQuit
  <2>5. \A j \in 1 .. Len(executed[c]) : executed[c][j].n < request[w].n
    BY <1>1, <2>3, <2>4 DEF GoodRequest
  <2> QED
    BY <1>5, <2>5, ExecuteAnswers
<1>6. ASSUME NEW w \in Workers, client[w] = c, WriteAnswer(w)
      PROVE  GotInv(c)' /\ ReturnedInv(c)' /\ ResponsesInv(c)' /\ SendingInv(c)'
  BY <1>6, WriteAnswers
<1>7. CASE /\ ~ Call(c) /\ ~ Return(c) /\ ~ (ReadResult(c) /\ got'[c] # got[c])
           /\ \A w \in Workers : client[w] = c => ~ Execute(w) /\ ~ WriteAnswer(w)
  <2>1. got'[c] = got[c] /\ returned'[c] = returned[c] /\ executed'[c] = executed[c]
    <3>1. ASSUME NEW d \in Clients, Call(d) \/ ReadResult(d) PROVE got'[c] = got[c]
      BY <1>7, <3>1 DEF Call, ReadResult, WordsOK
    <3>2. ASSUME NEW d \in Clients, Return(d) PROVE returned'[c] = returned[c]
      BY <1>7, <3>2 DEF Return, WordsOK
    <3>3. ASSUME NEW w \in Workers, Execute(w) PROVE executed'[c] = executed[c]
      BY <1>7, <3>3 DEF Execute, WordsOK
    <3> QED
      BY <3>1, <3>2, <3>3, Frame DEF Messaging
  <2>2. Shorter(c)
    BY <1>7, ResponsesStep
  <2>3. \A w \in Workers : client'[w] = c => ~ Execute(w)
    BY <1>7 DEF Execute
  <2> QED
    BY <2>1, <2>2, <2>3, OtherAnswers
<1> QED
  BY <1>2, <1>3, <1>4, <1>5, <1>6, <1>7

LEMMA InitAnswers == Init => AnswersInv
<1> SUFFICES ASSUME Init, NEW c \in Clients
             PROVE  GotInv(c) /\ ReturnedInv(c) /\ ResponsesInv(c) /\ SendingInv(c) /\ ReturnedCount(c)
  BY DEF AnswersInv
<1>1. GotInv(c)
  BY DEF Init, GotInv, Known, NoResult
<1>2. ReturnedInv(c) /\ ResponsesInv(c)
  BY DEF Init, ReturnedInv, ResponsesInv
<1>3. SendingInv(c)
  BY NoClientAssumption DEF Init, SendingInv
<1>4. ReturnedCount(c)
  BY DEF Init, ReturnedCount, Calling, InCall, Ops
<1> QED
  BY <1>1, <1>2, <1>3, <1>4

LEMMA AnswersInvCorrect == Spec => []AnswersInv
<1>1. Inv /\ RequestsInv /\ AnswersInv /\ [Next]_vars => AnswersInv'
  BY AnswerSteps, CountSteps DEF AnswersInv, Inv
<1> QED
  BY <1>1, InvCorrect, RequestsCorrect, InitAnswers, PTL DEF Spec

(* An answer that a call returns is that of an executed request, of this   *)
(* call or of an earlier one, and comes after the answers of the calls     *)
(* before it: what a missed answer or a leaked response_fd leaves in the   *)
(* FIFO may be late, but never out of order.                               *)
THEOREM AnswersCorrect == Spec => []AnswersInOrder
<1>1. AnswersInv => AnswersInOrder
  BY DEF AnswersInv, AnswersInOrder, ReturnedInv, Known, Before
<1> QED
  BY <1>1, AnswersInvCorrect, PTL
=============================================================================
