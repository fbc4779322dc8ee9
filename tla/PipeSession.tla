----------------------------- MODULE PipeSession -----------------------------
(***************************************************************************)
(* The sessions between clients and worker threads over named pipes: the   *)
(* client's loop over its .jobs file (src/p2/client/main.c, parser.c), its *)
(* calls (src/p2/client/api.c), the worker's loop                          *)
(* (process_incoming_requests of src/p2/server/server.c), the handlers     *)
(* that answer (src/p2/server/workers.c), and what open, read, write,      *)
(* close and unlink do to a FIFO.  Each client has one FIFO for requests   *)
(* and one for responses.  The way of a connection through the server's    *)
(* FIFO and the queue of PcQueue is one sequence here, and what an         *)
(* operation computes (EmsOperations) is one step with a result.           *)
(*                                                                         *)
(* FIFOs: a process that opens one end is counted at once and then blocks  *)
(* until somebody opens the other end, or returns at once when somebody    *)
(* has it open.  A read of an empty FIFO blocks while it has writers and   *)
(* is the end of file when it has none; a write without readers is lost    *)
(* (SIGPIPE is ignored and pipe_print takes EPIPE for success); what is in *)
(* a FIFO is gone when both its ends are closed.  One client and one       *)
(* worker use a FIFO, so whoever opens an end unblocks the one other.      *)
(*                                                                         *)
(* A line of a .jobs file is its kind: a call; "SKIP" for what calls       *)
(* nothing (a comment, an empty line, WAIT, HELP, an invalid command);     *)
(* "SHORT" for one that ends before its arguments do.                      *)
(***************************************************************************)
EXTENDS Integers, Sequences, FiniteSets

CONSTANTS
  Clients,      \* the client processes
  Workers,      \* the worker threads
  Scenarios,    \* who runs on which .jobs file, gets how many SIGINTs, and
                \* which workers are not busy with other clients
  NoClient      \* what an idle worker serves

Ops == {"CREATE", "RESERVE", "SHOW", "LIST"}

Lines == Ops \cup {"SKIP", "SHORT"}

ASSUME ScenariosAssumption ==
  \A s \in Scenarios : /\ DOMAIN s.file \subseteq Clients
                       /\ \A c \in DOMAIN s.file : s.file[c] \in Seq(Lines)
                       /\ s.sigints \in [Clients -> 0 .. 2]
                       /\ s.workers \subseteq Workers
ASSUME NoClientAssumption == NoClient \notin Clients

VARIABLES
  scenario,
  connections,  \* the clients that asked for a session and wait for a worker
  \* of each client
  line,         \* the next line of its file
  sigints,      \* how many SIGINTs it got
  at,           \* what it does next
  made,         \* how many calls it made
  op,           \* its current call
  got,          \* the result it read: number of the call it answers, value
  returned,     \* history: the number it got and the value it returned, by call
  \* of each worker
  pc,           \* what it does next
  client,       \* the client it serves
  request,      \* the request it read
  answer,       \* the response it sends
  executed,     \* history: a client's executed requests
  \* of each client's FIFOs
  linked,       \* which of them have a name
  requests,     \* the messages in the request FIFO
  responses,    \* the words in the response FIFO
  reqReaders, reqWriters, respReaders, respWriters  \* the open ends

ends    == <<reqReaders, reqWriters, respReaders, respWriters>>
pipes   == <<linked, requests, responses, ends>>
input   == <<scenario, line, sigints>>
callers == <<at, made, op, got, returned>>
servers == <<pc, client, request, answer, executed>>
vars    == <<input, connections, callers, servers, pipes>>

NoResult == [n |-> 0, res |-> 1]

Init ==
  /\ scenario \in Scenarios
  /\ line = [c \in Clients |-> 1]
  /\ sigints = [c \in Clients |-> 0]
  /\ connections = <<>>
  /\ at = [c \in Clients |-> IF c \in DOMAIN scenario.file THEN "start" ELSE "gone"]
  /\ made = [c \in Clients |-> 0]
  /\ op = [c \in Clients |-> "SETUP"]
  /\ got = [c \in Clients |-> NoResult]
  /\ returned = [c \in Clients |-> <<>>]
  /\ pc = [w \in Workers |-> IF w \in scenario.workers THEN "dequeue" ELSE "busy"]
  /\ client = [w \in Workers |-> NoClient]
  /\ request = [w \in Workers |-> [n |-> 0, op |-> "SETUP"]]
  /\ answer = [w \in Workers |-> <<>>]
  /\ executed = [c \in Clients |-> <<>>]
  /\ linked = [c \in Clients |-> {}]
  /\ requests = [c \in Clients |-> <<>>]
  /\ responses = [c \in Clients |-> <<>>]
  /\ reqReaders = [c \in Clients |-> 0]
  /\ reqWriters = [c \in Clients |-> 0]
  /\ respReaders = [c \in Clients |-> 0]
  /\ respWriters = [c \in Clients |-> 0]

Add(ends1, c, k) == ends1' = [ends1 EXCEPT ![c] = @ + k]

ClientTo(c, from, to) == at[c] = from /\ at' = [at EXCEPT ![c] = to]

GoOn(w, to) == pc' = [pc EXCEPT ![w] = to]

WorkerTo(w, from, to) == pc[w] = from /\ GoOn(w, to)

(* pc when client c opens an end for which its worker is blocked at from.  *)
Unblocked(c, from, to) ==
  [w \in Workers |-> IF client[w] = c /\ pc[w] = from THEN to ELSE pc[w]]

(* What is left in a FIFO when somebody closes an end of it.               *)
Kept(content, readers, writers) == IF readers + writers = 1 THEN <<>> ELSE content

(* A response is the result, and for SHOW and LIST a body, the event or    *)
(* the ids, which they send after a failure too.                           *)
HasBody(o) == o \in {"SHOW", "LIST"}

Words(n, o, res) ==
  << [n |-> n, res |-> res] >> \o IF HasBody(o) THEN << [n |-> n, res |-> 0] >> ELSE <<>>

------------------------------------------------------------------------------
\* The client: api.c

(* ems_setup: makes both FIFOs and sends their names to the server.        *)
Setup(c) ==
  /\ ClientTo(c, "start", "open_resp")
  /\ linked' = [linked EXCEPT ![c] = {"req", "resp"}]
  /\ connections' = Append(connections, c)
  /\ UNCHANGED <<input, made, op, got, returned, servers, requests, responses, ends>>

(* What get_next and the parse functions leave of the file after a line.   *)
(* One that ends too early is noticed at its end, and cleanup then reads   *)
(* the next line to its end.                                               *)
Remaining(c) == IF scenario.file[c][line[c]] = "SHORT" THEN line[c] + 2 ELSE line[c] + 1

HasLine(c) == at[c] = "ready" /\ line[c] <= Len(scenario.file[c])

(* ems_create, ems_reserve, ems_show, ems_list_events.                     *)
Call(c) ==
  /\ HasLine(c) /\ scenario.file[c][line[c]] \in Ops
  /\ ClientTo(c, "ready", "open_req")
  /\ line' = [line EXCEPT ![c] = Remaining(c)]
  /\ made' = [made EXCEPT ![c] = @ + 1]
  /\ op' = [op EXCEPT ![c] = scenario.file[c][line[c]]]
  /\ got' = [got EXCEPT ![c] = NoResult]
  /\ UNCHANGED <<scenario, sigints, connections, returned, servers, pipes>>

(* A line that calls nothing.                                              *)
Skip(c) ==
  /\ HasLine(c) /\ scenario.file[c][line[c]] \notin Ops
  /\ line' = [line EXCEPT ![c] = Remaining(c)]
  /\ UNCHANGED <<scenario, sigints, connections, callers, servers, pipes>>

(* ems_quit, at the end of the file.  A SIGINT does not end the loop:      *)
(* nothing reads shutdown_signaler.                                        *)
Quit(c) ==
  /\ ClientTo(c, "ready", "open_req")
  /\ line[c] > Len(scenario.file[c])
  /\ op' = [op EXCEPT ![c] = "QUIT"]
  /\ UNCHANGED <<input, connections, made, got, returned, servers, pipes>>

(* main returns for a bad .jobs path or file: it has set up and never quits. *)
Abandon(c) ==
  /\ line[c] = 1
  /\ ClientTo(c, "ready", "exit")
  /\ UNCHANGED <<input, connections, made, op, got, returned, servers, pipes>>

(* open(client_req_pipe_path, O_WRONLY)                                    *)
OpenReq(c) ==
  /\ ClientTo(c, "open_req", IF reqReaders[c] > 0 THEN "write_req" ELSE "opening_req")
  /\ Add(reqWriters, c, 1)
  /\ pc' = [w \in Workers |-> IF client[w] = c /\ pc[w] = "opening_tmp" THEN "close_tmp"
                             ELSE Unblocked(c, "opening_req", "read_op")[w]]
  /\ UNCHANGED <<input, connections, made, op, got, returned, client, request, answer, executed,
                 linked, requests, responses, reqReaders, respReaders, respWriters>>

WriteReq(c) ==
  /\ ClientTo(c, "write_req", "close_req")
  /\ requests' = [requests EXCEPT ![c] =
                    IF reqReaders[c] > 0 THEN Append(@, [n |-> made[c], op |-> op[c]]) ELSE @]
  /\ UNCHANGED <<input, connections, made, op, got, returned, servers, linked, responses, ends>>

(* Mutant of CloseReqWriter: the second close of ems_quit closes again.    *)
CloseReqWriterTwice(c) ==
  /\ ClientTo(c, "close_req", IF op[c] = "QUIT" THEN "unlink_req" ELSE "open_resp")
  /\ Add(reqWriters, c, IF op[c] = "QUIT" THEN -2 ELSE -1)
  /\ requests' = [requests EXCEPT ![c] = Kept(@, reqReaders[c], reqWriters[c])]
  /\ UNCHANGED <<input, connections, made, op, got, returned, servers,
                 linked, responses, reqReaders, respReaders, respWriters>>

CloseReqWriter(c) ==
  /\ ClientTo(c, "close_req", IF op[c] = "QUIT" THEN "unlink_req" ELSE "open_resp")
  /\ Add(reqWriters, c, -1)
  /\ requests' = [requests EXCEPT ![c] = Kept(@, reqReaders[c], reqWriters[c])]
  /\ UNCHANGED <<input, connections, made, op, got, returned, servers,
                 linked, responses, reqReaders, respReaders, respWriters>>

(* ems_quit unlinks the request FIFO, then the response FIFO.              *)
Unlink(c) ==
  /\ \/ /\ ClientTo(c, "unlink_req", "unlink_resp")
        /\ linked' = [linked EXCEPT ![c] = @ \ {"req"}]
     \/ /\ ClientTo(c, "unlink_resp", "exit")
        /\ linked' = [linked EXCEPT ![c] = @ \ {"resp"}]
  /\ UNCHANGED <<input, connections, made, op, got, returned, servers, requests, responses, ends>>

(* open(client_resp_pipe_path, O_RDONLY)                                   *)
OpenResp(c) ==
  /\ ClientTo(c, "open_resp", IF respWriters[c] > 0 THEN "read_result" ELSE "opening_resp")
  /\ Add(respReaders, c, 1)
  /\ pc' = Unblocked(c, "opening_resp", "write_resp")
  /\ UNCHANGED <<input, connections, made, op, got, returned, client, request, answer, executed,
                 linked, requests, responses, reqReaders, reqWriters, respWriters>>

(* A word can be read, or the end of file.                                 *)
HasWord(c) == responses[c] # <<>>
AtEof(c) == responses[c] = <<>> /\ respWriters[c] = 0

ReadResult(c) ==
  /\ \/ /\ HasWord(c)
        /\ ClientTo(c, "read_result", IF HasBody(op[c]) THEN "read_body" ELSE "close_resp")
        /\ got' = [got EXCEPT ![c] = Head(responses[c])]
        /\ responses' = [responses EXCEPT ![c] = Tail(@)]
     \/ /\ AtEof(c)
        /\ ClientTo(c, "read_result", "close_failed")
        /\ UNCHANGED <<got, responses>>
  /\ UNCHANGED <<input, connections, made, op, returned, servers, linked, requests, ends>>

(* A SHOW that was refused and a LIST that succeeds return without a close *)
(* of their response_fd.                                                   *)
ReadBody(c) ==
  /\ \/ /\ HasWord(c)
        /\ ClientTo(c, "read_body",
             IF op[c] = "LIST" \/ got[c].res # 0 THEN "return" ELSE "close_resp")
        /\ responses' = [responses EXCEPT ![c] = Tail(@)]
     \/ /\ AtEof(c)
        /\ ClientTo(c, "read_body", "close_failed")
        /\ UNCHANGED responses
  /\ UNCHANGED <<input, connections, made, op, got, returned, servers, linked, requests, ends>>

CloseRespReader(c) ==
  /\ ClientTo(c, "close_resp", "return") \/ ClientTo(c, "close_failed", "fail")
  /\ Add(respReaders, c, -1)
  /\ responses' = [responses EXCEPT ![c] = Kept(@, respReaders[c], respWriters[c])]
  /\ UNCHANGED <<input, connections, made, op, got, returned, servers,
                 linked, requests, reqReaders, reqWriters, respWriters>>

(* A call that read its response returns 0, and SHOW and LIST its result;  *)
(* one that could not read it returns 1.                                   *)
Return(c) ==
  /\ at[c] \in {"return", "fail"} /\ op[c] \in Ops
  /\ ClientTo(c, at[c], "ready")
  /\ returned' = [returned EXCEPT ![c] = Append(@,
       IF at[c] = "fail" THEN NoResult
       ELSE [n |-> got[c].n, res |-> IF HasBody(op[c]) THEN got[c].res ELSE 0])]
  /\ UNCHANGED <<input, connections, made, op, got, servers, pipes>>

(* A failed ems_setup or ems_quit is followed by the end of main.          *)
SetupReturn(c) ==
  /\ at[c] \in {"return", "fail"} /\ op[c] \notin Ops
  /\ ClientTo(c, at[c], IF at[c] = "fail" THEN "exit" ELSE "ready")
  /\ UNCHANGED <<input, connections, made, op, got, returned, servers, pipes>>

(* The end of the process closes what it left open.                        *)
Exit(c) ==
  /\ ClientTo(c, "exit", "gone")
  /\ respReaders' = [respReaders EXCEPT ![c] = 0]
  /\ responses' = [responses EXCEPT ![c] = IF respWriters[c] = 0 THEN <<>> ELSE @]
  /\ UNCHANGED <<input, connections, made, op, got, returned, servers,
                 linked, requests, reqReaders, reqWriters, respWriters>>

(* client_shutdown, the handler of SIGINT, makes a call that sleeps in     *)
(* open or read fail: it returns 1.                                        *)
Interrupted(c) ==
  \/ /\ ClientTo(c, "opening_req", "fail")
     /\ Add(reqWriters, c, -1)
     /\ UNCHANGED <<responses, respReaders>>
  \/ /\ ClientTo(c, "opening_resp", "fail")
     /\ Add(respReaders, c, -1)
     /\ responses' = [responses EXCEPT ![c] = Kept(@, respReaders[c], respWriters[c])]
     /\ UNCHANGED reqWriters
  \/ /\ ~ HasWord(c) /\ ~ AtEof(c)
     /\ ClientTo(c, "read_result", "close_failed") \/ ClientTo(c, "read_body", "close_failed")
     /\ UNCHANGED <<responses, reqWriters, respReaders>>

Sleeps(c) == \/ at[c] \in {"opening_req", "opening_resp"}
             \/ at[c] \in {"read_result", "read_body"} /\ ~ HasWord(c) /\ ~ AtEof(c)

(* The handler is removed when it is called: the second SIGINT ends the    *)
(* process, which closes its ends and leaves the FIFOs their names.        *)
Killed(c) ==
  /\ at' = [at EXCEPT ![c] = "gone"]
  /\ reqWriters' = [reqWriters EXCEPT ![c] = 0]
  /\ requests' = [requests EXCEPT ![c] = IF reqReaders[c] = 0 THEN <<>> ELSE @]
  /\ respReaders' = [respReaders EXCEPT ![c] = 0]
  /\ responses' = [responses EXCEPT ![c] = IF respWriters[c] = 0 THEN <<>> ELSE @]

Sigint(c) ==
  /\ at[c] \notin {"start", "gone"}
  /\ sigints[c] < scenario.sigints[c]
  /\ sigints' = [sigints EXCEPT ![c] = @ + 1]
  /\ \/ /\ sigints[c] = 0
        /\ IF Sleeps(c) THEN Interrupted(c) ELSE UNCHANGED <<at, responses, reqWriters, respReaders>>
        /\ UNCHANGED requests
     \/ sigints[c] = 1 /\ Killed(c)
  /\ UNCHANGED <<scenario, line, connections, made, op, got, returned, servers,
                 linked, reqReaders, respWriters>>

------------------------------------------------------------------------------
\* The worker: process_incoming_requests and its handlers

(* pcq_dequeue; ems_setup_handler will send the session's id.              *)
Dequeue(w) ==
  /\ connections # <<>>
  /\ WorkerTo(w, "dequeue", "open_resp")
  /\ client' = [client EXCEPT ![w] = Head(connections)]
  /\ connections' = Tail(connections)
  /\ request' = [request EXCEPT ![w] = [n |-> 0, op |-> "SETUP"]]
  /\ answer' = [answer EXCEPT ![w] = << [n |-> 0, res |-> 0] >>]
  /\ UNCHANGED <<input, callers, executed, pipes>>

(* What follows a response, sent or not.                                   *)
AfterResp(w) == IF request[w].op = "SETUP" THEN "open_fd" ELSE "open_tmp"

(* open(client->response_pipename, O_WRONLY)                               *)
OpenAnswer(w) ==
  LET c == client[w] IN
  /\ pc[w] = "open_resp"
  /\ IF "resp" \in linked[c]
     THEN /\ GoOn(w, IF respReaders[c] > 0 THEN "write_resp" ELSE "opening_resp")
          /\ Add(respWriters, c, 1)
          /\ at' = [at EXCEPT ![c] = IF @ = "opening_resp" THEN "read_result" ELSE @]
     ELSE GoOn(w, AfterResp(w)) /\ UNCHANGED <<respWriters, at>>
  /\ UNCHANGED <<input, connections, made, op, got, returned, client, request, answer, executed,
                 linked, requests, responses, reqReaders, reqWriters, respReaders>>

WriteAnswer(w) ==
  LET c == client[w] IN
  /\ WorkerTo(w, "write_resp", "close_resp")
  /\ responses' = [responses EXCEPT ![c] = IF respReaders[c] > 0 THEN @ \o answer[w] ELSE @]
  /\ UNCHANGED <<input, connections, callers, client, request, answer, executed, linked, requests, ends>>

CloseAnswer(w) ==
  LET c == client[w] IN
  /\ WorkerTo(w, "close_resp", AfterResp(w))
  /\ Add(respWriters, c, -1)
  /\ responses' = [responses EXCEPT ![c] = Kept(@, respReaders[c], respWriters[c])]
  /\ UNCHANGED <<input, connections, callers, client, request, answer, executed,
                 linked, requests, reqReaders, reqWriters, respReaders>>

(* open(client->request_pipename, O_RDONLY), for request_fd and then, once *)
(* per request, for tmp_pipe; without a name the session ends.             *)
OpenFd(w, from, opened, opening) ==
  LET c == client[w] IN
  /\ pc[w] = from
  /\ IF "req" \in linked[c]
     THEN /\ GoOn(w, IF reqWriters[c] > 0 THEN opened ELSE opening)
          /\ Add(reqReaders, c, 1)
          /\ at' = [at EXCEPT ![c] = IF @ = "opening_req" THEN "write_req" ELSE @]
     ELSE /\ GoOn(w, IF from = "open_fd" THEN "free" ELSE "close_fd")
          /\ UNCHANGED <<reqReaders, at>>
  /\ UNCHANGED <<input, connections, made, op, got, returned, client, request, answer, executed,
                 linked, requests, responses, reqWriters, respReaders, respWriters>>

OpenRequestFd(w) == OpenFd(w, "open_fd", "read_op", "opening_req")

OpenTmpPipe(w) == OpenFd(w, "open_tmp", "close_tmp", "opening_tmp")

(* Mutant of CloseTmpPipe: tmp_pipe is left open.                          *)
CloseTmpPipeLeaks(w) ==
  /\ WorkerTo(w, "close_tmp", "read_op")
  /\ UNCHANGED <<input, connections, callers, client, request, answer, executed, pipes>>

(* Mutant of CloseTmpPipe: the session ends after one request.             *)
CloseTmpPipeAndEnd(w) ==
  /\ WorkerTo(w, "close_tmp", "close_fd")
  /\ Add(reqReaders, client[w], -1)
  /\ UNCHANGED <<input, connections, callers, client, request, answer, executed, linked, requests,
                 responses, reqWriters, respReaders, respWriters>>

CloseTmpPipe(w) ==
  /\ WorkerTo(w, "close_tmp", "read_op")
  /\ Add(reqReaders, client[w], -1)
  /\ UNCHANGED <<input, connections, callers, client, request, answer, executed, linked, requests,
                 responses, reqWriters, respReaders, respWriters>>

(* Mutant of ReadOp: a request that was served is read again.              *)
ReadOpAgain(w) ==
  LET c == client[w] IN
  /\ pc[w] = "read_op"
  /\ \/ /\ requests[c] # <<>>
        /\ GoOn(w, IF Head(requests[c]).op = "QUIT" THEN "close_fd" ELSE "execute")
        /\ request' = [request EXCEPT ![w] = Head(requests[c])]
        /\ UNCHANGED requests
     \/ /\ requests[c] = <<>> /\ reqWriters[c] = 0
        /\ GoOn(w, "close_fd")
        /\ UNCHANGED <<request, requests>>
  /\ UNCHANGED <<input, connections, callers, client, answer, executed, linked, responses, ends>>

(* The op code and its arguments, or the end of file, which ends the       *)
(* session as a QUIT does.                                                 *)
ReadOp(w) ==
  LET c == client[w] IN
  /\ pc[w] = "read_op"
  /\ \/ /\ requests[c] # <<>>
        /\ GoOn(w, IF Head(requests[c]).op = "QUIT" THEN "close_fd" ELSE "execute")
        /\ request' = [request EXCEPT ![w] = Head(requests[c])]
        /\ requests' = [requests EXCEPT ![c] = Tail(@)]
     \/ /\ requests[c] = <<>> /\ reqWriters[c] = 0
        /\ GoOn(w, "close_fd")
        /\ UNCHANGED <<request, requests>>
  /\ UNCHANGED <<input, connections, callers, client, answer, executed, linked, responses, ends>>

(* Mutant of Execute: the handler answers without a call of the operation. *)
ExecuteNothing(w) ==
  \E res \in {0, 1} :
    /\ WorkerTo(w, "execute", "open_resp")
    /\ answer' = [answer EXCEPT ![w] = Words(request[w].n, request[w].op, res)]
    /\ UNCHANGED <<input, connections, callers, client, request, executed, pipes>>

(* The handler runs the operation; LIST fails only for lack of memory, and *)
(* then sends words it never set: that case is left out.                   *)
Execute(w) ==
  LET c == client[w] IN
  \E res \in IF request[w].op = "LIST" THEN {0} ELSE {0, 1} :
    /\ WorkerTo(w, "execute", "open_resp")
    /\ executed' = [executed EXCEPT ![c] = Append(@, [n |-> request[w].n, op |-> request[w].op])]
    /\ answer' = [answer EXCEPT ![w] = Words(request[w].n, request[w].op, res)]
    /\ UNCHANGED <<input, connections, callers, client, request, pipes>>

CloseRequestFd(w) ==
  LET c == client[w] IN
  /\ WorkerTo(w, "close_fd", "free")
  /\ Add(reqReaders, c, -1)
  /\ requests' = [requests EXCEPT ![c] = Kept(@, reqReaders[c], reqWriters[c])]
  /\ UNCHANGED <<input, connections, callers, client, request, answer, executed,
                 linked, responses, reqWriters, respReaders, respWriters>>

Free(w) ==
  /\ WorkerTo(w, "free", "dequeue")
  /\ client' = [client EXCEPT ![w] = NoClient]
  /\ UNCHANGED <<input, connections, callers, request, answer, executed, pipes>>

------------------------------------------------------------------------------
(* What a client inside a call, and a worker, do as soon as they can.      *)
ClientRuns(c) ==
  \/ OpenReq(c) \/ WriteReq(c) \/ CloseReqWriter(c) \/ Unlink(c) \/ OpenResp(c)
  \/ ReadResult(c) \/ ReadBody(c) \/ CloseRespReader(c) \/ Return(c) \/ SetupReturn(c)
  \/ Exit(c)

WorkerRuns(w) ==
  \/ Dequeue(w) \/ OpenAnswer(w) \/ WriteAnswer(w) \/ CloseAnswer(w) \/ OpenRequestFd(w)
  \/ OpenTmpPipe(w) \/ CloseTmpPipe(w) \/ ReadOp(w) \/ Execute(w) \/ CloseRequestFd(w) \/ Free(w)

Next ==
  \/ \E c \in Clients : Setup(c) \/ Call(c) \/ Skip(c) \/ Quit(c) \/ Abandon(c)
                          \/ ClientRuns(c) \/ Sigint(c)
  \/ \E w \in Workers : WorkerRuns(w)

Spec == Init /\ [][Next]_vars

(* The scheduler runs every process and thread; a client need not go on to *)
(* its next call.                                                          *)
Fairness == /\ \A c \in Clients : WF_vars(ClientRuns(c))
            /\ \A w \in Workers : WF_vars(WorkerRuns(w))

FairSpec == Spec /\ Fairness

------------------------------------------------------------------------------
Counts == [Clients -> Nat]
ClientPlaces ==
  {"start", "open_resp", "opening_resp", "read_result", "read_body", "close_resp",
   "close_failed", "return", "fail", "ready", "open_req", "opening_req", "write_req",
   "close_req", "unlink_req", "unlink_resp", "exit", "gone"}
WorkerPlaces ==
  {"dequeue", "open_resp", "opening_resp", "write_resp", "close_resp", "open_fd",
   "opening_req", "read_op", "execute", "open_tmp", "opening_tmp", "close_tmp",
   "close_fd", "free", "busy"}
Results == [n : Nat, res : {0, 1}]
Messages == [n : Nat, op : Ops \cup {"SETUP", "QUIT"}]

(* Every variable holds a value of its type; a count of open ends is never *)
(* negative, so no end is closed twice.                                    *)
TypeOK ==
  /\ scenario \in Scenarios
  /\ line \in [Clients -> Nat] /\ sigints \in [Clients -> 0 .. 2]
  /\ connections \in Seq(Clients)
  /\ at \in [Clients -> ClientPlaces]
  /\ made \in [Clients -> Nat]
  /\ op \in [Clients -> Ops \cup {"SETUP", "QUIT"}]
  /\ got \in [Clients -> Results]
  /\ returned \in [Clients -> Seq(Results)]
  /\ pc \in [Workers -> WorkerPlaces]
  /\ client \in [Workers -> Clients \cup {NoClient}]
  /\ request \in [Workers -> Messages]
  /\ answer \in [Workers -> Seq(Results)]
  /\ executed \in [Clients -> Seq(Messages)]
  /\ linked \in [Clients -> SUBSET {"req", "resp"}]
  /\ requests \in [Clients -> Seq(Messages)]
  /\ responses \in [Clients -> Seq(Results)]
  /\ reqReaders \in Counts /\ reqWriters \in Counts
  /\ respReaders \in Counts /\ respWriters \in Counts

Answering(w) == pc[w] \in {"open_resp", "opening_resp", "write_resp", "close_resp"}

HoldsFd(w) == \/ pc[w] \in {"opening_req", "read_op", "execute", "open_tmp", "opening_tmp",
                            "close_tmp", "close_fd"}
              \/ Answering(w) /\ request[w].op # "SETUP"

HoldsTmp(w) == pc[w] \in {"opening_tmp", "close_tmp"}

HoldsAnswer(w) == pc[w] \in {"opening_resp", "write_resp", "close_resp"}

One(b) == IF b THEN 1 ELSE 0

(* A client is served by one worker, once, and the ends open for it are    *)
(* those its worker has open at its place in the loop: a session, however  *)
(* it ends, leaves the worker no descriptor of it.                         *)
OneWorkerEach ==
  /\ \A v, w \in Workers : client[v] = client[w] => v = w \/ client[v] = NoClient
  /\ \A j, k \in 1 .. Len(connections) : connections[j] = connections[k] => j = k
  /\ \A w \in Workers, k \in 1 .. Len(connections) : client[w] # connections[k]

WorkerEnds ==
  \A c \in Clients :
    \/ \E w \in Workers :
         /\ client[w] = c
         /\ reqReaders[c] = One(HoldsFd(w)) + One(HoldsTmp(w))
         /\ respWriters[c] = One(HoldsAnswer(w))
    \/ /\ \A w \in Workers : client[w] # c
       /\ reqReaders[c] = 0 /\ respWriters[c] = 0

SessionsApart == OneWorkerEach /\ WorkerEnds

(* The calls of a .jobs file: the lines that are calls, but for those that *)
(* cleanup reads with a line cut short.  In a run of such lines that is    *)
(* every second one.                                                       *)
Swallowed(file, k) ==
  \E j \in 1 .. k - 1 :
    /\ \A m \in j .. k - 1 : file[m] = "SHORT"
    /\ j = 1 \/ file[j - 1] # "SHORT"
    /\ (k - j) % 2 = 1

CallLines(file) == {k \in 1 .. Len(file) : file[k] \in Ops /\ ~ Swallowed(file, k)}

CallsOf(file) ==
  [n \in 1 .. Cardinality(CallLines(file)) |->
     file[CHOOSE k \in CallLines(file) : Cardinality({j \in CallLines(file) : j <= k}) = n]]

(* Whatever becomes of the answers, the worker executes the calls of the   *)
(* client's file, each with its operation, in their order, none twice and  *)
(* none before its call; it misses none but one that SIGINT interrupted.   *)
ExecutedInOrder ==
  \A c \in DOMAIN scenario.file : \A k \in 1 .. Len(executed[c]) :
    LET n == executed[c][k].n
    IN /\ n \in k .. made[c]
       /\ n <= k + sigints[c]
       /\ executed[c][k].op = CallsOf(scenario.file[c])[n]
       /\ \A j \in 1 .. k - 1 : executed[c][j].n < n

(* A call may miss its answer and a later call get it, or get what an      *)
(* earlier call left of a body; but no answer overtakes another, and none  *)
(* comes before its request is executed.                                   *)
AnswersInOrder ==
  \A c \in Clients : \A k \in 1 .. Len(returned[c]) :
    returned[c][k].n # 0 =>
      /\ returned[c][k].n <= k
      /\ \E j \in 1 .. Len(executed[c]) : executed[c][j].n = returned[c][k].n
      /\ \A j \in 1 .. k - 1 : returned[c][j].n <= returned[c][k].n

InCall(c) == at[c] \in {"open_req", "opening_req", "write_req", "close_req", "open_resp",
                        "opening_resp", "read_result", "read_body", "close_resp",
                        "close_failed", "return", "fail"}

(* The client of a worker that sleeps in the open of tmp_pipe has already  *)
(* opened the pipe, written its request and closed it again: nobody else   *)
(* will.  server.c says of the open that it avoids an active wait for      *)
(* another process to open the pipe.                                       *)
RequestMissed(c) ==
  \E w \in Workers : client[w] = c /\ pc[w] = "opening_tmp" /\ requests[c] # <<>>

(* A call sleeps in the open of the response pipe, and its answer is       *)
(* already in it and its writer gone.  api.h says that a call returns 0 or *)
(* 1.                                                                      *)
AnswerMissed(c) == at[c] = "opening_resp" /\ responses[c] # <<>>

(* A call that returns with a result returns the result of its own request *)
(* (the results of api.h).                                                 *)
AnswersMatch ==
  \A c \in Clients : \A k \in 1 .. Len(returned[c]) : returned[c][k].n \in {0, k}

(* While there are as many workers as clients, a connection is answered,   *)
(* whatever other sessions do and however they end; a SIGINT to the client *)
(* itself may end its setup.                                               *)
SetupAnswered ==
  \A c \in Clients :
    (InCall(c) /\ op[c] = "SETUP") ~> (at[c] = "ready" \/ sigints[c] > 0)

Leaked(c) == respReaders[c] > 1

SessionLost(c) == sigints[c] > 0 /\ at[c] = "opening_req" /\ \A w \in Workers : client[w] # c

(* A connection is answered, and a call returns or is stuck in one of two  *)
(* ways: its worker missed its request, or an earlier call left its        *)
(* response_fd open and it misses the answer.  A SIGINT adds a third: it   *)
(* wakes such a call, and the next one may find that the worker has taken  *)
(* the end of file for the end of the session.                             *)
CallsReturn ==
  /\ SetupAnswered
  /\ \A c \in Clients :
       (InCall(c) /\ op[c] \in Ops)
         ~> \/ at[c] \in {"ready", "gone"}
            \/ RequestMissed(c) \/ (AnswerMissed(c) /\ Leaked(c)) \/ SessionLost(c)
===============================================================================
