# IST-EMS: a TLA+ model of the event management system

The repository holds two programs that manage events, rooms with numbered
seats that can be reserved:

* `src/p1`, the *batch program*: a parent forks one child per `.jobs` file, and
  each child runs the commands of its file on several threads, on events of its
  own, printing to a `.out` file;
* `src/p2`, the *server*: clients connect over a named pipe and send requests
  over a pair of named pipes of their own; worker threads execute them on events
  that all sessions share; after a SIGUSR1 the server prints every event.

This directory models the parts of both where threads, processes and pipes meet,
model-checks them with TLC, and proves the central invariants with TLAPS.

## Inventory

| part | state | operations | hard about it | what makes it correct |
|---|---|---|---|---|
| event store, server (`server/operations.c`, `eventlist.c`) | list of events under a reader-writer lock; per event the seats and the count of reservations under a mutex | `ems_create`, `ems_reserve`, `get_event_info`, `get_events`, `ems_show`, `ems_list_events` | all workers and the host run them at once; the locks are released between lookup and use; the dump read-locks twice | seats are sold once and reservations are whole; ids are unique; locks balance on every path; dumps and answers are consistent; operations end |
| queue (`server/producer-consumer.c`, `common/locks.c`) | circular buffer, head, tail, size, five locks, two condition variables | `pcq_enqueue`, `pcq_dequeue`, (`pcq_create`, `pcq_destroy`) | signals are sent after the state's lock is released, under another lock; spurious wakeups; full and empty at the wrap | it is a bounded FIFO; no wakeup is lost; who can be served is |
| sessions (`server/server.c` worker loop, `server/workers.c`, `client/api.c`, `client/main.c`) | two FIFOs per client, their open ends, the client's and the worker's place | setup, create, reserve, show, list, quit; the worker's request loop | blocking opens, end of file, descriptors left open, answers without numbers, a client that leaves without quitting | requests run once and in order; a call gets its own answer and returns; sessions do not mix; a worker is free again after a session |
| host loop, signals, shutdown (`server/server.c`) | `received_sigusr1`, the handlers that are set up, the server's FIFO, the queue | accept, dump, set up handlers, close | a signal between test and read; handlers that serve one signal; a handler that locks and frees what threads use | connections are served in order; a dump follows its signal; the list is freed under its lock; a close ends |
| transfer loops (`common/io.c`) | progress of one read or write | `pipe_parse`, `pipe_print` | partial transfers, interruption, `-1` as a count | success means all bytes |
| client commands (`client/main.c`, `client/parser.c`) | position in the file | read and call one by one, skip, leave | a line cut short swallows the next; SIGINT in the middle of a call | the calls of the file, each once |
| batch store (`p1/operations.c`, `eventlist.c`, `utils.c`) | list under a reader-writer lock, one more per event, the output file under a mutex | create, reserve with rollback, show, list | three nested locks, a dozen failure paths, rollback | commands are atomic, output is not mixed, refusals leave no trace |
| job threads (`p1/filehandler.c`) | position in the file, `BARRIER`, `WAIT`, `wait_time`, `thread_id` | create and join threads, run a command | hand-over of thread ids, barrier against late threads, stale `command` after an invalid line | each command once, barriers hold, the file ends |
| process pool (`p1/main.c`) | number of children | fork, wait | limit, failed fork | never more than the limit, none left behind |

How the server's parts interact: the host reads connections from the server's
FIFO and enqueues them; a worker dequeues one, answers the setup and then serves
that client until it quits: it reads a request, calls an operation of the store,
writes the answer to the client's response pipe, and opens the request pipe once
more before the next read, so that it sleeps there while the client has nothing
to say. The host shares the store with the workers when it prints the dump.

`PROJECT.json` lists the components with their status, every hazard at its line
with the properties that watch it, and for every definition the lines it models.

## Modules

| module | models | refines |
|---|---|---|
| `EventStore` | what the server's operations promise a session | |
| `EmsOperations` | `server/operations.c`, `eventlist.c`, the SHOW handler's reading of the seats | `EventStore` |
| `BoundedFifo` | a bounded queue with atomic enqueue and dequeue | |
| `PcQueue` | `producer-consumer.c` with `locks.c` | `BoundedFifo` |
| `PipeSession` | `client/main.c`, the outcomes of `client/parser.c`, `api.c`, the worker loop of `server.c`, the pipes in `workers.c` | |
| `PipeIo` | `pipe_print` and `pipe_parse` of `common/io.c` on one pipe | |
| `ServerHost` | `main`, the signal handlers and `server_close` of `server.c`, with `ems_terminate`, `free_list`, `pcq_destroy` | |
| `BatchStore` | what the batch operations promise the commands of a file | |
| `BatchOperations` | `p1/operations.c` with the locks of `utils.c` | `BatchStore` |
| `JobRun` | what the batch program promises a `.jobs` file | |
| `JobThreads` | `p1/filehandler.c`, with the outcomes of `p1/parser.c` | `JobRun` |
| `JobPool` | the parent's loop of `p1/main.c` | |
| `MC...` | the instances TLC checks | |
| `EmsOperations_proofs`, `PcQueue_proofs`, `PipeSession_proofs`, `PipeIo_proofs`, `ServerHost_proofs`, `BatchOperations_proofs`, `JobThreads_proofs`, `JobPool_proofs` | theorems | |

### EmsOperations

A thread is a value of `Workers`, or `Host`. The list is the sequence `events`
with `reservations` and `data` beside it; a pointer to an event is its position,
`NULL` is 0. Locals of the C functions are functions of the thread. An action is
what a thread does between two points at which another thread can see or disturb
it: one lock operation each for `WrLock`, `RdLock`, `MutexLock`, which then name the
section they enter; the loop that checks the seats is one step (`Check`), because
it runs under the mutex and nobody writes seats without it, but the loop that
writes them is one step per seat (`WriteSeat`), because a SHOW reads the seats with
no lock, also one by one (`ReadSeat`). Unlocks belong to the step before them. The
out-of-memory returns of `ems_create` are one nondeterministic refusal. The host's
dump is `Dump`, `DumpNode` and, for each node, the steps of `ems_show`. A read-write
lock is the number of times each thread read-locked it and its writer; as with
glibc's default attributes, a reader waits for the writer inside and not for those
that wait. `floor` is a history variable: the seats when a SHOW was called.

`EventStore` says what that gives a session: CREATE, RESERVE and LIST happen at one
moment between request and answer, a RESERVE when it passes its check, and a SHOW
reports, for each seat, what it held when SHOW was called or what it holds now. The
weaker promise for SHOW is what the code implements. The stronger one that the comment
at the mutex suggests ("Mutex to protect the event", `eventlist.h`), an answer without
half of a reservation, does not hold: `get_event_info` hands out the pointer to the
seats and releases the mutex, and `ems_show_handler` reads them later.

### PcQueue

Producers and consumers run the same protocol on two sides, so an action takes the
thread and reads its side. One action per lock operation; `pcq_head_lock` and
`pcq_tail_lock` are only taken under `pcq_current_size_lock`, so `Store` and `Take`
contain them. `Wait` releases the condition's lock and joins `waiters` in one step,
`Signal` removes one waiter, `WakeUnasked` is the spurious wakeup POSIX allows, and
`Relock` takes the lock again. `buffer` starts with `None`, a value nobody enqueues,
for the cells `malloc` leaves undefined.

`ImplementsFifo` maps the buffer between head and tail to a sequence and the lock
steps to stutters; an element enters at `Store` and leaves at `Take`. `NoLostWakeup`
is the counting argument that makes one signal per element enough: while threads of
a side sleep, the places or elements available to it are at most the threads that
have pledged themselves to them, either threads of that side that are awake and have
not yet tested, or calls of the other side that have not yet signalled.

### PipeSession

A scenario says which clients run, on which `.jobs` file, with how many SIGINTs, and
which workers are free for them. A line of a file is its kind: a call, `"SKIP"` for a
line that calls nothing, `"SHORT"` for one that ends before its arguments do: the parse
functions notice at its end, and `cleanup` then reads the next line away (`Remaining`).

The kernel's FIFOs are part of the model: for each client the messages or words in
its two pipes and how often each end is open. An open of one end counts at once and
then blocks until the other end is open (`"opening_..."`); whoever opens the other
end moves the sleeper on. Reads block while there are writers and nothing to read,
and see the end of file when there are no writers. What is in a pipe is lost when
its last end closes (`Kept`). A write without readers is lost and looks like success,
because SIGPIPE is ignored and `pipe_print` counts a failed write as progress. One
message is one write, as it is in the code. A response is one word, the result, and
for SHOW and LIST a second, the body.

Client actions follow `api.c` line by line: open, write and close the request pipe,
open the response pipe, read, close, return; SHOW and LIST return without the close
on the paths where the code does. Workers follow the loop of
`process_incoming_requests`, with the second open of the request pipe per request
(`OpenTmpPipe`, `CloseTmpPipe`). Every call carries a number, which the program does
not have, and which lets the properties say whose answer a call got. The first SIGINT
(`Sigint`) makes an open or a read that sleeps fail and changes nothing else, since
nobody reads `shutdown_signaler`; the second finds no handler and ends the client
anywhere, inside a call too (`Killed`).

The model leaves out: the failure of LIST for lack of memory, after which the server
sends values it never set; a client that dies between two parts of one write; two
clients that choose the same pipe names.

### PipeIo

One pipe, its writer in `pipe_print` and its reader in `pipe_parse`, for the three kinds
of message: a connection (client to host), a request (client to worker), an answer
(worker to client). A message is the offsets at which
`create_message` ends its fields. Bytes are numbered, so that the pipe is two counters
and a buffer can be compared with the stream. A write of at most `PIPE_BUF` bytes is done at once or
sleeps, a longer one is split at will; a read returns what there is. Both totals are
`size_t`: the -1 of a failed or interrupted call is added modulo `SIZE` (`Add`). Who can
be interrupted follows from the masks: workers block SIGUSR1, the host and the clients
do not. After a failure the host reads on if it was at an op code (`NextField`); everybody
else closes.

### ServerHost

The host's loop is a place per statement that a signal can come between: the test of
the flag, the dump, the two calls of `signal`, the reset, the read, the enqueue. The
queue is a sequence and an enqueue or dequeue one step with the sleep before it (what
`PcQueue` implements); an operation of a session is one critical section on the list, with
or without one under the mutex of an event after it. The dump has the list locked for
reading from `BeginDump` to `EndDump` and waits in `LockShown` for the mutex of the event
that workers lock in `LockEvent`: one event stands for those both can want. `Sigusr1` runs in the host, or in a worker that has not blocked
the signal yet; with `-std=c17` `signal` is the System V one, so the handler is removed
when it is called (`armed`), a sleeping read of the host fails, and the next signal
before a new setup ends the process (`Kill`). `Sigint` starts `server_close` on top of
whatever the thread does, and `closing` is where that has come to; each step of it is an
action, and so is the failure of each. Memory that has been freed may be used as if it
were alive or end the process (`UsesFreed`, `Crash`).

`asked` and `forgotten` are history: whether a dump is due, whether it may wait for the
next connection (the signal came between the test and the read, or to a worker), and
whether a signal fell between a setup and the reset of the flag.

A worker that has a client goes on when the client does, so `LockList` and `EndSession`
(`SessionRuns`) are not fair: a session may last for ever, as it does when a client leaves
without QUIT and the worker sleeps in an open. What the properties say of connections and
dumps holds unless all workers stay in their sessions (`InSessions`).

### JobPool

The parent of the batch program. `Waits` is the condition of both loops around `wait`;
`WaitsAtLeast`, its mutant, is the more cautious `>=`, which makes a negative argument
wait for ever where `==` makes it no limit. A child runs until it exits and, if its file
has a line on which the parser spins (`JobThreads`), never does (`endless`). A failed
fork ends the parent and leaves its children.

### BatchOperations

The threads of one child execute commands. `lock_list` is write-locked by CREATE and
RESERVE and read-locked by SHOW and LIST for their whole duration, so that under the
write lock one step is all a thread does up to the next lock operation, except in the
loop of RESERVE: `TakeSeat` takes one seat after another, `Refuse` is the failing
iteration with the whole rollback. SHOW and LIST write their output word by word
(`Write`), and any write may fail (`WriteFails`), including the one after the last
word. A seat list that names a seat twice is refused here, where the server accepts
it: the second visit finds the seat taken by the first.

`BatchStore` says that each command happens at one moment and prints in one piece;
a command whose write failed prints a part. The refinement hides the reservation that
is being taken and the block that is being printed until they are complete.

### JobThreads

The host creates the threads of a file (`LockToCreate`, and `CreateThread`, which writes
the number for the next thread into the shared `thread_id`), joins them, and starts over if
none has seen the end of the file. A thread takes `file_mutex` (`Lock`), reads a line
(`Begin` for its first, `More` for the others, after it has slept and looked at
`BARRIER`), and releases the mutex when the line is parsed. What a command does is in
`BatchOperations`; here it begins and ends. A line is its kind. Locals that the code
reads before it writes them (`threads_that_need_wait`, `thread_id_wait`, the array
`wait_time`) may hold any value of a small set. The number of a WAIT is an `unsigned int`
that the code compares as an `int` (`ToInt`): `SetWait` applies those in the range, and for
one that is negative the write outside `wait_time` does nothing that is modelled, or ends
the program (`Crash`).

After a line that does not parse, the loop continues with the same command and without
the mutex: `Reparse` takes the following lines for arguments, and `ReparseAtEof` is the
spin at the end of the file, which only a SHOW or a WAIT can leave. Each of them unlocks
the mutex, whoever has it (`Unlock`; `stolen` records that another had it). Its thread now
reads beside others, byte by byte, so that two can get parts of one line: `mixed` becomes
true when that happens (`Mix`, possible when `Beside` says that another reads too), and
from there on a thread may land at any later line (`Lands`), take it for any kind of line
(`Reads`), and parse on as it likes (`ReparseMixed`). The kernel's offset only grows and
every read takes the end of a line with it, which is what `Lands` still bounds. A file may
be run by no thread at all, as the arguments allow. Left out: a `pthread_create` that
fails, and lines that begin with a digit.

`JobRun` says that the commands before the first line that does not parse begin once each
and in order, one at a time in each thread, that behind it anything may begin, and that the
program is over after the last has ended, or earlier only when it crashes: behind such a
line, or at a WAIT whose number is not set or negative as an `int`. Barriers are no part of
it: what holds of them is `BarrierStops`, for those that stand before any such line, and what
the tests need of them, `BarrierHolds`, does not (`job_barrier`).

## Runs

| run | instance | shows |
|---|---|---|
| `ems_store` | two workers and the host, two ids, two seats, a reservation of both seats (last first) and one that is refused at its second seat; workers are symmetric | types, locks, unique ids, final seats, whole reservations and dumps, and `ImplementsStore` |
| `ems_operations_end` | the same with one id, under fairness | RESERVE, SHOW, LIST and dumps end |
| `pc_queue` | the host and two workers, two elements, two places, under fairness | locks, `NoLostWakeup`, FIFO behaviour, and that who can be served is |
| `pipe_session` | eight scenarios: one client with files of up to five calls, lines cut short and up to two SIGINTs; two clients and two workers, under fairness | order of execution and of answers, sessions apart, and that a call returns or is stuck in one of three named ways |
| `pipe_answer_of_another` (violated) | one client, three CREATEs | a call gets the answer of an earlier call |
| `pipe_io` | messages of one field and of three or four, `PIPE_BUF` 4, a pipe of 6 bytes, `SIZE` 16, three messages, two interruptions on each side, under fairness | a successful parse has its bytes, a failed one took none; a print is all or nothing and ends |
| `server_host` | the host and a worker, three connections, one place, two signals of each kind, under fairness that does not end sessions | connections in order and served, the handler of SIGUSR1, dumps after signals, the list freed under its lock, the end of a close, each with the exceptions below |
| `server_close` (violated) | one connection | a SIGINT while a worker is idle ends in a failure and leaves the FIFO |
| `job_pool` | four files and another entry, arguments from -1 to 2, under fairness | the count, the bound, every file served, the end |
| `batch_operations` | two threads, two ids, four commands, under fairness | locks, numbering, atomic commands with unmixed output, and that commands end |
| `job_threads` | up to three threads; files with two barriers, with waits for all, for one, without a number and with one above `IntMax`, with a malformed line of each kind on one, two and three threads, before and behind a barrier, and one without threads; under fairness | types, the mutex, commands once and in order, the end of the file, and that only a thread's first line passes a barrier |
| `job_barrier` (violated) | three threads on the shape of `student-tests/1.jobs` | a command behind a barrier runs beside one before it |

The bounds. Seats matter only through whether two requests want the same one and
whether a reservation has more than one: two seats give both. Two events give a dump
a second node and a lookup a second candidate. Two workers give every race between
two sessions, and with the host there are three threads on the locks. A queue of two
places is empty, half full and full and wraps after two elements; two sleepers on one
side is what a lost signal needs. An answer that is missed is seen by the call after
it, and a body left in the pipe by the one after that: four calls show both. In the
batch program a race needs a CREATE, a first RESERVE, and two commands that overlap.
A barrier is passed by three threads: one before it, one that reads it, one behind it.
In the host loop one worker and a queue of one place let the host sleep before a full
queue with the third client, one worker and the host are what it takes for the list's lock
and an event's mutex to be held crosswise, and two signals of a kind for one to arrive
while the other is handled. Three threads on a malformed line are one that parses without
the mutex, one whose hold it releases, and one that then comes in beside it; `IntMax` 3
makes 5 a negative number.
Four files with at most two processes fill the pool and leave files to wait for a
place; the arguments go from -1 to 2 because zero and a negative number are legal
input. A pipe of six bytes takes some messages whole and makes the writer of others
wait, and three messages and two interrupts put a cut message before a whole one.
Where a theorem is listed it holds without these bounds.

Deadlock is checked where threads always have something to do, and not where clients
leave or a file ends (`CHECK_DEADLOCK FALSE`); there the liveness properties say what
must still happen.

### Fairness

A thread that can take a step on its own takes it eventually: weak fairness, from the
scheduler. A lock that becomes free again and again is eventually granted to a thread
that waits for it: strong fairness of the lock actions of `EmsOperations` and
`PcQueue`. Nothing is assumed of callers: no client has to make a next call, and no
sleeper has to wake without a signal. There is no strong fairness for the write lock
of the list in `EmsOperations`, since the default lock prefers readers, and
`OperationsEnd` claims nothing for CREATE. In the other modules weak fairness is enough: a
pipe has one reader and one writer, a file ends, a queue has one host before it, and
`ServerHost` and `JobPool` claim nothing of a thread that could be passed over. No signal
has to come, no client has to connect, to read, to go on or to leave, so that no session of
`ServerHost` has to end, and a child of `JobPool` that spins
never exits.

### What goes wrong

Three properties that the repository states do not hold; their runs are violated.

* **Another call's answer** (`pipe_answer_of_another`). Between the client's read of an
  answer and the worker's close of its end, the client can come back with the next call;
  it finds the end still open, then the end of file, and fails, and its answer stays for
  a later call.
* **A barrier that does not hold** (`job_barrier`). A thread reads its first line without
  a look at `BARRIER`. One that starts after another has read the barrier executes a
  command behind it, while a third is still at a command before it.
* **A close that fails** (`server_close`). `pcq_destroy` destroys the mutexes of conditions
  on which idle workers sleep; `mutex_destroy` fails and exits with a failure before the
  server's pipe is closed and unlinked.

Others are the exceptions that properties which do hold name. The first three also are at
odds with what the code says of itself.

* `SignalSetUp`: "setup again to make sure the signal is still setup correctly"
  (`server.c:79`) is not what happens to a SIGUSR1 between this setup and the reset of the
  flag at line 80 (`forgotten`): its handler is gone, no dump follows, and the next one ends
  the server.
* `MutexHeld`, `ImplementsJobRun`: "lock before getting next command" (`filehandler.c:262`)
  does not hold behind a command that does not parse: its `continue` (line 152) parses
  without the mutex beside another thread and then unlocks that thread's.
* `PoolBounded`: the parent waits at `max_proc + 1` (`main.c:86`), so one child more runs
  than "<max processes>" of the usage text (line 21) says.
* `CallsReturn`: a call can hang because its worker missed its request (after each answer
  the worker opens the request pipe again and waits for a writer, and a fast client has
  already opened, written and closed it), because it misses its answer (an earlier LIST or
  refused SHOW left its `response_fd` open, so that the answer is written and its writer
  gone before the client opens the pipe), or because a SIGINT let it go on without a
  worker. There is no fourth way.
* `ExecutedInOrder`: the call after a line that is cut short is not made.
* `DumpFollows`: a SIGUSR1 between the test of the flag and the read waits for the next
  connection. From the signal that asks for a dump to the setup after it there is no
  handler, and a second one ends the server. A host that sleeps before a full queue dumps
  when a session ends, if one does.
* `ConnectionsServed`: a connection waits for ever if all workers stay in their sessions,
  which a client that leaves without QUIT is enough for.
* `CloseEnds`: a SIGINT that reaches a thread inside the list's read lock waits for itself.
  One that reaches a worker with the mutex of an event (`operations.c:137-172`) waits for
  the list (line 52), while the dump has the list and waits for that mutex (line 239).
* `ParseIsWhole`: an interruption in the middle of an answer that `PIPE_BUF` does not hold
  tears the field; a whole message is never torn.
* `JobEnds`: with no threads the host creates none and joins none for ever; a thread that
  parses on at the end of the file may spin.
* `ImplementsJobRun`: behind a malformed line anything may begin, and a WAIT with a number
  above the largest `int`, or with none, may end the program.
* `ImplementsStore`: the answer to a SHOW may mix the seats of several moments.

## Proofs

Every theorem is for any number of threads and any values of the constants, under the
named assumptions of the modules: the host is not a worker, ids and dimensions are
naturals, the markers for "nobody" are not threads, the numbers of clients and signals are
natural; for the queue finitely many threads and a capacity of at least one; for the job
files that a file is a finite sequence of lines, that its threads are at most `MaxThreads`,
which an `int` holds, and that the number of a WAIT is an `unsigned int`; for a pipe that its fields are not empty, that a pipe holds
`PIPE_BUF` bytes and that a length is below the largest `size_t`.

Every safety invariant and every refinement that a run checks is proved, and so are the
action properties. The proofs go the same way: an inductive invariant, one lemma per
conjunct or action that disturbs it, lemmas that say what a step of one thread leaves to
the others; for a refinement, one lemma per action that says which abstract step it is.

* `EmsOperations_proofs`, the types and the locks. The invariant is `TypeOK` and
  `LocksHeld` together with what connects a thread's place to its request and its event: a
  thread inside an operation has the request that leads there, and one past the lookup has
  an event of the list. None of the three is inductive alone: that a mutex names its holder
  needs the event, the event's range needs the type of the list, and that an append is
  safe needs the write lock. From it: `TypeCorrect`, `LocksCorrect`.
* The same module, the reservations. On top of it, what a reservation in progress knows:
  the seats still to be written are free or carry its own id, its id is the current count,
  and no seat carries a number above the count. That a seat is never written twice
  follows because the writer holds the mutex since its check. From it: `IdsAreUnique`,
  `ReservedSeatsAreFinal`, `ReservationsAreWhole`.
* The same module, the views. `ViewInv` adds what a reader has read so far: the event it
  serves is the one its request names (`Serving`), a seat that was booked when a SHOW was
  called still is (`FloorKept`) and is written once the SHOW has had the mutex
  (`Settled`), so that each seat it has read is as it was then or as it is now
  (`Reading`); and the host prints under the event's mutex, where no writer is between two
  seats (`Printing`). What holds it
  together is that a booked seat stays booked (`BookedStays`): `Booked`, the seats with
  those that the present writer has checked and not yet written, changes in one step, when
  the check succeeds. From it: `DumpsAreWhole`, and `StoreImplemented`, where an
  `EventStore` call begins at `Call`, CREATE happens at `AppendToList` or where it is
  refused, RESERVE at the check or the failed lookup, SHOW where it returns, LIST at
  `GetEvents`; every other step, and every step of the host, is a stutter.
* `PcQueue_proofs`. The invariant ties `tail` to `head` and the number of elements
  modulo the capacity, which together with the locks gives each step of the circular
  buffer its step of the sequence: `FifoImplemented`. `WakeupsAreKept` needs a count:
  each step changes what is available to a side and the set of those pledged to it by
  at most one, and the lemmas on `Cardinality` compare the two. The argument needs
  that threads are finitely many. Also `TypeCorrect`, `LocksCorrect`.
* `PipeSession_proofs`. `SessionsApart` is inductive with the types once it says, place by
  place, which ends a worker and its client have open. `ExecutedCorrect` adds
  `RequestsInv`: the executed requests, the one a worker has taken and those in the pipe
  are, in this order, calls of the client's file, each with its operation and after the
  one before it; while the session lasts only a SIGINT keeps a call from that sequence;
  and the calls made are those of the lines read. `AnswersCorrect` adds `AnswersInv`: the
  answers returned, in the client's hands, in the pipe and in the worker's are of executed
  requests, in their order, and none is of a call not made yet.
  The calls of a file are a function of its lines
  (`CallLines`) and not a recursive operator, for the sake of these proofs.
* `PipeIo_proofs`. A total that is not -1 is what the call has transferred. A message that
  `PIPE_BUF` holds is put in whole, so that what was written is a multiple of its length
  and the reader is in one field of one message; an interruption finds the pipe empty, a
  multiple of the length, and therefore never the middle of a field. From it:
  `TypeCorrect`, `ParseCorrect`, `PrintCorrect`.
* `ServerHost_proofs`. A step either moves a connection along the line of workers, queue,
  host and FIFO, or changes neither the line nor whether the host holds a connection
  (`StepsStay`); the four moves leave the line as it is but for the new client at its end:
  `TypeCorrect`, `OrderCorrect`. `HandlerCorrect` adds that at the reset of the flag the
  handler is set up or the signal is one that is forgotten. `FreeCorrect` adds that a
  thread between the write lock and `free_list` has the list alone, and that a thread
  further on in `server_close` has freed it.
* `BatchOperations_proofs`. The invariant has the types, where each command can be, who
  holds which lock, and what a RESERVE in progress has done: the number it took is the
  count, the seats it took carry that number and nobody else's, and a refusal gives back
  one after the other. From it: `TypeCorrect`, `LocksCorrect`, `NumbersCorrect`. For
  `BatchStoreImplemented` it adds that ids are unique, that what a lookup found is the
  event of that id, and that the output ends with the block that is being printed: a
  CREATE happens at `Create`, a RESERVE when its last seat is taken or it is refused, a
  SHOW and a LIST when their block is printed or a write fails; the rest stutters.
* `JobThreads_proofs`. No assumption is made on what the lines are or how many threads read
  them. The invariant ties the threads that exist to the host's place (`Placed`), and says
  of the reading (`Reading`) that bytes are mixed and that a thread parses without the mutex
  only behind a malformed line; until one has been read whoever is inside is alone
  (`AloneInside`), and no hold is released by another (`MutexHeld`). From it:
  `TypeCorrect`, `MutexCorrect`. `BarriersStop` adds that, while a command before a
  barrier that has been read is executed, `BARRIER` is set or the thread that read the
  barrier is still to set it (`Stopping`), and that who then reads on has just started
  (`Latecomers`). For a barrier with no malformed line before it both survive the mixing
  behind: a thread reads what comes after its last line, wherever it lands.
  `JobRunImplemented` adds that a thread leaves with 1 at the end of the file only
  (`ReachedEnd`) and that whoever handles a WAIT has read one with that number, or a
  malformed line (`WaitRead`), so that a `Crash` is one `JobRun` allows: a read of a command
  before any malformed line is `Begin`, of another line `Pass`, what becomes a command
  behind one is `BeginSpoilt`, the end of a command is `Finish`, `Close` is `End`.
* `JobPool_proofs`. The invariant counts: the children not waited for, with the file in the
  parent's hands, are as many as `active_processes` says, which is at most `max_proc` when
  the parent reads the directory; a file without a child is still ahead. From it:
  `TypeCorrect`, `CountCorrect`, `BoundCorrect`. It needs that the directory is finite.

Only model-checked: everything about liveness, which is out of the prover's reach
(`OperationsEnd`, `WaitingIsServed`, `CallsReturn`, `ConnectionsServed`, `DumpFollows`,
`CloseEnds`, `PrintEnds`, `PoolProgresses`, `CommandsEnd`, `JobEnds`).

## Not modelled, and the plan

What is left to prove: the safety a liveness property rests on, such as that some thread
inside an operation can always take its next step.

Not modelled:

* what undefined values do: the failure of LIST for lack of memory, the `break` after
  which a RESERVE cut short by a dying client runs on freed arrays, what a write outside
  `wait_time` destroys short of a crash, the product of rows and columns that wraps in the batch program's `malloc`;
* parsing and printing beyond the outcomes `JobThreads` and `PipeSession` have (`parser.c`
  of both programs, `parse_uint`, `print_event`, `print_ids`), which are sequential and
  share nothing;
* failures of `server_init` and `pcq_create`, which end the program before it serves
  anybody;
* the makefiles, scripts, job files and expected results.
