---------------------------- MODULE EmsOperations ----------------------------
(***************************************************************************)
(* The state of the EMS server and the operations its threads run on it    *)
(* (src/p2/server/operations.c, eventlist.c, the SHOW handler of           *)
(* workers.c): the list of events under a reader-writer lock, the seats of *)
(* each event under a mutex of its own.  The worker threads serve CREATE,  *)
(* RESERVE, SHOW and LIST requests; the host thread prints every event     *)
(* after a SIGUSR1.  One action is what a thread does between two points   *)
(* at which another thread can see or disturb it.                          *)
(***************************************************************************)
EXTENDS Integers, Sequences, FiniteSets

CONSTANTS
  Workers,      \* the threads that serve the sessions
  Host,         \* the thread that serves SIGUSR1
  EventIds,     \* the event ids clients name
  Dims,         \* the <<rows, cols>> clients create events with
  SeatLists,    \* the lists of <<row, col>> clients reserve, in and out of bounds
  NoThread      \* the holder of a lock that is free

ASSUME HostAssumption == Host \notin Workers
ASSUME EventIdsAssumption == EventIds \subseteq Nat
ASSUME DimsAssumption == Dims \subseteq Nat \X Nat
ASSUME SeatListsAssumption == SeatLists \subseteq Seq(Nat \X Nat)

Threads == Workers \cup {Host}

ASSUME NoThreadAssumption == NoThread \notin Threads

Requests ==
  [op : {"CREATE"}, id : EventIds, dim : Dims]
    \cup [op : {"RESERVE"}, id : EventIds, seats : SeatLists]
    \cup [op : {"SHOW"}, id : EventIds]
    \cup [op : {"LIST"}]

NoRequest == [op |-> "NONE"]

VARIABLES
  \* the list, by position; a pointer to an event is its position, 0 is NULL
  events,       \* id, rows and cols of each event, which never change
  reservations, \* the number of reservations made in each event
  data,         \* the seats of each event: 0, or the reservation that took it
  mutex,        \* the thread that holds the mutex of each event
  readers,      \* how many times each thread read-locked the list
  writer,       \* the thread that write-locked the list
  \* the locals of each thread
  pc,           \* what it does next
  req,          \* the request it serves
  event,        \* the event it looked up
  i,            \* how many of its seats it has reserved
  rid,          \* its reservation_id
  view,         \* the seats, or the ids, that it has read
  res,          \* the result it returns
  node,         \* the node at which the host's dump is, 0 before the first
  floor         \* history: every event's seats when a SHOW was called

list   == <<events, reservations, data>>
locks  == <<mutex, readers, writer>>
locals == <<req, event, i, rid, view, res>>
vars   == <<events, reservations, data, mutex, readers, writer,
            pc, req, event, i, rid, view, res, node, floor>>

------------------------------------------------------------------------------
\* eventlist.c

(* get_event: the first node with that id.                                 *)
get_event(id) ==
  LET hits == {e \in 1 .. Len(events) : events[e].id = id}
  IN  IF hits = {} THEN 0 ELSE CHOOSE e \in hits : \A f \in hits : e <= f

seat_index(e, seat) == (seat[1] - 1) * events[e].cols + seat[2] - 1

Seats(e) == 0 .. events[e].rows * events[e].cols - 1

InBounds(e, seat) == /\ seat[1] \in 1 .. events[e].rows
                     /\ seat[2] \in 1 .. events[e].cols

(* The seats t is reserving, as indices into data.                         *)
Wanted(t) == {seat_index(event[t], req[t].seats[j]) : j \in 1 .. Len(req[t].seats)}

(* The seats as the reservations that passed their check leave them.       *)
Booked(e) ==
  [s \in DOMAIN data[e] |->
     IF \E t \in Workers : pc[t] = "write" /\ event[t] = e /\ s \in Wanted(t)
     THEN reservations[e] ELSE data[e][s]]

BookedSeats == [e \in DOMAIN data |-> Booked(e)]

------------------------------------------------------------------------------
Init ==
  /\ events = <<>>
  /\ reservations = <<>>
  /\ data = <<>>
  /\ mutex = <<>>
  /\ readers = [t \in Threads |-> 0]
  /\ writer = NoThread
  /\ pc = [t \in Threads |-> "idle"]
  /\ req = [t \in Threads |-> NoRequest]
  /\ event = [t \in Threads |-> 0]
  /\ i = [t \in Threads |-> 0]
  /\ rid = [t \in Threads |-> 0]
  /\ view = [t \in Threads |-> <<>>]
  /\ res = [t \in Threads |-> 0]
  /\ node = 0
  /\ floor = [t \in Workers |-> <<>>]

Goto(t, from, to) == pc[t] = from /\ pc' = [pc EXCEPT ![t] = to]

(* A request reaches the operation that serves it.                         *)
Call(t, r) ==
  /\ Goto(t, "idle", IF r.op = "CREATE" THEN "wrlock" ELSE "rdlock")
  /\ req' = [req EXCEPT ![t] = r]
  /\ floor' = [floor EXCEPT ![t] = IF r.op = "SHOW" THEN BookedSeats ELSE <<>>]
  /\ UNCHANGED <<list, locks, event, i, rid, view, res, node>>

(* The answer goes out and the thread is ready for the next request.       *)
Reply(t) ==
  /\ Goto(t, "reply", "idle")
  /\ req' = [req EXCEPT ![t] = NoRequest]
  /\ event' = [event EXCEPT ![t] = 0]
  /\ i' = [i EXCEPT ![t] = 0]
  /\ rid' = [rid EXCEPT ![t] = 0]
  /\ view' = [view EXCEPT ![t] = <<>>]
  /\ res' = [res EXCEPT ![t] = 0]
  /\ floor' = [floor EXCEPT ![t] = <<>>]
  /\ UNCHANGED <<list, locks, node>>

------------------------------------------------------------------------------
\* The locks.  A reader waits for the writer that has the lock and not for
\* those that wait for it, and may read-lock again (pthread_rwlock_init with
\* the default attributes).

\* Mutant: ems_create read-locks the list.
RdLockToCreate(t) ==
  /\ Goto(t, "wrlock", "create")
  /\ UNCHANGED <<list, locks, locals, node, floor>>

WrLock(t) ==
  /\ Goto(t, "wrlock", "create")
  /\ writer = NoThread
  /\ \A u \in Threads : readers[u] = 0
  /\ writer' = t
  /\ UNCHANGED <<list, mutex, readers, locals, node, floor>>

AfterRdLock(t) ==
  CASE req[t].op = "LIST" -> "walk"
    [] req[t].op = "DUMP" /\ node = 0 -> "dump"
    [] OTHER -> "lookup"

RdLock(t) ==
  /\ Goto(t, "rdlock", AfterRdLock(t))
  /\ writer = NoThread
  /\ readers' = [readers EXCEPT ![t] = @ + 1]
  /\ UNCHANGED <<list, mutex, writer, locals, node, floor>>

AfterMutexLock(t) ==
  CASE req[t].op = "RESERVE" -> "check"
    [] req[t].op = "SHOW" -> "info"
    [] OTHER -> "print"

\* Mutant: ems_show prints without the mutex.
MutexLockNotToPrint(t) ==
  /\ Goto(t, "mutex", AfterMutexLock(t))
  /\ t = Host \/ mutex[event[t]] = NoThread
  /\ mutex' = [mutex EXCEPT ![event[t]] = IF t = Host THEN @ ELSE t]
  /\ UNCHANGED <<list, readers, writer, locals, node, floor>>

\* Mutant: get_event_info reads the event's fields without the mutex.
MutexLockNotToShow(t) ==
  /\ Goto(t, "mutex", AfterMutexLock(t))
  /\ req[t].op = "SHOW" \/ mutex[event[t]] = NoThread
  /\ mutex' = [mutex EXCEPT ![event[t]] = IF req[t].op = "SHOW" THEN @ ELSE t]
  /\ UNCHANGED <<list, readers, writer, locals, node, floor>>

MutexLock(t) ==
  /\ Goto(t, "mutex", AfterMutexLock(t))
  /\ mutex[event[t]] = NoThread
  /\ mutex' = [mutex EXCEPT ![event[t]] = t]
  /\ UNCHANGED <<list, readers, writer, locals, node, floor>>

------------------------------------------------------------------------------
(* ems_create, with the list write-locked: refuse an id that is taken ...  *)
Create(t) ==
  LET new == get_event(req[t].id) = 0
  IN  /\ Goto(t, "create", IF new THEN "append" ELSE "reply")
      /\ writer' = IF new THEN t ELSE NoThread
      /\ res' = [res EXCEPT ![t] = IF new THEN 0 ELSE 1]
      /\ UNCHANGED <<list, mutex, readers, req, event, i, rid, view, node, floor>>

(* ... or append an event with an empty room, unless memory runs out.      *)
AppendToList(t) ==
  /\ Goto(t, "append", "reply")
  /\ writer' = NoThread
  /\ \/ LET rows == req[t].dim[1]
            cols == req[t].dim[2]
        IN  /\ events' = Append(events, [id |-> req[t].id, rows |-> rows, cols |-> cols])
            /\ reservations' = Append(reservations, 0)
            /\ data' = Append(data, [s \in 0 .. rows * cols - 1 |-> 0])
            /\ mutex' = Append(mutex, NoThread)
            /\ UNCHANGED res
     \/ /\ res' = [res EXCEPT ![t] = 1]
        /\ UNCHANGED <<list, mutex>>
  /\ UNCHANGED <<readers, req, event, i, rid, view, node, floor>>

\* Mutant: the list is unlocked a second time where the event is not found.
LookupUnlocksTwice(t) ==
  LET e == get_event(req[t].id)
  IN  /\ Goto(t, "lookup", IF e # 0 THEN "mutex" ELSE IF t = Host THEN "dump" ELSE "reply")
      /\ event' = [event EXCEPT ![t] = e]
      /\ res' = [res EXCEPT ![t] = IF e = 0 THEN 1 ELSE 0]
      /\ readers' = [readers EXCEPT ![t] = IF e = 0 THEN @ - 2 ELSE @ - 1]
      /\ UNCHANGED <<list, mutex, writer, req, i, rid, view, node, floor>>

(* ems_reserve, get_event_info, ems_show: find the event, let go the list. *)
Lookup(t) ==
  LET e == get_event(req[t].id)
  IN  /\ Goto(t, "lookup", IF e # 0 THEN "mutex" ELSE IF t = Host THEN "dump" ELSE "reply")
      /\ event' = [event EXCEPT ![t] = e]
      /\ res' = [res EXCEPT ![t] = IF e = 0 THEN 1 ELSE 0]
      /\ readers' = [readers EXCEPT ![t] = @ - 1]
      /\ UNCHANGED <<list, mutex, writer, req, i, rid, view, node, floor>>

\* Mutant: the refusal of a seat does not unlock the mutex.
CheckKeepsMutex(t) ==
  LET e == event[t]
      free == \A j \in 1 .. Len(req[t].seats) :
                LET seat == req[t].seats[j]
                IN  InBounds(e, seat) /\ data[e][seat_index(e, seat)] = 0
  IN  /\ Goto(t, "check", IF free THEN "write" ELSE "reply")
      /\ reservations' = [reservations EXCEPT ![e] = IF free THEN @ + 1 ELSE @]
      /\ rid' = [rid EXCEPT ![t] = IF free THEN reservations[e] + 1 ELSE 0]
      /\ res' = [res EXCEPT ![t] = IF free THEN 0 ELSE 1]
      /\ UNCHANGED <<mutex, events, data, readers, writer, req, event, i, view, node, floor>>

\* Mutant: the seats are checked against the bounds only.
CheckBoundsOnly(t) ==
  LET e == event[t]
      free == \A j \in 1 .. Len(req[t].seats) : InBounds(e, req[t].seats[j])
  IN  /\ Goto(t, "check", IF free THEN "write" ELSE "reply")
      /\ reservations' = [reservations EXCEPT ![e] = IF free THEN @ + 1 ELSE @]
      /\ rid' = [rid EXCEPT ![t] = IF free THEN reservations[e] + 1 ELSE 0]
      /\ mutex' = [mutex EXCEPT ![e] = IF free THEN @ ELSE NoThread]
      /\ res' = [res EXCEPT ![t] = IF free THEN 0 ELSE 1]
      /\ UNCHANGED <<events, data, readers, writer, req, event, i, view, node, floor>>

\* Mutant: event->reservations++ for ++event->reservations.
CheckPostIncrement(t) ==
  LET e == event[t]
      free == \A j \in 1 .. Len(req[t].seats) :
                LET seat == req[t].seats[j]
                IN  InBounds(e, seat) /\ data[e][seat_index(e, seat)] = 0
  IN  /\ Goto(t, "check", IF free THEN "write" ELSE "reply")
      /\ reservations' = [reservations EXCEPT ![e] = IF free THEN @ + 1 ELSE @]
      /\ rid' = [rid EXCEPT ![t] = IF free THEN reservations[e] ELSE 0]
      /\ mutex' = [mutex EXCEPT ![e] = IF free THEN @ ELSE NoThread]
      /\ res' = [res EXCEPT ![t] = IF free THEN 0 ELSE 1]
      /\ UNCHANGED <<events, data, readers, writer, req, event, i, view, node, floor>>

(* ems_reserve, with the mutex: refuse, or take the next reservation id.   *)
Check(t) ==
  LET e == event[t]
      free == \A j \in 1 .. Len(req[t].seats) :
                LET seat == req[t].seats[j]
                IN  InBounds(e, seat) /\ data[e][seat_index(e, seat)] = 0
  IN  /\ Goto(t, "check", IF free THEN "write" ELSE "reply")
      /\ IF free
         THEN /\ reservations' = [reservations EXCEPT ![e] = @ + 1]
              /\ rid' = [rid EXCEPT ![t] = reservations[e] + 1]
              /\ UNCHANGED <<mutex, res>>
         ELSE /\ mutex' = [mutex EXCEPT ![e] = NoThread]
              /\ res' = [res EXCEPT ![t] = 1]
              /\ UNCHANGED <<reservations, rid>>
      /\ UNCHANGED <<events, data, readers, writer, req, event, i, view, node, floor>>

(* One seat at a time: a SHOW that holds no lock can read in between.      *)
WriteSeat(t) ==
  /\ Goto(t, "write", "write")
  /\ i[t] < Len(req[t].seats)
  /\ i' = [i EXCEPT ![t] = @ + 1]
  /\ data' = [data EXCEPT
        ![event[t]][seat_index(event[t], req[t].seats[i[t] + 1])] = rid[t]]
  /\ UNCHANGED <<events, reservations, locks, req, event, rid, view, res, node, floor>>

ReserveReturn(t) ==
  /\ Goto(t, "write", "reply")
  /\ i[t] = Len(req[t].seats)
  /\ mutex' = [mutex EXCEPT ![event[t]] = NoThread]
  /\ UNCHANGED <<list, readers, writer, locals, node, floor>>

(* get_event_info copies the pointer to the seats and lets the mutex go ... *)
GetEventInfo(t) ==
  /\ Goto(t, "info", "read")
  /\ mutex' = [mutex EXCEPT ![event[t]] = NoThread]
  /\ UNCHANGED <<list, readers, writer, locals, node, floor>>

(* ... and ems_show_handler, like ems_show with the mutex, reads them one  *)
(* at a time.  A word is read whole: a read is of the old seat or the new. *)
ReadSeat(t) ==
  /\ pc[t] \in {"read", "print"}
  /\ Len(view[t]) < events[event[t]].rows * events[event[t]].cols
  /\ view' = [view EXCEPT ![t] = Append(@, data[event[t]][Len(view[t])])]
  /\ UNCHANGED <<list, locks, pc, req, event, i, rid, res, node, floor>>

ReadWhole(t) == Len(view[t]) = events[event[t]].rows * events[event[t]].cols

ShowReturn(t) ==
  /\ Goto(t, "read", "reply")
  /\ ReadWhole(t)
  /\ UNCHANGED <<list, locks, locals, node, floor>>

(* get_events: the ids in list order.                                      *)
GetEvents(t) ==
  /\ Goto(t, "walk", "reply")
  /\ view' = [view EXCEPT ![t] = [e \in 1 .. Len(events) |-> events[e].id]]
  /\ readers' = [readers EXCEPT ![t] = @ - 1]
  /\ UNCHANGED <<list, mutex, writer, req, event, i, rid, res, node, floor>>

------------------------------------------------------------------------------
\* ems_list_events: the host holds the list read-locked for the whole dump
\* and ems_show read-locks it again for every event.

Dump ==
  /\ Goto(Host, "idle", "rdlock")
  /\ req' = [req EXCEPT ![Host] = [op |-> "DUMP"]]
  /\ UNCHANGED <<list, locks, event, i, rid, view, res, node, floor>>

\* Mutant: the dump does not go on to the next node.
DumpNodeAgain ==
  /\ Goto(Host, "dump", "rdlock")
  /\ node < Len(events) \/ node # 0
  /\ node' = IF node = 0 THEN 1 ELSE node
  /\ req' = [req EXCEPT ![Host] = [op |-> "DUMP", id |-> events[node'].id]]
  /\ UNCHANGED <<list, locks, event, i, rid, view, res, floor>>

DumpNode ==
  /\ Goto(Host, "dump", "rdlock")
  /\ node < Len(events)
  /\ node' = node + 1
  /\ req' = [req EXCEPT ![Host] = [op |-> "DUMP", id |-> events[node + 1].id]]
  /\ UNCHANGED <<list, locks, event, i, rid, view, res, floor>>

(* ems_show has printed the event and returns.                             *)
PrintReturn ==
  /\ Goto(Host, "print", "dump")
  /\ ReadWhole(Host)
  /\ mutex' = [mutex EXCEPT ![event[Host]] = NoThread]
  /\ event' = [event EXCEPT ![Host] = 0]
  /\ view' = [view EXCEPT ![Host] = <<>>]
  /\ UNCHANGED <<list, readers, writer, req, i, rid, res, node, floor>>

DumpReturn ==
  /\ Goto(Host, "dump", "idle")
  /\ node = Len(events)
  /\ node' = 0
  /\ readers' = [readers EXCEPT ![Host] = @ - 1]
  /\ req' = [req EXCEPT ![Host] = NoRequest]
  /\ UNCHANGED <<list, mutex, writer, event, i, rid, view, res, floor>>

------------------------------------------------------------------------------
Step(t) ==
  \/ WrLock(t) \/ RdLock(t) \/ MutexLock(t)
  \/ Create(t) \/ AppendToList(t) \/ Lookup(t)
  \/ Check(t) \/ WriteSeat(t) \/ ReserveReturn(t)
  \/ GetEventInfo(t) \/ ReadSeat(t) \/ ShowReturn(t)
  \/ GetEvents(t) \/ Reply(t)

HostStep == DumpNode \/ PrintReturn \/ DumpReturn

Next == \/ \E t \in Workers, r \in Requests : Call(t, r)
        \/ Dump
        \/ \E t \in Threads : Step(t)
        \/ HostStep

Spec == Init /\ [][Next]_vars

(* A thread that can run runs, and a lock that is free again and again is  *)
(* granted in the end to a thread that waits for it.                       *)
Fairness ==
  /\ \A t \in Threads : /\ WF_vars(Step(t))
                        /\ SF_vars(RdLock(t))
                        /\ SF_vars(MutexLock(t))
  /\ WF_vars(HostStep)

FairSpec == Spec /\ Fairness

------------------------------------------------------------------------------
Labels == {"idle", "wrlock", "create", "append", "rdlock", "lookup", "mutex", "check",
           "write", "info", "read", "print", "walk", "dump", "reply"}

EventRecords == [id : EventIds, rows : Nat, cols : Nat]

AllRequests == Requests \cup {NoRequest, [op |-> "DUMP"]} \cup [op : {"DUMP"}, id : EventIds]

Rooms == UNION {[0 .. d[1] * d[2] - 1 -> Nat] : d \in Dims}

ListTypeOK ==
  /\ events \in Seq(EventRecords)
  /\ reservations \in Seq(Nat) /\ Len(reservations) = Len(events)
  /\ data \in Seq(Rooms) /\ Len(data) = Len(events)
  /\ \A e \in 1 .. Len(events) : DOMAIN data[e] = Seats(e)
  /\ mutex \in Seq(Threads \cup {NoThread}) /\ Len(mutex) = Len(events)

ThreadTypeOK ==
  /\ pc \in [Threads -> Labels]
  /\ req \in [Threads -> AllRequests]
  /\ event \in [Threads -> 0 .. Len(events)]
  /\ i \in [Threads -> Nat]
  /\ rid \in [Threads -> Nat]
  /\ res \in [Threads -> {0, 1}]
  /\ node \in 0 .. Len(events)

ViewTypeOK ==
  /\ view \in [Threads -> Seq(Nat)]
  /\ floor \in [Workers -> Seq(Rooms)]

LockTypeOK ==
  /\ readers \in [Threads -> Nat]
  /\ writer \in Threads \cup {NoThread}

(* Every variable has its type and every event a room of its size.         *)
TypeOK ==
  /\ ListTypeOK
  /\ ThreadTypeOK
  /\ ViewTypeOK
  /\ LockTypeOK

MutexHeld ==
  \A e \in 1 .. Len(events), t \in Threads :
    mutex[e] = t <=> event[t] = e /\ pc[t] \in {"check", "write", "info", "print"}

WriterInside ==
  \A t \in Threads : writer = t <=> pc[t] \in {"create", "append"}

Dumping == pc[Host] # "idle" /\ ~ (pc[Host] = "rdlock" /\ node = 0)

ReadersInside ==
  \A t \in Threads :
    readers[t] = (IF pc[t] \in {"lookup", "walk"} THEN 1 ELSE 0)
                   + (IF t = Host /\ Dumping THEN 1 ELSE 0)

(* Whoever may be inside holds the lock, and nobody else does: a return    *)
(* that forgets an unlock, or an unlock too many, shows here.  The host    *)
(* holds the list once for its dump and again for each ems_show, and no    *)
(* reader is inside with a writer.                                         *)
LocksHeld ==
  /\ MutexHeld
  /\ WriterInside
  /\ ReadersInside
  /\ writer # NoThread => \A t \in Threads : readers[t] = 0

(* ems_create looks an id up and appends it in one hold of the write lock: *)
(* no two sessions create the same event.                                  *)
IdsUnique ==
  \A e, f \in 1 .. Len(events) : events[e].id = events[f].id => e = f

(* No step of any thread, for as long as the server runs, takes a seat     *)
(* from the reservation that has it: the check and the writes of           *)
(* ems_reserve are many steps, the sessions that race for a seat many.     *)
SeatsAreFinal ==
  [][\A e \in 1 .. Len(events) : \A s \in DOMAIN data[e] :
       data[e][s] # 0 => data'[e][s] = data[e][s]]_vars

(* When a RESERVE is answered with success the seats that carry its        *)
(* reservation id are those it asked for, all of them and no other.        *)
ReserveIsWhole ==
  \A t \in Workers :
    pc[t] = "reply" /\ req[t].op = "RESERVE" /\ res[t] = 0 =>
      {s \in DOMAIN data[event[t]] : data[event[t]][s] = rid[t]} = Wanted(t)

(* What the dump has printed of an event, when it is all printed, holds no *)
(* reservation in part: ems_show prints under the mutex.                   *)
DumpIsWhole ==
  pc[Host] = "print" /\ ReadWhole(Host) =>
    \A s \in DOMAIN data[event[Host]] : view[Host][s + 1] = Booked(event[Host])[s]

(* The event as a session sees it, and the answer it has been given.       *)
StoreEvent(e) ==
  [id |-> events[e].id, rows |-> events[e].rows, cols |-> events[e].cols,
   count |-> reservations[e], seats |-> Booked(e)]

Answer(t) ==
  [res |-> IF pc[t] = "write" THEN 0 ELSE IF pc[t] = "reply" THEN res[t] ELSE -1,
   view |-> IF pc[t] = "reply" THEN view[t] ELSE <<>>]

(* To a session the operations are those of EventStore: CREATE, RESERVE    *)
(* and LIST happen at one moment between request and answer, a RESERVE     *)
(* when it passes its check, and a SHOW misses no reservation that passed  *)
(* its check before the SHOW was called.                                   *)
Store == INSTANCE EventStore WITH
  store <- [e \in 1 .. Len(events) |-> StoreEvent(e)],
  call <- [t \in Workers |-> req[t]],
  answer <- [t \in Workers |-> Answer(t)]

ImplementsStore == Store!Spec

(* Every RESERVE, SHOW and LIST, and every dump, comes to its end: the     *)
(* host's second read lock of a list it has read-locked never waits for a  *)
(* CREATE that waits for the first.                                        *)
OperationsEnd == \A t \in Threads : pc[t] = "rdlock" ~> pc[t] = "idle"
===============================================================================
