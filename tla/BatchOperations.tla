--------------------------- MODULE BatchOperations ---------------------------
(***************************************************************************)
(* The operations of the batch program (src/p1/operations.c), which the    *)
(* threads of one .jobs file run on the events of their process: the list  *)
(* under a reader-writer lock, each event under one of its own, and the    *)
(* output file under a mutex.  A RESERVE takes its seats one by one and    *)
(* gives them back when it meets one it cannot have.  One action is what a *)
(* thread does between two points at which another thread can see or       *)
(* disturb it: under the write lock of the list that is all it does        *)
(* between two lock operations, except in the loop of RESERVE.             *)
(***************************************************************************)
EXTENDS Integers, Sequences, FiniteSets

CONSTANTS
  Threads,      \* the threads of the process
  EventIds,     \* the event ids commands name
  Dims,         \* the <<rows, cols>> of the events
  SeatLists,    \* the lists of <<row, col>> commands reserve
  MaxCommands,  \* bound: how many commands the file has
  NoThread      \* the writer of a lock that has none

ASSUME BatchIdsAssumption == EventIds \subseteq Nat
ASSUME BatchDimsAssumption == Dims \subseteq Nat \X Nat
ASSUME BatchSeatsAssumption == SeatLists \subseteq Seq(Nat \X Nat) \ {<<>>}
ASSUME MaxCommandsAssumption == MaxCommands \in Nat
ASSUME BatchNoThreadAssumption == NoThread \notin Threads

Commands ==
  [op : {"CREATE"}, id : EventIds, dim : Dims]
    \cup [op : {"RESERVE"}, id : EventIds, seats : SeatLists]
    \cup [op : {"SHOW"}, id : EventIds]
    \cup [op : {"LIST"}]

NoCommand == [op |-> "NONE"]

VARIABLES
  \* the list, by position; a pointer to an event is its position, 0 is NULL
  events,       \* id, rows and cols of each event
  reservations, \* the number of reservations in each event
  data,         \* the seats of each event: 0, or the reservation that took it
  listReaders, listWriter,    \* the holders of lock_list
  eventReaders, eventWriter,  \* the holders of the lock of each event
  outHolder,    \* the holder of out_file_mutex
  out,          \* the output file: the seats and ids that were written
  left,         \* how many commands are left in the file
  \* the locals of each thread
  pc,           \* what it does next
  command,      \* the command it executes
  event,        \* the event it found
  i,            \* the seats it took, the words it wrote
  rid,          \* its reservation_id
  res           \* the result it returns

list   == <<events, reservations, data>>
locks  == <<listReaders, listWriter, eventReaders, eventWriter, outHolder>>
locals == <<command, event, i, rid, res>>
vars   == <<list, locks, out, left, pc, locals>>

(* The first event with that id.                                           *)
get_event(id) ==
  LET hits == {e \in 1 .. Len(events) : events[e].id = id}
  IN  IF hits = {} THEN 0 ELSE CHOOSE e \in hits : \A f \in hits : e <= f

seat_index(e, seat) == (seat[1] - 1) * events[e].cols + seat[2] - 1

Seat(t) == command[t].seats[i[t] + 1]

(* The seat the loop has come to exists and is free.                       *)
CanTake(t) ==
  LET e == event[t] IN
  /\ Seat(t)[1] \in 1 .. events[e].rows
  /\ Seat(t)[2] \in 1 .. events[e].cols
  /\ data[e][seat_index(e, Seat(t))] = 0

Init ==
  /\ events = <<>> /\ reservations = <<>> /\ data = <<>>
  /\ listReaders = {} /\ listWriter = NoThread
  /\ eventReaders = <<>> /\ eventWriter = <<>>
  /\ outHolder = NoThread
  /\ out = <<>>
  /\ left = MaxCommands
  /\ pc = [t \in Threads |-> "idle"]
  /\ command = [t \in Threads |-> NoCommand]
  /\ event = [t \in Threads |-> 0]
  /\ i = [t \in Threads |-> 0]
  /\ rid = [t \in Threads |-> 0]
  /\ res = [t \in Threads |-> 0]

Goto(t, from, to) == pc[t] = from /\ pc' = [pc EXCEPT ![t] = to]

(* execute_file_commands has read a command and calls its operation.       *)
Call(t, c) ==
  /\ left > 0 /\ left' = left - 1
  /\ Goto(t, "idle", "lock_list")
  /\ command' = [command EXCEPT ![t] = c]
  /\ UNCHANGED <<list, locks, out, event, i, rid, res>>

Return(t) ==
  /\ Goto(t, "return", "idle")
  /\ command' = [command EXCEPT ![t] = NoCommand]
  /\ event' = [event EXCEPT ![t] = 0]
  /\ i' = [i EXCEPT ![t] = 0]
  /\ rid' = [rid EXCEPT ![t] = 0]
  /\ res' = [res EXCEPT ![t] = 0]
  /\ UNCHANGED <<list, locks, out, left>>

------------------------------------------------------------------------------
Writes(t) == command[t].op \in {"CREATE", "RESERVE"}

LockList(t) ==
  /\ Goto(t, "lock_list", IF command[t].op = "CREATE" THEN "create"
                          ELSE IF command[t].op = "LIST" THEN "lock_out" ELSE "find")
  /\ listWriter = NoThread
  /\ IF Writes(t)
     THEN listReaders = {} /\ listWriter' = t /\ UNCHANGED listReaders
     ELSE listReaders' = listReaders \cup {t} /\ UNCHANGED listWriter
  /\ UNCHANGED <<list, eventReaders, eventWriter, outHolder, out, left, locals>>

UnlockList(t) ==
  IF Writes(t) THEN listWriter' = NoThread /\ UNCHANGED listReaders
               ELSE listReaders' = listReaders \ {t} /\ UNCHANGED listWriter

(* ems_create: refuse an id that is taken, or add an event with an empty   *)
(* room unless memory runs out.  The new event's lock is taken and let go  *)
(* before anybody can reach it.                                            *)
Create(t) ==
  /\ Goto(t, "create", "return")
  /\ \/ LET rows == command[t].dim[1]
            cols == command[t].dim[2]
        IN
        /\ get_event(command[t].id) = 0
        /\ events' = Append(events, [id |-> command[t].id, rows |-> rows, cols |-> cols])
        /\ reservations' = Append(reservations, 0)
        /\ data' = Append(data, [s \in 0 .. rows * cols - 1 |-> 0])
        /\ eventReaders' = Append(eventReaders, {})
        /\ eventWriter' = Append(eventWriter, NoThread)
        /\ UNCHANGED res
     \/ /\ res' = [res EXCEPT ![t] = 1]
        /\ UNCHANGED <<list, eventReaders, eventWriter>>
  /\ UnlockList(t)
  /\ UNCHANGED <<outHolder, out, left, command, event, i, rid>>

(* ems_reserve and ems_show look the event up and keep the list locked.    *)
Find(t) ==
  LET e == get_event(command[t].id) IN
  /\ Goto(t, "find", IF e = 0 THEN "return" ELSE "lock_event")
  /\ event' = [event EXCEPT ![t] = e]
  /\ IF e = 0
     THEN UnlockList(t) /\ res' = [res EXCEPT ![t] = 1]
     ELSE UNCHANGED <<listReaders, listWriter, res>>
  /\ UNCHANGED <<list, eventReaders, eventWriter, outHolder, out, left, command, i, rid>>

(* A RESERVE takes the next reservation id as soon as it has the event.    *)
LockToReserve(t) ==
  LET e == event[t] IN
  /\ Writes(t)
  /\ Goto(t, "lock_event", "take")
  /\ eventReaders[e] = {} /\ eventWriter[e] = NoThread
  /\ eventWriter' = [eventWriter EXCEPT ![e] = t]
  /\ reservations' = [reservations EXCEPT ![e] = @ + 1]
  /\ rid' = [rid EXCEPT ![t] = reservations[e] + 1]
  /\ UNCHANGED <<events, data, listReaders, listWriter, eventReaders, outHolder, out, left,
                 command, event, i, res>>

LockToShow(t) ==
  LET e == event[t] IN
  /\ ~ Writes(t)
  /\ Goto(t, "lock_event", "lock_out")
  /\ eventWriter[e] = NoThread
  /\ eventReaders' = [eventReaders EXCEPT ![e] = @ \cup {t}]
  /\ UNCHANGED <<list, listReaders, listWriter, eventWriter, outHolder, out, left, locals>>

TakeSeat(t) ==
  /\ Goto(t, "take", "take")
  /\ i[t] < Len(command[t].seats) /\ CanTake(t)
  /\ data' = [data EXCEPT ![event[t]][seat_index(event[t], Seat(t))] = rid[t]]
  /\ i' = [i EXCEPT ![t] = @ + 1]
  /\ UNCHANGED <<events, reservations, locks, out, left, command, event, rid, res>>

(* Mutant of Refuse: the id is not given back.                             *)
RefuseKeepsNumber(t) ==
  LET e == event[t]
      taken == {seat_index(e, command[t].seats[j]) : j \in 1 .. i[t]}
  IN
  /\ Goto(t, "take", "unlock")
  /\ i[t] < Len(command[t].seats) /\ ~ CanTake(t)
  /\ data' = [data EXCEPT ![e] = [s \in DOMAIN @ |-> IF s \in taken THEN 0 ELSE @[s]]]
  /\ res' = [res EXCEPT ![t] = 1]
  /\ UNCHANGED <<events, reservations, locks, out, left, command, event, i, rid>>

(* Mutant of Refuse: it returns without the unlocks.                       *)
RefuseKeepsLocks(t) ==
  LET e == event[t]
      taken == {seat_index(e, command[t].seats[j]) : j \in 1 .. i[t]}
  IN
  /\ Goto(t, "take", "return")
  /\ i[t] < Len(command[t].seats) /\ ~ CanTake(t)
  /\ reservations' = [reservations EXCEPT ![e] = @ - 1]
  /\ data' = [data EXCEPT ![e] = [s \in DOMAIN @ |-> IF s \in taken THEN 0 ELSE @[s]]]
  /\ res' = [res EXCEPT ![t] = 1]
  /\ UNCHANGED <<events, locks, out, left, command, event, i, rid>>

(* The seats it took become free again and the id is given back.           *)
Refuse(t) ==
  LET e == event[t]
      taken == {seat_index(e, command[t].seats[j]) : j \in 1 .. i[t]}
  IN
  /\ Goto(t, "take", "unlock")
  /\ i[t] < Len(command[t].seats) /\ ~ CanTake(t)
  /\ reservations' = [reservations EXCEPT ![e] = @ - 1]
  /\ data' = [data EXCEPT ![e] = [s \in DOMAIN @ |-> IF s \in taken THEN 0 ELSE @[s]]]
  /\ res' = [res EXCEPT ![t] = 1]
  /\ UNCHANGED <<events, locks, out, left, command, event, i, rid>>

Reserved(t) ==
  /\ Goto(t, "take", "unlock")
  /\ i[t] = Len(command[t].seats)
  /\ UNCHANGED <<list, locks, out, left, locals>>

(* Mutant of LockOut: nobody locks the output.                             *)
LockOutNever(t) ==
  /\ Goto(t, "lock_out", "print")
  /\ UNCHANGED <<list, locks, out, left, locals>>

------------------------------------------------------------------------------
\* ems_show and ems_list_events write to the output file word by word

LockOut(t) ==
  /\ Goto(t, "lock_out", "print")
  /\ outHolder = NoThread
  /\ outHolder' = t
  /\ UNCHANGED <<list, listReaders, listWriter, eventReaders, eventWriter, out, left, locals>>

(* The words of a SHOW are the seats of its event, those of a LIST the ids. *)
Words(t) == IF command[t].op = "SHOW" THEN events[event[t]].rows * events[event[t]].cols
                                      ELSE Len(events)

Word(t) == IF command[t].op = "SHOW" THEN data[event[t]][i[t]] ELSE events[i[t] + 1].id

Write(t) ==
  /\ Goto(t, "print", "print")
  /\ i[t] < Words(t)
  /\ out' = Append(out, Word(t))
  /\ i' = [i EXCEPT ![t] = @ + 1]
  /\ UNCHANGED <<list, locks, left, command, event, rid, res>>

Printed(t) ==
  /\ Goto(t, "print", "unlock")
  /\ i[t] = Words(t)
  /\ UNCHANGED <<list, locks, out, left, locals>>

(* A write fails: of a word, of what stands around it, or of "No events".  *)
WriteFails(t) ==
  /\ Goto(t, "print", "unlock")
  /\ res' = [res EXCEPT ![t] = 1]
  /\ UNCHANGED <<list, locks, out, left, command, event, i, rid>>

(* Mutant of UnlockOut: a command whose write failed keeps the output.     *)
UnlockOutIfPrinted(t) ==
  /\ Goto(t, "unlock_out", "return")
  /\ outHolder' = IF res[t] = 0 THEN NoThread ELSE outHolder
  /\ UNCHANGED <<list, listReaders, listWriter, eventReaders, eventWriter, out, left, locals>>

(* The event's lock goes first, then the list's, for a SHOW and a LIST     *)
(* then the output's.                                                      *)
Unlock(t) ==
  LET e == event[t] IN
  /\ Goto(t, "unlock", IF Writes(t) THEN "return" ELSE "unlock_out")
  /\ UnlockList(t)
  /\ eventWriter' = IF e # 0 /\ Writes(t) THEN [eventWriter EXCEPT ![e] = NoThread] ELSE eventWriter
  /\ eventReaders' = IF e # 0 THEN [eventReaders EXCEPT ![e] = @ \ {t}] ELSE eventReaders
  /\ UNCHANGED <<list, outHolder, out, left, locals>>

UnlockOut(t) ==
  /\ Goto(t, "unlock_out", "return")
  /\ outHolder' = NoThread
  /\ UNCHANGED <<list, listReaders, listWriter, eventReaders, eventWriter, out, left, locals>>

------------------------------------------------------------------------------
Locking(t) == LockList(t) \/ LockToReserve(t) \/ LockToShow(t) \/ LockOut(t)

Step(t) ==
  \/ Create(t) \/ Find(t) \/ TakeSeat(t) \/ Refuse(t) \/ Reserved(t)
  \/ Write(t) \/ Printed(t) \/ WriteFails(t) \/ Unlock(t) \/ UnlockOut(t) \/ Return(t)

Next == \E t \in Threads : (\E c \in Commands : Call(t, c)) \/ Locking(t) \/ Step(t)

Spec == Init /\ [][Next]_vars

(* Threads run, and a lock that stays free is granted.                     *)
Fairness == \A t \in Threads : WF_vars(Step(t)) /\ WF_vars(Locking(t))

FairSpec == Spec /\ Fairness

------------------------------------------------------------------------------
Labels == {"idle", "lock_list", "create", "find", "lock_event", "take", "lock_out", "print",
           "unlock", "unlock_out", "return"}

Rooms == UNION {[0 .. d[1] * d[2] - 1 -> Nat] : d \in Dims}

(* Every variable has its type; the counts of reservations, which a        *)
(* refusal decrements, are never negative.                                 *)
TypeOK ==
  /\ events \in Seq([id : EventIds, rows : Nat, cols : Nat])
  /\ reservations \in Seq(Nat) /\ Len(reservations) = Len(events)
  /\ data \in Seq(Rooms) /\ Len(data) = Len(events)
  /\ listReaders \subseteq Threads /\ listWriter \in Threads \cup {NoThread}
  /\ eventReaders \in Seq(SUBSET Threads) /\ Len(eventReaders) = Len(events)
  /\ eventWriter \in Seq(Threads \cup {NoThread}) /\ Len(eventWriter) = Len(events)
  /\ outHolder \in Threads \cup {NoThread}
  /\ out \in Seq(Nat)
  /\ left \in 0 .. MaxCommands
  /\ pc \in [Threads -> Labels]
  /\ command \in [Threads -> Commands \cup {NoCommand}]
  /\ event \in [Threads -> 0 .. Len(events)]
  /\ i \in [Threads -> Nat] /\ rid \in [Threads -> Nat] /\ res \in [Threads -> {0, 1}]

InList(t) == pc[t] \in {"create", "find", "lock_event", "take", "lock_out", "print", "unlock"}

InEvent(t, e) == event[t] = e /\ pc[t] \in {"take", "lock_out", "print", "unlock"}

InOut(t) == pc[t] \in {"print", "unlock_out"} \/ (pc[t] = "unlock" /\ ~ Writes(t))

(* Whoever is inside holds the lock, in the mode that its command needs,   *)
(* and nobody else does; a writer is alone.                                *)
LocksHeld ==
  /\ \A t \in Threads :
       /\ listWriter = t <=> InList(t) /\ Writes(t)
       /\ t \in listReaders <=> InList(t) /\ ~ Writes(t)
       /\ outHolder = t <=> InOut(t)
       /\ \A e \in 1 .. Len(events) :
            /\ eventWriter[e] = t <=> InEvent(t, e) /\ Writes(t)
            /\ t \in eventReaders[e] <=> InEvent(t, e) /\ ~ Writes(t)
  /\ listWriter # NoThread => listReaders = {}

(* Whatever was refused half-way, the reservations of an event that nobody *)
(* is reserving in are numbered from 1 to their count without a gap, and   *)
(* each of them has seats: a refusal leaves no seat and no number taken.   *)
NumbersCounted ==
  \A e \in 1 .. Len(events) :
    eventWriter[e] = NoThread =>
      {data[e][s] : s \in DOMAIN data[e]} \ {0} = 1 .. reservations[e]

(* The store without the reservation that is being taken, and the output   *)
(* without the block that is being printed.                                *)
Taking(e, t) == pc[t] = "take" /\ event[t] = e

Taken(e) ==
  [s \in DOMAIN data[e] |->
     IF \E t \in Threads : Taking(e, t) /\ data[e][s] = rid[t] THEN 0 ELSE data[e][s]]

Count(e) == IF \E t \in Threads : Taking(e, t) THEN reservations[e] - 1 ELSE reservations[e]

Printing == IF \E t \in Threads : pc[t] = "print"
            THEN i[CHOOSE t \in Threads : pc[t] = "print"] ELSE 0

Batch == INSTANCE BatchStore WITH
  store <- [e \in 1 .. Len(events) |->
              [id |-> events[e].id, rows |-> events[e].rows, cols |-> events[e].cols,
               count |-> Count(e), seats |-> Taken(e)]],
  out <- SubSeq(out, 1, Len(out) - Printing),
  answer <- [t \in Threads |->
               IF pc[t] \in {"unlock", "unlock_out", "return"} THEN res[t] ELSE -1]

(* However the threads overlap, the commands behave as if each ran alone   *)
(* at one moment: reservations are whole and refusals leave no trace, what *)
(* a SHOW or a LIST prints is the state of one moment, and no two commands *)
(* mix their output.                                                       *)
ImplementsBatchStore == Batch!Spec

(* Every command comes to its end, failed writes included: the locks of    *)
(* the list, of an event and of the output are taken in that order and let *)
(* go on every path.                                                       *)
CommandsEnd == \A t \in Threads : pc[t] # "idle" ~> pc[t] = "idle"
===============================================================================
