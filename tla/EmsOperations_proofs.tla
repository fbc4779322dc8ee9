------------------------- MODULE EmsOperations_proofs -------------------------
(***************************************************************************)
(* Theorems about EmsOperations, for any number of workers, events, rooms  *)
(* and requests: the types and the locks, the reservations under those     *)
(* locks, and at the end what the sessions and the host see of the seats:  *)
(* a dump prints no reservation in part, and to the sessions the server is *)
(* EventStore.                                                             *)
(***************************************************************************)
EXTENDS EmsOperations, SequenceTheorems, WellFoundedInduction, TLAPS

(* A set of positions that is not empty has a first one.                   *)
LEMMA FirstPosition ==
  ASSUME NEW T, T \subseteq Nat, T # {}
  PROVE  \E x \in T : \A y \in T : x <= y
<1>1. IsWellFoundedOn(OpToRel(<, Nat), Nat)
  BY NatLessThanWellFounded
<1>2. PICK x \in T : \A y \in T : ~ (<<y, x>> \in OpToRel(<, Nat))
  BY <1>1, WFMin
<1>3. \A y \in T : ~ (y < x)
  BY <1>2 DEF OpToRel
<1>4. QED
  BY <1>3

(* The list and what runs along with it, as functions.                     *)
LEMMA ListFacts ==
  ASSUME ListTypeOK
  PROVE  /\ Len(events) \in Nat
         /\ events \in [1 .. Len(events) -> EventRecords]
         /\ reservations \in [1 .. Len(events) -> Nat]
         /\ data \in [1 .. Len(events) -> Rooms]
         /\ mutex \in [1 .. Len(events) -> Threads \cup {NoThread}]
<1>1. Len(events) \in Nat /\ events \in [1 .. Len(events) -> EventRecords]
  BY DEF ListTypeOK
<1>2. reservations \in [1 .. Len(events) -> Nat]
  BY DEF ListTypeOK
<1>3. data \in [1 .. Len(events) -> Rooms]
  BY DEF ListTypeOK
<1>4. mutex \in [1 .. Len(events) -> Threads \cup {NoThread}]
  BY DEF ListTypeOK
<1>5. QED
  BY <1>1, <1>2, <1>3, <1>4

(* get_event returns NULL or an event of the list with the id it looks for. *)
LEMMA GetEventFinds ==
  ASSUME Len(events) \in Nat, NEW id
  PROVE  /\ get_event(id) \in 0 .. Len(events)
         /\ get_event(id) # 0 => events[get_event(id)].id = id
         /\ get_event(id) = 0 => \A e \in 1 .. Len(events) : events[e].id # id
<1> DEFINE hits == {e \in 1 .. Len(events) : events[e].id = id}
<1>1. CASE hits = {}
  BY <1>1 DEF get_event
<1>2. CASE hits # {}
  <2>1. \E e \in hits : \A f \in hits : e <= f
    <3>1. hits \subseteq Nat
      OBVIOUS
    <3> HIDE DEF hits
    <3>2. QED
      BY <1>2, <3>1, FirstPosition
  <2>2. get_event(id) = CHOOSE e \in hits : \A f \in hits : e <= f
    BY <1>2 DEF get_event
  <2>3. get_event(id) \in hits
    <3> HIDE DEF hits
    <3>1. QED
      BY <2>1, <2>2
  <2>4. QED
    BY <2>3
<1>3. QED
  BY <1>1, <1>2

------------------------------------------------------------------------------
(* Where a thread can be with which request, and when it has an event.     *)
Creates  == [op : {"CREATE"}, id : EventIds, dim : Dims]
Reserves == [op : {"RESERVE"}, id : EventIds, seats : SeatLists]
Shows    == [op : {"SHOW"}, id : EventIds]
Lists    == [op : {"LIST"}]

PlacedWorker(t) ==
  /\ pc[t] \notin {"print", "dump"}
  /\ pc[t] \in {"wrlock", "create", "append"} => req[t] \in Creates
  /\ pc[t] = "rdlock" => req[t] \in Reserves \cup Shows \cup Lists
  /\ pc[t] \in {"lookup", "mutex"} => req[t] \in Reserves \cup Shows
  /\ pc[t] \in {"check", "write"} => req[t] \in Reserves
  /\ pc[t] \in {"info", "read"} => req[t] \in Shows
  /\ pc[t] = "walk" => req[t] \in Lists

PlacedHost ==
  /\ pc[Host] \in {"idle", "rdlock", "lookup", "mutex", "print", "dump"}
  /\ pc[Host] # "idle" => req[Host].op = "DUMP"
  /\ pc[Host] = "idle" => node = 0
  /\ pc[Host] \in {"lookup", "mutex", "print"} => node # 0

Placed ==
  /\ \A t \in Workers : PlacedWorker(t)
  /\ PlacedHost
  /\ \A t \in Threads : pc[t] \in {"mutex", "check", "write", "info", "read", "print"} =>
                          event[t] # 0

IInv == TypeOK /\ Placed /\ LocksHeld

(* A seat of an event holds a number.                                      *)
LEMMA SeatsAreNumbers ==
  ASSUME ListTypeOK, NEW e \in 1 .. Len(events)
  PROVE  data[e] \in [Seats(e) -> Nat]
<1>1. data[e] \in Rooms /\ DOMAIN data[e] = Seats(e)
  BY ListFacts DEF ListTypeOK
<1>2. PICK d \in Dims : data[e] \in [0 .. d[1] * d[2] - 1 -> Nat]
  BY <1>1 DEF Rooms
<1>3. QED
  BY <1>1, <1>2

(* The seats that a SHOW has to report are rooms like those of the list.   *)
LEMMA BookedInSeq ==
  ASSUME ListTypeOK
  PROVE  BookedSeats \in Seq(Rooms)
<1>1. ASSUME NEW e \in 1 .. Len(events) PROVE Booked(e) \in Rooms
  <2>1. reservations[e] \in Nat /\ data[e] \in Rooms
    BY ListFacts
  <2>2. PICK d \in Dims : data[e] \in [0 .. d[1] * d[2] - 1 -> Nat]
    BY <2>1 DEF Rooms
  <2>3. Booked(e) \in [0 .. d[1] * d[2] - 1 -> Nat]
    BY <2>1, <2>2 DEF Booked
  <2>4. QED
    BY <2>3 DEF Rooms
<1>2. DOMAIN data = 1 .. Len(events) /\ Len(events) \in Nat
  BY ListFacts
<1>3. BookedSeats \in [1 .. Len(events) -> Rooms]
  BY <1>1, <1>2 DEF BookedSeats
<1>4. QED
  BY <1>2, <1>3

(* What AppendToList does to the list.                                     *)
LEMMA AppendedOne ==
  ASSUME ListTypeOK, NEW t, AppendToList(t)
  PROVE  \/ UNCHANGED <<events, reservations, data, mutex>>
         \/ /\ Len(events') = Len(events) + 1
            /\ mutex' = Append(mutex, NoThread)
<1>1. CASE UNCHANGED events
  BY <1>1 DEF AppendToList, list, ListTypeOK
<1>2. QED
  BY DEF AppendToList, list, ListTypeOK

(* No step takes a thread where its request does not lead it.              *)
LEMMA PlacedStep ==
  ASSUME IInv, [Next]_vars
  PROVE  Placed'
<1> USE HostAssumption, NoThreadAssumption DEF Threads, list, locks, locals
<1>a. Len(events) \in Nat
  BY ListFacts DEF IInv, TypeOK
<1>b. /\ pc \in [Threads -> Labels] /\ req \in [Threads -> AllRequests]
      /\ event \in [Threads -> 0 .. Len(events)] /\ node \in Nat
  BY DEF IInv, TypeOK, ThreadTypeOK, LockTypeOK
<1>c. Placed
  BY DEF IInv
<1>1. ASSUME NEW t \in Workers, NEW r \in Requests, Call(t, r) PROVE Placed'
  BY <1>1, <1>a, <1>b, <1>c
  DEF PlacedWorker, PlacedHost, Placed, Call, Goto, Requests, Creates, Reserves, Shows, Lists
<1>2. ASSUME Dump PROVE Placed'
  BY <1>2, <1>a, <1>b, <1>c
  DEF PlacedWorker, PlacedHost, Placed, Dump, Goto
<1>3. ASSUME NEW t \in Threads, WrLock(t) PROVE Placed'
  BY <1>3, <1>a, <1>b, <1>c
  DEF PlacedWorker, PlacedHost, Placed, WrLock, Goto
<1>4. ASSUME NEW t \in Threads, RdLock(t) PROVE Placed'
  BY <1>4, <1>a, <1>b, <1>c
  DEF PlacedWorker, PlacedHost, Placed, RdLock, Goto, AfterRdLock, Requests, Creates, Reserves, Shows, Lists
<1>5. ASSUME NEW t \in Threads, MutexLock(t) PROVE Placed'
  BY <1>5, <1>a, <1>b, <1>c
  DEF PlacedWorker, PlacedHost, Placed, MutexLock, Goto, AfterMutexLock, Reserves, Shows, Lists
<1>6. ASSUME NEW t \in Threads, Create(t) PROVE Placed'
  BY <1>6, <1>a, <1>b, <1>c
  DEF PlacedWorker, PlacedHost, Placed, Create, Goto
<1>7. ASSUME NEW t \in Threads, AppendToList(t) PROVE Placed'
  BY <1>7, <1>a, <1>b, <1>c
  DEF PlacedWorker, PlacedHost, Placed, AppendToList, Goto
<1>8. ASSUME NEW t \in Threads, Lookup(t) PROVE Placed'
  BY <1>8, <1>a, <1>b, <1>c, GetEventFinds
  DEF PlacedWorker, PlacedHost, Placed, Lookup, Goto, Reserves, Shows, Lists
<1>9. ASSUME NEW t \in Threads, Check(t) PROVE Placed'
  BY <1>9, <1>a, <1>b, <1>c
  DEF PlacedWorker, PlacedHost, Placed, Check, Goto
<1>10. ASSUME NEW t \in Threads, WriteSeat(t) PROVE Placed'
  BY <1>10, <1>a, <1>b, <1>c
  DEF PlacedWorker, PlacedHost, Placed, WriteSeat, Goto
<1>11. ASSUME NEW t \in Threads, ReserveReturn(t) PROVE Placed'
  BY <1>11, <1>a, <1>b, <1>c
  DEF PlacedWorker, PlacedHost, Placed, ReserveReturn, Goto
<1>12. ASSUME NEW t \in Threads, GetEventInfo(t) PROVE Placed'
  BY <1>12, <1>a, <1>b, <1>c
  DEF PlacedWorker, PlacedHost, Placed, GetEventInfo, Goto
<1>13. ASSUME NEW t \in Threads, ReadSeat(t) PROVE Placed'
  BY <1>13, <1>a, <1>b, <1>c
  DEF PlacedWorker, PlacedHost, Placed, ReadSeat
<1>14. ASSUME NEW t \in Threads, ShowReturn(t) PROVE Placed'
  BY <1>14, <1>a, <1>b, <1>c
  DEF PlacedWorker, PlacedHost, Placed, ShowReturn, Goto
<1>15. ASSUME NEW t \in Threads, GetEvents(t) PROVE Placed'
  BY <1>15, <1>a, <1>b, <1>c
  DEF PlacedWorker, PlacedHost, Placed, GetEvents, Goto
<1>16. ASSUME NEW t \in Threads, Reply(t) PROVE Placed'
  BY <1>16, <1>a, <1>b, <1>c
  DEF PlacedWorker, PlacedHost, Placed, Reply, Goto
<1>17. ASSUME DumpNode PROVE Placed'
  BY <1>17, <1>a, <1>b, <1>c
  DEF PlacedWorker, PlacedHost, Placed, DumpNode, Goto
<1>18. ASSUME PrintReturn PROVE Placed'
  BY <1>18, <1>a, <1>b, <1>c
  DEF PlacedWorker, PlacedHost, Placed, PrintReturn, Goto
<1>19. ASSUME DumpReturn PROVE Placed'
  BY <1>19, <1>a, <1>b, <1>c
  DEF PlacedWorker, PlacedHost, Placed, DumpReturn, Goto
<1>20. CASE UNCHANGED vars
  <2>1. UNCHANGED <<pc, req, event, node>>
    BY <1>20 DEF vars
  <2>2. QED
    BY <2>1, <1>a, <1>b, <1>c DEF PlacedWorker, PlacedHost, Placed
<1>21. QED
  BY <1>1, <1>2, <1>3, <1>4, <1>5, <1>6, <1>7, <1>8, <1>9, <1>10, <1>11, <1>12, <1>13, <1>14, <1>15, <1>16, <1>17, <1>18, <1>19, <1>20 DEF Next, Step, HostStep

(* No step leaves a mutex with a thread that is not inside, nor the reverse. *)
LEMMA MutexStep ==
  ASSUME IInv, [Next]_vars
  PROVE  MutexHeld'
<1> USE HostAssumption, NoThreadAssumption DEF Threads, list, locks, locals
<1>a. Len(events) \in Nat /\ mutex \in [1 .. Len(events) -> Threads \cup {NoThread}]
  BY ListFacts DEF IInv, TypeOK
<1>b. event \in [Threads -> 0 .. Len(events)] /\ pc \in [Threads -> Labels] /\ MutexHeld
  BY DEF IInv, TypeOK, ThreadTypeOK, LockTypeOK, LocksHeld
<1>c. \A u \in Threads : pc[u] \in {"mutex", "check", "write", "info", "read", "print"} => event[u] # 0
  BY DEF IInv, Placed
<1>1. ASSUME NEW t \in Workers, NEW r \in Requests, Call(t, r) PROVE MutexHeld'
  BY <1>1, <1>a, <1>b, <1>c
  DEF MutexHeld, Call, Goto
<1>2. ASSUME Dump PROVE MutexHeld'
  BY <1>2, <1>a, <1>b, <1>c
  DEF MutexHeld, Dump, Goto
<1>3. ASSUME NEW t \in Threads, WrLock(t) PROVE MutexHeld'
  BY <1>3, <1>a, <1>b, <1>c
  DEF MutexHeld, WrLock, Goto
<1>4. ASSUME NEW t \in Threads, RdLock(t) PROVE MutexHeld'
  BY <1>4, <1>a, <1>b, <1>c
  DEF MutexHeld, RdLock, Goto, AfterRdLock
<1>5. ASSUME NEW t \in Threads, MutexLock(t) PROVE MutexHeld'
  BY <1>5, <1>a, <1>b, <1>c
  DEF MutexHeld, MutexLock, Goto, AfterMutexLock
<1>6. ASSUME NEW t \in Threads, Create(t) PROVE MutexHeld'
  BY <1>6, <1>a, <1>b, <1>c
  DEF MutexHeld, Create, Goto
<1>7. ASSUME NEW t \in Threads, AppendToList(t) PROVE MutexHeld'
  <2>1. CASE UNCHANGED <<events, mutex>>
    BY <1>7, <2>1, <1>b DEF MutexHeld, AppendToList, Goto
  <2>2. CASE Len(events') = Len(events) + 1 /\ mutex' = Append(mutex, NoThread)
    <3>1. \A e \in 1 .. Len(events') : mutex'[e] = IF e = Len(events) + 1 THEN NoThread ELSE mutex[e]
      BY <2>2 DEF IInv, TypeOK, ListTypeOK
    <3>2. QED
      BY <1>7, <2>2, <3>1, <1>a, <1>b, <1>c DEF MutexHeld, AppendToList, Goto
  <2>3. QED
    BY <1>7, <2>1, <2>2, AppendedOne DEF IInv, TypeOK
<1>8. ASSUME NEW t \in Threads, Lookup(t) PROVE MutexHeld'
  BY <1>8, <1>a, <1>b, <1>c
  DEF MutexHeld, Lookup, Goto
<1>9. ASSUME NEW t \in Threads, Check(t) PROVE MutexHeld'
  BY <1>9, <1>a, <1>b, <1>c
  DEF MutexHeld, Check, Goto
<1>10. ASSUME NEW t \in Threads, WriteSeat(t) PROVE MutexHeld'
  BY <1>10, <1>a, <1>b, <1>c
  DEF MutexHeld, WriteSeat, Goto
<1>11. ASSUME NEW t \in Threads, ReserveReturn(t) PROVE MutexHeld'
  BY <1>11, <1>a, <1>b, <1>c
  DEF MutexHeld, ReserveReturn, Goto
<1>12. ASSUME NEW t \in Threads, GetEventInfo(t) PROVE MutexHeld'
  BY <1>12, <1>a, <1>b, <1>c
  DEF MutexHeld, GetEventInfo, Goto
<1>13. ASSUME NEW t \in Threads, ReadSeat(t) PROVE MutexHeld'
  BY <1>13, <1>a, <1>b, <1>c
  DEF MutexHeld, ReadSeat
<1>14. ASSUME NEW t \in Threads, ShowReturn(t) PROVE MutexHeld'
  BY <1>14, <1>a, <1>b, <1>c
  DEF MutexHeld, ShowReturn, Goto
<1>15. ASSUME NEW t \in Threads, GetEvents(t) PROVE MutexHeld'
  BY <1>15, <1>a, <1>b, <1>c
  DEF MutexHeld, GetEvents, Goto
<1>16. ASSUME NEW t \in Threads, Reply(t) PROVE MutexHeld'
  BY <1>16, <1>a, <1>b, <1>c
  DEF MutexHeld, Reply, Goto
<1>17. ASSUME DumpNode PROVE MutexHeld'
  BY <1>17, <1>a, <1>b, <1>c
  DEF MutexHeld, DumpNode, Goto
<1>18. ASSUME PrintReturn PROVE MutexHeld'
  BY <1>18, <1>a, <1>b, <1>c
  DEF MutexHeld, PrintReturn, Goto
<1>19. ASSUME DumpReturn PROVE MutexHeld'
  BY <1>19, <1>a, <1>b, <1>c
  DEF MutexHeld, DumpReturn, Goto
<1>20. CASE UNCHANGED vars
  <2>1. UNCHANGED <<events, mutex, event, pc>>
    BY <1>20 DEF vars
  <2>2. QED
    BY <2>1, <1>a, <1>b, <1>c DEF MutexHeld
<1>21. QED
  BY <1>1, <1>2, <1>3, <1>4, <1>5, <1>6, <1>7, <1>8, <1>9, <1>10, <1>11, <1>12, <1>13, <1>14, <1>15, <1>16, <1>17, <1>18, <1>19, <1>20 DEF Next, Step, HostStep

(* The same for the write lock ...                                         *)
LEMMA WriterStep ==
  ASSUME IInv, [Next]_vars
  PROVE  WriterInside'
<1> USE HostAssumption, NoThreadAssumption DEF Threads, list, locks, locals
<1>a. pc \in [Threads -> Labels] /\ writer \in Threads \cup {NoThread} /\ WriterInside
  BY DEF IInv, TypeOK, ThreadTypeOK, LockTypeOK, LocksHeld
<1>1. ASSUME NEW t \in Workers, NEW r \in Requests, Call(t, r) PROVE WriterInside'
  BY <1>1, <1>a
  DEF WriterInside, Call, Goto
<1>2. ASSUME Dump PROVE WriterInside'
  BY <1>2, <1>a
  DEF WriterInside, Dump, Goto
<1>3. ASSUME NEW t \in Threads, WrLock(t) PROVE WriterInside'
  BY <1>3, <1>a
  DEF WriterInside, WrLock, Goto
<1>4. ASSUME NEW t \in Threads, RdLock(t) PROVE WriterInside'
  BY <1>4, <1>a
  DEF WriterInside, RdLock, Goto, AfterRdLock
<1>5. ASSUME NEW t \in Threads, MutexLock(t) PROVE WriterInside'
  BY <1>5, <1>a
  DEF WriterInside, MutexLock, Goto, AfterMutexLock
<1>6. ASSUME NEW t \in Threads, Create(t) PROVE WriterInside'
  BY <1>6, <1>a
  DEF WriterInside, Create, Goto
<1>7. ASSUME NEW t \in Threads, AppendToList(t) PROVE WriterInside'
  BY <1>7, <1>a
  DEF WriterInside, AppendToList, Goto
<1>8. ASSUME NEW t \in Threads, Lookup(t) PROVE WriterInside'
  BY <1>8, <1>a
  DEF WriterInside, Lookup, Goto
<1>9. ASSUME NEW t \in Threads, Check(t) PROVE WriterInside'
  BY <1>9, <1>a
  DEF WriterInside, Check, Goto
<1>10. ASSUME NEW t \in Threads, WriteSeat(t) PROVE WriterInside'
  BY <1>10, <1>a
  DEF WriterInside, WriteSeat, Goto
<1>11. ASSUME NEW t \in Threads, ReserveReturn(t) PROVE WriterInside'
  BY <1>11, <1>a
  DEF WriterInside, ReserveReturn, Goto
<1>12. ASSUME NEW t \in Threads, GetEventInfo(t) PROVE WriterInside'
  BY <1>12, <1>a
  DEF WriterInside, GetEventInfo, Goto
<1>13. ASSUME NEW t \in Threads, ReadSeat(t) PROVE WriterInside'
  BY <1>13, <1>a
  DEF WriterInside, ReadSeat
<1>14. ASSUME NEW t \in Threads, ShowReturn(t) PROVE WriterInside'
  BY <1>14, <1>a
  DEF WriterInside, ShowReturn, Goto
<1>15. ASSUME NEW t \in Threads, GetEvents(t) PROVE WriterInside'
  BY <1>15, <1>a
  DEF WriterInside, GetEvents, Goto
<1>16. ASSUME NEW t \in Threads, Reply(t) PROVE WriterInside'
  BY <1>16, <1>a
  DEF WriterInside, Reply, Goto
<1>17. ASSUME DumpNode PROVE WriterInside'
  BY <1>17, <1>a
  DEF WriterInside, DumpNode, Goto
<1>18. ASSUME PrintReturn PROVE WriterInside'
  BY <1>18, <1>a
  DEF WriterInside, PrintReturn, Goto
<1>19. ASSUME DumpReturn PROVE WriterInside'
  BY <1>19, <1>a
  DEF WriterInside, DumpReturn, Goto
<1>20. CASE UNCHANGED vars
  <2>1. UNCHANGED <<pc, writer>>
    BY <1>20 DEF vars
  <2>2. QED
    BY <2>1, <1>a DEF WriterInside
<1>21. QED
  BY <1>1, <1>2, <1>3, <1>4, <1>5, <1>6, <1>7, <1>8, <1>9, <1>10, <1>11, <1>12, <1>13, <1>14, <1>15, <1>16, <1>17, <1>18, <1>19, <1>20 DEF Next, Step, HostStep

(* ... and for the read locks.                                             *)
LEMMA ReadersStep ==
  ASSUME IInv, [Next]_vars
  PROVE  ReadersInside'
<1> USE HostAssumption, NoThreadAssumption DEF Threads, list, locks, locals
<1>a. pc \in [Threads -> Labels] /\ readers \in [Threads -> Nat] /\ node \in Nat
  BY DEF IInv, TypeOK, ThreadTypeOK, LockTypeOK, LockTypeOK
<1>b. ReadersInside /\ Placed
  BY DEF IInv, LocksHeld
<1>c. Len(events) \in Nat
  BY ListFacts DEF IInv, TypeOK
<1>1. ASSUME NEW t \in Workers, NEW r \in Requests, Call(t, r) PROVE ReadersInside'
  BY <1>1, <1>a, <1>b, <1>c
  DEF ReadersInside, Dumping, PlacedWorker, PlacedHost, Placed, Call, Goto
<1>2. ASSUME Dump PROVE ReadersInside'
  BY <1>2, <1>a, <1>b, <1>c
  DEF ReadersInside, Dumping, PlacedWorker, PlacedHost, Placed, Dump, Goto
<1>3. ASSUME NEW t \in Threads, WrLock(t) PROVE ReadersInside'
  BY <1>3, <1>a, <1>b, <1>c
  DEF ReadersInside, Dumping, PlacedWorker, PlacedHost, Placed, WrLock, Goto
<1>4. ASSUME NEW t \in Threads, RdLock(t) PROVE ReadersInside'
  <2>1. CASE t = Host
    BY <1>4, <2>1, <1>a, <1>b, <1>c DEF ReadersInside, Dumping, PlacedHost, Placed, RdLock, Goto, AfterRdLock
  <2>2. CASE t # Host
    <3>1. req[t].op # "DUMP"
      BY <1>4, <2>2, <1>a, <1>b, <1>c DEF RdLock, Goto, PlacedWorker, Placed, Reserves, Shows, Lists
    <3>2. QED
      BY <1>4, <2>2, <3>1, <1>a, <1>b, <1>c DEF ReadersInside, Dumping, RdLock, Goto, AfterRdLock
  <2>3. QED
    BY <2>1, <2>2
<1>5. ASSUME NEW t \in Threads, MutexLock(t) PROVE ReadersInside'
  BY <1>5, <1>a, <1>b, <1>c
  DEF ReadersInside, Dumping, PlacedWorker, PlacedHost, Placed, MutexLock, Goto, AfterMutexLock
<1>6. ASSUME NEW t \in Threads, Create(t) PROVE ReadersInside'
  BY <1>6, <1>a, <1>b, <1>c
  DEF ReadersInside, Dumping, PlacedWorker, PlacedHost, Placed, Create, Goto
<1>7. ASSUME NEW t \in Threads, AppendToList(t) PROVE ReadersInside'
  BY <1>7, <1>a, <1>b, <1>c
  DEF ReadersInside, Dumping, PlacedWorker, PlacedHost, Placed, AppendToList, Goto
<1>8. ASSUME NEW t \in Threads, Lookup(t) PROVE ReadersInside'
  BY <1>8, <1>a, <1>b, <1>c
  DEF ReadersInside, Dumping, PlacedWorker, PlacedHost, Placed, Lookup, Goto
<1>9. ASSUME NEW t \in Threads, Check(t) PROVE ReadersInside'
  BY <1>9, <1>a, <1>b, <1>c
  DEF ReadersInside, Dumping, PlacedWorker, PlacedHost, Placed, Check, Goto
<1>10. ASSUME NEW t \in Threads, WriteSeat(t) PROVE ReadersInside'
  BY <1>10, <1>a, <1>b, <1>c
  DEF ReadersInside, Dumping, PlacedWorker, PlacedHost, Placed, WriteSeat, Goto
<1>11. ASSUME NEW t \in Threads, ReserveReturn(t) PROVE ReadersInside'
  BY <1>11, <1>a, <1>b, <1>c
  DEF ReadersInside, Dumping, PlacedWorker, PlacedHost, Placed, ReserveReturn, Goto
<1>12. ASSUME NEW t \in Threads, GetEventInfo(t) PROVE ReadersInside'
  BY <1>12, <1>a, <1>b, <1>c
  DEF ReadersInside, Dumping, PlacedWorker, PlacedHost, Placed, GetEventInfo, Goto
<1>13. ASSUME NEW t \in Threads, ReadSeat(t) PROVE ReadersInside'
  BY <1>13, <1>a, <1>b, <1>c
  DEF ReadersInside, Dumping, PlacedWorker, PlacedHost, Placed, ReadSeat
<1>14. ASSUME NEW t \in Threads, ShowReturn(t) PROVE ReadersInside'
  BY <1>14, <1>a, <1>b, <1>c
  DEF ReadersInside, Dumping, PlacedWorker, PlacedHost, Placed, ShowReturn, Goto
<1>15. ASSUME NEW t \in Threads, GetEvents(t) PROVE ReadersInside'
  BY <1>15, <1>a, <1>b, <1>c
  DEF ReadersInside, Dumping, PlacedWorker, PlacedHost, Placed, GetEvents, Goto
<1>16. ASSUME NEW t \in Threads, Reply(t) PROVE ReadersInside'
  BY <1>16, <1>a, <1>b, <1>c
  DEF ReadersInside, Dumping, PlacedWorker, PlacedHost, Placed, Reply, Goto
<1>17. ASSUME DumpNode PROVE ReadersInside'
  BY <1>17, <1>a, <1>b, <1>c
  DEF ReadersInside, Dumping, PlacedWorker, PlacedHost, Placed, DumpNode, Goto
<1>18. ASSUME PrintReturn PROVE ReadersInside'
  BY <1>18, <1>a, <1>b, <1>c
  DEF ReadersInside, Dumping, PlacedWorker, PlacedHost, Placed, PrintReturn, Goto
<1>19. ASSUME DumpReturn PROVE ReadersInside'
  BY <1>19, <1>a, <1>b, <1>c
  DEF ReadersInside, Dumping, PlacedWorker, PlacedHost, Placed, DumpReturn, Goto
<1>20. CASE UNCHANGED vars
  <2>1. UNCHANGED <<pc, readers, node>>
    BY <1>20 DEF vars
  <2>2. QED
    BY <2>1, <1>a, <1>b, <1>c DEF ReadersInside, Dumping, PlacedWorker, PlacedHost, Placed
<1>21. QED
  BY <1>1, <1>2, <1>3, <1>4, <1>5, <1>6, <1>7, <1>8, <1>9, <1>10, <1>11, <1>12, <1>13, <1>14, <1>15, <1>16, <1>17, <1>18, <1>19, <1>20 DEF Next, Step, HostStep

(* No step brings a reader and a writer together.                          *)
LEMMA ExclusionStep ==
  ASSUME IInv, [Next]_vars
  PROVE  (writer # NoThread => \A u \in Threads : readers[u] = 0)'
<1> USE HostAssumption, NoThreadAssumption DEF Threads, list, locks, locals
<1>a. pc \in [Threads -> Labels] /\ readers \in [Threads -> Nat] /\ writer \in Threads \cup {NoThread}
  BY DEF IInv, TypeOK, ThreadTypeOK, LockTypeOK
<1>b. ReadersInside /\ WriterInside /\ (writer # NoThread => \A u \in Threads : readers[u] = 0)
  BY DEF IInv, LocksHeld
<1>1. ASSUME NEW t \in Workers, NEW r \in Requests, Call(t, r) PROVE (writer # NoThread => \A u \in Threads : readers[u] = 0)'
  BY <1>1, <1>a, <1>b
  DEF ReadersInside, WriterInside, Dumping, Call, Goto
<1>2. ASSUME Dump PROVE (writer # NoThread => \A u \in Threads : readers[u] = 0)'
  BY <1>2, <1>a, <1>b
  DEF ReadersInside, WriterInside, Dumping, Dump, Goto
<1>3. ASSUME NEW t \in Threads, WrLock(t) PROVE (writer # NoThread => \A u \in Threads : readers[u] = 0)'
  BY <1>3, <1>a, <1>b
  DEF ReadersInside, WriterInside, Dumping, WrLock, Goto
<1>4. ASSUME NEW t \in Threads, RdLock(t) PROVE (writer # NoThread => \A u \in Threads : readers[u] = 0)'
  BY <1>4, <1>a, <1>b
  DEF ReadersInside, WriterInside, Dumping, RdLock, Goto, AfterRdLock
<1>5. ASSUME NEW t \in Threads, MutexLock(t) PROVE (writer # NoThread => \A u \in Threads : readers[u] = 0)'
  BY <1>5, <1>a, <1>b
  DEF ReadersInside, WriterInside, Dumping, MutexLock, Goto, AfterMutexLock
<1>6. ASSUME NEW t \in Threads, Create(t) PROVE (writer # NoThread => \A u \in Threads : readers[u] = 0)'
  BY <1>6, <1>a, <1>b
  DEF ReadersInside, WriterInside, Dumping, Create, Goto
<1>7. ASSUME NEW t \in Threads, AppendToList(t) PROVE (writer # NoThread => \A u \in Threads : readers[u] = 0)'
  BY <1>7, <1>a, <1>b
  DEF ReadersInside, WriterInside, Dumping, AppendToList, Goto
<1>8. ASSUME NEW t \in Threads, Lookup(t) PROVE (writer # NoThread => \A u \in Threads : readers[u] = 0)'
  BY <1>8, <1>a, <1>b
  DEF ReadersInside, WriterInside, Dumping, Lookup, Goto
<1>9. ASSUME NEW t \in Threads, Check(t) PROVE (writer # NoThread => \A u \in Threads : readers[u] = 0)'
  BY <1>9, <1>a, <1>b
  DEF ReadersInside, WriterInside, Dumping, Check, Goto
<1>10. ASSUME NEW t \in Threads, WriteSeat(t) PROVE (writer # NoThread => \A u \in Threads : readers[u] = 0)'
  BY <1>10, <1>a, <1>b
  DEF ReadersInside, WriterInside, Dumping, WriteSeat, Goto
<1>11. ASSUME NEW t \in Threads, ReserveReturn(t) PROVE (writer # NoThread => \A u \in Threads : readers[u] = 0)'
  BY <1>11, <1>a, <1>b
  DEF ReadersInside, WriterInside, Dumping, ReserveReturn, Goto
<1>12. ASSUME NEW t \in Threads, GetEventInfo(t) PROVE (writer # NoThread => \A u \in Threads : readers[u] = 0)'
  BY <1>12, <1>a, <1>b
  DEF ReadersInside, WriterInside, Dumping, GetEventInfo, Goto
<1>13. ASSUME NEW t \in Threads, ReadSeat(t) PROVE (writer # NoThread => \A u \in Threads : readers[u] = 0)'
  BY <1>13, <1>a, <1>b
  DEF ReadersInside, WriterInside, Dumping, ReadSeat
<1>14. ASSUME NEW t \in Threads, ShowReturn(t) PROVE (writer # NoThread => \A u \in Threads : readers[u] = 0)'
  BY <1>14, <1>a, <1>b
  DEF ReadersInside, WriterInside, Dumping, ShowReturn, Goto
<1>15. ASSUME NEW t \in Threads, GetEvents(t) PROVE (writer # NoThread => \A u \in Threads : readers[u] = 0)'
  BY <1>15, <1>a, <1>b
  DEF ReadersInside, WriterInside, Dumping, GetEvents, Goto
<1>16. ASSUME NEW t \in Threads, Reply(t) PROVE (writer # NoThread => \A u \in Threads : readers[u] = 0)'
  BY <1>16, <1>a, <1>b
  DEF ReadersInside, WriterInside, Dumping, Reply, Goto
<1>17. ASSUME DumpNode PROVE (writer # NoThread => \A u \in Threads : readers[u] = 0)'
  BY <1>17, <1>a, <1>b
  DEF ReadersInside, WriterInside, Dumping, DumpNode, Goto
<1>18. ASSUME PrintReturn PROVE (writer # NoThread => \A u \in Threads : readers[u] = 0)'
  BY <1>18, <1>a, <1>b
  DEF ReadersInside, WriterInside, Dumping, PrintReturn, Goto
<1>19. ASSUME DumpReturn PROVE (writer # NoThread => \A u \in Threads : readers[u] = 0)'
  BY <1>19, <1>a, <1>b
  DEF ReadersInside, WriterInside, Dumping, DumpReturn, Goto
<1>20. CASE UNCHANGED vars
  <2>1. UNCHANGED <<readers, writer>>
    BY <1>20 DEF vars
  <2>2. QED
    BY <2>1, <1>a, <1>b DEF ReadersInside, WriterInside, Dumping
<1>21. QED
  BY <1>1, <1>2, <1>3, <1>4, <1>5, <1>6, <1>7, <1>8, <1>9, <1>10, <1>11, <1>12, <1>13, <1>14, <1>15, <1>16, <1>17, <1>18, <1>19, <1>20 DEF Next, Step, HostStep

(* The locks are counted and held by threads.                              *)
LEMMA LockTypeStep ==
  ASSUME IInv, [Next]_vars
  PROVE  LockTypeOK'
<1> USE HostAssumption, NoThreadAssumption DEF Threads, list, locks, locals
<1>a. LockTypeOK /\ pc \in [Threads -> Labels] /\ node \in Nat
  BY DEF IInv, TypeOK, ThreadTypeOK
<1>b. ReadersInside /\ Placed
  BY DEF IInv, LocksHeld
<1>1. ASSUME NEW t \in Workers, NEW r \in Requests, Call(t, r) PROVE LockTypeOK'
  BY <1>1, <1>a, <1>b
  DEF LockTypeOK, Call, Goto
<1>2. ASSUME Dump PROVE LockTypeOK'
  BY <1>2, <1>a, <1>b
  DEF LockTypeOK, Dump, Goto
<1>3. ASSUME NEW t \in Threads, WrLock(t) PROVE LockTypeOK'
  BY <1>3, <1>a, <1>b
  DEF LockTypeOK, WrLock, Goto
<1>4. ASSUME NEW t \in Threads, RdLock(t) PROVE LockTypeOK'
  BY <1>4, <1>a, <1>b
  DEF LockTypeOK, RdLock, Goto, AfterRdLock
<1>5. ASSUME NEW t \in Threads, MutexLock(t) PROVE LockTypeOK'
  BY <1>5, <1>a, <1>b
  DEF LockTypeOK, MutexLock, Goto, AfterMutexLock
<1>6. ASSUME NEW t \in Threads, Create(t) PROVE LockTypeOK'
  BY <1>6, <1>a, <1>b
  DEF LockTypeOK, Create, Goto
<1>7. ASSUME NEW t \in Threads, AppendToList(t) PROVE LockTypeOK'
  BY <1>7, <1>a, <1>b
  DEF LockTypeOK, AppendToList, Goto
<1>8. ASSUME NEW t \in Threads, Lookup(t) PROVE LockTypeOK'
  BY <1>8, <1>a, <1>b
  DEF LockTypeOK, Lookup, Goto, ReadersInside, Dumping, Placed, PlacedHost
<1>9. ASSUME NEW t \in Threads, Check(t) PROVE LockTypeOK'
  BY <1>9, <1>a, <1>b
  DEF LockTypeOK, Check, Goto
<1>10. ASSUME NEW t \in Threads, WriteSeat(t) PROVE LockTypeOK'
  BY <1>10, <1>a, <1>b
  DEF LockTypeOK, WriteSeat, Goto
<1>11. ASSUME NEW t \in Threads, ReserveReturn(t) PROVE LockTypeOK'
  BY <1>11, <1>a, <1>b
  DEF LockTypeOK, ReserveReturn, Goto
<1>12. ASSUME NEW t \in Threads, GetEventInfo(t) PROVE LockTypeOK'
  BY <1>12, <1>a, <1>b
  DEF LockTypeOK, GetEventInfo, Goto
<1>13. ASSUME NEW t \in Threads, ReadSeat(t) PROVE LockTypeOK'
  BY <1>13, <1>a, <1>b
  DEF LockTypeOK, ReadSeat
<1>14. ASSUME NEW t \in Threads, ShowReturn(t) PROVE LockTypeOK'
  BY <1>14, <1>a, <1>b
  DEF LockTypeOK, ShowReturn, Goto
<1>15. ASSUME NEW t \in Threads, GetEvents(t) PROVE LockTypeOK'
  BY <1>15, <1>a, <1>b
  DEF LockTypeOK, GetEvents, Goto, ReadersInside, Dumping, Placed, PlacedHost
<1>16. ASSUME NEW t \in Threads, Reply(t) PROVE LockTypeOK'
  BY <1>16, <1>a, <1>b
  DEF LockTypeOK, Reply, Goto
<1>17. ASSUME DumpNode PROVE LockTypeOK'
  BY <1>17, <1>a, <1>b
  DEF LockTypeOK, DumpNode, Goto
<1>18. ASSUME PrintReturn PROVE LockTypeOK'
  BY <1>18, <1>a, <1>b
  DEF LockTypeOK, PrintReturn, Goto
<1>19. ASSUME DumpReturn PROVE LockTypeOK'
  BY <1>19, <1>a, <1>b
  DEF LockTypeOK, DumpReturn, Goto, ReadersInside, Dumping, Placed, PlacedHost
<1>20. CASE UNCHANGED vars
  <2>1. UNCHANGED <<readers, writer>>
    BY <1>20 DEF vars
  <2>2. QED
    BY <2>1, <1>a, <1>b DEF LockTypeOK
<1>21. QED
  BY <1>1, <1>2, <1>3, <1>4, <1>5, <1>6, <1>7, <1>8, <1>9, <1>10, <1>11, <1>12, <1>13, <1>14, <1>15, <1>16, <1>17, <1>18, <1>19, <1>20 DEF Next, Step, HostStep

(* No step spoils the list ...                                            *)
LEMMA ListTypeStep ==
  ASSUME IInv, [Next]_vars
  PROVE  ListTypeOK'
<1> USE HostAssumption, NoThreadAssumption DEF Threads, list, locks, locals
<1>a. ListTypeOK /\ Len(events) \in Nat
  BY ListFacts DEF IInv, TypeOK
<1>b. ListTypeOK /\ mutex \in Seq(Threads \cup {NoThread}) /\ Len(mutex) = Len(events)
  BY DEF IInv, TypeOK, ListTypeOK
<1>c. \A u \in Threads : pc[u] \in {"mutex", "check", "write", "info", "read", "print"} => event[u] \in 1 .. Len(events)
  BY ListFacts DEF IInv, Placed, TypeOK, ThreadTypeOK
<1>1. ASSUME NEW t \in Workers, NEW r \in Requests, Call(t, r) PROVE ListTypeOK'
  BY <1>1, <1>a, <1>b, <1>c
  DEF ListTypeOK, Seats, Call, Goto
<1>2. ASSUME Dump PROVE ListTypeOK'
  BY <1>2, <1>a, <1>b, <1>c
  DEF ListTypeOK, Seats, Dump, Goto
<1>3. ASSUME NEW t \in Threads, WrLock(t) PROVE ListTypeOK'
  BY <1>3, <1>a, <1>b, <1>c
  DEF ListTypeOK, Seats, WrLock, Goto
<1>4. ASSUME NEW t \in Threads, RdLock(t) PROVE ListTypeOK'
  BY <1>4, <1>a, <1>b, <1>c
  DEF ListTypeOK, Seats, RdLock, Goto, AfterRdLock
<1>5. ASSUME NEW t \in Threads, MutexLock(t) PROVE ListTypeOK'
  <2>1. UNCHANGED <<events, reservations, data>>
    BY <1>5 DEF MutexLock
  <2>2. mutex' = [mutex EXCEPT ![event[t]] = t]
    BY <1>5 DEF MutexLock
  <2>3. mutex' \in Seq(Threads \cup {NoThread}) /\ Len(mutex') = Len(mutex)
    <3>1. event[t] \in 1 .. Len(mutex) /\ t \in Threads \cup {NoThread}
      BY <1>5, <1>b, <1>c DEF MutexLock, Goto
    <3>2. QED
      BY <2>2, <3>1, <1>b, ExceptSeq
  <2>4. QED
    BY <2>1, <2>3, <1>b DEF ListTypeOK, Seats
<1>6. ASSUME NEW t \in Threads, Create(t) PROVE ListTypeOK'
  BY <1>6, <1>a, <1>b, <1>c
  DEF ListTypeOK, Seats, Create, Goto
<1>7. ASSUME NEW t \in Threads, AppendToList(t) PROVE ListTypeOK'
  <2>1. CASE UNCHANGED list
    BY <1>7, <2>1, <1>a DEF ListTypeOK, Seats, AppendToList
  <2>2. CASE ~ UNCHANGED list
    <3> DEFINE rows == req[t].dim[1]
               cols == req[t].dim[2]
               new  == [id |-> req[t].id, rows |-> rows, cols |-> cols]
               room == [s \in 0 .. rows * cols - 1 |-> 0]
    <3>1. /\ events' = Append(events, new)
          /\ reservations' = Append(reservations, 0)
          /\ data' = Append(data, room)
          /\ mutex' = Append(mutex, NoThread)
      BY <1>7, <2>2 DEF AppendToList
    <3>2. req[t].id \in EventIds /\ req[t].dim \in Dims
      BY <1>7 DEF AppendToList, Goto, IInv, Placed, PlacedHost, PlacedWorker, Creates
    <3>3. new \in EventRecords /\ room \in Rooms
      BY <3>2, DimsAssumption DEF EventRecords, Rooms
    <3>4. DOMAIN room = 0 .. rows * cols - 1 /\ new.rows = rows /\ new.cols = cols
      OBVIOUS
    <3> HIDE DEF new, room, rows, cols
    <3>5. /\ events' \in Seq(EventRecords) /\ Len(events') = Len(events) + 1
          /\ events'[Len(events) + 1] = new
          /\ \A e \in 1 .. Len(events) : events'[e] = events[e]
      BY <3>1, <3>3, <1>a DEF ListTypeOK
    <3>6. reservations' \in Seq(Nat) /\ Len(reservations') = Len(events) + 1
      BY <3>1, <1>a DEF ListTypeOK
    <3>7. /\ data' \in Seq(Rooms) /\ Len(data') = Len(events) + 1
          /\ data'[Len(events) + 1] = room
          /\ \A e \in 1 .. Len(events) : data'[e] = data[e]
      BY <3>1, <3>3, <1>a DEF ListTypeOK
    <3>8. mutex' \in Seq(Threads \cup {NoThread}) /\ Len(mutex') = Len(events) + 1
      BY <3>1, <1>a DEF ListTypeOK
    <3>9. \A e \in 1 .. Len(events') : DOMAIN data'[e] = Seats(e)'
      <4>1. \A e \in 1 .. Len(events) : DOMAIN data'[e] = Seats(e)'
        BY <3>5, <3>7, <1>a DEF ListTypeOK, Seats
      <4>2. DOMAIN data'[Len(events')] = Seats(Len(events))'
        BY <3>4, <3>5, <3>7 DEF Seats
      <4>3. QED
        BY <4>1, <4>2, <3>5, <1>a
    <3>10. QED
      BY <3>5, <3>6, <3>7, <3>8, <3>9 DEF ListTypeOK
  <2>3. QED
    BY <2>1, <2>2
<1>8. ASSUME NEW t \in Threads, Lookup(t) PROVE ListTypeOK'
  BY <1>8, <1>a, <1>b, <1>c
  DEF ListTypeOK, Seats, Lookup, Goto
<1>9. ASSUME NEW t \in Threads, Check(t) PROVE ListTypeOK'
  <2>1. UNCHANGED <<events, data>>
    BY <1>9 DEF Check
  <2>2. mutex' \in Seq(Threads \cup {NoThread}) /\ Len(mutex') = Len(mutex)
    <3>1. mutex' = mutex \/ mutex' = [mutex EXCEPT ![event[t]] = NoThread]
      BY <1>9 DEF Check
    <3>2. QED
      BY <1>9, <3>1, <1>b, <1>c, ExceptSeq DEF Check, Goto
  <2>3. reservations' \in Seq(Nat) /\ Len(reservations') = Len(reservations)
    <3>1. reservations \in Seq(Nat) /\ reservations[event[t]] + 1 \in Nat
      BY <1>9, <1>a, <1>c DEF Check, Goto, ListTypeOK
    <3>2. reservations' = reservations \/ reservations' = [reservations EXCEPT ![event[t]] = reservations[event[t]] + 1]
      BY <1>9 DEF Check
    <3>3. QED
      BY <1>9, <3>1, <3>2, <1>a, <1>c, ExceptSeq DEF Check, Goto, ListTypeOK
  <2>4. QED
    BY <2>1, <2>2, <2>3, <1>b DEF ListTypeOK, Seats
<1>10. ASSUME NEW t \in Threads, WriteSeat(t) PROVE ListTypeOK'
  <2> DEFINE e == event[t]
             s == seat_index(e, req[t].seats[i[t] + 1])
             room == [data[e] EXCEPT ![s] = rid[t]]
  <2>1. UNCHANGED <<events, reservations, mutex>> /\ data' = [data EXCEPT ![e] = room]
    BY <1>10 DEF WriteSeat
  <2>2. e \in 1 .. Len(events) /\ data \in [1 .. Len(events) -> Rooms] /\ rid[t] \in Nat
    BY <1>10, <1>a, <1>c, ListFacts DEF WriteSeat, Goto, IInv, TypeOK, ThreadTypeOK
  <2>3. room \in Rooms /\ DOMAIN room = DOMAIN data[e]
    <3>1. PICK d \in Dims : data[e] \in [0 .. d[1] * d[2] - 1 -> Nat]
      BY <2>2 DEF Rooms
    <3> HIDE DEF s
    <3>2. room \in [0 .. d[1] * d[2] - 1 -> Nat]
      BY <2>2, <3>1
    <3>3. QED
      BY <3>1, <3>2 DEF Rooms
  <2>4. data' \in Seq(Rooms) /\ Len(data') = Len(data)
    <3> HIDE DEF room
    <3>1. QED
      BY <2>1, <2>2, <2>3, <1>a, ExceptSeq DEF ListTypeOK
  <2>5. \A f \in 1 .. Len(events) : DOMAIN data'[f] = DOMAIN data[f]
    <3> HIDE DEF room
    <3>1. QED
      BY <2>1, <2>2, <2>3
  <2>6. QED
    BY <2>1, <2>4, <2>5, <1>b DEF ListTypeOK, Seats
<1>11. ASSUME NEW t \in Threads, ReserveReturn(t) PROVE ListTypeOK'
  <2>1. UNCHANGED <<events, reservations, data>>
    BY <1>11 DEF ReserveReturn
  <2>2. mutex' = [mutex EXCEPT ![event[t]] = NoThread]
    BY <1>11 DEF ReserveReturn
  <2>3. mutex' \in Seq(Threads \cup {NoThread}) /\ Len(mutex') = Len(mutex)
    <3>1. event[t] \in 1 .. Len(mutex) /\ NoThread \in Threads \cup {NoThread}
      BY <1>11, <1>b, <1>c DEF ReserveReturn, Goto
    <3>2. QED
      BY <2>2, <3>1, <1>b, ExceptSeq
  <2>4. QED
    BY <2>1, <2>3, <1>b DEF ListTypeOK, Seats
<1>12. ASSUME NEW t \in Threads, GetEventInfo(t) PROVE ListTypeOK'
  <2>1. UNCHANGED <<events, reservations, data>>
    BY <1>12 DEF GetEventInfo
  <2>2. mutex' = [mutex EXCEPT ![event[t]] = NoThread]
    BY <1>12 DEF GetEventInfo
  <2>3. mutex' \in Seq(Threads \cup {NoThread}) /\ Len(mutex') = Len(mutex)
    <3>1. event[t] \in 1 .. Len(mutex) /\ NoThread \in Threads \cup {NoThread}
      BY <1>12, <1>b, <1>c DEF GetEventInfo, Goto
    <3>2. QED
      BY <2>2, <3>1, <1>b, ExceptSeq
  <2>4. QED
    BY <2>1, <2>3, <1>b DEF ListTypeOK, Seats
<1>13. ASSUME NEW t \in Threads, ReadSeat(t) PROVE ListTypeOK'
  BY <1>13, <1>a, <1>b, <1>c
  DEF ListTypeOK, Seats, ReadSeat
<1>14. ASSUME NEW t \in Threads, ShowReturn(t) PROVE ListTypeOK'
  BY <1>14, <1>a, <1>b, <1>c
  DEF ListTypeOK, Seats, ShowReturn, Goto
<1>15. ASSUME NEW t \in Threads, GetEvents(t) PROVE ListTypeOK'
  BY <1>15, <1>a, <1>b, <1>c
  DEF ListTypeOK, Seats, GetEvents, Goto
<1>16. ASSUME NEW t \in Threads, Reply(t) PROVE ListTypeOK'
  BY <1>16, <1>a, <1>b, <1>c
  DEF ListTypeOK, Seats, Reply, Goto
<1>17. ASSUME DumpNode PROVE ListTypeOK'
  BY <1>17, <1>a, <1>b, <1>c
  DEF ListTypeOK, Seats, DumpNode, Goto
<1>18. ASSUME PrintReturn PROVE ListTypeOK'
  <2>1. UNCHANGED <<events, reservations, data>>
    BY <1>18 DEF PrintReturn
  <2>2. mutex' = [mutex EXCEPT ![event[Host]] = NoThread]
    BY <1>18 DEF PrintReturn
  <2>3. mutex' \in Seq(Threads \cup {NoThread}) /\ Len(mutex') = Len(mutex)
    <3>1. event[Host] \in 1 .. Len(mutex) /\ NoThread \in Threads \cup {NoThread}
      BY <1>18, <1>b, <1>c DEF PrintReturn, Goto
    <3>2. QED
      BY <2>2, <3>1, <1>b, ExceptSeq
  <2>4. QED
    BY <2>1, <2>3, <1>b DEF ListTypeOK, Seats
<1>19. ASSUME DumpReturn PROVE ListTypeOK'
  BY <1>19, <1>a, <1>b, <1>c
  DEF ListTypeOK, Seats, DumpReturn, Goto
<1>20. CASE UNCHANGED vars
  <2>1. UNCHANGED <<events, reservations, data, mutex>>
    BY <1>20 DEF vars
  <2>2. QED
    BY <2>1, <1>a, <1>b, <1>c DEF ListTypeOK, Seats
<1>21. QED
  BY <1>1, <1>2, <1>3, <1>4, <1>5, <1>6, <1>7, <1>8, <1>9, <1>10, <1>11, <1>12, <1>13, <1>14, <1>15, <1>16, <1>17, <1>18, <1>19, <1>20 DEF Next, Step, HostStep

(* ... nor the locals of a thread ...                                     *)
LEMMA ThreadTypeStep ==
  ASSUME IInv, [Next]_vars
  PROVE  ThreadTypeOK'
<1> USE HostAssumption, NoThreadAssumption DEF Threads, list, locks, locals
<1>a. Len(events) \in Nat
  BY ListFacts DEF IInv, TypeOK
<1>b. ThreadTypeOK
  BY DEF IInv, TypeOK
<1>c. /\ Requests \subseteq AllRequests /\ NoRequest \in AllRequests
      /\ [op |-> "DUMP"] \in AllRequests
      /\ \A id \in EventIds : [op |-> "DUMP", id |-> id] \in AllRequests
  BY DEF AllRequests
<1>1. ASSUME NEW t \in Workers, NEW r \in Requests, Call(t, r) PROVE ThreadTypeOK'
  BY <1>1, <1>a, <1>b, <1>c
  DEF ThreadTypeOK, Labels, Call, Goto
<1>2. ASSUME Dump PROVE ThreadTypeOK'
  BY <1>2, <1>a, <1>b, <1>c
  DEF ThreadTypeOK, Labels, Dump, Goto
<1>3. ASSUME NEW t \in Threads, WrLock(t) PROVE ThreadTypeOK'
  BY <1>3, <1>a, <1>b, <1>c
  DEF ThreadTypeOK, Labels, WrLock, Goto
<1>4. ASSUME NEW t \in Threads, RdLock(t) PROVE ThreadTypeOK'
  BY <1>4, <1>a, <1>b, <1>c
  DEF ThreadTypeOK, Labels, RdLock, Goto, AfterRdLock
<1>5. ASSUME NEW t \in Threads, MutexLock(t) PROVE ThreadTypeOK'
  BY <1>5, <1>a, <1>b, <1>c
  DEF ThreadTypeOK, Labels, MutexLock, Goto, AfterMutexLock
<1>6. ASSUME NEW t \in Threads, Create(t) PROVE ThreadTypeOK'
  BY <1>6, <1>a, <1>b, <1>c
  DEF ThreadTypeOK, Labels, Create, Goto
<1>7. ASSUME NEW t \in Threads, AppendToList(t) PROVE ThreadTypeOK'
  <2>1. Len(events') \in Nat /\ Len(events') >= Len(events)
    BY <1>7, <1>a, AppendedOne DEF IInv, TypeOK
  <2>2. QED
    <3>1. event' \in [Threads -> 0 .. Len(events')] /\ node' \in 0 .. Len(events')
      BY <1>7, <2>1, <1>a, <1>b, <1>c DEF ThreadTypeOK, AppendToList
    <3>2. pc' \in [Threads -> Labels] /\ res' \in [Threads -> {0, 1}]
      BY <1>7, <1>a, <1>b, <1>c DEF ThreadTypeOK, Labels, AppendToList, Goto
    <3>3. QED
      BY <1>7, <3>1, <3>2, <1>a, <1>b, <1>c DEF ThreadTypeOK, AppendToList
<1>8. ASSUME NEW t \in Threads, Lookup(t) PROVE ThreadTypeOK'
  BY <1>8, <1>a, <1>b, <1>c, GetEventFinds
  DEF ThreadTypeOK, Labels, Lookup, Goto
<1>9. ASSUME NEW t \in Threads, Check(t) PROVE ThreadTypeOK'
  <2>1. reservations[event[t]] \in Nat
    BY <1>9, ListFacts, <1>a, <1>b, <1>c DEF Check, Goto, ThreadTypeOK, IInv, Placed, TypeOK
  <2>2. QED
    <3>1. rid' \in [Threads -> Nat] /\ res' \in [Threads -> {0, 1}]
      <4>1. \/ rid' = rid /\ res' = [res EXCEPT ![t] = 1]
            \/ rid' = [rid EXCEPT ![t] = reservations[event[t]] + 1] /\ res' = res
        BY <1>9 DEF Check
      <4>2. rid \in [Threads -> Nat] /\ res \in [Threads -> {0, 1}]
        BY <1>b DEF ThreadTypeOK
      <4>3. QED
        BY <1>9, <4>1, <4>2, <2>1
    <3>2. pc' \in [Threads -> Labels]
      BY <1>9, <1>a, <1>b, <1>c DEF ThreadTypeOK, Labels, Check, Goto
    <3>3. QED
      BY <1>9, <3>1, <3>2, <1>a, <1>b, <1>c DEF ThreadTypeOK, Check
<1>10. ASSUME NEW t \in Threads, WriteSeat(t) PROVE ThreadTypeOK'
  <2>1. /\ i[t] \in Nat /\ i' = [i EXCEPT ![t] = i[t] + 1]
        /\ pc' = [pc EXCEPT ![t] = "write"]
        /\ UNCHANGED <<events, req, event, rid, res, node>>
    BY <1>10, <1>b DEF ThreadTypeOK, WriteSeat, Goto
  <2>2. i' \in [Threads -> Nat] /\ pc' \in [Threads -> Labels]
    BY <2>1, <1>b DEF ThreadTypeOK, Labels
  <2>3. QED
    BY <2>1, <2>2, <1>b DEF ThreadTypeOK
<1>11. ASSUME NEW t \in Threads, ReserveReturn(t) PROVE ThreadTypeOK'
  BY <1>11, <1>a, <1>b, <1>c
  DEF ThreadTypeOK, Labels, ReserveReturn, Goto
<1>12. ASSUME NEW t \in Threads, GetEventInfo(t) PROVE ThreadTypeOK'
  BY <1>12, <1>a, <1>b, <1>c
  DEF ThreadTypeOK, Labels, GetEventInfo, Goto
<1>13. ASSUME NEW t \in Threads, ReadSeat(t) PROVE ThreadTypeOK'
  BY <1>13, <1>a, <1>b, <1>c
  DEF ThreadTypeOK, Labels, ReadSeat
<1>14. ASSUME NEW t \in Threads, ShowReturn(t) PROVE ThreadTypeOK'
  BY <1>14, <1>a, <1>b, <1>c
  DEF ThreadTypeOK, Labels, ShowReturn, Goto
<1>15. ASSUME NEW t \in Threads, GetEvents(t) PROVE ThreadTypeOK'
  BY <1>15, <1>a, <1>b, <1>c
  DEF ThreadTypeOK, Labels, GetEvents, Goto
<1>16. ASSUME NEW t \in Threads, Reply(t) PROVE ThreadTypeOK'
  BY <1>16, <1>a, <1>b, <1>c
  DEF ThreadTypeOK, Labels, Reply, Goto
<1>17. ASSUME DumpNode PROVE ThreadTypeOK'
  <2>1. events[node + 1].id \in EventIds /\ node + 1 \in 0 .. Len(events)
    <3>1. node \in 0 .. Len(events) /\ node < Len(events) /\ Len(events) \in Nat
      BY <1>17, <1>a DEF DumpNode, ThreadTypeOK, IInv, TypeOK
    <3>2. node + 1 \in 1 .. Len(events)
      BY <3>1
    <3>3. events[node + 1] \in EventRecords
      BY <3>2, ListFacts DEF IInv, TypeOK
    <3>4. QED
      BY <3>2, <3>3 DEF EventRecords
  <2>2. QED
    BY <1>17, <2>1, <1>a, <1>b, <1>c DEF ThreadTypeOK, Labels, DumpNode, Goto
<1>18. ASSUME PrintReturn PROVE ThreadTypeOK'
  BY <1>18, <1>a, <1>b, <1>c
  DEF ThreadTypeOK, Labels, PrintReturn, Goto
<1>19. ASSUME DumpReturn PROVE ThreadTypeOK'
  BY <1>19, <1>a, <1>b, <1>c
  DEF ThreadTypeOK, Labels, DumpReturn, Goto
<1>20. CASE UNCHANGED vars
  <2>1. UNCHANGED <<events, pc, req, event, i, rid, res, node>>
    BY <1>20 DEF vars
  <2>2. QED
    BY <2>1, <1>a, <1>b, <1>c DEF ThreadTypeOK, Labels
<1>21. QED
  BY <1>1, <1>2, <1>3, <1>4, <1>5, <1>6, <1>7, <1>8, <1>9, <1>10, <1>11, <1>12, <1>13, <1>14, <1>15, <1>16, <1>17, <1>18, <1>19, <1>20 DEF Next, Step, HostStep

(* ... nor what a SHOW or a LIST has read.                                *)
LEMMA ViewTypeStep ==
  ASSUME IInv, [Next]_vars
  PROVE  ViewTypeOK'
<1> USE HostAssumption, NoThreadAssumption DEF Threads, list, locks, locals
<1>a. ViewTypeOK
  BY DEF IInv, TypeOK
<1>b. <<>> \in Seq(Nat) /\ <<>> \in Seq(Rooms)
  OBVIOUS
<1>1. ASSUME NEW t \in Workers, NEW r \in Requests, Call(t, r) PROVE ViewTypeOK'
  <2>1. BookedSeats \in Seq(Rooms)
    BY BookedInSeq DEF IInv, TypeOK
  <2>2. QED
    BY <1>1, <2>1, <1>a, <1>b DEF ViewTypeOK, Call
<1>2. ASSUME Dump PROVE ViewTypeOK'
  BY <1>2, <1>a, <1>b
  DEF ViewTypeOK, Dump, Goto
<1>3. ASSUME NEW t \in Threads, WrLock(t) PROVE ViewTypeOK'
  BY <1>3, <1>a, <1>b
  DEF ViewTypeOK, WrLock, Goto
<1>4. ASSUME NEW t \in Threads, RdLock(t) PROVE ViewTypeOK'
  BY <1>4, <1>a, <1>b
  DEF ViewTypeOK, RdLock, Goto, AfterRdLock
<1>5. ASSUME NEW t \in Threads, MutexLock(t) PROVE ViewTypeOK'
  BY <1>5, <1>a, <1>b
  DEF ViewTypeOK, MutexLock, Goto, AfterMutexLock
<1>6. ASSUME NEW t \in Threads, Create(t) PROVE ViewTypeOK'
  BY <1>6, <1>a, <1>b
  DEF ViewTypeOK, Create, Goto
<1>7. ASSUME NEW t \in Threads, AppendToList(t) PROVE ViewTypeOK'
  BY <1>7, <1>a, <1>b
  DEF ViewTypeOK, AppendToList, Goto
<1>8. ASSUME NEW t \in Threads, Lookup(t) PROVE ViewTypeOK'
  BY <1>8, <1>a, <1>b
  DEF ViewTypeOK, Lookup, Goto
<1>9. ASSUME NEW t \in Threads, Check(t) PROVE ViewTypeOK'
  BY <1>9, <1>a, <1>b
  DEF ViewTypeOK, Check, Goto
<1>10. ASSUME NEW t \in Threads, WriteSeat(t) PROVE ViewTypeOK'
  BY <1>10, <1>a, <1>b
  DEF ViewTypeOK, WriteSeat, Goto
<1>11. ASSUME NEW t \in Threads, ReserveReturn(t) PROVE ViewTypeOK'
  BY <1>11, <1>a, <1>b
  DEF ViewTypeOK, ReserveReturn, Goto
<1>12. ASSUME NEW t \in Threads, GetEventInfo(t) PROVE ViewTypeOK'
  BY <1>12, <1>a, <1>b
  DEF ViewTypeOK, GetEventInfo, Goto
<1>13. ASSUME NEW t \in Threads, ReadSeat(t) PROVE ViewTypeOK'
  <2>1. data[event[t]][Len(view[t])] \in Nat
    <3>1. event[t] \in 1 .. Len(events)
      BY <1>13, ListFacts DEF ReadSeat, IInv, Placed, TypeOK, ThreadTypeOK
    <3>2. Len(view[t]) \in Nat
      BY <1>a DEF ViewTypeOK
    <3>3. Len(view[t]) \in Seats(event[t])
      BY <1>13, <3>1, <3>2, ListFacts DEF ReadSeat, Seats, IInv, TypeOK, EventRecords
    <3>4. QED
      BY <3>1, <3>3, SeatsAreNumbers DEF IInv, TypeOK
  <2>2. Append(view[t], data[event[t]][Len(view[t])]) \in Seq(Nat)
    BY <2>1, <1>a DEF ViewTypeOK
  <2>3. QED
    BY <1>13, <2>2, <1>a, <1>b DEF ViewTypeOK, ReadSeat
<1>14. ASSUME NEW t \in Threads, ShowReturn(t) PROVE ViewTypeOK'
  BY <1>14, <1>a, <1>b
  DEF ViewTypeOK, ShowReturn, Goto
<1>15. ASSUME NEW t \in Threads, GetEvents(t) PROVE ViewTypeOK'
  <2>1. [e \in 1 .. Len(events) |-> events[e].id] \in Seq(Nat)
    <3>1. [e \in 1 .. Len(events) |-> events[e].id] \in [1 .. Len(events) -> Nat]
      BY ListFacts, EventIdsAssumption DEF IInv, TypeOK, EventRecords
    <3>2. QED
      BY <3>1, ListFacts DEF IInv, TypeOK
  <2>2. QED
    BY <1>15, <2>1, <1>a, <1>b DEF ViewTypeOK, GetEvents
<1>16. ASSUME NEW t \in Threads, Reply(t) PROVE ViewTypeOK'
  BY <1>16, <1>a, <1>b
  DEF ViewTypeOK, Reply, Goto
<1>17. ASSUME DumpNode PROVE ViewTypeOK'
  BY <1>17, <1>a, <1>b
  DEF ViewTypeOK, DumpNode, Goto
<1>18. ASSUME PrintReturn PROVE ViewTypeOK'
  BY <1>18, <1>a, <1>b
  DEF ViewTypeOK, PrintReturn, Goto
<1>19. ASSUME DumpReturn PROVE ViewTypeOK'
  BY <1>19, <1>a, <1>b
  DEF ViewTypeOK, DumpReturn, Goto
<1>20. CASE UNCHANGED vars
  <2>1. UNCHANGED <<view, floor>>
    BY <1>20 DEF vars
  <2>2. QED
    BY <2>1, <1>a, <1>b DEF ViewTypeOK
<1>21. QED
  BY <1>1, <1>2, <1>3, <1>4, <1>5, <1>6, <1>7, <1>8, <1>9, <1>10, <1>11, <1>12, <1>13, <1>14, <1>15, <1>16, <1>17, <1>18, <1>19, <1>20 DEF Next, Step, HostStep

(* The locks and the types hold whatever the sizes: from the start, ...     *)
LEMMA InitIInv == Init => IInv
<1> SUFFICES ASSUME Init PROVE IInv
  OBVIOUS
<1> USE HostAssumption, NoThreadAssumption DEF Threads, Init
<1>1. ListTypeOK
  BY DEF ListTypeOK
<1>2. ThreadTypeOK
  BY DEF ThreadTypeOK, Labels, AllRequests
<1>3. ViewTypeOK
  BY DEF ViewTypeOK
<1>4. TypeOK
  BY <1>1, <1>2, <1>3 DEF TypeOK, LockTypeOK
<1>5. Placed
  BY DEF Placed, PlacedWorker, PlacedHost
<1>6. LocksHeld
  BY DEF LocksHeld, MutexHeld, WriterInside, ReadersInside, Dumping
<1>7. QED
  BY <1>4, <1>5, <1>6 DEF IInv

(* ... and from step to step.  The locks are counted in Nat and given to    *)
(* threads: that follows from where the threads are.                        *)
LEMMA NextIInv == IInv /\ [Next]_vars => IInv'
<1> SUFFICES ASSUME IInv, [Next]_vars PROVE IInv'
  OBVIOUS
<1>1. ListTypeOK' /\ ThreadTypeOK' /\ ViewTypeOK'
  BY ListTypeStep, ThreadTypeStep, ViewTypeStep
<1>2. Placed'
  BY PlacedStep
<1>3. MutexHeld' /\ WriterInside' /\ ReadersInside'
  BY MutexStep, WriterStep, ReadersStep
<1>4. (writer # NoThread => \A u \in Threads : readers[u] = 0)'
  BY ExclusionStep
<1>5. LockTypeOK'
  BY LockTypeStep
<1>6. QED
  BY <1>1, <1>2, <1>3, <1>4, <1>5 DEF IInv, TypeOK, LocksHeld

THEOREM Invariance == Spec => []IInv
<1>1. QED
  BY InitIInv, NextIInv, PTL DEF Spec

(* Every variable of the server's state keeps its type, with any number of *)
(* sessions, events and seats (operations.c, eventlist.c).                 *)
THEOREM TypeCorrect == Spec => []TypeOK
<1>1. IInv => TypeOK
  BY DEF IInv
<1>2. QED
  BY <1>1, Invariance, PTL

(* Every return of an operation leaves the locks as it found them, and     *)
(* whoever is between a lock and its unlock holds it alone or with other   *)
(* readers (the pthread calls of operations.c).                            *)
THEOREM LocksCorrect == Spec => []LocksHeld
<1>1. IInv => LocksHeld
  BY DEF IInv
<1>2. QED
  BY <1>1, Invariance, PTL

------------------------------------------------------------------------------
(***************************************************************************)
(* What the locks are for: no two events have one id, no seat is given     *)
(* twice, and a RESERVE that succeeds has all its seats.                   *)
(***************************************************************************)

(* A seat within the bounds has an index within the room (seat_index).     *)
LEMMA SeatIndexInRoom ==
  ASSUME NEW rows \in Nat, NEW cols \in Nat, NEW r \in 1 .. rows, NEW c \in 1 .. cols
  PROVE  (r - 1) * cols + c - 1 \in 0 .. rows * cols - 1
<1>1. (r - 1) * cols \in Nat
  OBVIOUS
<1>2. (r - 1) * cols + cols = r * cols
  OBVIOUS
<1>3. PICK d \in Nat : rows = r + d
  <2>1. rows - r \in Nat /\ rows = r + (rows - r)
    OBVIOUS
  <2>2. QED
    BY <2>1
<1>4. rows * cols = r * cols + d * cols
  BY <1>3
<1>5. d * cols \in Nat
  BY <1>3
<1>6. /\ rows * cols \in Nat /\ r * cols \in Nat
  OBVIOUS
<1> DEFINE a == (r - 1) * cols
           b == r * cols
           x == d * cols
           n == rows * cols
<1> HIDE DEF a, b, x, n
<1>7. a \in Nat /\ b \in Nat /\ x \in Nat /\ n \in Nat /\ a + cols = b /\ n = b + x
  BY <1>1, <1>2, <1>4, <1>5, <1>6 DEF a, b, x, n
<1>8. a + c - 1 \in 0 .. n - 1
  BY <1>7
<1>9. QED
  BY <1>8 DEF a, n

------------------------------------------------------------------------------
(* The invariant.  The thread that appends an event found its id free and  *)
(* nobody has appended one since.                                          *)
Appending(t) ==
  pc[t] = "append" => \A e \in 1 .. Len(events) : events[e].id # req[t].id

(* A thread that writes no seats yet is at the first of them.              *)
Fresh(t) == pc[t] \notin {"write", "reply"} => i[t] = 0

(* Reservation ids are given in order.                                     *)
Numbered ==
  \A e \in 1 .. Len(events) : \A s \in DOMAIN data[e] : data[e][s] <= reservations[e]

Index(t, j) == seat_index(event[t], req[t].seats[j])

(* The thread that writes has the last reservation id of its event; the    *)
(* seats it has written and no other carry it, the rest of those it wants  *)
(* are free.                                                               *)
Reserving(t) ==
  pc[t] = "write" =>
    LET room == data[event[t]]
    IN  /\ i[t] \in 0 .. Len(req[t].seats)
        /\ rid[t] = reservations[event[t]] /\ rid[t] # 0
        /\ \A j \in 1 .. Len(req[t].seats) : /\ Index(t, j) \in DOMAIN room
                                             /\ room[Index(t, j)] \in {0, rid[t]}
        /\ \A s \in DOMAIN room : room[s] = rid[t] <=> \E j \in 1 .. i[t] : s = Index(t, j)

(* A reservation that has been made keeps its seats: whoever writes in the *)
(* event now has another id.                                               *)
Reserved(t) ==
  pc[t] = "reply" /\ req[t].op = "RESERVE" /\ res[t] = 0 =>
    /\ event[t] # 0 /\ rid[t] # 0
    /\ rid[t] <= reservations[event[t]]
    /\ \A u \in Workers : pc[u] = "write" /\ event[u] = event[t] => rid[u] # rid[t]
    /\ \A s \in DOMAIN data[event[t]] :
         data[event[t]][s] = rid[t] <=> \E j \in 1 .. Len(req[t].seats) : s = Index(t, j)
    /\ \A j \in 1 .. Len(req[t].seats) : Index(t, j) \in DOMAIN data[event[t]]

SeatInv ==
  /\ IdsUnique
  /\ Numbered
  /\ \A t \in Threads : Appending(t) /\ Fresh(t)
  /\ \A t \in Workers : Reserving(t) /\ Reserved(t)

------------------------------------------------------------------------------
(* Most steps are another thread's, on another event, or not a RESERVE's.  *)
Kept(u) == /\ pc'[u] = pc[u] /\ req'[u] = req[u] /\ event'[u] = event[u]
           /\ i'[u] = i[u] /\ rid'[u] = rid[u] /\ res'[u] = res[u]

KeptEvent(e) == /\ events'[e] = events[e] /\ data'[e] = data[e]
                /\ reservations'[e] = reservations[e]

HasReserved(u) == pc[u] = "reply" /\ req[u].op = "RESERVE" /\ res[u] = 0

Elsewhere(u) == pc'[u] # "write" /\ ~ HasReserved(u)'

LEMMA ReservingKept ==
  ASSUME NEW u \in Workers, Reserving(u), Kept(u), pc[u] = "write" => KeptEvent(event[u])
  PROVE  Reserving(u)'
<1> SUFFICES ASSUME pc'[u] = "write" PROVE Reserving(u)'
  BY DEF Reserving
<1>1. pc[u] = "write" /\ KeptEvent(event[u])
  BY DEF Kept
<1>2. \A j : Index(u, j)' = Index(u, j)
  BY <1>1 DEF Index, seat_index, Kept, KeptEvent
<1>3. QED
  BY <1>1, <1>2 DEF Reserving, Kept, KeptEvent

LEMMA ReservedKept ==
  ASSUME NEW u \in Workers, Reserved(u), Kept(u), HasReserved(u) => KeptEvent(event[u]),
         \A v \in Workers : HasReserved(u) /\ pc'[v] = "write" /\ event'[v] = event[u] =>
           rid'[v] # rid[u]
  PROVE  Reserved(u)'
<1> SUFFICES ASSUME HasReserved(u)' PROVE Reserved(u)'
  BY DEF Reserved, HasReserved
<1>1. HasReserved(u) /\ KeptEvent(event[u])
  BY DEF HasReserved, Kept
<1>2. \A j : Index(u, j)' = Index(u, j)
  BY <1>1 DEF Index, seat_index, Kept, KeptEvent
<1>3. QED
  BY <1>1, <1>2 DEF Reserved, HasReserved, Kept, KeptEvent

(* A step that spares the events of the list, and every thread that is not *)
(* kept as it was brought elsewhere, spares the reservations.              *)
LEMMA QuietStep ==
  ASSUME IInv, SeatInv,
         \A e \in 1 .. Len(events) : KeptEvent(e),
         \A u \in Workers : Kept(u) \/ Elsewhere(u)
  PROVE  \A u \in Workers : Reserving(u)' /\ Reserved(u)'
<1> SUFFICES ASSUME NEW u \in Workers PROVE Reserving(u)' /\ Reserved(u)'
  OBVIOUS
<1>1. CASE Elsewhere(u)
  BY <1>1 DEF Elsewhere, HasReserved, Reserving, Reserved
<1>2. CASE Kept(u)
  <2>1. Reserving(u) /\ Reserved(u)
    BY DEF SeatInv
  <2>2. pc[u] = "write" \/ HasReserved(u) => event[u] \in 1 .. Len(events)
    BY <2>1, ListFacts DEF Reserved, HasReserved, IInv, TypeOK, ThreadTypeOK, Placed, Threads
  <2>3. \A v \in Workers : HasReserved(u) /\ pc'[v] = "write" /\ event'[v] = event[u] =>
          rid'[v] # rid[u]
    BY <2>1 DEF Reserved, HasReserved, Kept, Elsewhere
  <2>4. QED
    BY <1>2, <2>1, <2>2, <2>3, ReservingKept, ReservedKept
<1>3. QED
  BY <1>1, <1>2

(* The events that are in the list stay when one is appended.              *)
LEMMA KeptByAppend ==
  ASSUME ListTypeOK, NEW t, AppendToList(t), NEW e \in 1 .. Len(events)
  PROVE  KeptEvent(e)
<1>1. CASE UNCHANGED list
  BY <1>1 DEF list, KeptEvent
<1>2. CASE ~ UNCHANGED list
  <2>1. /\ \E x : events' = Append(events, x)
        /\ \E x : data' = Append(data, x)
        /\ reservations' = Append(reservations, 0)
    BY <1>2 DEF AppendToList
  <2>2. QED
    BY <2>1 DEF ListTypeOK, KeptEvent
<1>3. QED
  BY <1>1, <1>2

(* A seat that ems_reserve found within the bounds is one of the room.     *)
LEMMA FreeSeatIsInRoom ==
  ASSUME ListTypeOK, NEW e \in 1 .. Len(events), NEW seat, InBounds(e, seat)
  PROVE  seat_index(e, seat) \in DOMAIN data[e]
<1>1. events[e].rows \in Nat /\ events[e].cols \in Nat
  BY ListFacts DEF EventRecords
<1>2. seat_index(e, seat) \in Seats(e)
  BY <1>1, SeatIndexInRoom DEF InBounds, seat_index, Seats
<1>3. QED
  BY <1>2 DEF ListTypeOK

(* A step that leaves the list alone and every reservation where it is.      *)
LEMMA QuietAction ==
  ASSUME IInv, SeatInv, UNCHANGED list, \A u \in Workers : Kept(u) \/ Elsewhere(u)
  PROVE  \A u \in Workers : Reserving(u)' /\ Reserved(u)'
BY QuietStep DEF list, KeptEvent

LEMMA ReservationStep ==
  ASSUME IInv, SeatInv, [Next]_vars
  PROVE  \A u \in Workers : Reserving(u)' /\ Reserved(u)'
<1> USE HostAssumption DEF Threads, list, locals
<1> DEFINE Goal == \A u \in Workers : Reserving(u)' /\ Reserved(u)'
           Quiet == \A u \in Workers : Kept(u) \/ Elsewhere(u)
<1>a. /\ pc \in [Threads -> Labels] /\ req \in [Threads -> AllRequests]
      /\ event \in [Threads -> 0 .. Len(events)] /\ res \in [Threads -> {0, 1}]
      /\ i \in [Threads -> Nat] /\ rid \in [Threads -> Nat]
  BY DEF IInv, TypeOK, ThreadTypeOK
<1>b. /\ Len(events) \in Nat
      /\ reservations \in [1 .. Len(events) -> Nat]
      /\ data \in [1 .. Len(events) -> Rooms]
  BY ListFacts DEF IInv, TypeOK
<1>c. \A u \in Workers : Reserving(u) /\ Reserved(u)
  BY DEF SeatInv
<1>d. /\ \A u \in Threads : pc[u] \in {"mutex", "check", "write"} => event[u] \in 1 .. Len(events)
      /\ \A u, v \in Threads : pc[u] \in {"check", "write"} /\ pc[v] \in {"check", "write"}
                                 /\ event[u] = event[v] => u = v
  <2>1. \A u \in Threads : pc[u] \in {"mutex", "check", "write"} => event[u] \in 1 .. Len(events)
    BY <1>a, <1>b DEF IInv, Placed
  <2>2. MutexHeld
    BY DEF IInv, LocksHeld
  <2>3. QED
    BY <2>1, <2>2 DEF MutexHeld
<1>1. ASSUME NEW t \in Workers, NEW r \in Requests, Call(t, r) PROVE Goal
  <2>1. Quiet
    BY <1>1, <1>a DEF Kept, Elsewhere, HasReserved, Call, Goto
  <2>2. QED
    BY <1>1, <2>1, QuietAction DEF Call
<1>2. ASSUME Dump PROVE Goal
  <2>1. Quiet
    BY <1>2, <1>a DEF Kept, Elsewhere, HasReserved, Dump, Goto
  <2>2. QED
    BY <1>2, <2>1, QuietAction DEF Dump
<1>3. ASSUME NEW t \in Threads, WrLock(t) PROVE Goal
  <2>1. Quiet
    BY <1>3, <1>a DEF Kept, Elsewhere, HasReserved, WrLock, Goto
  <2>2. QED
    BY <1>3, <2>1, QuietAction DEF WrLock
<1>4. ASSUME NEW t \in Threads, RdLock(t) PROVE Goal
  <2>1. Quiet
    BY <1>4, <1>a DEF Kept, Elsewhere, HasReserved, RdLock, Goto, AfterRdLock
  <2>2. QED
    BY <1>4, <2>1, QuietAction DEF RdLock
<1>5. ASSUME NEW t \in Threads, MutexLock(t) PROVE Goal
  <2>1. Quiet
    BY <1>5, <1>a DEF Kept, Elsewhere, HasReserved, MutexLock, Goto, AfterMutexLock
  <2>2. QED
    BY <1>5, <2>1, QuietAction DEF MutexLock
<1>6. ASSUME NEW t \in Threads, Create(t) PROVE Goal
  <2>1. Quiet
    BY <1>6, <1>a DEF Kept, Elsewhere, HasReserved, Create, Goto, IInv, Placed, PlacedWorker, PlacedHost, Creates
  <2>2. QED
    BY <1>6, <2>1, QuietAction DEF Create
<1>7. ASSUME NEW t \in Threads, AppendToList(t) PROVE Goal
  <2>1. Quiet
    BY <1>7, <1>a DEF Kept, Elsewhere, HasReserved, AppendToList, Goto, IInv, Placed, PlacedWorker, PlacedHost, Creates
  <2>2. \A e \in 1 .. Len(events) : KeptEvent(e)
    BY <1>7, KeptByAppend DEF IInv, TypeOK
  <2>3. QED
    BY <2>1, <2>2, QuietStep
<1>8. ASSUME NEW t \in Threads, Lookup(t) PROVE Goal
  <2>1. Quiet
    BY <1>8, <1>a DEF Kept, Elsewhere, HasReserved, Lookup, Goto
  <2>2. QED
    BY <1>8, <2>1, QuietAction DEF Lookup
<1>9. ASSUME NEW t \in Threads, Check(t) PROVE Goal
  <2> DEFINE e == event[t]
             free == \A j \in 1 .. Len(req[t].seats) :
                       InBounds(e, req[t].seats[j]) /\ data[e][Index(t, j)] = 0
  <2>1. CASE ~ free
    <3>1. UNCHANGED list /\ Quiet
      BY <1>9, <2>1, <1>a DEF Check, Goto, Index, Kept, Elsewhere, HasReserved
    <3>2. QED
      BY <3>1, QuietAction
  <2>2. CASE free
    <3>1. /\ pc' = [pc EXCEPT ![t] = "write"] /\ pc[t] = "check"
          /\ reservations' = [reservations EXCEPT ![e] = @ + 1]
          /\ rid' = [rid EXCEPT ![t] = reservations[e] + 1]
          /\ UNCHANGED <<events, data, req, event, i, res>>
      BY <1>9, <2>2 DEF Check, Goto, Index
    <3>2. e \in 1 .. Len(events) /\ reservations[e] \in Nat
      BY <3>1, <1>b, <1>d
    <3>3. \A s \in DOMAIN data[e] : data[e][s] \in Nat /\ data[e][s] < reservations[e] + 1
      BY <3>2, SeatsAreNumbers DEF SeatInv, Numbered, IInv, TypeOK
    <3>4. \A j \in 1 .. Len(req[t].seats) : Index(t, j) \in DOMAIN data[e]
      BY <2>2, <3>2, FreeSeatIsInRoom DEF Index, IInv, TypeOK
    <3>5. i[t] = 0
      BY <3>1 DEF SeatInv, Fresh
    <3>6. Len(req[t].seats) \in Nat
      BY <3>1, SeatListsAssumption DEF IInv, Placed, PlacedWorker, PlacedHost, Reserves
    <3>7. t \in Workers => Reserving(t)' /\ Reserved(t)'
      <4> SUFFICES ASSUME t \in Workers PROVE Reserving(t)' /\ Reserved(t)'
        OBVIOUS
      <4>1. /\ pc'[t] = "write" /\ event'[t] = e /\ i'[t] = 0 /\ data' = data /\ req' = req
            /\ rid'[t] = reservations[e] + 1 /\ reservations'[e] = reservations[e] + 1
        BY <3>1, <3>2, <3>5, <1>a, <1>b
      <4>2. \A j : Index(t, j)' = Index(t, j)
        BY <3>1 DEF Index, seat_index
      <4>3. \A s \in DOMAIN data[e] : data[e][s] # rid'[t]
        BY <3>2, <3>3, <4>1
      <4>4. \A j \in 1 .. Len(req[t].seats) :
              Index(t, j) \in DOMAIN data[e] /\ data[e][Index(t, j)] = 0
        BY <2>2, <3>4
      <4>5. rid'[t] # 0 /\ i'[t] \in 0 .. Len(req[t].seats)
        BY <3>2, <3>6, <4>1
      <4>6. Reserving(t)'
        BY <4>1, <4>2, <4>3, <4>4, <4>5 DEF Reserving
      <4>7. QED
        BY <4>1, <4>6 DEF Reserved
    <3>8. ASSUME NEW u \in Workers, u # t PROVE Reserving(u)' /\ Reserved(u)'
      <4>1. Kept(u) /\ Reserving(u) /\ Reserved(u)
        BY <3>1, <3>8, <1>a, <1>c DEF Kept
      <4>2. Reserving(u)'
        <5>1. pc[u] = "write" => event[u] # e
          BY <3>1, <3>8, <1>d
        <5>2. pc[u] = "write" => KeptEvent(event[u])
          BY <5>1, <3>1, <1>b, <1>d DEF KeptEvent
        <5>3. QED
          BY <4>1, <5>2, ReservingKept
      <4>3. CASE HasReserved(u) /\ event[u] = e
        <5>1. rid[u] < reservations[e] + 1 /\ rid[u] \in Nat
          BY <4>1, <4>3, <3>2, <1>a DEF Reserved, HasReserved
        <5>2. \A v \in Workers : pc'[v] = "write" /\ event'[v] = event'[u] => rid'[v] # rid'[u]
          BY <4>1, <4>3, <5>1, <3>1, <1>a DEF Reserved, HasReserved
        <5>3. reservations'[e] = reservations[e] + 1
          BY <3>1, <3>2, <1>b
        <5>4. QED
          BY <4>1, <4>2, <4>3, <5>1, <5>2, <5>3, <3>1, <3>2 DEF Reserved, HasReserved, Index, seat_index, Kept
      <4>4. CASE HasReserved(u) /\ event[u] # e
        <5>1. KeptEvent(event[u])
          BY <4>4, <3>1, <1>b, <1>a DEF KeptEvent
        <5>2. \A v \in Workers : pc'[v] = "write" /\ event'[v] = event[u] => rid'[v] # rid[u]
          BY <4>1, <4>4, <3>1, <1>a DEF Reserved, HasReserved
        <5>3. QED
          BY <4>1, <4>2, <5>1, <5>2, ReservedKept
      <4>5. CASE ~ HasReserved(u)
        BY <4>1, <4>2, <4>5 DEF Reserved, HasReserved, Kept
      <4>6. QED
        BY <4>3, <4>4, <4>5
    <3>9. QED
      BY <3>7, <3>8
  <2>3. QED
    BY <2>1, <2>2
<1>10. ASSUME NEW t \in Threads, WriteSeat(t) PROVE Goal
  <2> DEFINE e == event[t]
             n == i[t] + 1
             s == Index(t, n)
  <2>1. /\ pc[t] = "write" /\ pc' = [pc EXCEPT ![t] = "write"] /\ i[t] < Len(req[t].seats)
        /\ i' = [i EXCEPT ![t] = n]
        /\ data' = [data EXCEPT ![e][s] = rid[t]]
        /\ UNCHANGED <<events, reservations, req, event, rid, res>>
    BY <1>10 DEF WriteSeat, Goto, Index
  <2>2. t \in Workers /\ e \in 1 .. Len(events)
    BY <2>1, <1>d DEF IInv, Placed, PlacedHost
  <2>3. Len(req[t].seats) \in Nat
    BY <2>1, <2>2, SeatListsAssumption DEF IInv, Placed, PlacedWorker, Reserves
  <2>4. n \in 1 .. Len(req[t].seats) /\ s \in DOMAIN data[e] /\ rid[t] # 0
    BY <2>1, <2>2, <2>3, <1>a, <1>c DEF Reserving
  <2>5. /\ DOMAIN data'[e] = DOMAIN data[e]
        /\ \A x \in DOMAIN data[e] : data'[e][x] = IF x = s THEN rid[t] ELSE data[e][x]
        /\ \A f \in 1 .. Len(events) : f # e => data'[f] = data[f]
    BY <2>1, <2>2, <2>4, <1>b, SeatsAreNumbers DEF IInv, TypeOK
  <2>6. \A u, j : Index(u, j)' = Index(u, j)
    BY <2>1 DEF Index, seat_index
  <2>7. pc' = pc /\ i'[t] = n
    BY <2>1, <1>a
  <2>8. Reserving(t)' /\ Reserved(t)'
    BY <2>1, <2>2, <2>3, <2>4, <2>5, <2>6, <2>7, <1>a, <1>c DEF Reserving, Reserved
  <2>9. ASSUME NEW u \in Workers, u # t PROVE Reserving(u)' /\ Reserved(u)'
    <3>1. Kept(u) /\ Reserving(u) /\ Reserved(u)
      BY <2>1, <2>7, <2>9, <1>a, <1>c DEF Kept
    <3>2. Reserving(u)'
      <4>1. pc[u] = "write" => KeptEvent(event[u])
        BY <2>1, <2>5, <2>9, <1>d DEF KeptEvent
      <4>2. QED
        BY <3>1, <4>1, ReservingKept
    <3>3. CASE HasReserved(u) /\ event[u] = e
      <4>1. rid[u] # rid[t] /\ rid[u] # 0
        BY <2>1, <2>2, <3>1, <3>3 DEF Reserved, HasReserved
      <4>2. data[e][s] # rid[u]
        BY <2>1, <2>2, <2>4, <4>1, <1>c DEF Reserving
      <4>3. QED
        BY <2>1, <2>5, <2>6, <2>7, <3>1, <3>2, <3>3, <4>1, <4>2 DEF Reserved, HasReserved
    <3>4. CASE HasReserved(u) /\ event[u] # e
      <4>1. KeptEvent(event[u])
        BY <2>1, <2>5, <3>1, <3>4, <1>a DEF KeptEvent, Reserved, HasReserved
      <4>2. \A v \in Workers : HasReserved(u) /\ pc'[v] = "write" /\ event'[v] = event[u] =>
              rid'[v] # rid[u]
        BY <2>1, <2>7, <3>1 DEF Reserved, HasReserved
      <4>3. QED
        BY <3>1, <3>2, <4>1, <4>2, ReservedKept
    <3>5. CASE ~ HasReserved(u)
      BY <3>1, <3>2, <3>5 DEF Reserved, HasReserved, Kept
    <3>6. QED
      BY <3>3, <3>4, <3>5
  <2>10. QED
    BY <2>8, <2>9
<1>11. ASSUME NEW t \in Threads, ReserveReturn(t) PROVE Goal
  <2>1. /\ pc[t] = "write" /\ pc' = [pc EXCEPT ![t] = "reply"] /\ i[t] = Len(req[t].seats)
        /\ UNCHANGED <<events, reservations, data, req, event, i, rid, res>>
    BY <1>11 DEF ReserveReturn, Goto
  <2>2. t \in Workers /\ event[t] \in 1 .. Len(events)
    BY <2>1, <1>d DEF IInv, Placed, PlacedHost
  <2>3. \A u, j : Index(u, j)' = Index(u, j)
    BY <2>1 DEF Index, seat_index
  <2>4. Reserving(t)' /\ Reserved(t)'
    <3>1. \A v \in Workers : pc'[v] = "write" => event[v] # event[t]
      BY <2>1, <2>2, <1>a, <1>d
    <3>2. QED
      BY <2>1, <2>2, <2>3, <3>1, <1>a, <1>b, <1>c DEF Reserving, Reserved
  <2>5. ASSUME NEW u \in Workers, u # t PROVE Reserving(u)' /\ Reserved(u)'
    <3>1. Kept(u) /\ Reserving(u) /\ Reserved(u) /\ \A f : KeptEvent(f)
      BY <2>1, <2>5, <1>a, <1>c DEF Kept, KeptEvent
    <3>2. \A v \in Workers : HasReserved(u) /\ pc'[v] = "write" /\ event'[v] = event[u] =>
            rid'[v] # rid[u]
      BY <2>1, <3>1, <1>a DEF Reserved, HasReserved
    <3>3. QED
      BY <3>1, <3>2, ReservingKept, ReservedKept
  <2>6. QED
    BY <2>4, <2>5
<1>12. ASSUME NEW t \in Threads, GetEventInfo(t) PROVE Goal
  <2>1. Quiet
    BY <1>12, <1>a DEF Kept, Elsewhere, HasReserved, GetEventInfo, Goto
  <2>2. QED
    BY <1>12, <2>1, QuietAction DEF GetEventInfo
<1>13. ASSUME NEW t \in Threads, ReadSeat(t) PROVE Goal
  <2>1. Quiet
    BY <1>13, <1>a DEF Kept, Elsewhere, HasReserved, ReadSeat
  <2>2. QED
    BY <1>13, <2>1, QuietAction DEF ReadSeat
<1>14. ASSUME NEW t \in Threads, ShowReturn(t) PROVE Goal
  <2>1. Quiet
    BY <1>14, <1>a DEF Kept, Elsewhere, HasReserved, ShowReturn, Goto, IInv, Placed, PlacedWorker, PlacedHost, Shows
  <2>2. QED
    BY <1>14, <2>1, QuietAction DEF ShowReturn
<1>15. ASSUME NEW t \in Threads, GetEvents(t) PROVE Goal
  <2>1. Quiet
    BY <1>15, <1>a DEF Kept, Elsewhere, HasReserved, GetEvents, Goto, IInv, Placed, PlacedWorker, PlacedHost, Lists
  <2>2. QED
    BY <1>15, <2>1, QuietAction DEF GetEvents
<1>16. ASSUME NEW t \in Threads, Reply(t) PROVE Goal
  <2>1. Quiet
    BY <1>16, <1>a DEF Kept, Elsewhere, HasReserved, Reply, Goto
  <2>2. QED
    BY <1>16, <2>1, QuietAction DEF Reply
<1>17. ASSUME DumpNode PROVE Goal
  <2>1. Quiet
    BY <1>17, <1>a DEF Kept, Elsewhere, HasReserved, DumpNode, Goto
  <2>2. QED
    BY <1>17, <2>1, QuietAction DEF DumpNode
<1>18. ASSUME PrintReturn PROVE Goal
  <2>1. Quiet
    BY <1>18, <1>a DEF Kept, Elsewhere, HasReserved, PrintReturn, Goto
  <2>2. QED
    BY <1>18, <2>1, QuietAction DEF PrintReturn
<1>19. ASSUME DumpReturn PROVE Goal
  <2>1. Quiet
    BY <1>19, <1>a DEF Kept, Elsewhere, HasReserved, DumpReturn, Goto
  <2>2. QED
    BY <1>19, <2>1, QuietAction DEF DumpReturn
<1>20. CASE UNCHANGED vars
  <2>1. UNCHANGED list /\ Quiet
    BY <1>20 DEF vars, Kept
  <2>2. QED
    BY <2>1, QuietAction
<1>21. QED
  BY <1>1, <1>2, <1>3, <1>4, <1>5, <1>6, <1>7, <1>8, <1>9, <1>10, <1>11, <1>12, <1>13, <1>14, <1>15, <1>16, <1>17, <1>18, <1>19, <1>20 DEF Next, Step, HostStep

------------------------------------------------------------------------------
(* Three actions touch the list.                                           *)
LEMMA ListSteps ==
  ASSUME [Next]_vars
  PROVE  UNCHANGED list \/ \E t \in Threads : AppendToList(t) \/ Check(t) \/ WriteSeat(t)
BY DEF Next, Step, HostStep, vars, list, Call, Dump, WrLock, RdLock, MutexLock, Create, Lookup,
       ReserveReturn, GetEventInfo, ReadSeat, ShowReturn, GetEvents, Reply, DumpNode,
       PrintReturn, DumpReturn

LEMMA NumberedStep ==
  ASSUME IInv, SeatInv, [Next]_vars
  PROVE  Numbered'
<1>a. /\ Len(events) \in Nat
      /\ reservations \in [1 .. Len(events) -> Nat]
      /\ data \in [1 .. Len(events) -> Rooms]
  BY ListFacts DEF IInv, TypeOK
<1>b. Numbered
  BY DEF SeatInv
<1>1. CASE UNCHANGED list
  BY <1>1, <1>b DEF list, Numbered
<1>2. ASSUME NEW t \in Threads, AppendToList(t) PROVE Numbered'
  <2>1. CASE UNCHANGED list
    BY <2>1, <1>b DEF list, Numbered
  <2>2. CASE ~ UNCHANGED list
    <3>1. PICK rows, cols :
            /\ \E x : events' = Append(events, x)
            /\ data' = Append(data, [s \in 0 .. rows * cols - 1 |-> 0])
            /\ reservations' = Append(reservations, 0)
      BY <1>2, <2>2 DEF AppendToList
    <3> DEFINE room == [s \in 0 .. rows * cols - 1 |-> 0]
    <3>2. /\ Len(events') = Len(events) + 1
          /\ data'[Len(events) + 1] = room /\ reservations'[Len(events) + 1] = 0
      BY <3>1 DEF IInv, TypeOK, ListTypeOK
    <3>3. \A e \in 1 .. Len(events) : KeptEvent(e)
      BY <1>2, KeptByAppend DEF IInv, TypeOK
    <3>4. \A s \in DOMAIN room : room[s] <= 0
      OBVIOUS
    <3> HIDE DEF room
    <3>5. QED
      BY <3>2, <3>3, <3>4, <1>a, <1>b DEF Numbered, KeptEvent
  <2>3. QED
    BY <2>1, <2>2
<1>3. ASSUME NEW t \in Threads, Check(t) PROVE Numbered'
  <2>1. UNCHANGED <<events, data>>
    BY <1>3 DEF Check
  <2>2. \A e \in 1 .. Len(events) : reservations'[e] \in Nat /\ reservations'[e] >= reservations[e]
    BY <1>3, <1>a DEF Check
  <2>3. \A e \in 1 .. Len(events) : \A s \in DOMAIN data[e] : data[e][s] \in Nat
    BY SeatsAreNumbers DEF IInv, TypeOK
  <2>4. QED
    BY <2>1, <2>2, <2>3, <1>a, <1>b DEF Numbered
<1>4. ASSUME NEW t \in Threads, WriteSeat(t) PROVE Numbered'
  <2>1. event[t] \in 1 .. Len(events) /\ t \in Workers /\ pc[t] = "write"
    BY <1>4, <1>a DEF WriteSeat, Goto, IInv, TypeOK, ThreadTypeOK, Placed, PlacedHost, Threads
  <2>2. rid[t] <= reservations[event[t]]
    BY <2>1, <1>a DEF SeatInv, Reserving
  <2>3. PICK x : data' = [data EXCEPT ![event[t]][x] = rid[t]] /\ UNCHANGED <<events, reservations>>
    BY <1>4 DEF WriteSeat
  <2>4. QED
    BY <2>1, <2>2, <2>3, <1>a, <1>b, SeatsAreNumbers DEF Numbered, IInv, TypeOK
<1>5. QED
  BY <1>1, <1>2, <1>3, <1>4, ListSteps

LEMMA IdsStep ==
  ASSUME IInv, SeatInv, [Next]_vars
  PROVE  IdsUnique' /\ \A u \in Threads : Appending(u)'
<1>a. Len(events) \in Nat /\ pc \in [Threads -> Labels] /\ req \in [Threads -> AllRequests]
  BY ListFacts DEF IInv, TypeOK, ThreadTypeOK
<1>b. IdsUnique /\ \A u \in Threads : Appending(u)
  BY DEF SeatInv
<1>c. \A u \in Threads : pc'[u] = "append" =>
        /\ req'[u] = req[u]
        /\ pc[u] = "append" \/ \A e \in 1 .. Len(events) : events[e].id # req[u].id
  <2> DEFINE Stays(u) == pc'[u] = "append" => pc[u] = "append" /\ req'[u] = req[u]
  <2>1. ASSUME NEW u \in Threads, pc'[u] = "append"
        PROVE  (pc[u] = "append" /\ req'[u] = req[u]) \/ Create(u)
    <3>1. ASSUME NEW t \in Threads, Create(t), u # t PROVE Stays(u)
      BY <3>1, <1>a DEF Create, Goto
    <3>2. ASSUME NEW t \in Threads, Step(t), ~ Create(t) PROVE Stays(u)
      <4>1. CASE WrLock(t) \/ RdLock(t) \/ MutexLock(t) \/ Lookup(t) \/ Check(t)
        BY <4>1, <1>a DEF WrLock, RdLock, MutexLock, Lookup, Check, Goto, AfterRdLock,
                          AfterMutexLock, locals
      <4>2. CASE WriteSeat(t) \/ ReserveReturn(t) \/ GetEventInfo(t) \/ ReadSeat(t)
        BY <4>2, <1>a DEF WriteSeat, ReserveReturn, GetEventInfo, ReadSeat, Goto, locals
      <4>3. CASE ShowReturn(t) \/ GetEvents(t)
        BY <4>3, <1>a DEF ShowReturn, GetEvents, Goto, locals
      <4>4. CASE AppendToList(t)
        BY <4>4, <1>a DEF AppendToList, Goto
      <4>5. CASE Reply(t)
        BY <4>5, <1>a DEF Reply, Goto
      <4>6. QED
        BY <3>2, <4>1, <4>2, <4>3, <4>4, <4>5 DEF Step
    <3>3. ASSUME NEW t \in Workers, NEW r \in Requests, Call(t, r) PROVE Stays(u)
      BY <3>3, <1>a DEF Call, Goto, Threads
    <3>4. CASE Dump \/ HostStep
      <4>1. req'[u] = req[u] \/ u = Host
        BY <3>4, <1>a DEF Dump, HostStep, DumpNode, PrintReturn, DumpReturn
      <4>2. pc'[u] = pc[u] \/ pc'[u] # "append"
        BY <3>4, <1>a DEF Dump, HostStep, DumpNode, PrintReturn, DumpReturn, Goto
      <4>3. pc[Host] # "append" /\ pc'[Host] # "append"
        BY <3>4, <1>a DEF Dump, HostStep, DumpNode, PrintReturn, DumpReturn, Goto, Threads
      <4>4. QED
        BY <2>1, <4>1, <4>2, <4>3
    <3>5. CASE UNCHANGED vars
      BY <2>1, <3>5 DEF vars
    <3>6. QED
      BY <2>1, <3>1, <3>2, <3>3, <3>4, <3>5 DEF Next
  <2>2. ASSUME NEW u \in Threads, pc'[u] = "append", Create(u)
        PROVE  req'[u] = req[u] /\ \A e \in 1 .. Len(events) : events[e].id # req[u].id
    <3>1. get_event(req[u].id) = 0 /\ req' = req
      BY <2>2, <1>a DEF Create, Goto
    <3>2. QED
      BY <3>1, <1>a, GetEventFinds
  <2>3. QED
    BY <2>1, <2>2
<1>1. CASE UNCHANGED events
  BY <1>1, <1>b, <1>c DEF IdsUnique, Appending
<1>2. CASE ~ UNCHANGED events
  <2>1. PICK t \in Threads : AppendToList(t)
    BY <1>2, ListSteps DEF list, Check, WriteSeat
  <2>2. \A u \in Threads : pc'[u] # "append"
    <3>1. \A u \in Threads : pc[u] = "append" => u = t
      BY <2>1 DEF AppendToList, Goto, IInv, LocksHeld, WriterInside
    <3>2. QED
      BY <2>1, <3>1, <1>a DEF AppendToList, Goto
  <2>3. PICK new : events' = Append(events, new) /\ new.id = req[t].id
    BY <1>2, <2>1 DEF AppendToList, list
  <2>4. /\ Len(events') = Len(events) + 1 /\ events'[Len(events) + 1] = new
        /\ \A e \in 1 .. Len(events) : events'[e] = events[e]
    BY <2>3 DEF IInv, TypeOK, ListTypeOK
  <2>5. \A e \in 1 .. Len(events) : events[e].id # new.id
    BY <2>1, <2>3, <1>b DEF Appending, AppendToList, Goto
  <2>6. QED
    BY <2>2, <2>4, <2>5, <1>a, <1>b DEF IdsUnique, Appending
<1>3. QED
  BY <1>1, <1>2

LEMMA FreshStep ==
  ASSUME IInv, SeatInv, [Next]_vars
  PROVE  \A u \in Threads : Fresh(u)'
<1>a. pc \in [Threads -> Labels] /\ i \in [Threads -> Nat]
  BY DEF IInv, TypeOK, ThreadTypeOK
<1>b. \A u \in Threads : Fresh(u)
  BY DEF SeatInv
<1> DEFINE Later(u) == pc[u] \in {"write", "reply"} => pc'[u] \in {"write", "reply"}
           Goal == \A u \in Threads : Fresh(u)'
<1>1. ASSUME UNCHANGED i, \A u \in Threads : Later(u) PROVE Goal
  BY <1>1, <1>b DEF Fresh
<1>2. ASSUME NEW t \in Threads, WriteSeat(t) PROVE Goal
  BY <1>2, <1>a, <1>b DEF WriteSeat, Goto, Fresh
<1>3. ASSUME NEW t \in Threads, Reply(t) PROVE Goal
  BY <1>3, <1>a, <1>b DEF Reply, Goto, Fresh
<1>4. ASSUME NEW t \in Threads,
             \/ WrLock(t) \/ RdLock(t) \/ MutexLock(t) \/ Create(t) \/ AppendToList(t)
             \/ Lookup(t)
      PROVE  UNCHANGED i /\ \A u \in Threads : Later(u)
  BY <1>4, <1>a DEF WrLock, RdLock, MutexLock, Create, AppendToList, Lookup, Goto, locals
<1>5. ASSUME NEW t \in Threads,
             \/ Check(t) \/ ReserveReturn(t) \/ GetEventInfo(t) \/ ReadSeat(t)
             \/ ShowReturn(t) \/ GetEvents(t)
      PROVE  UNCHANGED i /\ \A u \in Threads : Later(u)
  BY <1>5, <1>a
  DEF Check, ReserveReturn, GetEventInfo, ReadSeat, ShowReturn, GetEvents, Goto, locals
<1>6. ASSUME Dump \/ HostStep \/ UNCHANGED vars PROVE UNCHANGED i /\ \A u \in Threads : Later(u)
  BY <1>6, <1>a DEF HostStep, Dump, DumpNode, PrintReturn, DumpReturn, Goto, vars, Threads
<1>7. ASSUME NEW t \in Workers, NEW r \in Requests, Call(t, r)
      PROVE  UNCHANGED i /\ \A u \in Threads : Later(u)
  BY <1>7, <1>a DEF Call, Goto, Threads
<1>8. QED
  BY <1>1, <1>2, <1>3, <1>4, <1>5, <1>6, <1>7 DEF Next, Step, Threads

THEOREM SeatInvariance == Spec => [](IInv /\ SeatInv)
<1>1. Init => SeatInv
  BY DEF Init, SeatInv, IdsUnique, Numbered, Appending, Fresh, Reserving, Reserved, Threads
<1>2. IInv /\ SeatInv /\ [Next]_vars => SeatInv'
  <2> SUFFICES ASSUME IInv, SeatInv, [Next]_vars PROVE SeatInv'
    OBVIOUS
  <2>1. QED
    BY NumberedStep, IdsStep, FreshStep, ReservationStep DEF SeatInv
<1>3. QED
  BY <1>1, <1>2, InitIInv, NextIInv, PTL DEF Spec

(* However many sessions create events, no two events have the same id     *)
(* (ems_create).                                                           *)
THEOREM IdsAreUnique == Spec => []IdsUnique
<1>1. SeatInv => IdsUnique
  BY DEF SeatInv
<1>2. QED
  BY <1>1, SeatInvariance, PTL

(* Once a seat is reserved no step of the server gives it to another       *)
(* reservation (ems_reserve), with any number of sessions that race for it. *)
THEOREM ReservedSeatsAreFinal == Spec => SeatsAreFinal
<1> DEFINE Final == \A e \in 1 .. Len(events) : \A s \in DOMAIN data[e] :
                      data[e][s] # 0 => data'[e][s] = data[e][s]
<1>1. IInv /\ SeatInv /\ [Next]_vars => [Final]_vars
  <2> SUFFICES ASSUME IInv, SeatInv, [Next]_vars PROVE Final
    OBVIOUS
  <2>1. CASE UNCHANGED list
    BY <2>1 DEF list
  <2>2. ASSUME NEW t \in Threads, AppendToList(t) PROVE Final
    BY <2>2, KeptByAppend DEF KeptEvent, IInv, TypeOK
  <2>3. ASSUME NEW t \in Threads, Check(t) PROVE Final
    BY <2>3 DEF Check
  <2>4. ASSUME NEW t \in Threads, WriteSeat(t) PROVE Final
    <3> DEFINE s == Index(t, i[t] + 1)
    <3>1. /\ pc[t] = "write" /\ i[t] < Len(req[t].seats)
          /\ data' = [data EXCEPT ![event[t]][s] = rid[t]]
      BY <2>4 DEF WriteSeat, Goto, Index
    <3>2. t \in Workers /\ event[t] \in 1 .. Len(events)
      BY <3>1, ListFacts DEF IInv, Placed, PlacedHost, TypeOK, ThreadTypeOK, Threads
    <3>3. Len(req[t].seats) \in Nat
      BY <3>1, <3>2, SeatListsAssumption DEF IInv, Placed, PlacedWorker, Reserves
    <3>4. data[event[t]][s] \in {0, rid[t]}
      <4>1. i[t] + 1 \in 1 .. Len(req[t].seats)
        BY <3>1, <3>2, <3>3 DEF IInv, TypeOK, ThreadTypeOK, Threads
      <4>2. Reserving(t)
        BY <3>2 DEF SeatInv
      <4>3. QED
        BY <3>1, <4>1, <4>2 DEF Reserving
    <3>5. data \in [1 .. Len(events) -> Rooms]
      BY ListFacts DEF IInv, TypeOK
    <3> HIDE DEF s
    <3>6. ASSUME NEW e \in 1 .. Len(events), NEW x \in DOMAIN data[e], data[e][x] # 0
          PROVE  data'[e][x] = data[e][x]
      <4>1. CASE e # event[t]
        BY <3>1, <3>5, <4>1
      <4>2. CASE e = event[t]
        <5>1. data'[e] = [data[e] EXCEPT ![s] = rid[t]]
          BY <3>1, <3>5, <4>2
        <5>2. CASE x # s
          BY <5>1, <5>2
        <5>3. CASE x = s
          BY <3>4, <3>6, <4>2, <5>1, <5>3
        <5>4. QED
          BY <5>2, <5>3
      <4>3. QED
        BY <4>1, <4>2
    <3>7. QED
      BY <3>6
  <2>5. QED
    BY <2>1, <2>2, <2>3, <2>4, ListSteps
<1>2. QED
  BY <1>1, SeatInvariance, PTL DEF Spec, SeatsAreFinal

(* A RESERVE that is answered with success has all the seats it asked for  *)
(* under its reservation id and the id is on no other seat (ems_reserve).  *)
THEOREM ReservationsAreWhole == Spec => []ReserveIsWhole
<1>1. IInv /\ SeatInv => ReserveIsWhole
  <2> SUFFICES ASSUME SeatInv, NEW t \in Workers,
                      pc[t] = "reply" /\ req[t].op = "RESERVE" /\ res[t] = 0
               PROVE  {s \in DOMAIN data[event[t]] : data[event[t]][s] = rid[t]} = Wanted(t)
    BY DEF ReserveIsWhole
  <2>1. Wanted(t) = {Index(t, j) : j \in 1 .. Len(req[t].seats)}
    BY DEF Wanted, Index
  <2>2. /\ \A s \in DOMAIN data[event[t]] :
             data[event[t]][s] = rid[t] <=> \E j \in 1 .. Len(req[t].seats) : s = Index(t, j)
        /\ \A j \in 1 .. Len(req[t].seats) : Index(t, j) \in DOMAIN data[event[t]]
    BY DEF SeatInv, Reserved
  <2>3. QED
    BY <2>1, <2>2
<1>2. QED
  BY <1>1, SeatInvariance, PTL

------------------------------------------------------------------------------
(* What the sessions and the host see of the seats.                        *)

(* What a worker's locals hold of the request it serves: nothing between   *)
(* requests, no view before it reads, the event with the id it was asked.  *)
Serving(t) ==
  /\ pc[t] = "idle" => req[t] = NoRequest
  /\ pc[t] # "reply" => res[t] = 0
  /\ pc[t] \notin {"read", "reply"} => view[t] = <<>>
  /\ pc[t] \in {"mutex", "check", "write", "info", "read"} =>
       events[event[t]].id = req[t].id

(* The seats of an event when t's SHOW was called; the event may be younger. *)
Before(t, e, s) == IF e \in DOMAIN floor[t] THEN floor[t][e][s] ELSE 0

(* A seat that was reserved when the SHOW was called still is.             *)
FloorKept(t) ==
  /\ DOMAIN floor[t] \subseteq 1 .. Len(events)
  /\ \A e \in DOMAIN floor[t] : \A s \in Seats(e) : Before(t, e, s) \in {0, Booked(e)[s]}

(* Once the SHOW has had the mutex its writes are all done ...             *)
Settled(t) ==
  pc[t] \in {"info", "read"} =>
    \A s \in Seats(event[t]) : Before(t, event[t], s) \in {0, data[event[t]][s]}

(* ... and each seat it has read is as it was then or as it is now.        *)
Reading(t) ==
  pc[t] = "read" =>
    /\ Len(view[t]) <= events[event[t]].rows * events[event[t]].cols
    /\ \A k \in 1 .. Len(view[t]) :
         view[t][k] \in {Booked(event[t])[k - 1], Before(t, event[t], k - 1)}

(* What the host has printed of an event is what the event still holds.    *)
Printing ==
  IF pc[Host] = "print"
  THEN \A k \in 1 .. Len(view[Host]) : view[Host][k] = data[event[Host]][k - 1]
  ELSE view[Host] = <<>>

ViewInv ==
  /\ Printing
  /\ \A t \in Workers : Serving(t) /\ FloorKept(t) /\ Settled(t) /\ Reading(t)

------------------------------------------------------------------------------
(* A step is of one thread: the locals of the others stay as they were.    *)
Same(u) == /\ Kept(u) /\ view'[u] = view[u]
           /\ u \in Workers => floor'[u] = floor[u]

Own(u) == \/ Step(u)
          \/ u \in Workers /\ \E r \in Requests : Call(u, r)
          \/ u = Host /\ (Dump \/ HostStep)

LEMMA LocalFacts ==
  ASSUME IInv
  PROVE  /\ pc \in [Threads -> Labels] /\ req \in [Threads -> AllRequests]
         /\ event \in [Threads -> 0 .. Len(events)] /\ res \in [Threads -> {0, 1}]
         /\ i \in [Threads -> Nat] /\ rid \in [Threads -> Nat]
         /\ view \in [Threads -> Seq(Nat)] /\ floor \in [Workers -> Seq(Rooms)]
BY DEF IInv, TypeOK, ThreadTypeOK, ViewTypeOK

LEMMA OthersStay ==
  ASSUME IInv, NEW t \in Threads, Own(t), NEW u \in Threads, u # t
  PROVE  Same(u)
<1> USE LocalFacts
<1>1. ASSUME NEW r \in Requests, Call(t, r), t \in Workers PROVE Same(u)
  BY <1>1 DEF Same, Kept, Call, Goto, Threads
<1>2. ASSUME Dump \/ HostStep, t = Host PROVE Same(u)
  BY <1>2 DEF Same, Kept, HostStep, Dump, DumpNode, PrintReturn, DumpReturn, Goto, Threads
<1>3. CASE WrLock(t) \/ RdLock(t) \/ MutexLock(t)
  BY <1>3 DEF Same, Kept, WrLock, RdLock, MutexLock, Goto, locals
<1>4. CASE Create(t) \/ AppendToList(t) \/ Lookup(t)
  BY <1>4 DEF Same, Kept, Create, AppendToList, Lookup, Goto
<1>5. CASE Check(t)
  BY <1>5 DEF Same, Kept, Check, Goto
<1>6. CASE WriteSeat(t) \/ ReserveReturn(t) \/ GetEventInfo(t)
  BY <1>6 DEF Same, Kept, WriteSeat, ReserveReturn, GetEventInfo, Goto, locals
<1>7. CASE ReadSeat(t) \/ ShowReturn(t) \/ GetEvents(t)
  BY <1>7 DEF Same, Kept, ReadSeat, ShowReturn, GetEvents, Goto, locals
<1>8. CASE Reply(t)
  BY <1>8 DEF Same, Kept, Reply, Goto, Threads
<1>9. QED
  BY <1>1, <1>2, <1>3, <1>4, <1>5, <1>6, <1>7, <1>8 DEF Own, Step

LEMMA SomeoneActs ==
  ASSUME [Next]_vars
  PROVE  UNCHANGED vars \/ \E t \in Threads : Own(t)
BY DEF Next, Own, Threads

LEMMA OneThreadSteps ==
  ASSUME IInv, [Next]_vars, NEW u \in Threads
  PROVE  Own(u) \/ Same(u)
<1>1. CASE UNCHANGED vars
  BY <1>1 DEF Same, Kept, vars
<1>2. QED
  BY <1>1, SomeoneActs, OthersStay

(* A thread that reserves seats is a worker, alone on its event.           *)
Granting(t) == Check(t) /\ pc'[t] = "write"

LEMMA WriterFacts ==
  ASSUME IInv, SeatInv, NEW u \in Workers, pc[u] = "write"
  PROVE  /\ event[u] \in 1 .. Len(events)
         /\ req[u].seats \in SeatLists /\ Len(req[u].seats) \in Nat
         /\ \A j \in 1 .. Len(req[u].seats) :
              Index(u, j) \in Wanted(u) /\ data[event[u]][Index(u, j)] \in {0, rid[u]}
         /\ \A s \in Wanted(u) : \E j \in 1 .. Len(req[u].seats) : s = Index(u, j)
         /\ rid[u] = reservations[event[u]]
<1>1. event[u] \in 0 .. Len(events) /\ event[u] # 0 /\ Len(events) \in Nat
  BY ListFacts DEF IInv, TypeOK, ThreadTypeOK, Placed, Threads
<1>2. req[u].seats \in SeatLists
  BY DEF IInv, Placed, PlacedWorker, Reserves
<1>3. Len(req[u].seats) \in Nat
  BY <1>2, SeatListsAssumption
<1>4. Reserving(u)
  BY DEF SeatInv
<1>5. QED
  BY <1>1, <1>2, <1>3, <1>4 DEF Reserving, Wanted, Index

LEMMA HolderIsAlone ==
  ASSUME IInv, NEW t \in Threads, pc[t] \in {"check", "write", "info", "print"},
         NEW u \in Threads, pc[u] \in {"check", "write", "info", "print"}, event[u] = event[t]
  PROVE  u = t
<1>1. event[t] \in 1 .. Len(events)
  BY ListFacts DEF IInv, TypeOK, ThreadTypeOK, Placed
<1>2. QED
  BY <1>1 DEF IInv, LocksHeld, MutexHeld

(* What is booked of an event: a seat is free, or booked as its room says, *)
(* or wanted by the one thread that writes in the event.                   *)
LEMMA BookedFacts ==
  ASSUME IInv, SeatInv, NEW e \in 1 .. Len(events)
  PROVE  /\ Booked(e) \in [Seats(e) -> Nat] /\ DOMAIN data[e] = Seats(e)
         /\ reservations[e] \in Nat
         /\ \A s \in Seats(e) : /\ Booked(e)[s] <= reservations[e]
                                /\ data[e][s] \in {0, Booked(e)[s]}
<1>1. data[e] \in [Seats(e) -> Nat] /\ reservations[e] \in Nat
  BY SeatsAreNumbers, ListFacts DEF IInv, TypeOK
<1>2. Booked(e) = [s \in Seats(e) |->
        IF \E t \in Workers : pc[t] = "write" /\ event[t] = e /\ s \in Wanted(t)
        THEN reservations[e] ELSE data[e][s]]
  BY <1>1 DEF Booked
<1>3. ASSUME NEW s \in Seats(e)
      PROVE  Booked(e)[s] <= reservations[e] /\ data[e][s] \in {0, Booked(e)[s]}
  <2>1. CASE \E t \in Workers : pc[t] = "write" /\ event[t] = e /\ s \in Wanted(t)
    <3>1. PICK t \in Workers : pc[t] = "write" /\ event[t] = e /\ s \in Wanted(t)
      BY <2>1
    <3>2. data[e][s] \in {0, reservations[e]}
      BY <3>1, WriterFacts
    <3>3. QED
      BY <1>1, <1>2, <2>1, <3>2
  <2>2. CASE ~ \E t \in Workers : pc[t] = "write" /\ event[t] = e /\ s \in Wanted(t)
    BY <1>1, <1>2, <2>2 DEF SeatInv, Numbered
  <2>3. QED
    BY <2>1, <2>2
<1>4. QED
  BY <1>1, <1>2, <1>3

LEMMA BookedWhenQuiet ==
  ASSUME IInv, SeatInv, NEW e \in 1 .. Len(events),
         \A u \in Workers : ~ (pc[u] = "write" /\ event[u] = e)
  PROVE  Booked(e) = data[e]
<1>1. data[e] \in [Seats(e) -> Nat]
  BY SeatsAreNumbers DEF IInv, TypeOK
<1>2. Booked(e) = [s \in Seats(e) |-> data[e][s]]
  BY <1>1 DEF Booked
<1>3. QED
  BY <1>1, <1>2

(* The events in the list stay there as they are.                          *)
LEMMA EventsStay ==
  ASSUME IInv, [Next]_vars, NEW e \in 1 .. Len(events)
  PROVE  e \in 1 .. Len(events') /\ events'[e] = events[e] /\ Seats(e)' = Seats(e)
<1>a. Len(events) \in Nat /\ ListTypeOK
  BY ListFacts DEF IInv, TypeOK
<1>1. CASE UNCHANGED events
  BY <1>1 DEF Seats
<1>2. CASE ~ UNCHANGED events
  <2>1. PICK t \in Threads : AppendToList(t)
    BY <1>2, ListSteps DEF list, Check, WriteSeat
  <2>2. events'[e] = events[e]
    BY <1>a, <2>1, KeptByAppend DEF KeptEvent
  <2>3. Len(events') = Len(events) \/ Len(events') = Len(events) + 1
    BY <1>a, <2>1, AppendedOne
  <2>4. QED
    BY <1>a, <2>2, <2>3 DEF Seats
<1>3. QED
  BY <1>1, <1>2

(* Only WriteSeat changes the seats of an event ...                        *)
LEMMA DataStay ==
  ASSUME IInv, [Next]_vars, NEW e \in 1 .. Len(events)
  PROVE  \/ data'[e] = data[e]
         \/ \E t \in Workers : WriteSeat(t) /\ event[t] = e
<1>a. ListTypeOK /\ data \in [1 .. Len(events) -> Rooms]
  BY ListFacts DEF IInv, TypeOK
<1>1. CASE UNCHANGED list
  BY <1>1 DEF list
<1>2. ASSUME NEW t \in Threads, AppendToList(t) PROVE data'[e] = data[e]
  BY <1>2, <1>a, KeptByAppend DEF KeptEvent
<1>3. ASSUME NEW t \in Threads, Check(t) PROVE data'[e] = data[e]
  BY <1>3 DEF Check
<1>4. ASSUME NEW t \in Threads, WriteSeat(t), event[t] # e PROVE data'[e] = data[e]
  <2>1. PICK x : data' = [data EXCEPT ![event[t]][x] = rid[t]]
    BY <1>4 DEF WriteSeat
  <2>2. QED
    BY <1>4, <1>a, <2>1
<1>5. \A t \in Threads : WriteSeat(t) => t \in Workers
  BY DEF WriteSeat, Goto, IInv, Placed, PlacedHost, Threads
<1>6. QED
  BY <1>1, <1>2, <1>3, <1>4, <1>5, ListSteps

(* ... and only Check the number of its reservations.                      *)
LEMMA ReservationsStay ==
  ASSUME IInv, [Next]_vars, NEW e \in 1 .. Len(events)
  PROVE  \/ reservations'[e] = reservations[e]
         \/ \E t \in Workers : Granting(t) /\ event[t] = e
<1>a. /\ ListTypeOK /\ reservations \in [1 .. Len(events) -> Nat]
      /\ pc \in [Threads -> Labels]
  BY ListFacts DEF IInv, TypeOK, ThreadTypeOK
<1>1. CASE UNCHANGED list
  BY <1>1 DEF list
<1>2. ASSUME NEW t \in Threads, AppendToList(t) PROVE reservations'[e] = reservations[e]
  BY <1>2, <1>a, KeptByAppend DEF KeptEvent
<1>3. ASSUME NEW t \in Threads, WriteSeat(t) PROVE reservations'[e] = reservations[e]
  BY <1>3 DEF WriteSeat
<1>4. ASSUME NEW t \in Threads, Check(t), ~ (Granting(t) /\ event[t] = e)
      PROVE  reservations'[e] = reservations[e]
  BY <1>4, <1>a DEF Check, Granting, Goto
<1>5. \A t \in Threads : Check(t) => t \in Workers
  BY DEF Check, Goto, IInv, Placed, PlacedHost, Threads
<1>6. QED
  BY <1>1, <1>2, <1>3, <1>4, <1>5, ListSteps

------------------------------------------------------------------------------
(* A thread writes seats from when it was granted them to its return.      *)
LEMMA WriterStays ==
  ASSUME IInv, [Next]_vars, NEW u \in Workers
  PROVE  \/ Same(u)
         \/ Granting(u) \/ WriteSeat(u) \/ ReserveReturn(u)
         \/ pc[u] # "write" /\ pc'[u] # "write"
<1> USE LocalFacts DEF Threads
<1>1. CASE Same(u)
  BY <1>1
<1>2. ASSUME NEW r \in Requests, Call(u, r) PROVE pc[u] # "write" /\ pc'[u] # "write"
  BY <1>2 DEF Call, Goto
<1>3. CASE WrLock(u) \/ Create(u) \/ AppendToList(u) \/ Lookup(u)
  BY <1>3 DEF WrLock, Create, AppendToList, Lookup, Goto
<1>4. CASE RdLock(u) \/ MutexLock(u)
  BY <1>4 DEF RdLock, MutexLock, AfterRdLock, AfterMutexLock, Goto
<1>5. CASE Check(u)
  BY <1>5 DEF Check, Granting, Goto
<1>6. CASE GetEventInfo(u) \/ ReadSeat(u) \/ ShowReturn(u) \/ GetEvents(u) \/ Reply(u)
  BY <1>6 DEF GetEventInfo, ReadSeat, ShowReturn, GetEvents, Reply, Goto
<1>7. QED
  BY <1>1, <1>2, <1>3, <1>4, <1>5, <1>6, OneThreadSteps, HostAssumption DEF Own, Step

(* A step that grants nobody seats changes nothing of what is booked:      *)
(* ems_reserve writes the seats that its check has booked.                 *)
LEMMA BookedStays ==
  ASSUME IInv, SeatInv, [Next]_vars, \A t \in Workers : ~ Granting(t),
         NEW e \in 1 .. Len(events)
  PROVE  Booked(e)' = Booked(e)
<1>a. data[e] \in [Seats(e) -> Nat] /\ reservations'[e] = reservations[e]
  BY SeatsAreNumbers, ReservationsStay DEF IInv, TypeOK
<1> DEFINE Taken(s) == \E u \in Workers : pc[u] = "write" /\ event[u] = e /\ s \in Wanted(u)
           Later(s) == \E u \in Workers : pc'[u] = "write" /\ event'[u] = e /\ s \in Wanted(u)'
<1>1. Booked(e) = [s \in Seats(e) |-> IF Taken(s) THEN reservations[e] ELSE data[e][s]]
  BY <1>a DEF Booked
<1>2. Booked(e)' = [s \in DOMAIN data'[e] |-> IF Later(s) THEN reservations[e] ELSE data'[e][s]]
  BY <1>a DEF Booked
<1>3. \A u \in Workers : pc[u] = "write" => event[u] \in 1 .. Len(events)
  BY WriterFacts
<1>4. ASSUME NEW u \in Workers, Same(u), pc[u] = "write" PROVE Wanted(u)' = Wanted(u)
  <2>1. /\ event'[u] = event[u] /\ req'[u] = req[u] /\ events'[event[u]] = events[event[u]]
    BY <1>3, <1>4, EventsStay DEF Same, Kept
  <2>2. \A j : Index(u, j)' = Index(u, j)
    BY <2>1 DEF Index, seat_index
  <2>3. QED
    BY <2>1, <2>2 DEF Wanted, Index
<1>5. ASSUME NEW u \in Workers, Same(u) PROVE pc'[u] = pc[u] /\ event'[u] = event[u]
  BY <1>5 DEF Same, Kept
<1>6. ASSUME NEW t \in Workers, WriteSeat(t)
      PROVE  /\ pc'[t] = "write" /\ pc[t] = "write" /\ event'[t] = event[t]
             /\ Wanted(t)' = Wanted(t)
  BY <1>6, LocalFacts DEF WriteSeat, Goto, Wanted, seat_index, Threads
<1>7. CASE \A t \in Workers : ~ ReserveReturn(t)
  <2>1. ASSUME NEW s PROVE Later(s) <=> Taken(s)
    BY <1>4, <1>5, <1>6, <1>7, WriterStays
  <2>2. CASE data'[e] = data[e]
    <3> HIDE DEF Taken, Later
    <3>1. QED
      BY <1>1, <1>2, <2>1, <2>2, <1>a
  <2>3. CASE \E t \in Workers : WriteSeat(t) /\ event[t] = e
    <3>1. PICK t \in Workers : WriteSeat(t) /\ event[t] = e
      BY <2>3
    <3> DEFINE x == Index(t, i[t] + 1)
    <3>2. data' = [data EXCEPT ![e][x] = rid[t]] /\ i[t] < Len(req[t].seats) /\ pc[t] = "write"
      BY <3>1 DEF WriteSeat, Goto, Index
    <3>3. i[t] + 1 \in 1 .. Len(req[t].seats)
      BY <3>2, WriterFacts, LocalFacts DEF Threads
    <3>4. Taken(x)
      BY <3>1, <3>2, <3>3, WriterFacts
    <3>5. data'[e] = [data[e] EXCEPT ![x] = rid[t]]
      BY <3>2, ListFacts DEF IInv, TypeOK
    <3> HIDE DEF x, Taken, Later
    <3>6. DOMAIN data'[e] = Seats(e) /\ \A s \in Seats(e) : s # x => data'[e][s] = data[e][s]
      BY <3>5, <1>a
    <3>7. QED
      BY <1>1, <1>2, <2>1, <3>4, <3>6
  <2>4. QED
    BY <2>2, <2>3, DataStay
<1>8. ASSUME NEW t \in Workers, ReserveReturn(t) PROVE Booked(e)' = Booked(e)
  <2>1. /\ pc[t] = "write" /\ pc' = [pc EXCEPT ![t] = "reply"] /\ i[t] = Len(req[t].seats)
        /\ UNCHANGED <<events, data, req, event>>
    BY <1>8 DEF ReserveReturn, Goto, list, locals
  <2>2. \A u : Wanted(u)' = Wanted(u)
    BY <2>1 DEF Wanted, seat_index
  <2>3. \A u \in Workers : u # t => pc'[u] = pc[u]
    BY <2>1, LocalFacts DEF Threads
  <2>4. pc'[t] # "write"
    BY <2>1, LocalFacts DEF Threads
  <2>5. ASSUME NEW s \in Seats(e)
        PROVE  (IF Later(s) THEN reservations[e] ELSE data[e][s])
                 = (IF Taken(s) THEN reservations[e] ELSE data[e][s])
    <3>1. CASE event[t] = e /\ s \in Wanted(t)
      <4>1. data[e][s] = rid[t] /\ rid[t] = reservations[e]
        <5>1. Reserving(t)
          BY DEF SeatInv
        <5>2. \E j \in 1 .. i[t] : s = Index(t, j)
          BY <2>1, <3>1, WriterFacts
        <5>3. QED
          BY <1>a, <2>1, <3>1, <5>1, <5>2 DEF Reserving
      <4>2. QED
        BY <4>1
    <3>2. CASE ~ (event[t] = e /\ s \in Wanted(t))
      BY <2>1, <2>2, <2>3, <2>4, <3>2
    <3>3. QED
      BY <3>1, <3>2
  <2> HIDE DEF Taken, Later
  <2>6. QED
    BY <1>1, <1>2, <2>1, <2>5, <1>a
<1>9. QED
  BY <1>7, <1>8

(* The step that grants a thread its seats books them, all of them free.   *)
LEMMA BookedByGrant ==
  ASSUME IInv, SeatInv, NEW t \in Workers, Granting(t), NEW e \in 1 .. Len(events)
  PROVE  /\ e # event[t] => Booked(e)' = Booked(e)
         /\ e = event[t] =>
              /\ Booked(e) = data[e]
              /\ \A s \in Wanted(t) : s \in Seats(e) /\ data[e][s] = 0
              /\ Booked(e)' = [s \in Seats(e) |->
                   IF s \in Wanted(t) THEN reservations[e] + 1 ELSE data[e][s]]
<1> DEFINE free == \A j \in 1 .. Len(req[t].seats) :
                     InBounds(event[t], req[t].seats[j]) /\ data[event[t]][Index(t, j)] = 0
<1>1. /\ pc[t] = "check" /\ pc' = [pc EXCEPT ![t] = "write"] /\ free
      /\ reservations' = [reservations EXCEPT ![event[t]] = @ + 1]
      /\ UNCHANGED <<events, data, req, event>>
  BY LocalFacts DEF Granting, Check, Goto, Index, Threads
<1>2. /\ data[e] \in [Seats(e) -> Nat]
      /\ reservations \in [1 .. Len(events) -> Nat]
  BY SeatsAreNumbers, ListFacts DEF IInv, TypeOK
<1>3. \A u : Wanted(u)' = Wanted(u)
  BY <1>1 DEF Wanted, seat_index
<1>4. /\ \A u \in Workers : u # t => pc'[u] = pc[u]
      /\ pc'[t] = "write"
  BY <1>1, LocalFacts DEF Threads
<1>5. ASSUME NEW u \in Workers, pc[u] = "write" PROVE event[u] # event[t]
  BY <1>1, <1>5, HolderIsAlone DEF Threads
<1> HIDE DEF free
<1> DEFINE Taken(f, s) == \E u \in Workers : pc[u] = "write" /\ event[u] = f /\ s \in Wanted(u)
           Later(f, s) == \E u \in Workers : pc'[u] = "write" /\ event[u] = f /\ s \in Wanted(u)
<1>6. Booked(e) = [s \in Seats(e) |-> IF Taken(e, s) THEN reservations[e] ELSE data[e][s]]
  BY <1>2 DEF Booked
<1>7. Booked(e)' = [s \in Seats(e) |-> IF Later(e, s) THEN reservations'[e] ELSE data[e][s]]
  BY <1>1, <1>2, <1>3 DEF Booked
<1>8. CASE e # event[t]
  <2>1. \A s : Later(e, s) <=> Taken(e, s)
    BY <1>1, <1>4, <1>8
  <2>2. reservations'[e] = reservations[e]
    BY <1>1, <1>2, <1>8
  <2> HIDE DEF Taken, Later
  <2>3. QED
    BY <1>6, <1>7, <1>8, <2>1, <2>2
<1>9. CASE e = event[t]
  <2>1. Booked(e) = data[e]
    BY <1>5, <1>9, BookedWhenQuiet
  <2>2. \A s \in Wanted(t) : s \in Seats(e) /\ data[e][s] = 0
    <3>1. \A s \in Wanted(t) : \E j \in 1 .. Len(req[t].seats) : s = Index(t, j)
      BY DEF Wanted, Index
    <3>2. \A j \in 1 .. Len(req[t].seats) : Index(t, j) \in DOMAIN data[e] /\ data[e][Index(t, j)] = 0
      BY <1>1, <1>9, FreeSeatIsInRoom DEF free, Index, IInv, TypeOK
    <3>3. QED
      BY <1>2, <3>1, <3>2
  <2>3. \A s : Later(e, s) <=> s \in Wanted(t)
    BY <1>4, <1>5, <1>9
  <2>4. reservations'[e] = reservations[e] + 1
    BY <1>1, <1>2, <1>9
  <2> HIDE DEF Taken, Later
  <2>5. QED
    BY <1>7, <1>9, <2>1, <2>2, <2>3, <2>4
<1>10. QED
  BY <1>8, <1>9

(* So what is booked stays booked, and what is taken stays taken.          *)
LEMMA BookedIsFinal ==
  ASSUME IInv, SeatInv, [Next]_vars, NEW e \in 1 .. Len(events), NEW s \in Seats(e)
  PROVE  Booked(e)'[s] = Booked(e)[s] \/ (Booked(e)[s] = 0 /\ data[e][s] = 0)
<1>1. CASE \A t \in Workers : ~ Granting(t)
  BY <1>1, BookedStays
<1>2. ASSUME NEW t \in Workers, Granting(t)
      PROVE  Booked(e)'[s] = Booked(e)[s] \/ (Booked(e)[s] = 0 /\ data[e][s] = 0)
  BY <1>2, BookedByGrant
<1>3. QED
  BY <1>1, <1>2

------------------------------------------------------------------------------
(* The views hold from step to step.                                       *)
LEMMA ServingStep ==
  ASSUME IInv, ViewInv, [Next]_vars, NEW t \in Workers
  PROVE  Serving(t)'
<1> USE LocalFacts, HostAssumption DEF Threads
<1>a. Serving(t) /\ PlacedWorker(t)
  BY DEF ViewInv, IInv, Placed
<1>b. /\ Len(events) \in Nat
      /\ pc[t] \in {"mutex", "check", "write", "info", "read"} => event[t] \in 1 .. Len(events)
  BY ListFacts DEF IInv, TypeOK, Placed
<1>c. \A e \in 1 .. Len(events) : events'[e] = events[e]
  BY EventsStay
<1> DEFINE Goal == Serving(t)'
<1>1. CASE Same(t)
  BY <1>1, <1>a, <1>b, <1>c DEF Same, Kept, Serving
<1>2. ASSUME NEW r \in Requests, Call(t, r) PROVE Goal
  BY <1>2, <1>a DEF Call, Goto, Serving
<1>3. CASE WrLock(t)
  BY <1>3, <1>a DEF WrLock, Goto, Serving, locals
<1>4. CASE RdLock(t)
  <2>1. AfterRdLock(t) \in {"walk", "dump", "lookup"}
    BY DEF AfterRdLock
  <2>2. QED
    BY <1>4, <1>a, <2>1 DEF RdLock, Goto, Serving, locals
<1>5. CASE MutexLock(t)
  <2>1. AfterMutexLock(t) \in {"check", "info", "print"}
    BY DEF AfterMutexLock
  <2>2. QED
    BY <1>5, <1>a, <1>b, <1>c, <2>1 DEF MutexLock, Goto, Serving, locals
<1>6. CASE Create(t)
  BY <1>6, <1>a DEF Create, Goto, Serving
<1>7. CASE AppendToList(t)
  BY <1>7, <1>a DEF AppendToList, Goto, Serving
<1>8. CASE Lookup(t)
  BY <1>8, <1>a, <1>b, GetEventFinds DEF Lookup, Goto, Serving, list
<1>9. CASE Check(t)
  BY <1>9, <1>a DEF Check, Goto, Serving
<1>10. CASE WriteSeat(t)
  BY <1>10, <1>a DEF WriteSeat, Goto, Serving
<1>11. CASE ReserveReturn(t)
  BY <1>11, <1>a DEF ReserveReturn, Goto, Serving, locals
<1>12. CASE GetEventInfo(t)
  BY <1>12, <1>a DEF GetEventInfo, Goto, Serving, locals, list
<1>13. CASE ReadSeat(t)
  BY <1>13, <1>a DEF ReadSeat, Serving, PlacedWorker, list
<1>14. CASE ShowReturn(t)
  BY <1>14, <1>a DEF ShowReturn, Goto, Serving, locals
<1>15. CASE GetEvents(t)
  BY <1>15, <1>a DEF GetEvents, Goto, Serving
<1>16. CASE Reply(t)
  BY <1>16, <1>a DEF Reply, Goto, Serving
<1>17. QED
  BY <1>1, <1>2, <1>3, <1>4, <1>5, <1>6, <1>7, <1>8, <1>9, <1>10, <1>11, <1>12, <1>13, <1>14, <1>15, <1>16, OneThreadSteps DEF Own, Step

(* The floor of a SHOW stays until it is answered.                         *)
LEMMA FloorChanges ==
  ASSUME IInv, [Next]_vars, NEW t \in Workers
  PROVE  \/ floor'[t] = floor[t]
         \/ Reply(t) \/ \E r \in Requests : Call(t, r)
<1>1. CASE Same(t)
  BY <1>1 DEF Same
<1>2. CASE Step(t)
  BY <1>2 DEF Step, WrLock, RdLock, MutexLock, Create, AppendToList, Lookup, Check, WriteSeat,
              ReserveReturn, GetEventInfo, ReadSeat, ShowReturn, GetEvents
<1>3. QED
  BY <1>1, <1>2, OneThreadSteps, HostAssumption DEF Own, Threads

LEMMA FloorStep ==
  ASSUME IInv, SeatInv, ViewInv, [Next]_vars, NEW t \in Workers
  PROVE  FloorKept(t)'
<1>a. FloorKept(t) /\ floor \in [Workers -> Seq(Rooms)]
  BY LocalFacts DEF ViewInv
<1>b. \A e \in 1 .. Len(events) : e \in 1 .. Len(events') /\ Seats(e)' = Seats(e)
  BY EventsStay
<1>1. CASE floor'[t] = floor[t]
  <2>1. DOMAIN floor'[t] \subseteq 1 .. Len(events')
    BY <1>1, <1>a, <1>b DEF FloorKept
  <2>2. ASSUME NEW e \in DOMAIN floor[t], NEW s \in Seats(e)
        PROVE  Before(t, e, s)' \in {0, Booked(e)'[s]}
    <3>1. e \in 1 .. Len(events) /\ Before(t, e, s)' = Before(t, e, s)
      BY <1>1, <1>a DEF FloorKept, Before
    <3>2. Before(t, e, s) \in {0, Booked(e)[s]}
      BY <1>a DEF FloorKept
    <3>3. QED
      BY <3>1, <3>2, BookedIsFinal
  <2>3. ASSUME NEW e \in DOMAIN floor'[t], NEW s \in Seats(e)'
        PROVE  Before(t, e, s)' \in {0, Booked(e)'[s]}
    BY <1>1, <1>a, <1>b, <2>2 DEF FloorKept
  <2>4. QED
    BY <2>1, <2>3 DEF FloorKept
<1>2. CASE floor'[t] = <<>>
  BY <1>2 DEF FloorKept
<1>3. ASSUME NEW r \in Requests, Call(t, r), r.op = "SHOW" PROVE FloorKept(t)'
  <2>1. floor'[t] = BookedSeats
    BY <1>3, <1>a DEF Call
  <2>2. UNCHANGED events
    BY <1>3 DEF Call, list
  <2>3. DOMAIN data = 1 .. Len(events)
    BY ListFacts DEF IInv, TypeOK
  <2>4. \A u \in Workers : ~ Granting(u)
    BY <1>3, LocalFacts DEF Granting, Check, Call, Goto, Threads
  <2>5. ASSUME NEW e \in 1 .. Len(events), NEW s PROVE Before(t, e, s)' = Booked(e)'[s]
    <3>1. Before(t, e, s)' = Booked(e)[s]
      BY <2>1, <2>3 DEF Before, BookedSeats
    <3>2. QED
      BY <2>4, <3>1, BookedStays
  <2>6. DOMAIN floor'[t] = 1 .. Len(events')
    BY <2>1, <2>2, <2>3 DEF BookedSeats
  <2>7. QED
    BY <2>2, <2>5, <2>6 DEF FloorKept
<1>4. Reply(t) => floor'[t] = <<>>
  BY <1>a DEF Reply
<1>5. \A r \in Requests : Call(t, r) /\ r.op # "SHOW" => floor'[t] = <<>>
  BY <1>a DEF Call
<1>6. QED
  BY <1>1, <1>2, <1>3, <1>4, <1>5, FloorChanges

(* A seat that is reserved in the room stays so.                           *)
LEMMA RoomIsFinal ==
  ASSUME IInv, SeatInv, [Next]_vars, NEW e \in 1 .. Len(events), NEW s \in Seats(e)
  PROVE  data'[e][s] = data[e][s] \/ data[e][s] = 0
<1>1. ASSUME NEW t \in Workers, WriteSeat(t), event[t] = e
      PROVE  data'[e][s] = data[e][s] \/ data[e][s] = 0
  <2> DEFINE x == Index(t, i[t] + 1)
  <2>1. data' = [data EXCEPT ![e][x] = rid[t]] /\ i[t] < Len(req[t].seats) /\ pc[t] = "write"
    BY <1>1 DEF WriteSeat, Goto, Index
  <2>2. i[t] + 1 \in 1 .. Len(req[t].seats)
    BY <2>1, WriterFacts, LocalFacts DEF Threads
  <2>3. data[e][x] \in {0, rid[t]}
    BY <1>1, <2>1, <2>2, WriterFacts
  <2>4. data'[e] = [data[e] EXCEPT ![x] = rid[t]]
    BY <2>1, ListFacts DEF IInv, TypeOK
  <2>5. data[e] \in [Seats(e) -> Nat]
    BY SeatsAreNumbers DEF IInv, TypeOK
  <2> HIDE DEF x
  <2>6. QED
    BY <2>3, <2>4, <2>5
<1>2. QED
  BY <1>1, DataStay

LEMMA SettledStep ==
  ASSUME IInv, SeatInv, ViewInv, [Next]_vars, NEW t \in Workers
  PROVE  Settled(t)'
<1> USE LocalFacts, HostAssumption DEF Threads
<1>a. Settled(t) /\ FloorKept(t) /\ PlacedWorker(t)
  BY DEF ViewInv, IInv, Placed
<1>b. pc[t] \in {"mutex", "info", "read"} => event[t] \in 1 .. Len(events)
  BY ListFacts DEF IInv, TypeOK, Placed
<1>1. ASSUME pc[t] \in {"info", "read"}, event'[t] = event[t], floor'[t] = floor[t]
      PROVE  Settled(t)'
  <2>1. PICK e \in 1 .. Len(events) : e = event[t] /\ e = event'[t]
    BY <1>1, <1>b
  <2>2. \A s : Before(t, e, s)' = Before(t, e, s)
    BY <1>1 DEF Before
  <2>3. \A s \in Seats(e) : Before(t, e, s) \in {0, data[e][s]}
    BY <1>1, <1>a, <2>1 DEF Settled
  <2>4. \A s \in Seats(e) : Before(t, e, s)' \in {0, data'[e][s]}
    BY <2>2, <2>3, RoomIsFinal
  <2>5. Seats(e)' = Seats(e)
    BY EventsStay
  <2>6. \A s \in Seats(event[t])' : Before(t, event[t], s)' = Before(t, e, s)'
    BY <2>1 DEF Before
  <2>7. Seats(event[t])' = Seats(e)'
    BY <2>1 DEF Seats
  <2>8. QED
    BY <2>1, <2>4, <2>5, <2>6, <2>7 DEF Settled
<1>2. CASE MutexLock(t)
  <2>1. /\ pc[t] = "mutex" /\ mutex[event[t]] = NoThread
        /\ UNCHANGED <<list, event, floor>>
    BY <1>2 DEF MutexLock, Goto, locals
  <2>2. PICK e \in 1 .. Len(events) : e = event[t] /\ e = event'[t]
    BY <1>b, <2>1
  <2>3. \A u \in Workers : ~ (pc[u] = "write" /\ event[u] = e)
    BY <2>1, <2>2, NoThreadAssumption DEF IInv, LocksHeld, MutexHeld
  <2>4. Booked(e) = data[e]
    BY <2>3, BookedWhenQuiet
  <2>5. \A s \in Seats(e) : Before(t, e, s) \in {0, data[e][s]}
    <3>1. CASE e \in DOMAIN floor[t]
      BY <1>a, <2>4, <3>1 DEF FloorKept
    <3>2. CASE e \notin DOMAIN floor[t]
      BY <3>2 DEF Before
    <3>3. QED
      BY <3>1, <3>2
  <2>6. QED
    BY <2>1, <2>2, <2>5 DEF Settled, Before, Seats, list
<1>3. CASE Same(t)
  BY <1>1, <1>3 DEF Same, Kept, Settled
<1>4. CASE GetEventInfo(t) \/ ReadSeat(t)
  BY <1>1, <1>4, <1>a DEF GetEventInfo, ReadSeat, Goto, locals, PlacedWorker
<1>5. ASSUME NEW r \in Requests, Call(t, r) PROVE pc'[t] \notin {"info", "read"}
  BY <1>5 DEF Call, Goto
<1>6. CASE WrLock(t) \/ Create(t) \/ AppendToList(t) \/ Lookup(t) \/ Check(t)
  BY <1>6 DEF WrLock, Create, AppendToList, Lookup, Check, Goto, Settled
<1>7. CASE RdLock(t)
  <2>1. AfterRdLock(t) \in {"walk", "dump", "lookup"}
    BY DEF AfterRdLock
  <2>2. QED
    BY <1>7, <2>1 DEF RdLock, Goto, Settled
<1>8. CASE WriteSeat(t) \/ ReserveReturn(t) \/ ShowReturn(t) \/ GetEvents(t) \/ Reply(t)
  BY <1>8 DEF WriteSeat, ReserveReturn, ShowReturn, GetEvents, Reply, Goto, Settled
<1>9. QED
  BY <1>2, <1>3, <1>4, <1>5, <1>6, <1>7, <1>8, OneThreadSteps DEF Own, Step, Settled

LEMMA ReadingStep ==
  ASSUME IInv, SeatInv, ViewInv, [Next]_vars, NEW t \in Workers
  PROVE  Reading(t)'
<1> USE LocalFacts, HostAssumption DEF Threads
<1>a. Reading(t) /\ Settled(t) /\ Serving(t) /\ PlacedWorker(t)
  BY DEF ViewInv, IInv, Placed
<1>b. /\ pc[t] \in {"info", "read"} => event[t] \in 1 .. Len(events)
      /\ \A e \in 1 .. Len(events) : events[e].rows \in Nat /\ events[e].cols \in Nat
  <2>1. pc[t] \in {"info", "read"} => event[t] \in 1 .. Len(events)
    BY ListFacts DEF IInv, TypeOK, Placed
  <2>2. \A e \in 1 .. Len(events) : events[e] \in EventRecords
    BY ListFacts DEF IInv, TypeOK
  <2>3. QED
    BY <2>1, <2>2 DEF EventRecords
<1>c. Len(view[t]) \in Nat
  OBVIOUS
<1>d. \A e \in 1 .. Len(events) : events[e].rows * events[e].cols \in Nat
  BY <1>b, SMTT(20)
<1> DEFINE size(e) == events[e].rows * events[e].cols
           Fits(e, v) == \A k \in 1 .. Len(v) : v[k] \in {Booked(e)[k - 1], Before(t, e, k - 1)}
           FitsLater(e, v) == \A k \in 1 .. Len(v) : v[k] \in {Booked(e)'[k - 1], Before(t, e, k - 1)}
<1>1. ASSUME pc[t] = "read", floor'[t] = floor[t], event'[t] = event[t],
             NEW e \in 1 .. Len(events), e = event[t],
             Len(view'[t]) <= size(e), FitsLater(e, view'[t])
      PROVE  Reading(t)'
  <2>1. \A s : Before(t, event[t], s)' = Before(t, e, s)
    BY <1>1 DEF Before
  <2>2. Booked(event[t])' = Booked(e)'
    BY <1>1 DEF Booked
  <2>3. events'[e] = events[e] /\ event'[t] = e
    BY <1>1, EventsStay
  <2>4. QED
    BY <1>1, <2>1, <2>2, <2>3 DEF Reading
<1>2. ASSUME pc[t] = "read", NEW e \in 1 .. Len(events), e = event[t]
      PROVE  Len(view[t]) <= size(e) /\ FitsLater(e, view[t])
  <2>1. Len(view[t]) <= size(e) /\ Fits(e, view[t])
    BY <1>2, <1>a DEF Reading
  <2>2. ASSUME NEW k \in 1 .. Len(view[t])
        PROVE  view[t][k] \in {Booked(e)'[k - 1], Before(t, e, k - 1)}
    <3>1. k - 1 \in Seats(e)
      <4>1. size(e) \in Nat /\ k \in 1 .. size(e)
        BY <1>c, <1>d, <2>1, SMTT(20)
      <4> HIDE DEF size
      <4>2. k - 1 \in 0 .. size(e) - 1
        BY <4>1
      <4>3. QED
        BY <4>2 DEF size, Seats
    <3>2. Before(t, e, k - 1) \in {0, data[e][k - 1]}
      BY <1>2, <1>a, <3>1 DEF Settled
    <3>3. view[t][k] \in {Booked(e)[k - 1], Before(t, e, k - 1)}
      BY <2>1
    <3>4. Booked(e)'[k - 1] = Booked(e)[k - 1] \/ (Booked(e)[k - 1] = 0 /\ data[e][k - 1] = 0)
      BY <3>1, BookedIsFinal
    <3>5. QED
      BY <3>2, <3>3, <3>4
  <2>3. QED
    BY <2>1, <2>2
<1>3. CASE Same(t)
  <2>1. CASE pc[t] = "read"
    <3>1. PICK e \in 1 .. Len(events) : e = event[t]
      BY <1>b, <2>1
    <3>2. floor'[t] = floor[t] /\ event'[t] = event[t] /\ view'[t] = view[t]
      BY <1>3 DEF Same, Kept
    <3>3. Len(view[t]) <= size(e) /\ FitsLater(e, view[t])
      BY <1>2, <2>1, <3>1
    <3> HIDE DEF size, FitsLater
    <3>4. QED
      BY <1>1, <2>1, <3>1, <3>2, <3>3
  <2>2. QED
    BY <1>3, <2>1 DEF Same, Kept, Reading
<1>4. CASE ReadSeat(t)
  <2>1. PICK e \in 1 .. Len(events) : e = event[t]
    BY <1>4, <1>a, <1>b DEF ReadSeat, PlacedWorker
  <2>2. pc[t] = "read" /\ UNCHANGED <<list, pc, event, floor>>
    BY <1>4, <1>a DEF ReadSeat, PlacedWorker
  <2> DEFINE n == Len(view[t])
             seat == data[e][n]
  <2>3. n < size(e) /\ view'[t] = Append(view[t], seat)
    BY <1>4, <2>1 DEF ReadSeat
  <2>4. Len(view[t]) <= size(e) /\ FitsLater(e, view[t])
    BY <1>2, <2>1, <2>2
  <2>5. seat \in {Booked(e)'[n], Before(t, e, n)}
    <3>1. n \in Seats(e)
      <4>1. size(e) \in Nat
        BY <1>d
      <4> HIDE DEF size
      <4>2. n \in 0 .. size(e) - 1
        BY <1>c, <2>3, <4>1
      <4>3. QED
        BY <4>2 DEF size, Seats
    <3>2. Booked(e)' = Booked(e)
      <4>1. \A u \in Workers : ~ Granting(u)
        BY <2>2 DEF Granting, Check, Goto
      <4>2. QED
        BY <4>1, BookedStays
    <3>3. data[e][n] \in {0, Booked(e)[n]} /\ Before(t, e, n) \in {0, data[e][n]}
      BY <1>a, <2>1, <2>2, <3>1, BookedFacts DEF Settled
    <3>4. QED
      BY <3>2, <3>3
  <2>6. view[t] \in Seq(Nat) /\ seat \in Nat
    <3>1. ViewTypeOK'
      BY ViewTypeStep
    <3>2. n \in Seats(e)
      <4>1. size(e) \in Nat
        BY <1>d
      <4> HIDE DEF size
      <4>2. n \in 0 .. size(e) - 1
        BY <1>c, <2>3, <4>1
      <4>3. QED
        BY <4>2 DEF size, Seats
    <3>3. QED
      BY <3>2, SeatsAreNumbers DEF IInv, TypeOK
  <2> HIDE DEF seat, size
  <2>7. /\ Len(view'[t]) = n + 1 /\ view'[t][n + 1] = seat
        /\ \A k \in 1 .. n : view'[t][k] = view[t][k]
    BY <2>3, <2>6
  <2>8. FitsLater(e, view'[t])
    <3>1. ASSUME NEW k \in 1 .. Len(view'[t])
          PROVE  view'[t][k] \in {Booked(e)'[k - 1], Before(t, e, k - 1)}
      <4>1. CASE k = n + 1
        <5>1. k - 1 = n
          BY <1>c, <4>1
        <5>2. QED
          BY <2>5, <2>7, <4>1, <5>1
      <4>2. CASE k # n + 1
        <5>1. k \in 1 .. n
          BY <1>c, <2>7, <4>2
        <5>2. QED
          BY <2>4, <2>7, <5>1
      <4>3. QED
        BY <4>1, <4>2
    <3>2. QED
      BY <3>1
  <2>9. Len(view'[t]) <= size(e)
    <3>1. size(e) \in Nat
      BY <1>d DEF size
    <3>2. QED
      BY <1>c, <2>3, <2>7, <3>1
  <2> HIDE DEF FitsLater
  <2>10. QED
    BY <1>1, <2>1, <2>2, <2>8, <2>9
<1>5. CASE GetEventInfo(t)
  <2>1. pc[t] = "info" /\ view'[t] = <<>> /\ UNCHANGED <<events, event>>
    BY <1>5, <1>a DEF GetEventInfo, Goto, Serving, locals, list
  <2>2. PICK e \in 1 .. Len(events) : e = event[t]
    BY <1>b, <2>1
  <2>3. 0 <= size(e) /\ Len(<<>>) = 0
    BY <1>d
  <2>4. QED
    BY <2>1, <2>2, <2>3 DEF Reading
<1>6. ASSUME NEW r \in Requests, Call(t, r) PROVE pc'[t] # "read"
  BY <1>6 DEF Call, Goto
<1>7. CASE WrLock(t) \/ Create(t) \/ AppendToList(t) \/ Lookup(t) \/ Check(t)
  BY <1>7 DEF WrLock, Create, AppendToList, Lookup, Check, Goto, Reading
<1>8. CASE RdLock(t) \/ MutexLock(t)
  <2>1. AfterRdLock(t) # "read" /\ AfterMutexLock(t) # "read"
    BY DEF AfterRdLock, AfterMutexLock
  <2>2. QED
    BY <1>8, <2>1 DEF RdLock, MutexLock, Goto, Reading
<1>9. CASE WriteSeat(t) \/ ReserveReturn(t) \/ ShowReturn(t) \/ GetEvents(t) \/ Reply(t)
  BY <1>9 DEF WriteSeat, ReserveReturn, ShowReturn, GetEvents, Reply, Goto, Reading
<1>10. QED
  BY <1>3, <1>4, <1>5, <1>6, <1>7, <1>8, <1>9, OneThreadSteps DEF Own, Step, Reading

(* Nobody writes in the event that the host prints.                        *)
LEMMA PrintingStep ==
  ASSUME IInv, ViewInv, [Next]_vars
  PROVE  Printing'
<1> USE LocalFacts, HostAssumption DEF Threads
<1>a. Printing /\ PlacedHost
  BY DEF ViewInv, IInv, Placed
<1>b. pc[Host] = "print" => event[Host] \in 1 .. Len(events)
  BY ListFacts DEF IInv, TypeOK, Placed
<1> DEFINE Prints(e, v) == \A k \in 1 .. Len(v) : v[k] = data[e][k - 1]
<1>1. ASSUME pc[Host] = "print" PROVE data'[event[Host]] = data[event[Host]]
  <2>1. \A u \in Workers : WriteSeat(u) => event[u] # event[Host]
    BY <1>1, HolderIsAlone DEF WriteSeat, Goto
  <2>2. QED
    BY <1>1, <1>b, <2>1, DataStay
<1>2. ASSUME pc[Host] = "print", event'[Host] = event[Host], Prints(event[Host], view'[Host]),
             pc'[Host] = "print"
      PROVE  Printing'
  <2>1. data'[event'[Host]] = data[event[Host]]
    BY <1>1, <1>2
  <2>2. QED
    BY <1>2, <2>1 DEF Printing
<1>3. CASE Same(Host)
  BY <1>2, <1>3, <1>a DEF Same, Kept, Printing
<1>4. CASE ReadSeat(Host)
  <2> DEFINE v == view[Host]
             n == Len(v)
             seat == data[event[Host]][n]
  <2>1. /\ pc[Host] = "print" /\ view'[Host] = Append(v, seat)
        /\ UNCHANGED <<pc, event>>
    BY <1>4, <1>a DEF ReadSeat, PlacedHost
  <2>2. Prints(event[Host], v)
    BY <1>a, <2>1 DEF Printing
  <2>3. v \in Seq(Nat) /\ n \in Nat
    OBVIOUS
  <2> HIDE DEF seat
  <2>4. /\ Len(view'[Host]) = n + 1 /\ view'[Host][n + 1] = seat
        /\ \A k \in 1 .. n : view'[Host][k] = v[k]
    BY <2>1, <2>3
  <2>5. ASSUME NEW k \in 1 .. Len(view'[Host]) PROVE view'[Host][k] = data[event[Host]][k - 1]
    <3>1. CASE k = n + 1
      <4>1. k - 1 = n
        BY <2>3, <3>1
      <4>2. QED
        BY <2>4, <3>1, <4>1 DEF seat
    <3>2. CASE k # n + 1
      <4>1. k \in 1 .. n
        BY <2>3, <2>4, <3>2
      <4>2. QED
        BY <2>2, <2>4, <4>1
    <3>3. QED
      BY <3>1, <3>2
  <2>6. QED
    BY <1>2, <2>1, <2>5
<1>5. CASE MutexLock(Host)
  <2>1. view'[Host] = <<>>
    BY <1>5, <1>a DEF MutexLock, Goto, Printing, locals
  <2>2. \A k \in 1 .. Len(<<>>) : FALSE
    OBVIOUS
  <2>3. QED
    BY <2>1, <2>2 DEF Printing
<1>6. CASE WrLock(Host) \/ Create(Host) \/ AppendToList(Host) \/ Check(Host)
  BY <1>6, <1>a DEF WrLock, Create, AppendToList, Check, Goto, PlacedHost
<1>7. CASE WriteSeat(Host) \/ ReserveReturn(Host) \/ GetEventInfo(Host) \/ ShowReturn(Host)
  BY <1>7, <1>a DEF WriteSeat, ReserveReturn, GetEventInfo, ShowReturn, Goto, PlacedHost
<1>8. CASE GetEvents(Host) \/ Reply(Host)
  BY <1>8, <1>a DEF GetEvents, Reply, Goto, PlacedHost
<1>9. CASE RdLock(Host)
  <2>1. AfterRdLock(Host) # "print"
    BY DEF AfterRdLock
  <2>2. QED
    BY <1>9, <1>a, <2>1 DEF RdLock, Goto, Printing, locals
<1>10. CASE Lookup(Host)
  BY <1>10, <1>a DEF Lookup, Goto, Printing
<1>11. CASE Dump \/ HostStep
  BY <1>11, <1>a DEF Dump, HostStep, DumpNode, PrintReturn, DumpReturn, Goto, Printing
<1>12. QED
  BY <1>3, <1>4, <1>5, <1>6, <1>7, <1>8, <1>9, <1>10, <1>11, OneThreadSteps DEF Own, Step

THEOREM ViewInvariance == Spec => [](IInv /\ SeatInv /\ ViewInv)
<1>1. Init => ViewInv
  <2> SUFFICES ASSUME Init PROVE ViewInv
    OBVIOUS
  <2> USE HostAssumption DEF Init, Threads
  <2>1. Printing
    BY DEF Printing
  <2>2. \A t \in Workers : Serving(t)
    BY DEF Serving
  <2>3. \A t \in Workers : FloorKept(t)
    BY DEF FloorKept
  <2>4. \A t \in Workers : Settled(t) /\ Reading(t)
    BY DEF Settled, Reading
  <2>5. QED
    BY <2>1, <2>2, <2>3, <2>4 DEF ViewInv
<1>2. IInv /\ SeatInv /\ ViewInv /\ [Next]_vars => ViewInv'
  <2> SUFFICES ASSUME IInv, SeatInv, ViewInv, [Next]_vars PROVE ViewInv'
    OBVIOUS
  <2>1. QED
    BY PrintingStep, ServingStep, FloorStep, SettledStep, ReadingStep DEF ViewInv
<1>3. QED
  BY <1>1, <1>2, SeatInvariance, PTL DEF Spec

(* The host prints under the mutex: what it has printed of an event is what *)
(* the event holds, with no reservation in part (ems_show).                *)
THEOREM DumpsAreWhole == Spec => []DumpIsWhole
<1>1. IInv /\ SeatInv /\ ViewInv => DumpIsWhole
  <2> SUFFICES ASSUME IInv, SeatInv, ViewInv, pc[Host] = "print", ReadWhole(Host),
                      NEW s \in DOMAIN data[event[Host]]
               PROVE  view[Host][s + 1] = Booked(event[Host])[s]
    BY DEF DumpIsWhole
  <2>1. PICK e \in 1 .. Len(events) : e = event[Host]
    BY ListFacts DEF IInv, TypeOK, ThreadTypeOK, Placed, Threads
  <2>2. \A u \in Workers : ~ (pc[u] = "write" /\ event[u] = e)
    BY <2>1, HolderIsAlone, HostAssumption DEF Threads
  <2>3. Booked(e) = data[e] /\ DOMAIN data[e] = Seats(e)
    BY <2>2, BookedWhenQuiet, BookedFacts
  <2>4. s + 1 \in 1 .. Len(view[Host]) /\ (s + 1) - 1 = s
    <3>1. Len(view[Host]) = events[e].rows * events[e].cols /\ Len(view[Host]) \in Nat
      BY <2>1, LocalFacts DEF ReadWhole, Threads
    <3>2. s \in 0 .. Len(view[Host]) - 1
      BY <2>1, <2>3, <3>1 DEF Seats
    <3>3. QED
      BY <3>1, <3>2
  <2>5. \A k \in 1 .. Len(view[Host]) : view[Host][k] = data[event[Host]][k - 1]
    BY DEF ViewInv, Printing
  <2>6. view[Host][s + 1] = data[e][s]
    BY <2>1, <2>4, <2>5
  <2>7. QED
    BY <2>1, <2>3, <2>6
<1>2. QED
  BY <1>1, ViewInvariance, PTL

------------------------------------------------------------------------------
(* The state of EventStore that a state of the server stands for.          *)
StoreList == [e \in 1 .. Len(events) |-> StoreEvent(e)]
Calls     == [t \in Workers |-> req[t]]
Answers   == [t \in Workers |-> Answer(t)]

AllInv == IInv /\ SeatInv /\ ViewInv

LEMMA StoreStays ==
  ASSUME AllInv, [Next]_vars, UNCHANGED events, \A u \in Workers : ~ Granting(u)
  PROVE  StoreList' = StoreList
<1>1. ASSUME NEW e \in 1 .. Len(events) PROVE StoreEvent(e)' = StoreEvent(e)
  <2>1. reservations'[e] = reservations[e] /\ Booked(e)' = Booked(e)
    BY ReservationsStay, BookedStays DEF AllInv
  <2>2. QED
    BY <2>1 DEF StoreEvent
<1>2. QED
  BY <1>1 DEF StoreList

(* A step changes at most the answer of the session it serves.             *)
LEMMA AnswersStep ==
  ASSUME AllInv, NEW t \in Workers, Own(t)
  PROVE  Answers' = [Answers EXCEPT ![t] = Answer(t)']
<1>1. ASSUME NEW u \in Workers, u # t PROVE Answer(u)' = Answer(u)
  <2>1. Same(u)
    BY <1>1, OthersStay DEF Threads, AllInv
  <2>2. QED
    BY <2>1 DEF Same, Kept, Answer
<1>2. QED
  BY <1>1 DEF Answers

LEMMA CallsStay ==
  ASSUME UNCHANGED req
  PROVE  Calls' = Calls
BY DEF Calls

LEMMA Stutters ==
  ASSUME StoreList' = StoreList, Calls' = Calls, floor' = floor, Answers' = Answers
  PROVE  UNCHANGED Store!vars
BY DEF Store!vars, StoreList, Calls, Answers

LEMMA QuietServing ==
  ASSUME AllInv, [Next]_vars, NEW t \in Workers, Own(t), ~ Granting(t),
         UNCHANGED <<events, req, floor>>, Answer(t)' = Answer(t)
  PROVE  UNCHANGED Store!vars
<1>1. \A u \in Workers : ~ Granting(u)
  <2>1. \A u \in Workers : u # t => pc'[u] = pc[u]
    BY OthersStay DEF Same, Kept, Threads, AllInv
  <2>2. QED
    BY <2>1 DEF Granting, Check, Goto
<1>2. StoreList' = StoreList
  BY <1>1, StoreStays
<1>3. Answers' = Answers
  BY AnswersStep DEF Answers
<1>4. QED
  BY <1>2, <1>3, CallsStay, Stutters

(* The event with an id is the same for the list and for EventStore.       *)
LEMMA SamePosition ==
  ASSUME AllInv, NEW e \in 1 .. Len(events)
  PROVE  Store!Position(events[e].id) = e
<1> DEFINE id == events[e].id
<1>1. \A f \in 1 .. Len(events) : events[f].id = id <=> f = e
  BY DEF AllInv, SeatInv, IdsUnique
<1>2. \A f \in 1 .. Len(events) : StoreEvent(f).id = events[f].id
  BY DEF StoreEvent
<1> HIDE DEF id
<1>3. Store!Position(id) = e
  BY <1>1, <1>2 DEF Store!Position
<1>4. QED
  BY <1>3 DEF id

LEMMA NoPosition ==
  ASSUME NEW id, \A e \in 1 .. Len(events) : events[e].id # id
  PROVE  Store!Position(id) = 0
<1>1. \A f \in 1 .. Len(events) : StoreEvent(f).id = events[f].id
  BY DEF StoreEvent
<1>2. QED
  BY <1>1 DEF Store!Position

(* A session that has no answer yet.                                       *)
LEMMA Undecided ==
  ASSUME NEW t \in Workers, pc[t] \notin {"write", "reply"}
  PROVE  Answers[t] = Store!NoAnswer
BY DEF Answers, Answer, Store!NoAnswer

------------------------------------------------------------------------------
\* The steps, one by one

LEMMA CallRefines ==
  ASSUME AllInv, NEW t \in Workers, NEW r \in Requests, Call(t, r)
  PROVE  Store!Invoke(t, r)
<1> USE LocalFacts DEF Threads, AllInv
<1>1. /\ Own(t) /\ [Next]_vars /\ pc[t] = "idle" /\ pc'[t] \in {"wrlock", "rdlock"}
  BY DEF Own, Next, Call, Goto
<1>2. Calls[t] = NoRequest /\ Calls' = [Calls EXCEPT ![t] = r]
  BY <1>1 DEF Calls, Call, ViewInv, Serving
<1>3. StoreList' = StoreList
  <2>1. UNCHANGED events /\ \A u \in Workers : ~ Granting(u)
    BY <1>1 DEF Call, list, Granting, Check, Goto
  <2>2. QED
    BY <1>1, <2>1, StoreStays
<1>4. Answers' = Answers
  <2>1. Answer(t)' = Answer(t)
    BY <1>1 DEF Answer
  <2>2. QED
    BY <1>1, <2>1, AnswersStep DEF Answers
<1>5. floor' = [floor EXCEPT ![t] =
        IF r.op = "SHOW" THEN [e \in DOMAIN StoreList |-> StoreList[e].seats] ELSE <<>>]
  <2>1. DOMAIN StoreList = 1 .. Len(events) /\ DOMAIN data = 1 .. Len(events)
    BY ListFacts DEF StoreList, IInv, TypeOK
  <2>2. \A e \in 1 .. Len(events) : StoreList[e].seats = Booked(e)
    BY DEF StoreList, StoreEvent
  <2>3. BookedSeats = [e \in DOMAIN StoreList |-> StoreList[e].seats]
    BY <2>1, <2>2 DEF BookedSeats
  <2>4. QED
    BY <2>3 DEF Call
<1>6. QED
  BY <1>2, <1>3, <1>4, <1>5 DEF Store!Invoke, NoRequest, Store!NoRequest, StoreList, Calls, Answers

LEMMA ReplyRefines ==
  ASSUME AllInv, NEW t \in Workers, Reply(t)
  PROVE  Store!Reply(t)
<1> USE LocalFacts DEF Threads, AllInv
<1>1. Own(t) /\ [Next]_vars /\ pc[t] = "reply" /\ pc'[t] = "idle"
  BY DEF Own, Step, Next, Reply, Goto
<1>2. Calls' = [Calls EXCEPT ![t] = NoRequest] /\ floor' = [floor EXCEPT ![t] = <<>>]
  BY DEF Calls, Reply
<1>3. StoreList' = StoreList
  <2>1. UNCHANGED events /\ \A u \in Workers : ~ Granting(u)
    BY <1>1 DEF Reply, list, Granting, Check, Goto
  <2>2. QED
    BY <1>1, <2>1, StoreStays
<1>4. Answers' = [Answers EXCEPT ![t] = Store!NoAnswer]
  <2>1. Answer(t)' = Store!NoAnswer
    BY <1>1 DEF Answer, Store!NoAnswer
  <2>2. QED
    BY <1>1, <2>1, AnswersStep
<1>5. Answers[t] # Store!NoAnswer
  <2>1. Answers[t].res = res[t] /\ res[t] \in {0, 1}
    BY <1>1 DEF Answers, Answer
  <2>2. Store!NoAnswer.res = -1
    BY DEF Store!NoAnswer
  <2>3. QED
    BY <2>1, <2>2
<1>6. QED
  BY <1>2, <1>3, <1>4, <1>5 DEF Store!Reply, NoRequest, Store!NoRequest, StoreList, Calls, Answers

(* The steps that a session does not see.                                  *)
LEMMA QuietRefines ==
  ASSUME AllInv, [Next]_vars, NEW t \in Workers,
         \/ WrLock(t) \/ RdLock(t) \/ MutexLock(t)
         \/ WriteSeat(t) \/ ReserveReturn(t) \/ GetEventInfo(t) \/ ReadSeat(t)
  PROVE  UNCHANGED Store!vars
<1> USE LocalFacts DEF Threads, AllInv
<1>a. Serving(t) /\ PlacedWorker(t)
  BY DEF ViewInv, IInv, Placed
<1>1. Own(t)
  BY DEF Own, Step
<1>2. AfterRdLock(t) \notin {"write", "reply"} /\ AfterMutexLock(t) \notin {"write", "reply"}
  BY DEF AfterRdLock, AfterMutexLock
<1>3. UNCHANGED <<events, req, floor>> /\ ~ Granting(t)
  <2>1. CASE WrLock(t) \/ RdLock(t) \/ MutexLock(t)
    BY <2>1 DEF WrLock, RdLock, MutexLock, Granting, Check, Goto, list, locals
  <2>2. CASE WriteSeat(t) \/ ReserveReturn(t)
    BY <2>2 DEF WriteSeat, ReserveReturn, Granting, Check, Goto, list, locals
  <2>3. CASE GetEventInfo(t) \/ ReadSeat(t)
    BY <2>3 DEF GetEventInfo, ReadSeat, Granting, Check, Goto, list, locals
  <2>4. QED
    BY <2>1, <2>2, <2>3
<1>4. Answer(t)' = Answer(t)
  <2>1. CASE WrLock(t) \/ RdLock(t) \/ MutexLock(t)
    BY <2>1, <1>2 DEF WrLock, RdLock, MutexLock, Goto, Answer
  <2>2. CASE WriteSeat(t)
    BY <2>2 DEF WriteSeat, Goto, Answer
  <2>3. CASE ReserveReturn(t)
    BY <2>3, <1>a DEF ReserveReturn, Goto, Answer, Serving, locals
  <2>4. CASE GetEventInfo(t)
    BY <2>4 DEF GetEventInfo, Goto, Answer
  <2>5. CASE ReadSeat(t)
    BY <2>5 DEF ReadSeat, Answer
  <2>6. QED
    BY <2>1, <2>2, <2>3, <2>4, <2>5
<1>5. QED
  BY <1>1, <1>3, <1>4, QuietServing

LEMMA HostRefines ==
  ASSUME AllInv, [Next]_vars, Own(Host)
  PROVE  UNCHANGED Store!vars
<1> USE LocalFacts, HostAssumption DEF Threads, AllInv
<1>1. \A u \in Workers : Same(u)
  BY OthersStay
<1>2. PlacedHost
  BY DEF IInv, Placed
<1>3. UNCHANGED events /\ floor' = floor
  <2>1. CASE Dump \/ HostStep
    BY <2>1 DEF Dump, HostStep, DumpNode, PrintReturn, DumpReturn, list
  <2>2. CASE RdLock(Host) \/ MutexLock(Host) \/ Lookup(Host) \/ ReadSeat(Host)
    BY <2>2 DEF RdLock, MutexLock, Lookup, ReadSeat, list
  <2>3. CASE WrLock(Host) \/ Create(Host) \/ AppendToList(Host) \/ Check(Host)
    BY <2>3, <1>2 DEF WrLock, Create, AppendToList, Check, Goto, PlacedHost
  <2>4. CASE WriteSeat(Host) \/ ReserveReturn(Host) \/ GetEventInfo(Host) \/ ShowReturn(Host)
             \/ GetEvents(Host) \/ Reply(Host)
    BY <2>4, <1>2 DEF WriteSeat, ReserveReturn, GetEventInfo, ShowReturn, GetEvents, Reply, Goto,
                      PlacedHost
  <2>5. QED
    BY <2>1, <2>2, <2>3, <2>4 DEF Own, Step
<1>4. \A u \in Workers : ~ Granting(u)
  BY <1>1 DEF Granting, Check, Goto, Same, Kept
<1>5. StoreList' = StoreList
  BY <1>3, <1>4, StoreStays
<1>6. Calls' = Calls /\ Answers' = Answers
  BY <1>1 DEF Same, Kept, Calls, Answers, Answer
<1>7. QED
  BY <1>3, <1>5, <1>6, Stutters

LEMMA FunctionIsSeq ==
  ASSUME NEW S, NEW n \in Nat, NEW f \in [1 .. n -> S]
  PROVE  f \in Seq(S) /\ Len(f) = n
OBVIOUS

LEMMA AppendIs ==
  ASSUME NEW S, NEW s \in Seq(S), NEW v
  PROVE  Append(s, v) = [e \in 1 .. Len(s) + 1 |-> IF e = Len(s) + 1 THEN v ELSE s[e]]
<1>1. s \in Seq(S \cup {v}) /\ v \in S \cup {v} /\ Len(s) \in Nat
  OBVIOUS
<1> DEFINE x == Append(s, v)
<1>2. /\ x \in Seq(S \cup {v}) /\ Len(x) = Len(s) + 1
      /\ \A e \in 1 .. Len(s) : x[e] = s[e]
      /\ x[Len(s) + 1] = v
  BY <1>1
<1> HIDE DEF x
<1>3. x \in [1 .. Len(s) + 1 -> S \cup {v}]
  BY <1>1, <1>2
<1>4. ASSUME NEW e \in 1 .. Len(s) + 1
      PROVE  x[e] = IF e = Len(s) + 1 THEN v ELSE s[e]
  <2>1. CASE e = Len(s) + 1
    BY <1>2, <2>1
  <2>2. CASE e # Len(s) + 1
    <3>1. e \in 1 .. Len(s)
      BY <1>1, <2>2
    <3>2. QED
      BY <1>2, <2>2, <3>1
  <2>3. QED
    BY <2>1, <2>2
<1>5. QED
  BY <1>3, <1>4 DEF x

(* A new event is one that nobody reserves in.                             *)
LEMMA StoreGrows ==
  ASSUME AllInv, NEW t \in Workers, AppendToList(t), res' = res, req[t].op = "CREATE",
         req[t].id \in EventIds, req[t].dim \in Dims, events' # events
  PROVE  StoreList' = Append(StoreList,
           [id |-> req[t].id, rows |-> req[t].dim[1], cols |-> req[t].dim[2], count |-> 0,
            seats |-> [s \in 0 .. req[t].dim[1] * req[t].dim[2] - 1 |-> 0]])
<1> USE LocalFacts DEF Threads, AllInv
<1> DEFINE rows == req[t].dim[1]
           cols == req[t].dim[2]
           room == [s \in 0 .. rows * cols - 1 |-> 0]
           new == [id |-> req[t].id, rows |-> rows, cols |-> cols]
           added == [id |-> req[t].id, rows |-> rows, cols |-> cols, count |-> 0, seats |-> room]
<1>1. /\ events' = Append(events, new) /\ reservations' = Append(reservations, 0)
      /\ data' = Append(data, room)
  BY DEF AppendToList, list
<1>2. /\ events \in Seq(EventRecords) /\ reservations \in Seq(Nat) /\ data \in Seq(Rooms)
      /\ Len(reservations) = Len(events) /\ Len(data) = Len(events) /\ Len(events) \in Nat
  BY DEF IInv, TypeOK, ListTypeOK
<1>3. Own(t) /\ [Next]_vars /\ pc[t] = "append" /\ pc'[t] = "reply"
  BY DEF Own, Step, Next, AppendToList, Goto
<1> HIDE DEF room, new
<1>4. PICK n \in Nat : n = Len(events) + 1
  BY <1>2
<1>5. Len(events') = n /\ events'[n] = new
  <2>1. events' = [e \in 1 .. n |-> IF e = n THEN new ELSE events[e]]
    BY <1>1, <1>2, <1>4, AppendIs
  <2>2. n \in 1 .. n
    BY <1>2, <1>4
  <2>3. QED
    BY <2>1, <2>2
<1>6. data'[n] = room /\ reservations'[n] = 0
  <2>1. n \in 1 .. n
    BY <1>2, <1>4
  <2>2. data' = [e \in 1 .. n |-> IF e = n THEN room ELSE data[e]]
    <3>1. n = Len(data) + 1
      BY <1>2, <1>4
    <3>2. QED
      BY <1>1, <1>2, <3>1, AppendIs
  <2>3. reservations' = [e \in 1 .. n |-> IF e = n THEN 0 ELSE reservations[e]]
    <3>1. PICK S : reservations \in Seq(S)
      BY <1>2
    <3>2. reservations' = [e \in 1 .. Len(reservations) + 1 |->
            IF e = Len(reservations) + 1 THEN 0 ELSE reservations[e]]
      BY <1>1, <3>1, AppendIs
    <3>3. n = Len(reservations) + 1
      BY <1>2, <1>4
    <3>4. QED
      BY <3>2, <3>3
  <2>4. QED
    BY <2>1, <2>2, <2>3
<1>7. Booked(n)' = room
  <2>1. \A u \in Workers : pc'[u] = "write" => event'[u] # n
    <3>1. ASSUME NEW u \in Workers, pc'[u] = "write" PROVE event'[u] # n
      <4>1. u # t
        BY <1>3, <3>1
      <4>2. event'[u] = event[u] /\ event[u] \in 0 .. Len(events)
        BY <1>3, <4>1, OthersStay DEF Same, Kept
      <4>3. QED
        BY <1>2, <1>4, <4>2
    <3>2. QED
      BY <3>1
  <2>2. Booked(n)' = [s \in DOMAIN room |-> room[s]]
    BY <1>6, <2>1 DEF Booked
  <2>3. QED
    BY <2>2 DEF room
<1>8. ASSUME NEW e \in 1 .. Len(events) PROVE StoreEvent(e)' = StoreEvent(e)
  <2>1. \A u \in Workers : ~ Granting(u)
    <3>1. \A u \in Workers : u # t => pc'[u] = pc[u]
      BY <1>3, OthersStay DEF Same, Kept
    <3>2. QED
      BY <1>3, <3>1 DEF Granting, Check, Goto
  <2>2. /\ events'[e] = events[e] /\ reservations'[e] = reservations[e]
        /\ Booked(e)' = Booked(e)
    BY <1>3, <2>1, EventsStay, ReservationsStay, BookedStays
  <2>3. QED
    BY <2>2 DEF StoreEvent
<1>9. StoreEvent(n)' = added
  BY <1>5, <1>6, <1>7 DEF StoreEvent, new
<1>10. StoreList' = Append(StoreList, added)
  <2> HIDE DEF added
  <2>1. PICK S : StoreList \in Seq(S) /\ Len(StoreList) = Len(events)
    <3>1. PICK S : S = {StoreEvent(e) : e \in 1 .. Len(events)}
      OBVIOUS
    <3>2. StoreList \in [1 .. Len(events) -> S]
      BY <3>1 DEF StoreList
    <3>3. QED
      BY <1>2, <3>2, FunctionIsSeq
  <2>2. Append(StoreList, added) = [e \in 1 .. n |-> IF e = n THEN added ELSE StoreList[e]]
    BY <1>4, <2>1, AppendIs
  <2>3. StoreList' = [e \in 1 .. n |-> StoreEvent(e)']
    BY <1>5 DEF StoreList
  <2>4. ASSUME NEW e \in 1 .. n PROVE StoreEvent(e)' = IF e = n THEN added ELSE StoreList[e]
    <3>1. CASE e = n
      BY <1>9, <3>1
    <3>2. CASE e # n
      <4>1. e \in 1 .. Len(events)
        BY <1>2, <1>4, <3>2
      <4>2. QED
        BY <1>8, <3>2, <4>1 DEF StoreList
    <3>3. QED
      BY <3>1, <3>2
  <2>5. QED
    BY <2>2, <2>3, <2>4
<1>11. QED
  BY <1>10 DEF room

LEMMA CreateRefines ==
  ASSUME AllInv, NEW t \in Workers, Create(t) \/ AppendToList(t)
  PROVE  Store!Create(t) \/ UNCHANGED Store!vars
<1> USE LocalFacts DEF Threads, AllInv
<1>a. Serving(t) /\ PlacedWorker(t)
  BY DEF ViewInv, IInv, Placed
<1>1. /\ Own(t) /\ [Next]_vars /\ pc[t] \in {"create", "append"}
      /\ UNCHANGED <<req, view, floor>> /\ ~ Granting(t)
  BY DEF Own, Step, Next, Create, AppendToList, Granting, Check, Goto
<1>2. /\ req[t].op = "CREATE" /\ req[t].id \in EventIds /\ req[t].dim \in Dims
      /\ res[t] = 0 /\ view[t] = <<>>
  BY <1>1, <1>a DEF PlacedWorker, Serving, Creates
<1>3. Store!Pending(t, "CREATE")
  <2>1. Answers[t] = Store!NoAnswer
    BY <1>1, Undecided
  <2>2. QED
    BY <1>2, <2>1 DEF Store!Pending, Answers
<1>4. \A u \in Workers : ~ Granting(u)
  <2>1. \A u \in Workers : u # t => pc'[u] = pc[u]
    BY <1>1, OthersStay DEF Same, Kept
  <2>2. QED
    BY <1>1, <2>1 DEF Granting, Check, Goto
<1>5. UNCHANGED <<Calls, floor>>
  BY <1>1, CallsStay
<1>6. CASE pc'[t] = "append"
  <2>1. UNCHANGED events /\ Answer(t)' = Answer(t)
    BY <1>1, <1>6 DEF Create, AppendToList, Goto, Answer, list
  <2>2. QED
    BY <1>1, <2>1, QuietServing
<1>7. ASSUME pc'[t] = "reply", UNCHANGED events, res'[t] = 1 PROVE Store!Create(t)
  <2>1. StoreList' = StoreList
    BY <1>1, <1>4, <1>7, StoreStays
  <2>2. Answers' = [Answers EXCEPT ![t] = [res |-> 1, view |-> <<>>]]
    <3>1. Answer(t)' = [res |-> 1, view |-> <<>>]
      BY <1>1, <1>2, <1>7 DEF Answer
    <3>2. QED
      BY <1>1, <3>1, AnswersStep
  <2>3. QED
    BY <1>3, <1>5, <2>1, <2>2
       DEF Store!Create, Store!Decide, StoreList, Calls, Answers
<1>8. ASSUME AppendToList(t), events' # events PROVE Store!Create(t)
  <2>1. res' = res /\ pc'[t] = "reply" /\ pc[t] = "append"
    BY <1>8 DEF AppendToList, Goto, list
  <2>2. Store!Position(req[t].id) = 0
    <3>1. \A e \in 1 .. Len(events) : events[e].id # req[t].id
      BY <2>1 DEF SeatInv, Appending
    <3>2. QED
      BY <3>1, NoPosition
  <2>3. Answers' = [Answers EXCEPT ![t] = [res |-> 0, view |-> <<>>]]
    <3>1. Answer(t)' = [res |-> 0, view |-> <<>>]
      BY <1>1, <1>2, <2>1 DEF Answer
    <3>2. QED
      BY <1>1, <3>1, AnswersStep
  <2>4. StoreList' = Append(StoreList,
           [id |-> req[t].id, rows |-> req[t].dim[1], cols |-> req[t].dim[2], count |-> 0,
            seats |-> [s \in 0 .. req[t].dim[1] * req[t].dim[2] - 1 |-> 0]])
    BY <1>2, <1>8, <2>1, StoreGrows
  <2>5. QED
    BY <1>3, <1>5, <2>2, <2>3, <2>4
       DEF Store!Create, Store!Decide, StoreList, Calls, Answers
<1>9. CASE Create(t) /\ pc'[t] # "append"
  <2>1. pc'[t] = "reply" /\ UNCHANGED events /\ res'[t] = 1
    BY <1>9 DEF Create, Goto, list
  <2>2. QED
    BY <1>7, <2>1
<1>10. CASE AppendToList(t) /\ events' = events
  <2>1. pc'[t] = "reply" /\ res'[t] = 1
    <3>1. pc'[t] = "reply"
      BY <1>10 DEF AppendToList, Goto
    <3>2. ASSUME NEW x, events' = Append(events, x) PROVE FALSE
      <4>1. Len(events') = Len(events) + 1 /\ Len(events) \in Nat
        <5>1. events \in Seq(EventRecords \cup {x}) /\ x \in EventRecords \cup {x}
          BY DEF IInv, TypeOK, ListTypeOK
        <5>2. QED
          BY <3>2, <5>1
      <4>2. QED
        BY <1>10, <4>1
    <3>3. res' = [res EXCEPT ![t] = 1]
      BY <1>10, <3>2 DEF AppendToList
    <3>4. QED
      BY <3>1, <3>3
  <2>2. QED
    BY <1>7, <1>10, <2>1
<1>11. QED
  BY <1>1, <1>6, <1>8, <1>9, <1>10

(* What the abstract RESERVE finds and makes of the event at position x.   *)
AllFree(t, x) ==
  \A s \in {Calls[t].seats[j] : j \in DOMAIN Calls[t].seats} :
    /\ s[1] \in 1 .. StoreList[x].rows
    /\ s[2] \in 1 .. StoreList[x].cols
    /\ StoreList[x].seats[Store!Index(StoreList[x], s)] = 0

StoreReserved(t, x) ==
  [StoreList EXCEPT
     ![x].count = @ + 1,
     ![x].seats = [k \in DOMAIN @ |->
        IF \E s \in {Calls[t].seats[j] : j \in DOMAIN Calls[t].seats} :
             Store!Index(StoreList[x], s) = k
        THEN StoreList[x].count + 1 ELSE @[k]]]

(* A RESERVE that is refused ...                                           *)
LEMMA RefuseRefines ==
  ASSUME AllInv, [Next]_vars, NEW t \in Workers, Own(t), ~ Granting(t),
         UNCHANGED <<events, req, floor>>, pc[t] \notin {"write", "reply"},
         pc'[t] = "reply", res'[t] = 1, view'[t] = <<>>, req[t].op = "RESERVE",
         Store!Position(Calls[t].id) = 0 \/ ~ AllFree(t, Store!Position(Calls[t].id))
  PROVE  Store!Reserve(t)
<1>1. Store!Pending(t, "RESERVE")
  <2>1. Answers[t] = Store!NoAnswer
    BY Undecided
  <2>2. QED
    BY <2>1 DEF Store!Pending, Answers
<1>2. \A u \in Workers : ~ Granting(u)
  <2>1. \A u \in Workers : u # t => pc'[u] = pc[u]
    BY OthersStay DEF Same, Kept, AllInv, Threads
  <2>2. QED
    BY <2>1 DEF Granting, Check, Goto
<1>3. StoreList' = StoreList /\ Calls' = Calls
  BY <1>2, StoreStays, CallsStay
<1>4. Answers' = [Answers EXCEPT ![t] = [res |-> 1, view |-> <<>>]]
  <2>1. Answer(t)' = [res |-> 1, view |-> <<>>]
    BY DEF Answer
  <2>2. QED
    BY <2>1, AnswersStep
<1>5. QED
  BY <1>1, <1>3, <1>4
     DEF Store!Reserve, Store!Decide, AllFree, StoreList, Calls, Answers

(* ... and one that is granted.                                            *)
LEMMA GrantRefines ==
  ASSUME AllInv, [Next]_vars, NEW t \in Workers, Granting(t)
  PROVE  Store!Reserve(t)
<1> USE DEF AllInv, Threads
<1>a. pc[t] = "check" /\ Own(t) /\ Serving(t) /\ PlacedWorker(t)
  BY DEF Granting, Check, Goto, Own, Step, ViewInv, IInv, Placed
<1>b. PICK e \in 1 .. Len(events) : e = event[t]
  BY <1>a, LocalFacts, ListFacts DEF IInv, TypeOK, Placed
<1>1. /\ req[t].op = "RESERVE" /\ req[t].seats \in SeatLists /\ events[e].id = req[t].id
      /\ view[t] = <<>>
  BY <1>a, <1>b DEF PlacedWorker, Reserves, Serving
<1>2. DOMAIN req[t].seats = 1 .. Len(req[t].seats)
  BY <1>1, SeatListsAssumption
<1>3. /\ pc' = [pc EXCEPT ![t] = "write"] /\ UNCHANGED <<events, req, floor>>
      /\ reservations' = [reservations EXCEPT ![e] = @ + 1]
      /\ \A j \in 1 .. Len(req[t].seats) :
           InBounds(e, req[t].seats[j]) /\ data[e][Index(t, j)] = 0
  BY <1>b, LocalFacts DEF Granting, Check, Goto, Index
<1>4. /\ Booked(e) = data[e]
      /\ \A s \in Wanted(t) : s \in Seats(e) /\ data[e][s] = 0
      /\ Booked(e)' = [s \in Seats(e) |->
            IF s \in Wanted(t) THEN reservations[e] + 1 ELSE data[e][s]]
  BY <1>b, BookedByGrant
<1>5. DOMAIN data[e] = Seats(e) /\ reservations \in [1 .. Len(events) -> Nat]
  BY BookedFacts, ListFacts DEF IInv, TypeOK
<1>6. /\ StoreList[e] = StoreEvent(e) /\ StoreList[e].count = reservations[e]
      /\ StoreList[e].seats = data[e] /\ StoreList[e].cols = events[e].cols
      /\ StoreList[e].rows = events[e].rows /\ e \in DOMAIN StoreList
  BY <1>4 DEF StoreList, StoreEvent
<1>7. \A s : Store!Index(StoreList[e], s) = seat_index(e, s)
  BY <1>6 DEF Store!Index, seat_index
<1>8. Calls[t].seats = req[t].seats /\ Calls[t].id = req[t].id
  BY DEF Calls
<1>9. AllFree(t, e)
  <2>1. ASSUME NEW j \in 1 .. Len(req[t].seats)
        PROVE  LET s == req[t].seats[j]
               IN  /\ s[1] \in 1 .. StoreList[e].rows
                   /\ s[2] \in 1 .. StoreList[e].cols
                   /\ StoreList[e].seats[Store!Index(StoreList[e], s)] = 0
    <3>1. /\ req[t].seats[j][1] \in 1 .. events[e].rows
          /\ req[t].seats[j][2] \in 1 .. events[e].cols
      BY <1>3 DEF InBounds
    <3>2. Index(t, j) = Store!Index(StoreList[e], req[t].seats[j])
      BY <1>b, <1>7 DEF Index
    <3>3. data[e][Index(t, j)] = 0
      BY <1>3
    <3>4. StoreList[e].seats[Store!Index(StoreList[e], req[t].seats[j])] = 0
      <4> HIDE DEF Threads
      <4>1. StoreList[e].seats = data[e]
        BY <1>6
      <4>2. QED
        BY ONLY <4>1, <3>2, <3>3
    <3>5. QED
      BY <3>1, <3>4, <1>6
  <2>2. QED
    BY <2>1, <1>2, <1>8, Zenon DEF AllFree
<1>10. \A k : k \in Wanted(t)
          <=> \E s \in {Calls[t].seats[j] : j \in DOMAIN Calls[t].seats} :
                Store!Index(StoreList[e], s) = k
  BY <1>b, <1>2, <1>7, <1>8 DEF Wanted
<1> DEFINE new == StoreReserved(t, e)
<1>11. StoreList' = new
  <2>1. /\ DOMAIN new = DOMAIN StoreList
        /\ DOMAIN StoreList = 1 .. Len(events) /\ DOMAIN StoreList' = 1 .. Len(events)
    BY <1>3 DEF StoreList, new, StoreReserved
  <2>2. ASSUME NEW f \in 1 .. Len(events), f # e PROVE StoreList'[f] = new[f]
    <3>1. StoreList'[f] = StoreEvent(f)' /\ new[f] = StoreEvent(f)
      BY <1>3, <2>2 DEF StoreList, new, StoreReserved
    <3>2. Booked(f)' = Booked(f) /\ reservations'[f] = reservations[f]
      BY <1>b, <1>3, <1>5, <2>2, BookedByGrant
    <3>3. QED
      BY <1>3, <3>1, <3>2 DEF StoreEvent
  <2>3. StoreList'[e] = new[e]
    <3> DEFINE room == StoreList[e].seats
               given == [k \in DOMAIN room |->
                  IF \E s \in {Calls[t].seats[j] : j \in DOMAIN Calls[t].seats} :
                       Store!Index(StoreList[e], s) = k
                  THEN StoreList[e].count + 1 ELSE room[k]]
    <3>1. given = Booked(e)'
      BY <1>4, <1>5, <1>6, <1>10
    <3>2. [StoreList EXCEPT ![e].count = @ + 1][e]
             = [StoreList[e] EXCEPT !.count = reservations[e] + 1]
      BY <1>6
    <3>3. [StoreList EXCEPT ![e].count = @ + 1][e].seats = room
      BY <1>6, <3>2 DEF StoreEvent
    <3> HIDE DEF given
    <3>4. new[e] = [[StoreList EXCEPT ![e].count = @ + 1][e] EXCEPT !.seats = given]
      BY <1>6, <3>3 DEF new, StoreReserved, given
    <3> HIDE DEF room, new
    <3>5. PICK mid : mid = [StoreList[e] EXCEPT !.count = reservations[e] + 1]
      OBVIOUS
    <3>6. mid = [id |-> events[e].id, rows |-> events[e].rows, cols |-> events[e].cols,
                 count |-> reservations[e] + 1, seats |-> Booked(e)]
      BY <1>6, <3>5 DEF StoreEvent
    <3>7. new[e] = [mid EXCEPT !.seats = given]
      BY <3>2, <3>4, <3>5
    <3>8. [mid EXCEPT !.seats = given]
            = [id |-> events[e].id, rows |-> events[e].rows, cols |-> events[e].cols,
               count |-> reservations[e] + 1, seats |-> given]
      BY <3>6
    <3>9. StoreList'[e] = [id |-> events[e].id, rows |-> events[e].rows, cols |-> events[e].cols,
                           count |-> reservations'[e], seats |-> Booked(e)']
      <4>1. StoreList'[e] = StoreEvent(e)'
        BY <1>3 DEF StoreList
      <4>2. QED
        BY <1>3, <4>1 DEF StoreEvent
    <3>10. reservations'[e] = reservations[e] + 1
      BY <1>3, <1>5
    <3>11. QED
      BY <3>1, <3>7, <3>8, <3>9, <3>10, Zenon
  <2>4. QED
    <3>1. \A f \in 1 .. Len(events) : StoreList'[f] = new[f]
      BY <2>2, <2>3
    <3>2. /\ StoreList' = [f \in DOMAIN StoreList' |-> StoreList'[f]]
          /\ new = [f \in DOMAIN new |-> new[f]]
      BY DEF StoreList, new, StoreReserved
    <3>3. QED
      BY <2>1, <3>1, <3>2
<1>12. Answers' = [Answers EXCEPT ![t] = [res |-> 0, view |-> <<>>]]
  <2>1. Answer(t)' = [res |-> 0, view |-> <<>>]
    BY <1>3, LocalFacts DEF Answer
  <2>2. QED
    BY <1>a, <2>1, AnswersStep
<1>13. Store!Pending(t, "RESERVE")
  <2>1. Answers[t] = Store!NoAnswer
    BY <1>a, Undecided
  <2>2. QED
    BY <1>1, <2>1 DEF Store!Pending, Answers
<1>14. Store!Position(Calls[t].id) = e
  BY <1>1, <1>8, SamePosition
<1> HIDE DEF new
<1> DEFINE x == Store!Position(Calls[t].id)
<1>15. x # 0 /\ AllFree(t, x) /\ StoreList' = StoreReserved(t, x)
  BY <1>9, <1>11, <1>14 DEF new
<1>16. Calls' = Calls /\ floor' = floor
  BY <1>3, CallsStay
<1>17. QED
  BY <1>12, <1>13, <1>15, <1>16
     DEF Store!Reserve, Store!Decide, AllFree, StoreReserved, StoreList, Calls, Answers

LEMMA CheckRefines ==
  ASSUME AllInv, [Next]_vars, NEW t \in Workers, Check(t)
  PROVE  Store!Reserve(t)
<1> USE LocalFacts DEF AllInv, Threads
<1>a. pc[t] = "check" /\ Own(t) /\ Serving(t) /\ PlacedWorker(t)
  BY DEF Check, Goto, Own, Step, ViewInv, IInv, Placed
<1>b. PICK e \in 1 .. Len(events) : e = event[t]
  BY <1>a, ListFacts DEF IInv, TypeOK, Placed
<1>1. /\ req[t].op = "RESERVE" /\ req[t].seats \in SeatLists /\ events[e].id = req[t].id
      /\ view[t] = <<>>
  BY <1>a, <1>b DEF PlacedWorker, Reserves, Serving
<1>2. DOMAIN req[t].seats = 1 .. Len(req[t].seats)
  BY <1>1, SeatListsAssumption
<1>3. CASE Granting(t)
  BY <1>3, GrantRefines
<1>4. CASE ~ Granting(t)
  <2>1. /\ pc'[t] = "reply" /\ UNCHANGED <<events, req, floor>> /\ res'[t] = 1 /\ view'[t] = <<>>
        /\ \E j \in 1 .. Len(req[t].seats) :
             ~ (InBounds(e, req[t].seats[j]) /\ data[e][seat_index(e, req[t].seats[j])] = 0)
    BY <1>b, <1>1, <1>4 DEF Check, Goto, Granting
  <2>2. \A u \in Workers : ~ (pc[u] = "write" /\ event[u] = e)
    BY <1>a, <1>b, HolderIsAlone
  <2>3. Booked(e) = data[e]
    BY <2>2, BookedWhenQuiet
  <2>4. /\ StoreList[e].seats = data[e] /\ StoreList[e].cols = events[e].cols
        /\ StoreList[e].rows = events[e].rows
    BY <2>3 DEF StoreList, StoreEvent
  <2>5. \A s : Store!Index(StoreList[e], s) = seat_index(e, s)
    BY <2>4 DEF Store!Index, seat_index
  <2>6. Calls[t].seats = req[t].seats /\ Calls[t].id = req[t].id
    BY DEF Calls
  <2>7. ~ AllFree(t, e)
    BY <1>2, <2>1, <2>4, <2>5, <2>6, SMTT(20) DEF AllFree, InBounds
  <2>8. Store!Position(Calls[t].id) = e
    BY <1>1, <2>6, SamePosition
  <2>9. QED
    BY <1>a, <1>1, <1>4, <2>1, <2>7, <2>8, RefuseRefines
<1>5. QED
  BY <1>3, <1>4

(* get_event finds nothing: a RESERVE or a SHOW is refused.                *)
LEMMA LookupRefines ==
  ASSUME AllInv, [Next]_vars, NEW t \in Workers, Lookup(t)
  PROVE  Store!Reserve(t) \/ Store!Show(t) \/ UNCHANGED Store!vars
<1> USE LocalFacts, HostAssumption DEF AllInv, Threads
<1>1. /\ pc[t] = "lookup" /\ Own(t) /\ Serving(t) /\ PlacedWorker(t)
      /\ UNCHANGED <<events, req, floor, view>> /\ ~ Granting(t)
  BY DEF Lookup, Granting, Check, Goto, Own, Step, ViewInv, IInv, Placed, list
<1>2. CASE pc'[t] # "reply"
  <2>1. Answer(t)' = Answer(t)
    BY <1>1, <1>2 DEF Lookup, Goto, Answer
  <2>2. QED
    BY <1>1, <2>1, QuietServing
<1>3. CASE pc'[t] = "reply"
  <2>1. get_event(req[t].id) = 0 /\ res'[t] = 1 /\ view'[t] = <<>> /\ view[t] = <<>>
    BY <1>1, <1>3 DEF Lookup, Goto, Serving
  <2>2. Store!Position(Calls[t].id) = 0
    <3>1. \A e \in 1 .. Len(events) : events[e].id # req[t].id
      BY <2>1, ListFacts, GetEventFinds DEF IInv, TypeOK
    <3>2. Store!Position(req[t].id) = 0
      BY <3>1, NoPosition
    <3>3. QED
      BY <3>2 DEF Calls
  <2>3. CASE req[t].op = "RESERVE"
    BY <1>1, <1>3, <2>1, <2>2, <2>3, RefuseRefines
  <2>4. CASE req[t].op = "SHOW"
    <3>1. Store!Pending(t, "SHOW")
      <4>1. Answers[t] = Store!NoAnswer
        BY <1>1, Undecided
      <4>2. QED
        BY <2>4, <4>1 DEF Store!Pending, Answers
    <3>2. \A u \in Workers : ~ Granting(u)
      <4>1. \A u \in Workers : u # t => pc'[u] = pc[u]
        BY <1>1, OthersStay DEF Same, Kept
      <4>2. QED
        BY <1>1, <4>1 DEF Granting, Check, Goto
    <3>3. StoreList' = StoreList /\ Calls' = Calls
      BY <1>1, <3>2, StoreStays, CallsStay
    <3>4. Answers' = [Answers EXCEPT ![t] = [res |-> 1, view |-> <<>>]]
      <4>1. Answer(t)' = [res |-> 1, view |-> <<>>]
        BY <1>3, <2>1 DEF Answer
      <4>2. QED
        BY <1>1, <4>1, AnswersStep
    <3>5. floor' = floor
      BY <1>1
    <3>6. QED
      BY <2>2, <3>1, <3>3, <3>4, <3>5
         DEF Store!Show, Store!Decide, StoreList, Calls, Answers
  <2>5. QED
    BY <1>1, <2>3, <2>4 DEF PlacedWorker, Reserves, Shows
<1>4. QED
  BY <1>2, <1>3

(* What a SHOW may report of the event at position x.                      *)
MayShow(t, x, v) ==
  /\ v \in [1 .. StoreList[x].rows * StoreList[x].cols -> 0 .. StoreList[x].count]
  /\ \A k \in DOMAIN v : v[k] \in Store!Seen(t, x, k - 1)

LEMMA ShowRefines ==
  ASSUME AllInv, [Next]_vars, NEW t \in Workers, ShowReturn(t)
  PROVE  Store!Show(t)
<1> USE LocalFacts DEF AllInv, Threads
<1>a. /\ pc[t] = "read" /\ Own(t) /\ Serving(t) /\ PlacedWorker(t) /\ Settled(t) /\ Reading(t)
      /\ ReadWhole(t)
  BY DEF ShowReturn, Goto, Own, Step, ViewInv, IInv, Placed
<1>b. PICK e \in 1 .. Len(events) : e = event[t]
  BY <1>a, ListFacts DEF IInv, TypeOK, Placed
<1>1. /\ req[t].op = "SHOW" /\ events[e].id = req[t].id /\ res[t] = 0
      /\ UNCHANGED <<events, req, floor, view, res>> /\ pc'[t] = "reply"
  BY <1>a, <1>b DEF PlacedWorker, Shows, Serving, ShowReturn, Goto, list, locals
<1>2. Store!Pending(t, "SHOW")
  <2>1. Answers[t] = Store!NoAnswer
    BY <1>a, Undecided
  <2>2. QED
    BY <1>1, <2>1 DEF Store!Pending, Answers
<1>3. StoreList' = StoreList /\ Calls' = Calls
  <2>1. \A u \in Workers : u # t => pc'[u] = pc[u]
    BY <1>a, OthersStay DEF Same, Kept
  <2>2. \A u \in Workers : ~ Granting(u)
    BY <1>a, <2>1 DEF Granting, Check, Goto
  <2>3. QED
    BY <1>1, <2>2, StoreStays, CallsStay
<1>4. Answers' = [Answers EXCEPT ![t] = [res |-> 0, view |-> view[t]]]
  <2>1. Answer(t)' = [res |-> 0, view |-> view[t]]
    BY <1>1 DEF Answer
  <2>2. QED
    BY <1>a, <2>1, AnswersStep
<1>5. MayShow(t, e, view[t])
  <2> DEFINE size == events[e].rows * events[e].cols
             v == view[t]
  <2>1. /\ StoreList[e].rows = events[e].rows /\ StoreList[e].cols = events[e].cols
        /\ StoreList[e].count = reservations[e] /\ StoreList[e].seats = Booked(e)
    BY DEF StoreList, StoreEvent
  <2>2. Len(v) = size /\ v \in Seq(Nat) /\ Len(v) \in Nat
    BY <1>a, <1>b DEF ReadWhole
  <2>3. ASSUME NEW k \in 1 .. size
        PROVE  v[k] \in 0 .. reservations[e] /\ v[k] \in {Booked(e)[k - 1], Before(t, e, k - 1)}
    <3>1. k - 1 \in Seats(e)
      <4> HIDE DEF size
      <4>1. k - 1 \in 0 .. size - 1
        BY <2>2
      <4>2. QED
        BY <4>1 DEF size, Seats
    <3>2. v[k] \in {Booked(e)[k - 1], Before(t, e, k - 1)}
      BY <1>a, <1>b, <2>2 DEF Reading
    <3>3. Before(t, e, k - 1) \in {0, data[e][k - 1]}
      BY <1>a, <1>b, <3>1 DEF Settled
    <3>4. /\ Booked(e)[k - 1] \in Nat /\ Booked(e)[k - 1] <= reservations[e]
          /\ data[e][k - 1] \in {0, Booked(e)[k - 1]} /\ reservations[e] \in Nat
      BY <3>1, BookedFacts
    <3>5. v[k] = Booked(e)[k - 1] \/ v[k] = 0
      BY <3>2, <3>3, <3>4
    <3>6. v[k] \in 0 .. reservations[e]
      <4> HIDE DEF v
      <4>1. QED
        BY <3>4, <3>5
    <3>7. QED
      BY <3>2, <3>6
  <2>4. v \in [1 .. size -> 0 .. reservations[e]] /\ DOMAIN v = 1 .. size
    <3> HIDE DEF size, v
    <3>1. v \in [1 .. size -> Nat]
      BY <2>2
    <3>2. QED
      BY <2>3, <3>1
  <2>5. \A s : Store!Seen(t, e, s) = {Booked(e)[s], Before(t, e, s)}
    BY DEF Store!Seen, Before, StoreEvent
  <2>6. QED
    BY <2>1, <2>3, <2>4, <2>5 DEF MayShow
<1>6. Store!Position(Calls[t].id) = e
  BY <1>1, SamePosition DEF Calls
<1> DEFINE x == Store!Position(Calls[t].id)
<1>7. x # 0 /\ MayShow(t, x, view[t])
  BY <1>5, <1>6
<1>8. floor' = floor
  BY <1>1
<1>9. QED
  BY <1>2, <1>3, <1>4, <1>7, <1>8
     DEF Store!Show, Store!Decide, MayShow, StoreList, Calls, Answers

LEMMA ListRefines ==
  ASSUME AllInv, [Next]_vars, NEW t \in Workers, GetEvents(t)
  PROVE  Store!List(t)
<1> USE LocalFacts DEF AllInv, Threads
<1>1. /\ pc[t] = "walk" /\ pc'[t] = "reply" /\ Own(t) /\ Serving(t) /\ PlacedWorker(t)
      /\ UNCHANGED <<events, req, floor, res>>
      /\ view'[t] = [e \in 1 .. Len(events) |-> events[e].id]
  BY DEF GetEvents, Goto, Own, Step, ViewInv, IInv, Placed, list
<1>2. Store!Pending(t, "LIST")
  <2>1. Answers[t] = Store!NoAnswer
    BY <1>1, Undecided
  <2>2. req[t].op = "LIST"
    BY <1>1 DEF PlacedWorker, Lists
  <2>3. QED
    BY <2>1, <2>2 DEF Store!Pending, Answers
<1>3. StoreList' = StoreList /\ Calls' = Calls
  <2>1. \A u \in Workers : u # t => pc'[u] = pc[u]
    BY <1>1, OthersStay DEF Same, Kept
  <2>2. \A u \in Workers : ~ Granting(u)
    BY <1>1, <2>1 DEF Granting, Check, Goto
  <2>3. QED
    BY <1>1, <2>2, StoreStays, CallsStay
<1>4. view'[t] = [e \in DOMAIN StoreList |-> StoreList[e].id]
  BY <1>1 DEF StoreList, StoreEvent
<1>5. Answers' = [Answers EXCEPT ![t] =
        [res |-> 0, view |-> [e \in DOMAIN StoreList |-> StoreList[e].id]]]
  <2>1. Answer(t)' = [res |-> 0, view |-> [e \in DOMAIN StoreList |-> StoreList[e].id]]
    BY <1>1, <1>4 DEF Answer, Serving
  <2>2. QED
    BY <1>1, <2>1, AnswersStep
<1>6. floor' = floor
  BY <1>1
<1>7. QED
  BY <1>2, <1>3, <1>5, <1>6 DEF Store!List, Store!Decide, StoreList, Calls, Answers

------------------------------------------------------------------------------
LEMMA StepRefines ==
  ASSUME AllInv, [Next]_vars
  PROVE  [Store!Next]_Store!vars
<1>1. CASE UNCHANGED vars
  <2>1. UNCHANGED <<events, reservations, data, pc, req, event, view, res, floor>>
    BY <1>1 DEF vars
  <2>2. \A e : StoreEvent(e)' = StoreEvent(e)
    <3>1. \A e : Booked(e)' = Booked(e)
      BY <2>1 DEF Booked, Wanted, seat_index
    <3>2. QED
      BY <2>1, <3>1 DEF StoreEvent
  <2>3. StoreList' = StoreList
    BY <2>1, <2>2 DEF StoreList
  <2>4. Calls' = Calls /\ Answers' = Answers
    BY <2>1 DEF Calls, Answers, Answer
  <2>5. QED
    BY <2>1, <2>3, <2>4, Stutters
<1>2. CASE Own(Host)
  BY <1>2, HostRefines
<1>3. ASSUME NEW t \in Workers, NEW r \in Requests, Call(t, r) PROVE Store!Next
  BY <1>3, CallRefines DEF Store!Next
<1>4. ASSUME NEW t \in Workers, Step(t) PROVE [Store!Next]_Store!vars
  <2>1. CASE Create(t) \/ AppendToList(t)
    <3>1. Store!Create(t) \/ UNCHANGED Store!vars
      BY <2>1, CreateRefines
    <3>2. QED
      BY <3>1 DEF Store!Next
  <2>2. CASE Lookup(t)
    <3>1. Store!Reserve(t) \/ Store!Show(t) \/ UNCHANGED Store!vars
      BY <2>2, LookupRefines
    <3>2. QED
      BY <3>1 DEF Store!Next
  <2>3. CASE Check(t)
    <3>1. Store!Reserve(t)
      BY <2>3, CheckRefines
    <3>2. QED
      BY <3>1 DEF Store!Next
  <2>4. CASE ShowReturn(t)
    <3>1. Store!Show(t)
      BY <2>4, ShowRefines
    <3>2. QED
      BY <3>1 DEF Store!Next
  <2>5. CASE GetEvents(t)
    <3>1. Store!List(t)
      BY <2>5, ListRefines
    <3>2. QED
      BY <3>1 DEF Store!Next
  <2>6. CASE Reply(t)
    <3>1. Store!Reply(t)
      BY <2>6, ReplyRefines
    <3>2. QED
      BY <3>1 DEF Store!Next
  <2>7. CASE \/ WrLock(t) \/ RdLock(t) \/ MutexLock(t)
             \/ WriteSeat(t) \/ ReserveReturn(t) \/ GetEventInfo(t) \/ ReadSeat(t)
    BY <2>7, QuietRefines
  <2>8. QED
    BY <1>4, <2>1, <2>2, <2>3, <2>4, <2>5, <2>6, <2>7 DEF Step
<1>5. QED
  BY <1>1, <1>2, <1>3, <1>4, SomeoneActs DEF Own, Threads

LEMMA InitRefines == Init => Store!Init
<1> SUFFICES ASSUME Init PROVE Store!Init
  OBVIOUS
<1>1. Len(events) = 0 /\ floor = [t \in Workers |-> <<>>]
  BY DEF Init
<1>2. StoreList = <<>>
  BY <1>1 DEF StoreList
<1>3. Calls = [t \in Workers |-> NoRequest]
  BY DEF Calls, Init, Threads
<1>4. Answers = [t \in Workers |-> Store!NoAnswer]
  BY DEF Answers, Answer, Store!NoAnswer, Init, Threads
<1>5. QED
  BY <1>1, <1>2, <1>3, <1>4
     DEF Store!Init, NoRequest, Store!NoRequest, StoreList, Calls, Answers

(* To any number of sessions the server is EventStore: CREATE, RESERVE and *)
(* LIST happen at one moment, and a SHOW misses no reservation made before *)
(* it was called (the operations of operations.c and eventlist.c).         *)
THEOREM StoreImplemented == Spec => ImplementsStore
<1>1. Spec => []AllInv
  BY ViewInvariance, PTL DEF AllInv
<1>2. AllInv /\ [Next]_vars => [Store!Next]_Store!vars
  BY StepRefines
<1>3. QED
  BY <1>1, <1>2, InitRefines, PTL DEF Spec, ImplementsStore, Store!Spec
===============================================================================
