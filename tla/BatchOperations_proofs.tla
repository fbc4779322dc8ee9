----------------------- MODULE BatchOperations_proofs -----------------------
(***************************************************************************)
(* Theorems about BatchOperations, for any threads, ids, rooms, seats and  *)
(* commands:                                                               *)
(*   - TypeCorrect: type correctness;                                      *)
(*   - LocksCorrect: whoever is inside holds the lock, on every path;      *)
(*   - NumbersCorrect: the reservations of an event nobody is reserving in *)
(*     are numbered from 1 to their count;                                 *)
(*   - BatchStoreImplemented: the commands behave like those of BatchStore,*)
(*     each of which happens at one moment.                                *)
(* The first three follow from IInv, which knows the seats that a RESERVE  *)
(* in its loop has taken.  The last follows from RInv, which adds that ids *)
(* are unique, that a command has the event it names, and that the output  *)
(* ends with the words of the thread that prints.                          *)
(***************************************************************************)
EXTENDS BatchOperations, SequenceTheorems, FiniteSetTheorems, WellFoundedInduction, TLAPS

EventRecords == [id : EventIds, rows : Nat, cols : Nat]

SeatsOf(e) == 0 .. events[e].rows * events[e].cols - 1

(* TypeOK in parts, with rooms of their event's size.                      *)
ListOK ==
  /\ events \in Seq(EventRecords)
  /\ reservations \in Seq(Nat) /\ Len(reservations) = Len(events)
  /\ data \in Seq(Rooms) /\ Len(data) = Len(events)
  /\ eventReaders \in Seq(SUBSET Threads) /\ Len(eventReaders) = Len(events)
  /\ eventWriter \in Seq(Threads \cup {NoThread}) /\ Len(eventWriter) = Len(events)
  /\ \A e \in 1 .. Len(events) : DOMAIN data[e] = SeatsOf(e)

LocksOK ==
  /\ listReaders \subseteq Threads /\ listWriter \in Threads \cup {NoThread}
  /\ outHolder \in Threads \cup {NoThread}

FileOK == out \in Seq(Nat) /\ left \in 0 .. MaxCommands

ThreadsOK ==
  /\ pc \in [Threads -> Labels]
  /\ command \in [Threads -> Commands \cup {NoCommand}]
  /\ event \in [Threads -> 0 .. Len(events)]
  /\ i \in [Threads -> Nat] /\ rid \in [Threads -> Nat] /\ res \in [Threads -> {0, 1}]

Typed == ListOK /\ LocksOK /\ FileOK /\ ThreadsOK

LEMMA TypedIsType == Typed => TypeOK
BY DEF Typed, ListOK, LocksOK, FileOK, ThreadsOK, TypeOK, EventRecords

(* What a thread does at each place, and what it knows there.              *)
Begun(t) == event[t] = 0 /\ i[t] = 0 /\ rid[t] = 0 /\ res[t] = 0

Placed(t) ==
  /\ IF pc[t] = "idle" THEN command[t] = NoCommand ELSE command[t] \in Commands
  /\ pc[t] \in {"idle", "lock_list", "create", "find"} => Begun(t)
  /\ pc[t] = "create" => command[t].op = "CREATE"
  /\ pc[t] \in {"find", "lock_event"} => command[t].op \in {"RESERVE", "SHOW"}
  /\ pc[t] = "take" => command[t].op = "RESERVE"
  /\ pc[t] \in {"lock_out", "print", "unlock_out"} => command[t].op \in {"SHOW", "LIST"}
  /\ pc[t] = "unlock" => command[t].op # "CREATE"
  /\ pc[t] \in {"lock_event", "take", "lock_out", "print", "unlock"} =>
       (event[t] = 0 <=> command[t].op = "LIST")
  /\ pc[t] \in {"lock_event", "take", "lock_out", "print"} => res[t] = 0
  /\ pc[t] \in {"lock_event", "lock_out"} => i[t] = 0

AllPlaced == \A t \in Threads : Placed(t)

LEMMA CommandFields ==
  ASSUME NEW c \in Commands
  PROVE  /\ c # NoCommand
         /\ c.op \in {"CREATE", "RESERVE", "SHOW", "LIST"}
         /\ c.op = "CREATE" => c.id \in EventIds /\ c.dim \in Dims
         /\ c.op = "RESERVE" => c.id \in EventIds /\ c.seats \in SeatLists
         /\ c.op = "SHOW" => c.id \in EventIds
BY DEF Commands, NoCommand

(* The list and what runs along with it, as functions.                     *)
LEMMA ListFacts ==
  ASSUME ListOK
  PROVE  /\ Len(events) \in Nat
         /\ events \in [1 .. Len(events) -> EventRecords]
         /\ reservations \in [1 .. Len(events) -> Nat]
         /\ data \in [1 .. Len(events) -> Rooms]
         /\ eventReaders \in [1 .. Len(events) -> SUBSET Threads]
         /\ eventWriter \in [1 .. Len(events) -> Threads \cup {NoThread}]
<1>1. Len(events) \in Nat /\ events \in [1 .. Len(events) -> EventRecords]
  BY DEF ListOK
<1>2. reservations \in [1 .. Len(events) -> Nat]
  BY DEF ListOK
<1>3. data \in [1 .. Len(events) -> Rooms]
  BY DEF ListOK
<1>4. eventReaders \in [1 .. Len(events) -> SUBSET Threads]
  BY DEF ListOK
<1>5. eventWriter \in [1 .. Len(events) -> Threads \cup {NoThread}]
  BY DEF ListOK
<1> QED
  BY <1>1, <1>2, <1>3, <1>4, <1>5

LEMMA RoomIsNumbers ==
  ASSUME ListOK, NEW e \in 1 .. Len(events)
  PROVE  data[e] \in [SeatsOf(e) -> Nat] /\ events[e].rows \in Nat /\ events[e].cols \in Nat
<1>1. data[e] \in Rooms /\ DOMAIN data[e] = SeatsOf(e) /\ events[e] \in EventRecords
  BY ListFacts DEF ListOK
<1>2. PICK d \in Dims : data[e] \in [0 .. d[1] * d[2] - 1 -> Nat]
  BY <1>1 DEF Rooms
<1> QED
  BY <1>1, <1>2 DEF EventRecords

(* A function on the positions of the list stays one, of the same length,  *)
(* when its value at a position is replaced.                               *)
LEMMA SeqExcept ==
  ASSUME NEW S, NEW s \in Seq(S), NEW e, NEW v, e \in 1 .. Len(s) => v \in S
  PROVE  [s EXCEPT ![e] = v] \in Seq(S) /\ Len([s EXCEPT ![e] = v]) = Len(s)
<1>1. Len(s) \in Nat /\ s \in [1 .. Len(s) -> S]
  OBVIOUS
<1>2. [s EXCEPT ![e] = v] \in [1 .. Len(s) -> S]
  BY <1>1
<1> QED
  BY <1>1, <1>2

(* The two sequences that hold the events' locks are typed after an update. *)
LEMMA ReadersExcept ==
  ASSUME NEW s \in Seq(SUBSET Threads), NEW e, NEW v,
         e \in 1 .. Len(s) => v \in SUBSET Threads
  PROVE  [s EXCEPT ![e] = v] \in Seq(SUBSET Threads) /\ Len([s EXCEPT ![e] = v]) = Len(s)
<1> DEFINE S == SUBSET Threads
<1>1. s \in Seq(S) /\ (e \in 1 .. Len(s) => v \in S)
  OBVIOUS
<1> HIDE DEF S
<1>2. [s EXCEPT ![e] = v] \in Seq(S) /\ Len([s EXCEPT ![e] = v]) = Len(s)
  BY <1>1, SeqExcept
<1> QED
  BY <1>2 DEF S

LEMMA WritersExcept ==
  ASSUME NEW s \in Seq(Threads \cup {NoThread}), NEW e, NEW v \in Threads \cup {NoThread}
  PROVE  /\ [s EXCEPT ![e] = v] \in Seq(Threads \cup {NoThread})
         /\ Len([s EXCEPT ![e] = v]) = Len(s)
<1> DEFINE S == Threads \cup {NoThread}
<1>1. s \in Seq(S) /\ v \in S
  OBVIOUS
<1> HIDE DEF S
<1>2. [s EXCEPT ![e] = v] \in Seq(S) /\ Len([s EXCEPT ![e] = v]) = Len(s)
  BY <1>1, SeqExcept
<1> QED
  BY <1>2 DEF S

LEMMA NumbersExcept ==
  ASSUME NEW s \in Seq(Nat), NEW e, NEW v \in Nat
  PROVE  [s EXCEPT ![e] = v] \in Seq(Nat) /\ Len([s EXCEPT ![e] = v]) = Len(s)
<1>1. Len(s) \in Nat /\ s \in [1 .. Len(s) -> Nat]
  OBVIOUS
<1>2. [s EXCEPT ![e] = v] \in [1 .. Len(s) -> Nat]
  BY <1>1
<1> QED
  BY <1>1, <1>2

(* A set of positions that is not empty has a first one.                   *)
LEMMA FirstPosition ==
  ASSUME NEW T, T \subseteq Nat, T # {}
  PROVE  \E x \in T : \A y \in T : x <= y
<1>1. IsWellFoundedOn(OpToRel(<, Nat), Nat)
  BY NatLessThanWellFounded
<1>2. PICK x \in T : \A y \in T : ~ (<<y, x>> \in OpToRel(<, Nat))
  BY <1>1, WFMin
<1>3. \A y \in T : ~ (y < x)
  BY <1>2 DEF OpToRel
<1> QED
  BY <1>3

(* get_event returns NULL or an event of the list with the id it looks for. *)
LEMMA GetEventFinds ==
  ASSUME Len(events) \in Nat, NEW id
  PROVE  /\ get_event(id) \in 0 .. Len(events)
         /\ get_event(id) # 0 => events[get_event(id)].id = id
         /\ get_event(id) = 0 => \A e \in 1 .. Len(events) : events[e].id # id
<1> DEFINE hits == {e \in 1 .. Len(events) : events[e].id = id}
<1>1. CASE hits = {}
  BY <1>1 DEF get_event
<1>2. CASE hits # {}
  <2>1. hits \subseteq Nat
    OBVIOUS
  <2>2. get_event(id) = CHOOSE e \in hits : \A f \in hits : e <= f
    BY <1>2 DEF get_event
  <2> HIDE DEF hits
  <2>3. get_event(id) \in hits
    BY <1>2, <2>1, <2>2, FirstPosition
  <2> QED
    BY <2>3 DEF hits
<1> QED
  BY <1>1, <1>2

------------------------------------------------------------------------------
Acts(t) == (\E c \in Commands : Call(t, c)) \/ Locking(t) \/ Step(t)

(* A step of one thread leaves what the others do and know alone.          *)
LEMMA OthersStay ==
  ASSUME ThreadsOK, NEW t \in Threads, Acts(t), NEW u \in Threads, u # t
  PROVE  /\ pc'[u] = pc[u] /\ command'[u] = command[u] /\ event'[u] = event[u]
         /\ i'[u] = i[u] /\ rid'[u] = rid[u] /\ res'[u] = res[u]
<1> USE DEF ThreadsOK, Goto, locals, list, locks
<1>1. CASE \E c \in Commands : Call(t, c)
  BY <1>1 DEF Call
<1>2. CASE Locking(t)
  BY <1>2 DEF Locking, LockList, LockToReserve, LockToShow, LockOut
<1>3. CASE Create(t) \/ Find(t)
  BY <1>3 DEF Create, Find
<1>4. CASE TakeSeat(t) \/ Refuse(t) \/ Reserved(t)
  BY <1>4 DEF TakeSeat, Refuse, Reserved
<1>5. CASE Write(t) \/ Printed(t) \/ WriteFails(t)
  BY <1>5 DEF Write, Printed, WriteFails
<1>6. CASE Unlock(t) \/ UnlockOut(t) \/ Return(t)
  BY <1>6 DEF Unlock, UnlockOut, Return
<1> QED
  BY <1>1, <1>2, <1>3, <1>4, <1>5, <1>6 DEF Acts, Step

(* The count of an event is the number of the reservation that is being    *)
(* made in it.                                                             *)
NumberTaken ==
  \A t \in Threads : pc[t] = "take" => rid[t] = reservations[event[t]] /\ rid[t] > 0

LEMMA InitTyped == Init => Typed /\ AllPlaced /\ LocksHeld /\ NumberTaken
<1> SUFFICES ASSUME Init PROVE Typed /\ AllPlaced /\ LocksHeld /\ NumberTaken
  OBVIOUS
<1> USE DEF Init
<1>1. ListOK
  <2>1. <<>> \in Seq(EventRecords) /\ <<>> \in Seq(Nat) /\ <<>> \in Seq(Rooms)
    BY EmptySeq
  <2>2. <<>> \in Seq(SUBSET Threads) /\ <<>> \in Seq(Threads \cup {NoThread})
    BY EmptySeq
  <2> QED
    BY <2>1, <2>2, EmptySeq DEF ListOK
<1>2. LocksOK /\ FileOK
  <2>1. <<>> \in Seq(Nat)
    BY EmptySeq
  <2> QED
    BY <2>1, MaxCommandsAssumption DEF LocksOK, FileOK
<1>3. ThreadsOK
  BY <1>1, EmptySeq DEF ThreadsOK, Labels
<1>4. AllPlaced
  BY DEF AllPlaced, Placed, Begun
<1>5. LocksHeld
  BY BatchNoThreadAssumption, EmptySeq DEF LocksHeld, InList, InOut
<1> QED
  BY <1>1, <1>2, <1>3, <1>4, <1>5 DEF Typed, NumberTaken

(* What Create does to the list.                                           *)
LEMMA Created ==
  ASSUME ListOK, NEW t \in Threads, Create(t), command[t] \in Commands, command[t].op = "CREATE"
  PROVE  \/ UNCHANGED <<list, eventReaders, eventWriter>>
         \/ \E rows, cols \in Nat :
              LET new == [id |-> command[t].id, rows |-> rows, cols |-> cols]
                  room == [s \in 0 .. rows * cols - 1 |-> 0]
              IN
              /\ <<rows, cols>> = command[t].dim
              /\ get_event(command[t].id) = 0
              /\ new \in EventRecords /\ events' = Append(events, new)
              /\ reservations' = Append(reservations, 0)
              /\ room \in Rooms /\ data' = Append(data, room)
              /\ eventReaders' = Append(eventReaders, {})
              /\ eventWriter' = Append(eventWriter, NoThread)
              /\ res' = res
<1>1. CASE UNCHANGED <<list, eventReaders, eventWriter>>
  BY <1>1
<1>2. CASE ~ UNCHANGED <<list, eventReaders, eventWriter>>
  <2> DEFINE rows == command[t].dim[1]
             cols == command[t].dim[2]
             new == [id |-> command[t].id, rows |-> rows, cols |-> cols]
             room == [s \in 0 .. rows * cols - 1 |-> 0]
  <2>1. command[t].dim \in Dims /\ command[t].id \in EventIds
    BY CommandFields
  <2>2. rows \in Nat /\ cols \in Nat /\ <<rows, cols>> = command[t].dim
    BY <2>1, BatchDimsAssumption
  <2>3. new \in EventRecords
    BY <2>1, <2>2 DEF EventRecords
  <2>4. room \in Rooms
    BY <2>1 DEF Rooms
  <2>5. /\ get_event(command[t].id) = 0
        /\ events' = Append(events, new) /\ reservations' = Append(reservations, 0)
        /\ data' = Append(data, room) /\ eventReaders' = Append(eventReaders, {})
        /\ eventWriter' = Append(eventWriter, NoThread) /\ res' = res
    BY <1>2 DEF Create
  <2> HIDE DEF rows, cols
  <2> QED
    BY <2>2, <2>3, <2>4, <2>5
<1> QED
  BY <1>1, <1>2

LEMMA AppendOne ==
  ASSUME NEW S, NEW s \in Seq(S), NEW v \in S
  PROVE  /\ Append(s, v) \in Seq(S) /\ Len(Append(s, v)) = Len(s) + 1
         /\ \A e \in 1 .. Len(s) : Append(s, v)[e] = s[e]
         /\ Append(s, v)[Len(s) + 1] = v
OBVIOUS

(* The event that a thread has.                                            *)
LEMMA ItsEvent ==
  ASSUME ThreadsOK, AllPlaced, NEW t \in Threads,
         pc[t] \in {"lock_event", "take", "lock_out", "print", "unlock"}, command[t].op # "LIST",
         Len(events) \in Nat
  PROVE  event[t] \in 1 .. Len(events) /\ command[t] \in Commands /\ command[t] # NoCommand
<1>1. command[t] \in Commands /\ event[t] # 0
  BY DEF AllPlaced, Placed
<1> QED
  BY <1>1, CommandFields DEF ThreadsOK

LEMMA ListStep ==
  ASSUME Typed, AllPlaced, NumberTaken, [Next]_vars
  PROVE  ListOK' /\ Len(events') >= Len(events)
<1> USE ListFacts DEF Typed
<1>1. CASE UNCHANGED <<list, eventReaders, eventWriter>>
  BY <1>1 DEF ListOK, SeatsOf, list
<1>2. ASSUME NEW t \in Threads, Create(t), ~ UNCHANGED <<list, eventReaders, eventWriter>>
      PROVE  ListOK' /\ Len(events') >= Len(events)
  <2>1. pc[t] = "create" /\ command[t] \in Commands /\ command[t].op = "CREATE"
    BY <1>2 DEF Create, Goto, AllPlaced, Placed
  <2> DEFINE new(rows, cols) == [id |-> command[t].id, rows |-> rows, cols |-> cols]
             room(rows, cols) == [s \in 0 .. rows * cols - 1 |-> 0]
  <2>2. PICK rows \in Nat, cols \in Nat :
              /\ new(rows, cols) \in EventRecords /\ events' = Append(events, new(rows, cols))
              /\ reservations' = Append(reservations, 0)
              /\ room(rows, cols) \in Rooms /\ data' = Append(data, room(rows, cols))
              /\ eventReaders' = Append(eventReaders, {})
              /\ eventWriter' = Append(eventWriter, NoThread)
    BY <1>2, <2>1, Created
  <2>3. /\ Len(events) = Len(data) /\ Len(events) \in Nat /\ Len(reservations) = Len(events)
        /\ Len(eventReaders) = Len(events) /\ Len(eventWriter) = Len(events)
    BY DEF ListOK
  <2>4. /\ events' \in Seq(EventRecords) /\ Len(events') = Len(events) + 1
        /\ \A e \in 1 .. Len(events) : events'[e] = events[e]
        /\ events'[Len(events) + 1] = new(rows, cols)
    <3> HIDE DEF new
    <3> QED
      BY <2>2, AppendOne DEF ListOK
  <2>5. /\ data' \in Seq(Rooms) /\ Len(data') = Len(events) + 1
        /\ \A e \in 1 .. Len(events) : data'[e] = data[e]
        /\ data'[Len(events) + 1] = room(rows, cols)
    <3> HIDE DEF room
    <3> QED
      BY <2>2, <2>3, AppendOne DEF ListOK
  <2>6. reservations' \in Seq(Nat) /\ Len(reservations') = Len(events) + 1
    BY <2>2, <2>3, AppendOne DEF ListOK
  <2>7. eventReaders' \in Seq(SUBSET Threads) /\ Len(eventReaders') = Len(events) + 1
    BY <2>2, <2>3, AppendOne DEF ListOK
  <2>8. eventWriter' \in Seq(Threads \cup {NoThread}) /\ Len(eventWriter') = Len(events) + 1
    BY <2>2, <2>3, AppendOne DEF ListOK
  <2>9. ASSUME NEW e \in 1 .. Len(events') PROVE DOMAIN data'[e] = SeatsOf(e)'
    <3>1. CASE e \in 1 .. Len(events)
      BY <3>1, <2>4, <2>5 DEF ListOK, SeatsOf
    <3>2. CASE e = Len(events) + 1
      <4>1. SeatsOf(e)' = 0 .. rows * cols - 1
        BY <3>2, <2>4 DEF SeatsOf
      <4>2. DOMAIN data'[e] = 0 .. rows * cols - 1
        BY <3>2, <2>5
      <4> QED
        BY <4>1, <4>2
    <3> QED
      BY <3>1, <3>2, <2>3, <2>4
  <2> HIDE DEF new, room
  <2> QED
    BY <2>3, <2>4, <2>5, <2>6, <2>7, <2>8, <2>9 DEF ListOK
<1>3. ASSUME NEW t \in Threads, LockToReserve(t) PROVE ListOK' /\ Len(events') >= Len(events)
  <2>1. event[t] \in 1 .. Len(events) /\ reservations[event[t]] \in Nat
    BY <1>3, ItsEvent DEF LockToReserve, Goto, AllPlaced, Placed, Writes
  <2>2. /\ reservations' \in Seq(Nat) /\ Len(reservations') = Len(reservations)
    <3> DEFINE v == reservations[event[t]] + 1
    <3>1. reservations' = [reservations EXCEPT ![event[t]] = v]
      BY <1>3 DEF LockToReserve
    <3>2. v \in Nat /\ reservations \in Seq(Nat)
      BY <2>1 DEF ListOK
    <3> HIDE DEF v
    <3> QED
      BY <3>1, <3>2, NumbersExcept
  <2>3. /\ eventWriter' \in Seq(Threads \cup {NoThread}) /\ Len(eventWriter') = Len(eventWriter)
    <3>1. eventWriter' = [eventWriter EXCEPT ![event[t]] = t]
      BY <1>3 DEF LockToReserve
    <3>2. eventWriter \in Seq(Threads \cup {NoThread}) /\ t \in Threads \cup {NoThread}
      BY DEF ListOK
    <3> QED
      BY <3>1, <3>2, WritersExcept
  <2> QED
    BY <1>3, <2>2, <2>3 DEF LockToReserve, ListOK, SeatsOf
<1>4. ASSUME NEW t \in Threads, LockToShow(t) PROVE ListOK' /\ Len(events') >= Len(events)
  <2>1. /\ eventReaders' \in Seq(SUBSET Threads) /\ Len(eventReaders') = Len(eventReaders)
    <3> DEFINE v == eventReaders[event[t]] \cup {t}
    <3>1. eventReaders' = [eventReaders EXCEPT ![event[t]] = v]
      BY <1>4 DEF LockToShow
    <3>2. /\ eventReaders \in Seq(SUBSET Threads)
          /\ event[t] \in 1 .. Len(eventReaders) => v \in SUBSET Threads
      BY DEF ListOK
    <3> HIDE DEF v
    <3> QED
      BY <3>1, <3>2, ReadersExcept
  <2> QED
    BY <1>4, <2>1 DEF LockToShow, ListOK, SeatsOf, list
<1>5. ASSUME NEW t \in Threads, Unlock(t) PROVE ListOK' /\ Len(events') >= Len(events)
  <2>1. /\ eventReaders' \in Seq(SUBSET Threads) /\ Len(eventReaders') = Len(eventReaders)
    <3> DEFINE v == eventReaders[event[t]] \ {t}
    <3>1. \/ UNCHANGED eventReaders
          \/ eventReaders' = [eventReaders EXCEPT ![event[t]] = v]
      BY <1>5 DEF Unlock
    <3>2. /\ eventReaders \in Seq(SUBSET Threads)
          /\ event[t] \in 1 .. Len(eventReaders) => v \in SUBSET Threads
      BY DEF ListOK
    <3> HIDE DEF v
    <3>3. CASE UNCHANGED eventReaders
      BY <3>2, <3>3
    <3>4. CASE eventReaders' = [eventReaders EXCEPT ![event[t]] = v]
      BY <3>2, <3>4, ReadersExcept
    <3> QED
      BY <3>1, <3>3, <3>4
  <2>2. /\ eventWriter' \in Seq(Threads \cup {NoThread}) /\ Len(eventWriter') = Len(eventWriter)
    <3>1. \/ UNCHANGED eventWriter
          \/ eventWriter' = [eventWriter EXCEPT ![event[t]] = NoThread]
      BY <1>5 DEF Unlock
    <3>2. eventWriter \in Seq(Threads \cup {NoThread}) /\ NoThread \in Threads \cup {NoThread}
      BY DEF ListOK
    <3>3. CASE UNCHANGED eventWriter
      BY <3>2, <3>3
    <3>4. CASE eventWriter' = [eventWriter EXCEPT ![event[t]] = NoThread]
      BY <3>2, <3>4, WritersExcept
    <3> QED
      BY <3>1, <3>3, <3>4
  <2> QED
    BY <1>5, <2>1, <2>2 DEF Unlock, ListOK, SeatsOf, list
<1>6. ASSUME NEW t \in Threads, TakeSeat(t) \/ Refuse(t)
      PROVE  ListOK' /\ Len(events') >= Len(events)
  <2> DEFINE e == event[t]
  <2>1. pc[t] = "take" /\ e \in 1 .. Len(events) /\ rid[t] \in Nat
    BY <1>6, ItsEvent DEF TakeSeat, Refuse, Goto, AllPlaced, Placed, ThreadsOK
  <2>2. reservations' \in Seq(Nat) /\ Len(reservations') = Len(reservations)
    <3> DEFINE v == reservations[e] - 1
    <3>1. v \in Nat /\ reservations \in Seq(Nat)
      BY <2>1 DEF NumberTaken, ListOK
    <3>2. \/ UNCHANGED reservations
          \/ reservations' = [reservations EXCEPT ![e] = v]
      BY <1>6 DEF TakeSeat, Refuse
    <3> HIDE DEF v, e
    <3> QED
      <4>1. CASE UNCHANGED reservations
        BY <3>1, <4>1
      <4>2. CASE reservations' = [reservations EXCEPT ![e] = v]
        BY <3>1, <4>2, NumbersExcept
      <4> QED
        BY <3>2, <4>1, <4>2
  <2>3. \E room \in Rooms : data' = [data EXCEPT ![e] = room] /\ DOMAIN room = SeatsOf(e)
    <3>0. data[e] \in Rooms
      BY <2>1
    <3>1. PICK d \in Dims : data[e] \in [0 .. d[1] * d[2] - 1 -> Nat]
      BY <3>0 DEF Rooms
    <3>2. ASSUME TakeSeat(t)
          PROVE  \E room \in Rooms : data' = [data EXCEPT ![e] = room] /\ DOMAIN room = SeatsOf(e)
      <4> DEFINE s == seat_index(e, Seat(t))
                 room == [data[e] EXCEPT ![s] = rid[t]]
      <4>1. data' = [data EXCEPT ![e] = room]
        BY <3>2 DEF TakeSeat
      <4>2. room \in [0 .. d[1] * d[2] - 1 -> Nat] /\ DOMAIN room = SeatsOf(e)
        <5> HIDE DEF s, e
        <5> QED
          BY <2>1, <3>1 DEF ListOK
      <4> QED
        BY <4>1, <4>2 DEF Rooms
    <3>3. ASSUME Refuse(t)
          PROVE  \E room \in Rooms : data' = [data EXCEPT ![e] = room] /\ DOMAIN room = SeatsOf(e)
      <4> DEFINE taken == {seat_index(e, command[t].seats[j]) : j \in 1 .. i[t]}
                 room == [s \in DOMAIN data[e] |-> IF s \in taken THEN 0 ELSE data[e][s]]
      <4>1. data' = [data EXCEPT ![e] = room]
        BY <3>3, <2>1 DEF Refuse
      <4>2. room \in [0 .. d[1] * d[2] - 1 -> Nat] /\ DOMAIN room = SeatsOf(e)
        <5> HIDE DEF taken, e
        <5> QED
          BY <2>1, <3>1 DEF ListOK
      <4> QED
        BY <4>1, <4>2 DEF Rooms
    <3> QED
      BY <1>6, <3>2, <3>3
  <2>4. PICK room \in Rooms : data' = [data EXCEPT ![e] = room] /\ DOMAIN room = SeatsOf(e)
    BY <2>3
  <2>5. data' \in Seq(Rooms) /\ Len(data') = Len(data)
    BY <2>4, SeqExcept DEF ListOK
  <2>6. UNCHANGED <<events, eventReaders, eventWriter>>
    BY <1>6 DEF TakeSeat, Refuse, locks
  <2>7. \A f \in 1 .. Len(events) : DOMAIN data'[f] = SeatsOf(f)'
    BY <2>4, <2>6 DEF ListOK, SeatsOf
  <2> QED
    BY <2>2, <2>5, <2>6, <2>7 DEF ListOK
<1>7. CASE vars' = vars
  BY <1>7, <1>1 DEF vars, list, locks
<1>8. ASSUME NEW t \in Threads, Acts(t)
      PROVE  \/ UNCHANGED <<list, eventReaders, eventWriter>>
             \/ Create(t) \/ LockToReserve(t) \/ LockToShow(t) \/ Unlock(t)
             \/ TakeSeat(t) \/ Refuse(t)
  <2> USE DEF list, locks
  <2>1. CASE (\E c \in Commands : Call(t, c)) \/ LockList(t) \/ LockOut(t)
    BY <2>1 DEF Call, LockList, LockOut
  <2>2. CASE Find(t) \/ Reserved(t) \/ Write(t) \/ Printed(t) \/ WriteFails(t) \/ UnlockOut(t)
             \/ Return(t)
    BY <2>2 DEF Find, Reserved, Write, Printed, WriteFails, UnlockOut, Return
  <2> QED
    BY <1>8, <2>1, <2>2 DEF Acts, Locking, Step
<1> QED
  BY <1>1, <1>2, <1>3, <1>4, <1>5, <1>6, <1>7, <1>8 DEF Next, Acts

------------------------------------------------------------------------------
LEMMA ThreadsStep ==
  ASSUME Typed, AllPlaced, [Next]_vars, Len(events) \in Nat, Len(events') >= Len(events),
         Len(events') \in Nat
  PROVE  ThreadsOK'
<1> USE DEF Typed, ThreadsOK, Goto, locals, list, locks, Labels
<1>0. \A e \in 0 .. Len(events) : e \in 0 .. Len(events')
  OBVIOUS
<1> USE <1>0
<1>1. ASSUME NEW t \in Threads, NEW c \in Commands, Call(t, c) PROVE ThreadsOK'
  BY <1>1 DEF Call
<1>2. ASSUME NEW t \in Threads, Locking(t) PROVE ThreadsOK'
  <2>1. CASE LockList(t) \/ LockToShow(t) \/ LockOut(t)
    BY <2>1 DEF LockList, LockToShow, LockOut
  <2>2. CASE LockToReserve(t)
    <3>1. reservations[event[t]] + 1 \in Nat
      BY <2>2, ItsEvent, ListFacts DEF LockToReserve, AllPlaced, Placed, Writes
    <3> QED
      BY <2>2, <3>1 DEF LockToReserve
  <2> QED
    BY <1>2, <2>1, <2>2 DEF Locking
<1>3. ASSUME NEW t \in Threads, Create(t) \/ Reserved(t) \/ Printed(t) \/ WriteFails(t)
                                  \/ Refuse(t) \/ Unlock(t) \/ UnlockOut(t)
      PROVE  ThreadsOK'
  <2>1. CASE Create(t) \/ Reserved(t) \/ Printed(t)
    BY <2>1 DEF Create, Reserved, Printed
  <2>2. CASE WriteFails(t) \/ Refuse(t) \/ Unlock(t) \/ UnlockOut(t)
    BY <2>2 DEF WriteFails, Refuse, Unlock, UnlockOut
  <2> QED
    BY <1>3, <2>1, <2>2
<1>4. ASSUME NEW t \in Threads, Find(t) PROVE ThreadsOK'
  <2>1. get_event(command[t].id) \in 0 .. Len(events)
    BY GetEventFinds
  <2> QED
    BY <1>4, <2>1 DEF Find
<1>5. ASSUME NEW t \in Threads, TakeSeat(t) \/ Write(t) \/ Return(t) PROVE ThreadsOK'
  <2>1. CASE TakeSeat(t) \/ Write(t)
    <3>1. i[t] + 1 \in Nat /\ i' = [i EXCEPT ![t] = i[t] + 1]
      BY <2>1 DEF TakeSeat, Write
    <3>2. i' \in [Threads -> Nat]
      BY <3>1
    <3> QED
      BY <2>1, <3>2 DEF TakeSeat, Write
  <2>2. CASE Return(t)
    BY <2>2 DEF Return
  <2> QED
    BY <1>5, <2>1, <2>2
<1>6. CASE UNCHANGED vars
  BY <1>6 DEF vars
<1> QED
  BY <1>1, <1>2, <1>3, <1>4, <1>5, <1>6 DEF Next, Step

LEMMA FileStep ==
  ASSUME Typed, AllPlaced, [Next]_vars
  PROVE  FileOK'
<1> USE MaxCommandsAssumption DEF Typed, FileOK
<1>1. ASSUME NEW t \in Threads, NEW c \in Commands, Call(t, c) PROVE FileOK'
  BY <1>1 DEF Call
<1>2. ASSUME NEW t \in Threads, Write(t) PROVE FileOK'
  <2>1. pc[t] = "print" /\ i[t] < Words(t) /\ i[t] \in Nat
    BY <1>2 DEF Write, Goto, ThreadsOK
  <2>2. Word(t) \in Nat
    <3>1. CASE command[t].op = "SHOW"
      <4>1. event[t] \in 1 .. Len(events)
        BY <2>1, <3>1, ItsEvent, ListFacts
      <4>2. data[event[t]] \in [SeatsOf(event[t]) -> Nat] /\ i[t] \in SeatsOf(event[t])
        <5>1. Words(t) = events[event[t]].rows * events[event[t]].cols
          BY <3>1 DEF Words
        <5>2. data[event[t]] \in [SeatsOf(event[t]) -> Nat] /\ Words(t) \in Nat
          BY <4>1, <5>1, RoomIsNumbers
        <5>3. SeatsOf(event[t]) = 0 .. Words(t) - 1
          BY <5>1 DEF SeatsOf
        <5> HIDE DEF ThreadsOK
        <5>4. i[t] \in 0 .. Words(t) - 1
          BY <2>1, <5>2
        <5> QED
          BY <5>2, <5>3, <5>4
      <4> QED
        BY <3>1, <4>2 DEF Word
    <3>2. CASE command[t].op # "SHOW"
      <4>1. i[t] + 1 \in 1 .. Len(events)
        BY <2>1, <3>2, ListFacts DEF Words
      <4>2. events[i[t] + 1] \in EventRecords
        BY <4>1, ListFacts
      <4> QED
        BY <3>2, <4>2, BatchIdsAssumption DEF Word, EventRecords
    <3> QED
      BY <3>1, <3>2
  <2> QED
    BY <1>2, <2>2 DEF Write
<1>3. ASSUME NEW t \in Threads, Locking(t) \/ Step(t), ~ Write(t) PROVE FileOK'
  <2>1. CASE Locking(t) \/ Create(t) \/ Find(t)
    BY <2>1 DEF Locking, LockList, LockToReserve, LockToShow, LockOut, Create, Find
  <2>2. CASE TakeSeat(t) \/ Refuse(t) \/ Reserved(t) \/ Printed(t) \/ WriteFails(t)
    BY <2>2 DEF TakeSeat, Refuse, Reserved, Printed, WriteFails
  <2>3. CASE Unlock(t) \/ UnlockOut(t) \/ Return(t)
    BY <2>3 DEF Unlock, UnlockOut, Return
  <2> QED
    BY <1>3, <2>1, <2>2, <2>3 DEF Step
<1>4. CASE UNCHANGED vars
  BY <1>4 DEF vars
<1> QED
  BY <1>1, <1>2, <1>3, <1>4 DEF Next

LEMMA LocksOKStep ==
  ASSUME Typed, AllPlaced, [Next]_vars
  PROVE  LocksOK'
<1> USE DEF Typed, LocksOK, locks
<1>1. ASSUME NEW t \in Threads, Locking(t) PROVE LocksOK'
  BY <1>1 DEF Locking, LockList, LockToReserve, LockToShow, LockOut
<1>2. ASSUME NEW t \in Threads, Create(t) \/ Find(t) \/ Unlock(t) \/ UnlockOut(t) PROVE LocksOK'
  BY <1>2 DEF Create, Find, Unlock, UnlockOut, UnlockList
<1>3. ASSUME NEW t \in Threads, (\E c \in Commands : Call(t, c)) \/ TakeSeat(t) \/ Refuse(t)
                   \/ Reserved(t) \/ Write(t) \/ Printed(t) \/ WriteFails(t) \/ Return(t)
      PROVE  LocksOK'
  <2>1. UNCHANGED locks
    BY <1>3 DEF Call, TakeSeat, Refuse, Reserved, Write, Printed, WriteFails, Return
  <2> QED
    BY <2>1
<1>4. CASE UNCHANGED vars
  BY <1>4 DEF vars
<1> QED
  BY <1>1, <1>2, <1>3, <1>4 DEF Next, Step

LEMMA TypedStep ==
  ASSUME Typed, AllPlaced, NumberTaken, [Next]_vars
  PROVE  Typed' /\ Len(events) \in Nat /\ Len(events') \in Nat /\ Len(events') >= Len(events)
<1>1. ListOK' /\ Len(events') >= Len(events)
  BY ListStep
<1>2. Len(events) \in Nat /\ Len(events') \in Nat
  BY <1>1 DEF ListOK, Typed
<1> QED
  BY <1>1, <1>2, ThreadsStep, FileStep, LocksOKStep DEF Typed

(* What a step does with its thread.                                       *)
LEMMA PlacedStep ==
  ASSUME Typed, AllPlaced, [Next]_vars, Len(events) \in Nat
  PROVE  AllPlaced'
<1> USE DEF Typed, Goto, Begun
<1>1. CASE UNCHANGED vars
  BY <1>1 DEF vars, locals, AllPlaced, Placed
<1>2. ASSUME NEW t \in Threads, Acts(t) PROVE AllPlaced'
  <2>1. ASSUME NEW u \in Threads, u # t PROVE Placed(u)'
    BY <1>2, <2>1, OthersStay DEF AllPlaced, Placed
  <2>2. Placed(t)'
    <3> USE DEF ThreadsOK, locals, Placed
    <3>1. Placed(t)
      BY DEF AllPlaced
    <3>2. ASSUME NEW c \in Commands, Call(t, c) PROVE Placed(t)'
      <4>1. pc'[t] = "lock_list" /\ command'[t] = c /\ pc[t] = "idle"
        BY <3>2 DEF Call
      <4> QED
        BY <3>1, <3>2, <4>1 DEF Call
    <3>3. CASE LockList(t)
      <4>1. command[t] \in Commands /\ command[t].op \in {"CREATE", "RESERVE", "SHOW", "LIST"}
        BY <3>1, <3>3, CommandFields DEF LockList
      <4> QED
        BY <3>1, <3>3, <4>1 DEF LockList
    <3>4. CASE LockToReserve(t)
      BY <3>1, <3>4 DEF LockToReserve, Writes
    <3>5. CASE LockToShow(t)
      BY <3>1, <3>5 DEF LockToShow, Writes
    <3>6. CASE LockOut(t)
      BY <3>1, <3>6 DEF LockOut
    <3>7. CASE Create(t)
      BY <3>1, <3>7 DEF Create
    <3>8. CASE Find(t)
      BY <3>1, <3>8, GetEventFinds DEF Find
    <3>9. CASE TakeSeat(t) \/ Reserved(t)
      BY <3>1, <3>9 DEF TakeSeat, Reserved
    <3>10. CASE Refuse(t)
      BY <3>1, <3>10 DEF Refuse
    <3>11. CASE Write(t) \/ Printed(t)
      BY <3>1, <3>11 DEF Write, Printed
    <3>12. CASE WriteFails(t)
      BY <3>1, <3>12 DEF WriteFails
    <3>13. CASE Unlock(t)
      <4>1. command[t] \in Commands /\ command[t].op \in {"CREATE", "RESERVE", "SHOW", "LIST"}
        BY <3>1, <3>13, CommandFields DEF Unlock
      <4> QED
        BY <3>1, <3>13, <4>1 DEF Unlock, Writes
    <3>14. CASE UnlockOut(t)
      BY <3>1, <3>14 DEF UnlockOut
    <3>15. CASE Return(t)
      BY <3>1, <3>15 DEF Return
    <3> QED
      BY <1>2, <3>2, <3>3, <3>4, <3>5, <3>6, <3>7, <3>8, <3>9, <3>10, <3>11, <3>12, <3>13,
         <3>14, <3>15 DEF Acts, Locking, Step
  <2> QED
    BY <2>1, <2>2 DEF AllPlaced
<1> QED
  BY <1>1, <1>2 DEF Next, Acts

------------------------------------------------------------------------------
\* LocksHeld lock by lock

ListHeld ==
  /\ \A t \in Threads : /\ listWriter = t <=> InList(t) /\ Writes(t)
                        /\ t \in listReaders <=> InList(t) /\ ~ Writes(t)
  /\ listWriter # NoThread => listReaders = {}

OutHeld == \A t \in Threads : outHolder = t <=> InOut(t)

EventsHeld ==
  \A t \in Threads : \A e \in 1 .. Len(events) :
    /\ eventWriter[e] = t <=> InEvent(t, e) /\ Writes(t)
    /\ t \in eventReaders[e] <=> InEvent(t, e) /\ ~ Writes(t)

LEMMA LocksHeldParts == LocksHeld <=> ListHeld /\ OutHeld /\ EventsHeld
BY DEF LocksHeld, ListHeld, OutHeld, EventsHeld

LEMMA OthersWrite ==
  ASSUME ThreadsOK, NEW t \in Threads, Acts(t), NEW u \in Threads, u # t
  PROVE  /\ (InList(u)' <=> InList(u)) /\ (Writes(u)' <=> Writes(u)) /\ (InOut(u)' <=> InOut(u))
         /\ \A e : (InEvent(u, e)' <=> InEvent(u, e))
BY OthersStay DEF InList, Writes, InOut, InEvent

LEMMA ListHeldStep ==
  ASSUME Typed, AllPlaced, ListHeld, [Next]_vars
  PROVE  ListHeld'
<1> USE BatchNoThreadAssumption
<1>1. CASE UNCHANGED vars
  BY <1>1 DEF vars, locals, locks, ListHeld, InList, Writes
<1>2. ASSUME NEW t \in Threads, Acts(t) PROVE ListHeld'
  <2> USE DEF Typed, ThreadsOK, Goto
  <2>0. \A u \in Threads : u # t => (InList(u)' <=> InList(u)) /\ (Writes(u)' <=> Writes(u))
    BY <1>2, OthersWrite
  <2>1. CASE UNCHANGED <<listReaders, listWriter>> /\ (InList(t)' <=> InList(t))
             /\ (InList(t) => (Writes(t)' <=> Writes(t)))
    <3>1. \A u \in Threads : /\ (InList(u)' <=> InList(u))
                             /\ InList(u) => (Writes(u)' <=> Writes(u))
      BY <2>0, <2>1
    <3> QED
      BY <2>1, <3>1 DEF ListHeld
  <2>2. CASE LockList(t)
    <3>1. ~ InList(t) /\ InList(t)' /\ (Writes(t)' <=> Writes(t)) /\ listWriter = NoThread
      <4>1. pc[t] = "lock_list" /\ pc'[t] \in {"create", "lock_out", "find"} /\ command' = command
        BY <2>2 DEF LockList, locals
      <4> QED
        BY <2>2, <4>1 DEF LockList, InList, Writes
    <3>2. CASE Writes(t)
      BY <2>0, <2>2, <3>1, <3>2 DEF LockList, ListHeld
    <3>3. CASE ~ Writes(t)
      BY <2>0, <2>2, <3>1, <3>3 DEF LockList, ListHeld
    <3> QED
      BY <3>2, <3>3
  <2>3. CASE UnlockList(t) /\ InList(t) /\ ~ InList(t)'
    <3>1. CASE Writes(t)
      BY <2>0, <2>3, <3>1 DEF UnlockList, ListHeld
    <3>2. CASE ~ Writes(t)
      BY <2>0, <2>3, <3>2 DEF UnlockList, ListHeld
    <3> QED
      BY <3>1, <3>2
  <2>4. CASE Create(t)
    <3>1. InList(t) /\ ~ InList(t)'
      BY <2>4 DEF Create, InList
    <3> QED
      BY <2>3, <2>4, <3>1 DEF Create
  <2>5. CASE Find(t)
    <3>1. CASE get_event(command[t].id) = 0
      <4>1. InList(t) /\ ~ InList(t)'
        BY <2>5, <3>1 DEF Find, InList
      <4> QED
        BY <2>3, <2>5, <3>1, <4>1 DEF Find
    <3>2. CASE get_event(command[t].id) # 0
      <4>1. InList(t) /\ InList(t)' /\ (Writes(t)' <=> Writes(t))
        BY <2>5, <3>2 DEF Find, InList, Writes
      <4> QED
        BY <2>1, <2>5, <3>2, <4>1 DEF Find
    <3> QED
      BY <3>1, <3>2
  <2>6. CASE Unlock(t)
    <3>1. InList(t) /\ ~ InList(t)'
      BY <2>6 DEF Unlock, InList
    <3> QED
      BY <2>3, <2>6, <3>1 DEF Unlock
  <2>7. CASE (\E c \in Commands : Call(t, c)) \/ Return(t)
    <3>1. ~ InList(t) /\ ~ InList(t)' /\ UNCHANGED <<listReaders, listWriter>>
      BY <2>7 DEF Call, Return, InList, locks
    <3> QED
      BY <2>1, <3>1
  <2>8. CASE LockToReserve(t) \/ LockToShow(t) \/ LockOut(t)
    <3>1. /\ InList(t) /\ InList(t)' /\ (Writes(t)' <=> Writes(t))
          /\ UNCHANGED <<listReaders, listWriter>>
      BY <2>8 DEF LockToReserve, LockToShow, LockOut, InList, Writes, locals
    <3> QED
      BY <2>1, <3>1
  <2>9. CASE TakeSeat(t) \/ Refuse(t) \/ Reserved(t) \/ Write(t) \/ Printed(t) \/ WriteFails(t)
    <3>1. /\ InList(t) /\ InList(t)' /\ (Writes(t)' <=> Writes(t))
          /\ UNCHANGED <<listReaders, listWriter>>
      BY <2>9
         DEF TakeSeat, Refuse, Reserved, Write, Printed, WriteFails, InList, Writes, locals, locks
    <3> QED
      BY <2>1, <3>1
  <2>10. CASE UnlockOut(t)
    <3>1. ~ InList(t) /\ ~ InList(t)' /\ UNCHANGED <<listReaders, listWriter>>
      BY <2>10 DEF UnlockOut, InList
    <3> QED
      BY <2>1, <3>1
  <2> QED
    BY <1>2, <2>2, <2>4, <2>5, <2>6, <2>7, <2>8, <2>9, <2>10 DEF Acts, Locking, Step
<1> QED
  BY <1>1, <1>2 DEF Next, Acts

LEMMA OutHeldStep ==
  ASSUME Typed, AllPlaced, OutHeld, [Next]_vars
  PROVE  OutHeld'
<1> USE BatchNoThreadAssumption
<1>1. CASE UNCHANGED vars
  BY <1>1 DEF vars, locals, locks, OutHeld, InOut, Writes
<1>2. ASSUME NEW t \in Threads, Acts(t) PROVE OutHeld'
  <2> USE DEF Typed, ThreadsOK, Goto
  <2>0. \A u \in Threads : u # t => (InOut(u)' <=> InOut(u))
    BY <1>2, OthersWrite
  <2>1. CASE UNCHANGED outHolder /\ (InOut(t)' <=> InOut(t))
    BY <2>0, <2>1 DEF OutHeld
  <2>2. CASE LockOut(t)
    <3>1. InOut(t)'
      BY <2>2 DEF LockOut, InOut
    <3> QED
      BY <2>0, <2>2, <3>1 DEF LockOut, OutHeld
  <2>3. CASE UnlockOut(t)
    <3>1. InOut(t) /\ ~ InOut(t)'
      BY <2>3 DEF UnlockOut, InOut
    <3> QED
      BY <2>0, <2>3, <3>1 DEF UnlockOut, OutHeld
  <2>4. CASE Printed(t) \/ WriteFails(t) \/ Write(t)
    <3>1. command[t].op \in {"SHOW", "LIST"} /\ pc[t] = "print"
      BY <2>4 DEF Printed, WriteFails, Write, AllPlaced, Placed
    <3>2. InOut(t) /\ InOut(t)' /\ UNCHANGED outHolder
      BY <2>4, <3>1 DEF Printed, WriteFails, Write, InOut, Writes, locks, locals
    <3> QED
      BY <2>1, <3>2
  <2>5. CASE Unlock(t)
    <3>1. (InOut(t)' <=> InOut(t)) /\ UNCHANGED outHolder
      BY <2>5 DEF Unlock, InOut, Writes, locals
    <3> QED
      BY <2>1, <3>1
  <2>6. CASE Refuse(t) \/ Reserved(t) \/ TakeSeat(t)
    <3>1. command[t].op = "RESERVE"
      BY <2>6 DEF Refuse, Reserved, TakeSeat, AllPlaced, Placed
    <3>2. (InOut(t)' <=> InOut(t)) /\ UNCHANGED outHolder
      BY <2>6, <3>1 DEF Refuse, Reserved, TakeSeat, InOut, Writes, locks, locals
    <3> QED
      BY <2>1, <3>2
  <2>7. CASE (\E c \in Commands : Call(t, c)) \/ Return(t) \/ LockList(t)
    <3>1. (InOut(t)' <=> InOut(t)) /\ UNCHANGED outHolder
      BY <2>7 DEF Call, Return, LockList, InOut, Writes, locks, locals
    <3> QED
      BY <2>1, <3>1
  <2>8. CASE LockToReserve(t) \/ LockToShow(t) \/ Create(t) \/ Find(t)
    <3>1. (InOut(t)' <=> InOut(t)) /\ UNCHANGED outHolder
      BY <2>8 DEF LockToReserve, LockToShow, Create, Find, InOut, Writes, locks, locals
    <3> QED
      BY <2>1, <3>1
  <2> QED
    BY <1>2, <2>2, <2>3, <2>4, <2>5, <2>6, <2>7, <2>8 DEF Acts, Locking, Step
<1> QED
  BY <1>1, <1>2 DEF Next, Acts

LEMMA EventsHeldStep ==
  ASSUME Typed, AllPlaced, EventsHeld, [Next]_vars
  PROVE  EventsHeld'
<1> USE BatchNoThreadAssumption
<1>1. CASE UNCHANGED vars
  BY <1>1 DEF vars, list, locals, locks, EventsHeld, InEvent, Writes
<1>2. ASSUME NEW t \in Threads, Acts(t) PROVE EventsHeld'
  <2> USE DEF Typed, ThreadsOK, Goto
  <2>0. \A u \in Threads : \A e :
          u # t => (InEvent(u, e)' <=> InEvent(u, e)) /\ (Writes(u)' <=> Writes(u))
    BY <1>2, OthersWrite
  <2>1. CASE /\ UNCHANGED <<events, eventReaders, eventWriter>>
             /\ \A e \in 1 .. Len(events) : /\ (InEvent(t, e)' <=> InEvent(t, e))
                                            /\ InEvent(t, e) => (Writes(t)' <=> Writes(t))
    <3>1. \A u \in Threads : \A e \in 1 .. Len(events) :
            /\ (InEvent(u, e)' <=> InEvent(u, e))
            /\ InEvent(u, e) => (Writes(u)' <=> Writes(u))
      BY <2>0, <2>1
    <3> QED
      BY <2>1, <3>1 DEF EventsHeld
  <2>2. CASE Create(t)
    <3>1. /\ pc[t] = "create" /\ pc'[t] = "return"
          /\ command[t] \in Commands /\ command[t].op = "CREATE"
      BY <2>2 DEF Create, AllPlaced, Placed
    <3>2. \A e : ~ InEvent(t, e) /\ ~ InEvent(t, e)'
      BY <3>1 DEF InEvent
    <3>3. CASE UNCHANGED <<events, eventReaders, eventWriter>>
      BY <2>1, <3>2, <3>3
    <3>4. ASSUME ~ UNCHANGED <<events, eventReaders, eventWriter>> PROVE EventsHeld'
      <4>1. /\ \E new \in EventRecords : events' = Append(events, new)
            /\ eventReaders' = Append(eventReaders, {})
            /\ eventWriter' = Append(eventWriter, NoThread)
        BY <2>2, <3>1, <3>4, Created DEF list
      <4>2. Len(events') = Len(events) + 1 /\ Len(events) \in Nat
        BY <4>1, AppendOne DEF ListOK
      <4>3. /\ \A e \in 1 .. Len(events) :
                 eventReaders'[e] = eventReaders[e] /\ eventWriter'[e] = eventWriter[e]
            /\ eventReaders'[Len(events) + 1] = {} /\ eventWriter'[Len(events) + 1] = NoThread
        BY <4>1, AppendOne DEF ListOK
      <4>4. ASSUME NEW u \in Threads, NEW e \in 1 .. Len(events')
            PROVE  /\ eventWriter'[e] = u <=> InEvent(u, e)' /\ Writes(u)'
                   /\ u \in eventReaders'[e] <=> InEvent(u, e)' /\ ~ Writes(u)'
        <5>1. (InEvent(u, e)' <=> InEvent(u, e)) /\ (InEvent(u, e) => (Writes(u)' <=> Writes(u)))
          <6>1. CASE u = t
            BY <3>1, <6>1 DEF InEvent
          <6>2. CASE u # t
            BY <2>0, <6>2
          <6> QED
            BY <6>1, <6>2
        <5>2. CASE e \in 1 .. Len(events)
          <6>1. /\ eventWriter[e] = u <=> InEvent(u, e) /\ Writes(u)
                /\ u \in eventReaders[e] <=> InEvent(u, e) /\ ~ Writes(u)
            BY <5>2 DEF EventsHeld
          <6>2. eventReaders'[e] = eventReaders[e] /\ eventWriter'[e] = eventWriter[e]
            BY <4>3, <5>2
          <6> QED
            BY <5>1, <6>1, <6>2
        <5>3. CASE e = Len(events) + 1
          <6>1. ~ InEvent(u, e)
            BY <4>2, <5>3 DEF InEvent
          <6> QED
            BY <4>3, <5>1, <5>3, <6>1
        <5> QED
          BY <4>2, <5>2, <5>3
      <4> QED
        BY <4>4 DEF EventsHeld
    <3> QED
      BY <3>3, <3>4
  <2>3. CASE LockToReserve(t)
    <3>1. event[t] \in 1 .. Len(events) /\ pc[t] = "lock_event" /\ pc'[t] = "take"
      BY <2>3, ItsEvent, ListFacts DEF LockToReserve, AllPlaced, Placed, Writes
    <3>2. \A e : ~ InEvent(t, e) /\ (InEvent(t, e)' <=> e = event[t])
      BY <2>3, <3>1 DEF InEvent, LockToReserve
    <3>3. Writes(t)' /\ eventReaders' = eventReaders /\ events' = events
      BY <2>3 DEF LockToReserve, Writes
    <3>4. \A e \in 1 .. Len(events) :
            eventWriter'[e] = IF e = event[t] THEN t ELSE eventWriter[e]
      BY <2>3, <3>1, ListFacts DEF LockToReserve
    <3>5. eventWriter[event[t]] = NoThread /\ eventReaders[event[t]] = {}
      BY <2>3 DEF LockToReserve
    <3> QED
      BY <2>0, <3>1, <3>2, <3>3, <3>4, <3>5 DEF EventsHeld
  <2>4. CASE LockToShow(t)
    <3>1. event[t] \in 1 .. Len(events) /\ pc[t] = "lock_event" /\ pc'[t] = "lock_out"
      BY <2>4, ItsEvent, ListFacts DEF LockToShow, AllPlaced, Placed, Writes
    <3>2. \A e : ~ InEvent(t, e) /\ (InEvent(t, e)' <=> e = event[t])
      BY <2>4, <3>1 DEF InEvent, LockToShow, locals
    <3>3. ~ Writes(t)' /\ eventWriter' = eventWriter /\ events' = events
      BY <2>4 DEF LockToShow, Writes, locals, list
    <3>4. \A e \in 1 .. Len(events) :
            eventReaders'[e] = IF e = event[t] THEN eventReaders[e] \cup {t} ELSE eventReaders[e]
      BY <2>4, <3>1, ListFacts DEF LockToShow
    <3>5. ASSUME NEW u \in Threads, NEW e \in 1 .. Len(events')
          PROVE  /\ eventWriter'[e] = u <=> InEvent(u, e)' /\ Writes(u)'
                 /\ u \in eventReaders'[e] <=> InEvent(u, e)' /\ ~ Writes(u)'
      <4>1. u \in eventReaders'[e] <=> u \in eventReaders[e] \/ (e = event[t] /\ u = t)
        BY <3>3, <3>4
      <4>2. CASE u = t
        BY <3>2, <3>3, <4>1, <4>2 DEF EventsHeld
      <4>3. CASE u # t
        BY <2>0, <3>3, <4>1, <4>3 DEF EventsHeld
      <4> QED
        BY <4>2, <4>3
    <3> QED
      BY <3>5 DEF EventsHeld
  <2>5. CASE Unlock(t)
    <3>1. pc[t] = "unlock" /\ pc'[t] \in {"return", "unlock_out"} /\ event[t] \in 0 .. Len(events)
          /\ UNCHANGED <<events, event>> /\ (Writes(t)' <=> Writes(t))
      BY <2>5 DEF Unlock, Writes, locals, list
    <3>2. \A e : (InEvent(t, e) <=> e = event[t]) /\ ~ InEvent(t, e)'
      BY <3>1 DEF InEvent
    <3>3. \A e \in 1 .. Len(events) :
            eventReaders'[e] = IF e = event[t] THEN eventReaders[e] \ {t} ELSE eventReaders[e]
      <4>1. CASE event[t] = 0
        BY <2>5, <3>1, <4>1 DEF Unlock
      <4>2. CASE event[t] # 0
        BY <2>5, <4>2, ListFacts DEF Unlock
      <4> QED
        BY <4>1, <4>2
    <3>4. \A e \in 1 .. Len(events) :
            eventWriter'[e] = IF e = event[t] /\ Writes(t) THEN NoThread ELSE eventWriter[e]
      BY <2>5, <3>1, ListFacts DEF Unlock
    <3>5. ASSUME NEW u \in Threads, NEW e \in 1 .. Len(events')
          PROVE  /\ eventWriter'[e] = u <=> InEvent(u, e)' /\ Writes(u)'
                 /\ u \in eventReaders'[e] <=> InEvent(u, e)' /\ ~ Writes(u)'
      <4>1. /\ u \in eventReaders'[e] <=> u \in eventReaders[e] /\ ~ (e = event[t] /\ u = t)
            /\ eventWriter'[e] = u <=> eventWriter[e] = u /\ ~ (e = event[t] /\ Writes(t))
        BY <3>1, <3>3, <3>4, ZenonT(30)
      <4>2. CASE u = t
        BY <3>1, <3>2, <4>1, <4>2 DEF EventsHeld
      <4>3. CASE u # t
        <5>1. /\ eventWriter[e] = u <=> InEvent(u, e) /\ Writes(u)
              /\ e = event[t] /\ Writes(t) => eventWriter[e] = t
          BY <3>1, <3>2 DEF EventsHeld
        <5> QED
          BY <2>0, <3>1, <4>1, <4>3, <5>1 DEF EventsHeld
      <4> QED
        BY <4>2, <4>3
    <3> QED
      BY <3>5 DEF EventsHeld
  <2>6. CASE (\E c \in Commands : Call(t, c)) \/ Return(t) \/ LockList(t) \/ Find(t)
    <3>1. pc[t] \in {"idle", "return", "lock_list", "find"}
          /\ pc'[t] \in {"idle", "lock_list", "create", "lock_event", "find", "return", "lock_out"}
          /\ UNCHANGED <<events, eventReaders, eventWriter>>
      BY <2>6 DEF Call, Return, LockList, Find, list, locks
    <3>2. pc'[t] = "lock_out" => event[t] = 0 /\ event'[t] = 0
      BY <2>6 DEF Call, Return, LockList, Find, list, locks, locals, AllPlaced, Placed, Begun
    <3>3. \A e \in 1 .. Len(events) : ~ InEvent(t, e) /\ ~ InEvent(t, e)'
      BY <3>1, <3>2, ListFacts DEF InEvent
    <3> QED
      BY <2>1, <3>1, <3>3
  <2>7. CASE LockOut(t) \/ TakeSeat(t) \/ Refuse(t) \/ Reserved(t) \/ Write(t) \/ Printed(t)
             \/ WriteFails(t)
    <3>1. pc[t] \in {"take", "lock_out", "print"} /\ pc'[t] \in {"take", "print", "unlock"}
          /\ UNCHANGED <<events, eventReaders, eventWriter, event, command>>
      BY <2>7
         DEF LockOut, TakeSeat, Refuse, Reserved, Write, Printed, WriteFails, list, locks, locals
    <3>2. \A e \in 1 .. Len(events) :
            (InEvent(t, e)' <=> InEvent(t, e)) /\ (Writes(t)' <=> Writes(t))
      BY <3>1 DEF InEvent, Writes
    <3> QED
      BY <2>1, <3>1, <3>2
  <2>8. CASE UnlockOut(t)
    <3>1. pc[t] = "unlock_out" /\ pc'[t] = "return"
          /\ UNCHANGED <<events, eventReaders, eventWriter>>
      BY <2>8 DEF UnlockOut, list
    <3>2. \A e \in 1 .. Len(events) : ~ InEvent(t, e) /\ ~ InEvent(t, e)'
      BY <3>1 DEF InEvent
    <3> QED
      BY <2>1, <3>1, <3>2
  <2> QED
    BY <1>2, <2>2, <2>3, <2>4, <2>5, <2>6, <2>7, <2>8 DEF Acts, Locking, Step
<1> QED
  BY <1>1, <1>2 DEF Next, Acts

LEMMA LocksHeldStep ==
  ASSUME Typed, AllPlaced, LocksHeld, [Next]_vars
  PROVE  LocksHeld'
<1>1. ListHeld' /\ OutHeld' /\ EventsHeld'
  BY ListHeldStep, OutHeldStep, EventsHeldStep, LocksHeldParts
<1> QED
  BY <1>1 DEF LocksHeld, ListHeld, OutHeld, EventsHeld

------------------------------------------------------------------------------
LEMMA SeatIndexInRoom ==
  ASSUME NEW rows \in Nat, NEW cols \in Nat, NEW r \in 1 .. rows, NEW c \in 1 .. cols
  PROVE  (r - 1) * cols + c - 1 \in 0 .. rows * cols - 1
<1>1. (r - 1) * cols \in Nat
  OBVIOUS
<1>2. (r - 1) * cols + cols = r * cols
  OBVIOUS
<1>3. PICK d \in Nat : rows = r + d
  <2>1. rows - r \in Nat /\ rows = r + (rows - r)
    OBVIOUS
  <2>2. QED
    BY <2>1
<1>4. rows * cols = r * cols + d * cols
  BY <1>3
<1>5. d * cols \in Nat
  BY <1>3
<1>6. /\ rows * cols \in Nat /\ r * cols \in Nat
  OBVIOUS
<1> DEFINE a == (r - 1) * cols
           b == r * cols
           x == d * cols
           n == rows * cols
<1> HIDE DEF a, b, x, n
<1>7. a \in Nat /\ b \in Nat /\ x \in Nat /\ n \in Nat /\ a + cols = b /\ n = b + x
  BY <1>1, <1>2, <1>4, <1>5, <1>6 DEF a, b, x, n
<1>8. a + c - 1 \in 0 .. n - 1
  BY <1>7
<1>9. QED
  BY <1>8 DEF a, n

(* Two seats of a room have one index only if they are the same.           *)
LEMMA RowsApart ==
  ASSUME NEW cols \in Nat, NEW r \in Nat, NEW q \in Nat, q < r,
         NEW c \in 1 .. cols, NEW d \in 1 .. cols
  PROVE  (q - 1) * cols + d - 1 # (r - 1) * cols + c - 1
<1>1. PICK n \in Nat : r = q + n /\ n >= 1
  <2>1. r - q \in Nat /\ r - q >= 1
    OBVIOUS
  <2> QED
    BY <2>1
<1>2. (r - 1) * cols = (q - 1) * cols + n * cols
  BY <1>1
<1>3. PICK m \in Nat : n = m + 1
  <2>1. n - 1 \in Nat
    BY <1>1
  <2> QED
    BY <2>1
<1>4. n * cols = m * cols + cols
  BY <1>3
<1>5. m * cols \in Nat
  OBVIOUS
<1>6. (q - 1) * cols \in Int
  OBVIOUS
<1> DEFINE a == (q - 1) * cols
           b == m * cols
           x == (r - 1) * cols
<1>7. a \in Int /\ b \in Nat /\ x = a + (b + cols)
  BY <1>2, <1>4, <1>5, <1>6
<1> HIDE DEF a, b, x
<1>8. a + d - 1 # x + c - 1
  BY <1>7
<1> QED
  BY <1>8 DEF a, x

LEMMA SeatIndexInjective ==
  ASSUME NEW cols \in Nat, NEW r \in Nat, NEW q \in Nat,
         NEW c \in 1 .. cols, NEW d \in 1 .. cols,
         (q - 1) * cols + d - 1 = (r - 1) * cols + c - 1
  PROVE  q = r /\ d = c
<1>1. ~ (q < r) /\ ~ (r < q)
  BY RowsApart
<1>2. q = r
  BY <1>1
<1>3. (q - 1) * cols \in Int
  OBVIOUS
<1> QED
  BY <1>2, <1>3

------------------------------------------------------------------------------
\* The seats that a RESERVE has taken

SeatOf(t, j) == command[t].seats[j]

Idx(t, j) == seat_index(event[t], SeatOf(t, j))

SeatExists(t, j) == /\ SeatOf(t, j)[1] \in 1 .. events[event[t]].rows
                    /\ SeatOf(t, j)[2] \in 1 .. events[event[t]].cols

(* The seats with the number of the reservation that is being made are     *)
(* the ones the loop has come past.                                        *)
SeatsTaken ==
  \A t \in Threads :
    pc[t] = "take" =>
      /\ i[t] <= Len(command[t].seats)
      /\ \A j \in 1 .. i[t] : SeatExists(t, j) /\ Idx(t, j) \in DOMAIN data[event[t]]
      /\ \A j \in 1 .. i[t] : \A k \in 1 .. j - 1 : SeatOf(t, k) # SeatOf(t, j)
      /\ \A s \in DOMAIN data[event[t]] :
           data[event[t]][s] = rid[t] <=> \E j \in 1 .. i[t] : s = Idx(t, j)

(* Every number up to the count has a seat, but for the one that is being  *)
(* given, and no greater number has one.                                   *)
NumbersGiven ==
  \A e \in 1 .. Len(events) :
    /\ \A s \in DOMAIN data[e] : data[e][s] <= reservations[e]
    /\ \A k \in 1 .. Count(e) : \E s \in DOMAIN data[e] : data[e][s] = k

IInv == /\ Typed /\ AllPlaced /\ LocksHeld
        /\ NumberTaken /\ SeatsTaken /\ NumbersGiven

------------------------------------------------------------------------------
LEMMA TakingAlone ==
  ASSUME Typed, AllPlaced, LocksHeld, NEW t \in Threads, pc[t] = "take"
  PROVE  /\ event[t] \in 1 .. Len(events) /\ command[t] \in Commands /\ command[t].op = "RESERVE"
         /\ command[t].seats \in SeatLists /\ eventWriter[event[t]] = t
         /\ rid[t] \in Nat /\ i[t] \in Nat /\ reservations[event[t]] \in Nat
<1>1. /\ event[t] \in 1 .. Len(events) /\ command[t] \in Commands /\ command[t].op = "RESERVE"
  BY ItsEvent, ListFacts DEF Typed, AllPlaced, Placed
<1>2. InEvent(t, event[t]) /\ Writes(t)
  BY <1>1 DEF InEvent, Writes
<1> QED
  BY <1>1, <1>2, CommandFields, ListFacts DEF LocksHeld, Typed, ThreadsOK

(* The steps that change the reservations or the seats of an event are     *)
(* those of the thread that has its lock.                                  *)
LEMMA EventStays ==
  ASSUME Typed, AllPlaced, LocksHeld, NEW t \in Threads, Acts(t), NEW e \in 1 .. Len(events)
  PROVE  /\ e \in 1 .. Len(events') /\ events'[e] = events[e]
         /\ \/ reservations'[e] = reservations[e] /\ data'[e] = data[e]
            \/ /\ event[t] = e
               /\ \/ LockToReserve(t) \/ TakeSeat(t) \/ Refuse(t)
<1> USE ListFacts DEF Typed, list, locks
<1>1. CASE UNCHANGED list
  BY <1>1
<1>2. CASE Create(t) /\ ~ UNCHANGED list
  <2>1. command[t] \in Commands /\ command[t].op = "CREATE"
    BY <1>2 DEF Create, Goto, AllPlaced, Placed
  <2>2. /\ \E new \in EventRecords : events' = Append(events, new)
        /\ reservations' = Append(reservations, 0)
        /\ \E room \in Rooms : data' = Append(data, room)
    BY <1>2, <2>1, Created
  <2>3. Len(events') = Len(events) + 1 /\ events'[e] = events[e]
    BY <2>2, AppendOne DEF ListOK
  <2>4. reservations'[e] = reservations[e]
    BY <2>2, AppendOne DEF ListOK
  <2>5. data'[e] = data[e]
    BY <2>2, AppendOne DEF ListOK
  <2> QED
    BY <2>3, <2>4, <2>5
<1>3. CASE LockToReserve(t) \/ TakeSeat(t) \/ Refuse(t)
  <2>1. events' = events
    BY <1>3 DEF LockToReserve, TakeSeat, Refuse
  <2>2. CASE event[t] = e
    BY <1>3, <2>1, <2>2
  <2>3. CASE event[t] # e
    BY <1>3, <2>1, <2>3 DEF LockToReserve, TakeSeat, Refuse
  <2> QED
    BY <2>2, <2>3
<1>4. CASE (\E c \in Commands : Call(t, c)) \/ LockList(t) \/ LockToShow(t) \/ LockOut(t)
  BY <1>1, <1>4 DEF Call, LockList, LockToShow, LockOut
<1>5. CASE Find(t) \/ Reserved(t) \/ Write(t) \/ Printed(t)
  BY <1>1, <1>5 DEF Find, Reserved, Write, Printed
<1>6. CASE WriteFails(t) \/ Unlock(t) \/ UnlockOut(t) \/ Return(t)
  BY <1>1, <1>6 DEF WriteFails, Unlock, UnlockOut, Return
<1> QED
  BY <1>1, <1>2, <1>3, <1>4, <1>5, <1>6 DEF Acts, Locking, Step

(* What the step of another thread leaves of the reservation of u.         *)
LEMMA ReservingStays ==
  ASSUME Typed, AllPlaced, LocksHeld, NEW t \in Threads, Acts(t),
         NEW u \in Threads, u # t, pc[u] = "take"
  PROVE  /\ events'[event[u]] = events[event[u]] /\ data'[event[u]] = data[event[u]]
         /\ reservations'[event[u]] = reservations[event[u]]
<1>1. event[u] \in 1 .. Len(events) /\ eventWriter[event[u]] = u
  BY TakingAlone
<1>2. ASSUME event[t] = event[u], LockToReserve(t) \/ TakeSeat(t) \/ Refuse(t) PROVE FALSE
  <2>1. CASE LockToReserve(t)
    BY <1>1, <1>2, <2>1, BatchNoThreadAssumption DEF LockToReserve
  <2>2. CASE TakeSeat(t) \/ Refuse(t)
    <3>1. pc[t] = "take"
      BY <2>2 DEF TakeSeat, Refuse, Goto
    <3> QED
      BY <1>1, <1>2, <3>1, TakingAlone
  <2> QED
    BY <1>2, <2>1, <2>2
<1> QED
  BY <1>1, <1>2, EventStays

LEMMA NumberTakenStep ==
  ASSUME Typed, AllPlaced, LocksHeld, NumberTaken, [Next]_vars
  PROVE  NumberTaken'
<1>1. CASE UNCHANGED vars
  BY <1>1 DEF vars, list, locals, NumberTaken
<1>2. ASSUME NEW t \in Threads, Acts(t), NEW u \in Threads, pc'[u] = "take"
      PROVE  rid'[u] = reservations'[event'[u]] /\ rid'[u] > 0
  <2>1. CASE u # t
    <3>1. pc[u] = "take" /\ rid'[u] = rid[u] /\ event'[u] = event[u]
      BY <1>2, <2>1, OthersStay DEF Typed
    <3> QED
      BY <1>2, <2>1, <3>1, ReservingStays DEF NumberTaken
  <2>2. CASE u = t
    <3> USE DEF Typed, ThreadsOK, Goto, locals, list
    <3>1. CASE LockToReserve(t)
      <4>1. event[t] \in 1 .. Len(events) /\ reservations[event[t]] \in Nat
        BY <3>1, ItsEvent, ListFacts DEF LockToReserve, AllPlaced, Placed, Writes
      <4> QED
        BY <2>2, <3>1, <4>1, ListFacts DEF LockToReserve
    <3>2. CASE TakeSeat(t)
      BY <2>2, <3>2 DEF TakeSeat, NumberTaken
    <3>3. LockToReserve(t) \/ TakeSeat(t)
      <4>1. CASE (\E c \in Commands : Call(t, c)) \/ LockList(t) \/ LockToShow(t) \/ LockOut(t)
        BY <1>2, <2>2, <4>1 DEF Call, LockList, LockToShow, LockOut
      <4>2. CASE Create(t) \/ Find(t) \/ Refuse(t) \/ Reserved(t) \/ Write(t)
        BY <1>2, <2>2, <4>2 DEF Create, Find, Refuse, Reserved, Write
      <4>3. CASE Printed(t) \/ WriteFails(t) \/ Unlock(t) \/ UnlockOut(t) \/ Return(t)
        BY <1>2, <2>2, <4>3 DEF Printed, WriteFails, Unlock, UnlockOut, Return
      <4> QED
        BY <1>2, <4>1, <4>2, <4>3 DEF Acts, Locking, Step
    <3> QED
      BY <3>1, <3>2, <3>3
  <2> QED
    BY <2>1, <2>2
<1> QED
  BY <1>1, <1>2 DEF Next, Acts, NumberTaken

LEMMA CanTakeFacts ==
  ASSUME Typed, AllPlaced, LocksHeld, NEW t \in Threads, pc[t] = "take",
         i[t] < Len(command[t].seats)
  PROVE  /\ i[t] + 1 \in 1 .. Len(command[t].seats) /\ SeatOf(t, i[t] + 1) \in Nat \X Nat
         /\ Seat(t) = SeatOf(t, i[t] + 1) /\ Idx(t, i[t] + 1) = seat_index(event[t], Seat(t))
<1>1. command[t].seats \in Seq(Nat \X Nat) /\ i[t] \in Nat
  BY TakingAlone, BatchSeatsAssumption
<1> QED
  BY <1>1 DEF SeatOf, Seat, Idx

LEMMA ExistingSeatHasIndex ==
  ASSUME Typed, NEW e \in 1 .. Len(events), NEW seat \in Nat \X Nat,
         seat[1] \in 1 .. events[e].rows, seat[2] \in 1 .. events[e].cols
  PROVE  seat_index(e, seat) \in DOMAIN data[e]
<1>1. DOMAIN data[e] = SeatsOf(e) /\ events[e].rows \in Nat /\ events[e].cols \in Nat
  BY RoomIsNumbers DEF Typed, ListOK
<1> QED
  BY <1>1, SeatIndexInRoom DEF seat_index, SeatsOf

LEMMA SeatsTakenStep ==
  ASSUME Typed, AllPlaced, LocksHeld, NumberTaken, SeatsTaken, NumbersGiven, [Next]_vars
  PROVE  SeatsTaken'
<1> DEFINE Taking_(t) ==
      /\ i[t] <= Len(command[t].seats)
      /\ \A j \in 1 .. i[t] : SeatExists(t, j) /\ Idx(t, j) \in DOMAIN data[event[t]]
      /\ \A j \in 1 .. i[t] : \A k \in 1 .. j - 1 : SeatOf(t, k) # SeatOf(t, j)
      /\ \A s \in DOMAIN data[event[t]] :
           data[event[t]][s] = rid[t] <=> \E j \in 1 .. i[t] : s = Idx(t, j)
<1>1. ASSUME NEW u \in Threads, pc[u] = "take", events'[event[u]] = events[event[u]],
             data'[event[u]] = data[event[u]], i'[u] = i[u], rid'[u] = rid[u],
             command'[u] = command[u], event'[u] = event[u]
      PROVE  Taking_(u)'
  <2>1. \A j : SeatOf(u, j)' = SeatOf(u, j) /\ Idx(u, j)' = Idx(u, j)
               /\ (SeatExists(u, j)' <=> SeatExists(u, j))
    BY <1>1 DEF SeatOf, Idx, seat_index, SeatExists
  <2>2. Taking_(u)
    BY <1>1 DEF SeatsTaken
  <2> QED
    BY <1>1, <2>1, <2>2
<1>2. CASE UNCHANGED vars
  BY <1>1, <1>2 DEF vars, list, locals, SeatsTaken
<1>3. ASSUME NEW t \in Threads, Acts(t), NEW u \in Threads, pc'[u] = "take"
      PROVE  Taking_(u)'
  <2>1. CASE u # t
    <3>1. pc[u] = "take"
      BY <1>3, <2>1, OthersStay DEF Typed
    <3> HIDE DEF Taking_
    <3> QED
      BY <1>1, <1>3, <2>1, <3>1, OthersStay, ReservingStays DEF Typed
  <2>2. CASE u = t
    <3> USE DEF Typed, ThreadsOK, Goto, locals, list
    <3>1. CASE LockToReserve(t)
      <4> DEFINE e == event[t]
      <4>1. /\ e \in 1 .. Len(events) /\ reservations[e] \in Nat /\ i[t] = 0
            /\ command[t] \in Commands /\ command[t].op = "RESERVE"
        BY <3>1, ItsEvent, ListFacts DEF LockToReserve, AllPlaced, Placed, Writes
      <4>2. /\ i'[t] = 0 /\ event'[t] = e /\ data' = data /\ command'[t] = command[t]
            /\ rid'[t] = reservations[e] + 1
        BY <3>1, <4>1 DEF LockToReserve
      <4>3. Len(command[t].seats) \in Nat
        BY <4>1, CommandFields, BatchSeatsAssumption
      <4>4. \A s \in DOMAIN data[e] : data[e][s] # reservations[e] + 1
        <5>1. \A s \in DOMAIN data[e] : data[e][s] \in Nat /\ data[e][s] <= reservations[e]
          BY <4>1, RoomIsNumbers DEF NumbersGiven
        <5> QED
          BY <4>1, <5>1
      <4> QED
        BY <2>2, <4>2, <4>3, <4>4
    <3>2. CASE TakeSeat(t)
      <4> DEFINE e == event[t]
                 n == i[t] + 1
                 x == Idx(t, n)
      <4>1. /\ pc[t] = "take" /\ i[t] < Len(command[t].seats) /\ CanTake(t)
            /\ i'[t] = n /\ data' = [data EXCEPT ![e][seat_index(e, Seat(t))] = rid[t]]
            /\ UNCHANGED <<events, command, event, rid>>
        BY <3>2 DEF TakeSeat
      <4>2. /\ n \in 1 .. Len(command[t].seats) /\ SeatOf(t, n) \in Nat \X Nat
            /\ Seat(t) = SeatOf(t, n) /\ x = seat_index(e, Seat(t))
        BY <4>1, CanTakeFacts
      <4>3. e \in 1 .. Len(events) /\ rid[t] \in Nat /\ i[t] \in Nat
        BY <4>1, TakingAlone
      <4>4. SeatExists(t, n) /\ data[e][x] = 0
        BY <4>1, <4>2 DEF CanTake, SeatExists
      <4>5. x \in DOMAIN data[e]
        <5>1. /\ Seat(t) \in Nat \X Nat /\ Seat(t)[1] \in 1 .. events[e].rows
              /\ Seat(t)[2] \in 1 .. events[e].cols
          BY <4>2, <4>4 DEF SeatExists
        <5> HIDE DEF x, n, e
        <5>2. seat_index(e, Seat(t)) \in DOMAIN data[e]
          BY <4>3, <5>1, ExistingSeatHasIndex
        <5> QED
          BY <4>2, <5>2
      <4>6. data'[e] = [data[e] EXCEPT ![x] = rid[t]]
        BY <4>1, <4>2, <4>3, ListFacts
      <4>7. \A j : SeatOf(t, j)' = SeatOf(t, j) /\ Idx(t, j)' = Idx(t, j)
                   /\ (SeatExists(t, j)' <=> SeatExists(t, j))
        BY <4>1 DEF SeatOf, Idx, seat_index, SeatExists
      <4>8. Taking_(t) /\ rid[t] > 0
        BY <4>1 DEF SeatsTaken, NumberTaken
      <4>9. \A k \in 1 .. i[t] : Idx(t, k) # x
        BY <4>3, <4>4, <4>8
      <4>10. \A k \in 1 .. i[t] : SeatOf(t, k) # SeatOf(t, n)
        BY <4>9 DEF Idx
      <4>11. 1 .. n = 1 .. i[t] \cup {n} /\ n \notin 1 .. i[t] /\ n <= Len(command[t].seats)
        BY <4>2, <4>3
      <4>12. \A j \in 1 .. n : SeatExists(t, j) /\ Idx(t, j) \in DOMAIN data[e]
        BY <4>4, <4>5, <4>8, <4>11
      <4>13. \A j \in 1 .. n : \A k \in 1 .. j - 1 : SeatOf(t, k) # SeatOf(t, j)
        <5>1. ASSUME NEW j \in 1 .. n, NEW k \in 1 .. j - 1 PROVE SeatOf(t, k) # SeatOf(t, j)
          <6>1. CASE j \in 1 .. i[t]
            BY <4>8, <6>1
          <6>2. CASE j = n
            <7>1. k \in 1 .. i[t]
              BY <4>3, <6>2
            <7> QED
              BY <4>10, <6>2, <7>1
          <6> QED
            BY <4>11, <6>1, <6>2
        <5> QED
          BY <5>1
      <4>14. DOMAIN data'[e] = DOMAIN data[e]
        BY <4>6
      <4>15. ASSUME NEW s \in DOMAIN data[e]
             PROVE  data'[e][s] = rid[t] <=> \E j \in 1 .. n : s = Idx(t, j)
        <5>1. CASE s = x
          <6>1. data'[e][s] = rid[t]
            BY <4>6, <5>1
          <6> QED
            BY <4>11, <5>1, <6>1
        <5>2. CASE s # x
          <6>1. data'[e][s] = data[e][s]
            BY <4>6, <5>2
          <6>2. data[e][s] = rid[t] <=> \E j \in 1 .. i[t] : s = Idx(t, j)
            BY <4>8
          <6> HIDE DEF n
          <6> QED
            BY <4>11, <5>2, <6>1, <6>2
        <5> QED
          BY <5>1, <5>2
      <4> HIDE DEF n
      <4> QED
        BY <2>2, <4>1, <4>7, <4>11, <4>12, <4>13, <4>14, <4>15
    <3>3. LockToReserve(t) \/ TakeSeat(t)
      <4>1. CASE (\E c \in Commands : Call(t, c)) \/ LockList(t) \/ LockToShow(t) \/ LockOut(t)
        BY <1>3, <2>2, <4>1 DEF Call, LockList, LockToShow, LockOut
      <4>2. CASE Create(t) \/ Find(t) \/ Refuse(t) \/ Reserved(t) \/ Write(t)
        BY <1>3, <2>2, <4>2 DEF Create, Find, Refuse, Reserved, Write
      <4>3. CASE Printed(t) \/ WriteFails(t) \/ Unlock(t) \/ UnlockOut(t) \/ Return(t)
        BY <1>3, <2>2, <4>3 DEF Printed, WriteFails, Unlock, UnlockOut, Return
      <4> QED
        BY <1>3, <4>1, <4>2, <4>3 DEF Acts, Locking, Step
    <3> QED
      BY <3>1, <3>2, <3>3
  <2> QED
    BY <2>1, <2>2
<1> QED
  BY <1>2, <1>3 DEF Next, Acts, SeatsTaken

------------------------------------------------------------------------------
LEMMA TakingStays ==
  ASSUME Typed, NEW t \in Threads, Acts(t), NEW e,
         ~ ((LockToReserve(t) \/ Refuse(t) \/ Reserved(t)) /\ event[t] = e)
  PROVE  \A u \in Threads : Taking(e, u)' <=> Taking(e, u)
<1>1. \A u \in Threads : u # t => (Taking(e, u)' <=> Taking(e, u))
  BY OthersStay DEF Taking, Typed
<1>2. Taking(e, t)' <=> Taking(e, t)
  <2> USE DEF Typed, ThreadsOK, Goto, locals, Taking
  <2>1. CASE LockToReserve(t) \/ Refuse(t) \/ Reserved(t)
    BY <2>1 DEF LockToReserve, Refuse, Reserved
  <2>2. CASE (\E c \in Commands : Call(t, c)) \/ LockList(t) \/ LockToShow(t) \/ LockOut(t)
    BY <2>2 DEF Call, LockList, LockToShow, LockOut
  <2>3. CASE Create(t) \/ Find(t) \/ TakeSeat(t) \/ Write(t) \/ Printed(t)
    BY <2>3 DEF Create, Find, TakeSeat, Write, Printed
  <2>4. CASE WriteFails(t) \/ Unlock(t) \/ UnlockOut(t) \/ Return(t)
    BY <2>4 DEF WriteFails, Unlock, UnlockOut, Return
  <2> QED
    BY <2>1, <2>2, <2>3, <2>4 DEF Acts, Locking, Step
<1> QED
  BY <1>1, <1>2 DEF Taking

LEMMA CountStays ==
  ASSUME NEW e, reservations'[e] = reservations[e],
         \A u \in Threads : Taking(e, u)' <=> Taking(e, u)
  PROVE  Count(e)' = Count(e)
BY DEF Count

Numbered(e) ==
  /\ \A s \in DOMAIN data[e] : data[e][s] <= reservations[e]
  /\ \A k \in 1 .. Count(e) : \E s \in DOMAIN data[e] : data[e][s] = k

(* Under the lock of its event a RESERVE moves the count by one.           *)
LEMMA ReserveNumbers ==
  ASSUME IInv, NEW t \in Threads, Acts(t), NEW e \in 1 .. Len(events), event[t] = e,
         LockToReserve(t) \/ Refuse(t) \/ Reserved(t)
  PROVE  Numbered(e)'
<1> USE DEF IInv
<1>0. Numbered(e)
  BY DEF NumbersGiven, Numbered
<1>1. \A s \in DOMAIN data[e] : data[e][s] \in Nat
  BY RoomIsNumbers DEF Typed
<1>2. reservations[e] \in Nat /\ Len(events) \in Nat
  BY ListFacts DEF Typed
<1>3. ASSUME LockToReserve(t) PROVE Numbered(e)'
  <2>1. \A u \in Threads : ~ Taking(e, u)
    BY <1>3, TakingAlone, BatchNoThreadAssumption DEF LockToReserve, Taking
  <2>2. Count(e) = reservations[e]
    BY <2>1 DEF Count
  <2>3. Taking(e, t)'
    BY <1>3 DEF LockToReserve, Taking, Goto, Typed, ThreadsOK
  <2>4. /\ reservations'[e] = reservations[e] + 1 /\ data' = data
    BY <1>3, ListFacts DEF LockToReserve, Typed
  <2>5. Count(e)' = reservations[e]
    <3>1. Count(e)' = reservations'[e] - 1
      BY <2>3 DEF Count
    <3> QED
      BY <1>2, <2>4, <3>1
  <2>6. \A s \in DOMAIN data[e] : data[e][s] <= reservations[e] + 1
    BY <1>0, <1>1, <1>2 DEF Numbered
  <2>7. \A k \in 1 .. reservations[e] : \E s \in DOMAIN data[e] : data[e][s] = k
    BY <1>0, <2>2 DEF Numbered
  <2> QED
    BY <2>4, <2>5, <2>6, <2>7 DEF Numbered
<1>4. ASSUME Refuse(t) \/ Reserved(t) PROVE Numbered(e)'
  <2>1. pc[t] = "take" /\ pc'[t] = "unlock"
    BY <1>4 DEF Refuse, Reserved, Goto, Typed, ThreadsOK
  <2>2. /\ eventWriter[e] = t /\ rid[t] = reservations[e] /\ rid[t] > 0 /\ i[t] \in Nat
        /\ command[t].seats \in SeatLists
    BY <2>1, TakingAlone DEF NumberTaken
  <2>3. Count(e) = reservations[e] - 1
    BY <2>1 DEF Count, Taking
  <2>4. \A u \in Threads : ~ Taking(e, u)'
    <3>1. ASSUME NEW u \in Threads, u # t PROVE ~ (pc[u] = "take" /\ event[u] = e)
      BY <2>2, <3>1, TakingAlone
    <3>2. ASSUME NEW u \in Threads, u # t PROVE ~ (pc'[u] = "take" /\ event'[u] = e)
      BY <3>1, <3>2, OthersStay DEF Typed
    <3> QED
      BY <2>1, <3>2 DEF Taking
  <2>5. Count(e)' = reservations'[e]
    BY <2>4 DEF Count
  <2>6. /\ \A s \in DOMAIN data[e] :
             data[e][s] = rid[t] <=> \E j \in 1 .. i[t] : s = Idx(t, j)
        /\ \A j \in 1 .. i[t] : Idx(t, j) \in DOMAIN data[e]
    BY <2>1 DEF SeatsTaken
  <2>7. CASE Reserved(t)
    <3>1. data' = data /\ reservations' = reservations /\ i[t] = Len(command[t].seats)
      BY <2>7 DEF Reserved, list
    <3>2. 1 \in 1 .. i[t]
      BY <2>2, <3>1, BatchSeatsAssumption
    <3>3. \E s \in DOMAIN data[e] : data[e][s] = reservations[e]
      BY <2>2, <2>6, <3>2
    <3>4. ASSUME NEW k \in 1 .. reservations[e] PROVE \E s \in DOMAIN data[e] : data[e][s] = k
      <4>1. CASE k = reservations[e]
        BY <3>3, <4>1
      <4>2. CASE k # reservations[e]
        <5>1. k \in 1 .. Count(e)
          BY <1>2, <2>3, <4>2
        <5> QED
          BY <1>0, <5>1 DEF Numbered
      <4> QED
        BY <4>1, <4>2
    <3> QED
      BY <1>0, <2>5, <3>1, <3>4 DEF Numbered
  <2>8. CASE Refuse(t)
    <3> DEFINE taken == {seat_index(e, command[t].seats[j]) : j \in 1 .. i[t]}
    <3>1. /\ reservations' = [reservations EXCEPT ![e] = @ - 1]
          /\ data' = [data EXCEPT ![e] = [s \in DOMAIN @ |-> IF s \in taken THEN 0 ELSE @[s]]]
      BY <2>8 DEF Refuse
    <3>2. reservations'[e] = reservations[e] - 1
      BY <3>1, ListFacts DEF Typed
    <3>3. data'[e] = [s \in DOMAIN data[e] |-> IF s \in taken THEN 0 ELSE data[e][s]]
      <4> HIDE DEF taken
      <4> QED
        BY <3>1, ListFacts DEF Typed
    <3>4. \A s \in DOMAIN data[e] : s \in taken <=> data[e][s] = rid[t]
      BY <2>6 DEF Idx, SeatOf
    <3> HIDE DEF taken
    <3>5. ASSUME NEW s \in DOMAIN data'[e] PROVE data'[e][s] <= reservations'[e]
      <4>1. s \in DOMAIN data[e] /\ data[e][s] \in Nat /\ data[e][s] <= reservations[e]
        BY <1>0, <1>1, <3>3 DEF Numbered
      <4>2. CASE s \in taken
        <5>1. data'[e][s] = 0
          BY <3>3, <4>1, <4>2
        <5> QED
          BY <1>2, <2>2, <3>2, <5>1
      <4>3. CASE s \notin taken
        <5>1. data'[e][s] = data[e][s] /\ data[e][s] # reservations[e]
          BY <2>2, <3>3, <3>4, <4>1, <4>3
        <5> QED
          BY <1>2, <3>2, <4>1, <5>1
      <4> QED
        BY <4>2, <4>3
    <3>6. ASSUME NEW k \in 1 .. reservations'[e] PROVE \E s \in DOMAIN data'[e] : data'[e][s] = k
      <4>1. k \in 1 .. Count(e) /\ k # reservations[e]
        BY <1>2, <2>3, <3>2
      <4>2. PICK s \in DOMAIN data[e] : data[e][s] = k
        BY <1>0, <4>1 DEF Numbered
      <4>3. s \notin taken
        BY <2>2, <3>4, <4>1, <4>2
      <4> QED
        BY <3>3, <4>2, <4>3
    <3> QED
      BY <2>5, <3>5, <3>6 DEF Numbered
  <2> QED
    BY <1>4, <2>7, <2>8
<1> QED
  BY <1>3, <1>4

LEMMA NumbersGivenStep ==
  ASSUME IInv, [Next]_vars
  PROVE  NumbersGiven'
<1> USE DEF IInv
<1>1. CASE UNCHANGED vars
  <2>1. UNCHANGED <<events, reservations, data, pc, event>>
    BY <1>1 DEF vars, list, locals
  <2> QED
    BY <2>1 DEF NumbersGiven, Count, Taking
<1>2. ASSUME NEW t \in Threads, Acts(t), NEW e \in 1 .. Len(events') PROVE Numbered(e)'
  <2>0. Len(events) \in Nat
    BY ListFacts DEF Typed
  <2>1. CASE e \in 1 .. Len(events)
    <3>0. Numbered(e)
      BY <2>1 DEF NumbersGiven, Numbered
    <3>1. CASE (LockToReserve(t) \/ Refuse(t) \/ Reserved(t)) /\ event[t] = e
      BY <1>2, <2>1, <3>1, ReserveNumbers
    <3>2. CASE ~ ((LockToReserve(t) \/ Refuse(t) \/ Reserved(t)) /\ event[t] = e)
      <4>1. \A u \in Threads : Taking(e, u)' <=> Taking(e, u)
        BY <1>2, <3>2, TakingStays
      <4>2. CASE reservations'[e] = reservations[e] /\ data'[e] = data[e]
        <5>1. Count(e)' = Count(e)
          BY <4>1, <4>2, CountStays
        <5> QED
          BY <3>0, <4>2, <5>1 DEF Numbered
      <4>3. CASE TakeSeat(t) /\ event[t] = e
        <5>1. /\ pc[t] = "take" /\ i[t] < Len(command[t].seats) /\ CanTake(t)
              /\ data' = [data EXCEPT ![e][seat_index(e, Seat(t))] = rid[t]]
              /\ reservations' = reservations
          BY <4>3 DEF TakeSeat, Goto
        <5> DEFINE x == seat_index(e, Seat(t))
        <5>2. data[e][x] = 0 /\ rid[t] = reservations[e] /\ reservations[e] \in Nat
          BY <4>3, <5>1, TakingAlone DEF CanTake, NumberTaken
        <5>3. data'[e] = [data[e] EXCEPT ![x] = rid[t]]
          BY <2>1, <5>1, ListFacts DEF Typed
        <5>4. Count(e)' = Count(e)
          BY <4>1, <5>1, CountStays
        <5> HIDE DEF x
        <5>5. ASSUME NEW s \in DOMAIN data'[e] PROVE data'[e][s] <= reservations[e]
          <6>1. CASE s = x
            BY <5>2, <5>3, <6>1
          <6>2. CASE s # x
            BY <3>0, <5>3, <6>2 DEF Numbered
          <6> QED
            BY <6>1, <6>2
        <5>6. ASSUME NEW k \in 1 .. Count(e) PROVE \E s \in DOMAIN data'[e] : data'[e][s] = k
          <6>1. PICK s \in DOMAIN data[e] : data[e][s] = k
            BY <3>0 DEF Numbered
          <6>2. s # x
            BY <5>2, <6>1
          <6> QED
            BY <5>3, <6>1, <6>2
        <5> QED
          BY <5>1, <5>4, <5>5, <5>6 DEF Numbered
      <4> QED
        BY <1>2, <2>1, <3>2, <4>2, <4>3, EventStays
    <3> QED
      BY <3>1, <3>2
  <2>2. CASE e \notin 1 .. Len(events)
    <3>1. Create(t) /\ ~ UNCHANGED events
      <4> USE DEF list
      <4>1. CASE (\E c \in Commands : Call(t, c)) \/ LockList(t) \/ LockToShow(t) \/ LockOut(t)
        BY <2>2, <4>1 DEF Call, LockList, LockToShow, LockOut
      <4>2. CASE LockToReserve(t) \/ Find(t) \/ Reserved(t) \/ Write(t) \/ Printed(t)
        BY <2>2, <4>2 DEF LockToReserve, Find, Reserved, Write, Printed
      <4>3. CASE TakeSeat(t) \/ Refuse(t)
        BY <2>2, <4>3 DEF TakeSeat, Refuse
      <4>4. CASE WriteFails(t) \/ Unlock(t) \/ UnlockOut(t) \/ Return(t)
        BY <2>2, <4>4 DEF WriteFails, Unlock, UnlockOut, Return
      <4>5. CASE Create(t)
        BY <2>2, <4>5
      <4> QED
        BY <1>2, <4>1, <4>2, <4>3, <4>4, <4>5 DEF Acts, Locking, Step
    <3>2. command[t] \in Commands /\ command[t].op = "CREATE"
      BY <3>1 DEF Create, Goto, AllPlaced, Placed
    <3>3. PICK rows \in Nat, cols \in Nat :
            /\ \E new \in EventRecords : events' = Append(events, new)
            /\ reservations' = Append(reservations, 0)
            /\ [s \in 0 .. rows * cols - 1 |-> 0] \in Rooms
            /\ data' = Append(data, [s \in 0 .. rows * cols - 1 |-> 0])
      BY <3>1, <3>2, Created DEF list, Typed
    <3> DEFINE room == [s \in 0 .. rows * cols - 1 |-> 0]
    <3>4. e = Len(events) + 1
      BY <2>0, <2>2, <3>3, AppendOne DEF Typed, ListOK
    <3>5. reservations'[e] = 0
      BY <3>3, <3>4, AppendOne DEF Typed, ListOK
    <3>6. data'[e] = room
      <4>1. data' = Append(data, room) /\ room \in Rooms /\ data \in Seq(Rooms) /\ e = Len(data) + 1
        BY <3>3, <3>4 DEF Typed, ListOK
      <4> HIDE DEF room
      <4> QED
        BY <4>1, AppendOne
    <3>7. \A u \in Threads : ~ Taking(e, u)'
      <4>1. \A u \in Threads : ~ Taking(e, u)
        BY <2>0, <3>4 DEF Taking, Typed, ThreadsOK
      <4>2. \A u \in Threads : Taking(e, u)' <=> Taking(e, u)
        <5>1. ~ (LockToReserve(t) \/ Refuse(t) \/ Reserved(t))
          BY <3>1 DEF Create, LockToReserve, Refuse, Reserved, Goto
        <5> QED
          BY <1>2, <5>1, TakingStays
      <4> QED
        BY <4>1, <4>2
    <3>8. Count(e)' = 0
      BY <3>5, <3>7 DEF Count
    <3> QED
      BY <3>5, <3>6, <3>8 DEF Numbered
  <2> QED
    BY <2>1, <2>2
<1> QED
  BY <1>1, <1>2 DEF Next, Acts, NumbersGiven, Numbered

LEMMA InitIInv == Init => IInv
<1> SUFFICES ASSUME Init PROVE IInv
  OBVIOUS
<1>1. SeatsTaken
  BY DEF Init, SeatsTaken
<1>2. NumbersGiven
  BY EmptySeq DEF Init, NumbersGiven
<1> QED
  BY <1>1, <1>2, InitTyped DEF IInv

LEMMA StepIInv == IInv /\ [Next]_vars => IInv'
<1> SUFFICES ASSUME IInv, [Next]_vars PROVE IInv'
  OBVIOUS
<1>1. Typed /\ AllPlaced /\ LocksHeld /\ NumberTaken /\ SeatsTaken /\ NumbersGiven
  BY DEF IInv
<1>2. Typed' /\ AllPlaced'
  BY <1>1, TypedStep, PlacedStep
<1>3. LocksHeld' /\ NumberTaken'
  BY <1>1, LocksHeldStep, NumberTakenStep
<1>4. SeatsTaken' /\ NumbersGiven'
  BY <1>1, SeatsTakenStep, NumbersGivenStep
<1> QED
  BY <1>2, <1>3, <1>4 DEF IInv

LEMMA IInvCorrect == Spec => []IInv
BY InitIInv, StepIInv, PTL DEF Spec

(* Every variable keeps its type, and no refusal takes a count below zero. *)
THEOREM TypeCorrect == Spec => []TypeOK
<1>1. IInv => TypeOK
  BY TypedIsType DEF IInv
<1> QED
  BY <1>1, IInvCorrect, PTL

(* The list, the events and the output are held by those threads that are  *)
(* inside, in the mode their command needs, on every path of returns.      *)
THEOREM LocksCorrect == Spec => []LocksHeld
<1>1. IInv => LocksHeld
  BY DEF IInv
<1> QED
  BY <1>1, IInvCorrect, PTL

(* A refusal gives back every seat and the number it took: what stands in  *)
(* an event are the reservations 1 to its count, each with a seat.         *)
THEOREM NumbersCorrect == Spec => []NumbersCounted
<1>1. ASSUME IInv PROVE NumbersCounted
  <2>1. ASSUME NEW e \in 1 .. Len(events), eventWriter[e] = NoThread
        PROVE  {data[e][s] : s \in DOMAIN data[e]} \ {0} = 1 .. reservations[e]
    <3>1. \A u \in Threads : ~ Taking(e, u)
      BY <1>1, <2>1, TakingAlone, BatchNoThreadAssumption DEF Taking, IInv
    <3>2. Count(e) = reservations[e]
      BY <3>1 DEF Count
    <3>3. \A s \in DOMAIN data[e] : data[e][s] \in Nat /\ data[e][s] <= reservations[e]
      BY <1>1, RoomIsNumbers DEF IInv, Typed, NumbersGiven
    <3>4. \A k \in 1 .. reservations[e] : \E s \in DOMAIN data[e] : data[e][s] = k
      BY <1>1, <3>2 DEF IInv, NumbersGiven
    <3>5. reservations[e] \in Nat
      BY <1>1, ListFacts DEF IInv, Typed
    <3> QED
      BY <3>3, <3>4, <3>5
  <2> QED
    BY <2>1 DEF NumbersCounted
<1> QED
  BY <1>1, IInvCorrect, PTL

------------------------------------------------------------------------------
\* What the refinement rests on besides IInv

(* No two events have the same id.                                         *)
OneId == \A e, f \in 1 .. Len(events) : events[e].id = events[f].id => e = f

(* The event that a command has is the one it names.                       *)
Found ==
  \A t \in Threads :
    pc[t] \in {"lock_event", "take", "lock_out", "print"} /\ command[t].op # "LIST" =>
      events[event[t]].id = command[t].id

BlockWord(t, k) == IF command[t].op = "SHOW" THEN data[event[t]][k - 1] ELSE events[k].id

(* The output ends with the words that the printing thread has written.    *)
PrintedSoFar(t) ==
  /\ i[t] <= Words(t) /\ i[t] <= Len(out)
  /\ \A k \in 1 .. i[t] : out[Len(out) - i[t] + k] = BlockWord(t, k)

EndsWithBlock == \A t \in Threads : pc[t] = "print" => PrintedSoFar(t)

RInv == IInv /\ OneId /\ Found /\ EndsWithBlock

(* The steps that change the list are those of a thread that writes to it. *)
LEMMA ListStays ==
  ASSUME IInv, NEW t \in Threads, Acts(t)
  PROVE  \/ UNCHANGED list
         \/ /\ InList(t) /\ Writes(t)
            /\ \/ Create(t) \/ LockToReserve(t) \/ TakeSeat(t) \/ Refuse(t)
<1> USE DEF list, locks
<1>1. CASE (\E c \in Commands : Call(t, c)) \/ LockList(t) \/ LockToShow(t) \/ LockOut(t)
  BY <1>1 DEF Call, LockList, LockToShow, LockOut
<1>2. CASE Find(t) \/ Reserved(t) \/ Write(t) \/ Printed(t)
  BY <1>2 DEF Find, Reserved, Write, Printed
<1>3. CASE WriteFails(t) \/ Unlock(t) \/ UnlockOut(t) \/ Return(t)
  BY <1>3 DEF WriteFails, Unlock, UnlockOut, Return
<1>4. CASE Create(t) \/ LockToReserve(t) \/ TakeSeat(t) \/ Refuse(t)
  <2>1. pc[t] \in {"create", "take", "lock_event"} /\ (pc[t] = "lock_event" => Writes(t))
    BY <1>4 DEF Create, LockToReserve, TakeSeat, Refuse, Goto
  <2> QED
    BY <1>4, <2>1 DEF InList, Writes, IInv, AllPlaced, Placed
<1> QED
  BY <1>1, <1>2, <1>3, <1>4 DEF Acts, Locking, Step

(* While a thread reads the list nobody changes it.                        *)
LEMMA ReadersStill ==
  ASSUME IInv, NEW t \in Threads, Acts(t), NEW u \in Threads, InList(u), ~ Writes(u)
  PROVE  UNCHANGED list
<1>1. ~ (InList(t) /\ Writes(t))
  BY BatchNoThreadAssumption DEF IInv, LocksHeld
<1> QED
  BY <1>1, ListStays

(* Nor is a thread that writes it ever beside one that is inside.          *)
LEMMA WriterAlone ==
  ASSUME IInv, NEW t \in Threads, InList(t), Writes(t), NEW u \in Threads, InList(u)
  PROVE  u = t
BY BatchNoThreadAssumption DEF IInv, LocksHeld

LEMMA PrinterReads ==
  ASSUME IInv, NEW t \in Threads, pc[t] = "print"
  PROVE  /\ InList(t) /\ ~ Writes(t) /\ outHolder = t
         /\ command[t].op \in {"SHOW", "LIST"} /\ i[t] \in Nat /\ Len(out) \in Nat
         /\ command[t].op = "SHOW" => event[t] \in 1 .. Len(events)
<1>1. command[t].op \in {"SHOW", "LIST"}
  BY DEF IInv, AllPlaced, Placed
<1>2. command[t].op = "SHOW" => event[t] \in 1 .. Len(events)
  BY ItsEvent, ListFacts DEF IInv, Typed
<1>3. i[t] \in Nat /\ out \in Seq(Nat)
  BY DEF IInv, Typed, ThreadsOK, FileOK
<1> QED
  BY <1>1, <1>2, <1>3 DEF InList, Writes, IInv, LocksHeld, InOut

LEMMA OneIdStep ==
  ASSUME RInv, [Next]_vars
  PROVE  OneId'
<1> USE DEF RInv
<1>1. CASE UNCHANGED events
  BY <1>1 DEF OneId
<1>2. ASSUME NEW t \in Threads, Create(t), ~ UNCHANGED events PROVE OneId'
  <2>1. command[t] \in Commands /\ command[t].op = "CREATE"
    BY <1>2 DEF Create, Goto, IInv, AllPlaced, Placed
  <2>2. PICK new \in EventRecords : events' = Append(events, new) /\ new.id = command[t].id
                                    /\ get_event(command[t].id) = 0
    BY <1>2, <2>1, Created DEF list, IInv, Typed
  <2>3. events \in Seq(EventRecords) /\ Len(events) \in Nat
    BY DEF IInv, Typed, ListOK
  <2>4. \A e \in 1 .. Len(events) : events[e].id # new.id
    BY <2>2, <2>3, GetEventFinds
  <2>5. /\ Len(events') = Len(events) + 1 /\ events'[Len(events) + 1] = new
        /\ \A e \in 1 .. Len(events) : events'[e] = events[e]
    BY <2>2, <2>3, AppendOne
  <2> QED
    BY <2>3, <2>4, <2>5 DEF OneId
<1>3. ASSUME NEW t \in Threads, Acts(t), ~ Create(t) PROVE UNCHANGED events
  <2>1. UNCHANGED list \/ LockToReserve(t) \/ TakeSeat(t) \/ Refuse(t)
    BY <1>3, ListStays
  <2> QED
    BY <2>1 DEF list, LockToReserve, TakeSeat, Refuse
<1>4. CASE UNCHANGED vars
  BY <1>1, <1>4 DEF vars, list
<1> QED
  BY <1>1, <1>2, <1>3, <1>4 DEF Next, Acts

LEMMA FoundStep ==
  ASSUME RInv, [Next]_vars
  PROVE  Found'
<1> USE DEF RInv
<1>1. CASE UNCHANGED vars
  BY <1>1 DEF vars, list, locals, Found
<1>2. ASSUME NEW t \in Threads, Acts(t), NEW u \in Threads, command'[u].op # "LIST",
             pc'[u] \in {"lock_event", "take", "lock_out", "print"}
      PROVE  events'[event'[u]].id = command'[u].id
  <2>0. Len(events) \in Nat
    BY ListFacts DEF IInv, Typed
  <2>1. CASE /\ pc[u] \in {"lock_event", "take", "lock_out", "print"}
             /\ command'[u] = command[u] /\ event'[u] = event[u]
    <3>1. event[u] \in 1 .. Len(events)
      BY <1>2, <2>0, <2>1, ItsEvent DEF IInv, Typed
    <3>2. events'[event[u]] = events[event[u]]
      BY <1>2, <3>1, EventStays DEF IInv
    <3> QED
      BY <1>2, <2>1, <3>2 DEF Found
  <2>2. CASE u # t
    BY <1>2, <2>1, <2>2, OthersStay DEF IInv, Typed
  <2>3. CASE u = t
    <3> USE DEF IInv, Typed, ThreadsOK, Goto, locals
    <3>1. CASE Find(t)
      BY <1>2, <2>0, <2>3, <3>1, GetEventFinds DEF Find, list
    <3>2. CASE LockToReserve(t) \/ LockToShow(t) \/ LockOut(t)
      BY <2>1, <2>3, <3>2 DEF LockToReserve, LockToShow, LockOut
    <3>3. CASE TakeSeat(t) \/ Write(t)
      BY <2>1, <2>3, <3>3 DEF TakeSeat, Write
    <3>4. CASE Create(t) \/ Refuse(t) \/ Reserved(t) \/ Printed(t) \/ WriteFails(t)
      BY <1>2, <2>3, <3>4 DEF Create, Refuse, Reserved, Printed, WriteFails
    <3>5. CASE Unlock(t) \/ UnlockOut(t) \/ Return(t) \/ (\E c \in Commands : Call(t, c))
      BY <1>2, <2>3, <3>5 DEF Unlock, UnlockOut, Return, Call
    <3>6. CASE LockList(t)
      BY <1>2, <2>3, <3>6 DEF LockList
    <3> QED
      BY <1>2, <3>1, <3>2, <3>3, <3>4, <3>5, <3>6 DEF Acts, Locking, Step
  <2> QED
    BY <2>2, <2>3
<1> QED
  BY <1>1, <1>2 DEF Next, Acts, Found

LEMMA WordIsNext ==
  ASSUME NEW t \in Threads, i[t] \in Nat
  PROVE  Word(t) = BlockWord(t, i[t] + 1)
<1>1. i[t] + 1 - 1 = i[t]
  OBVIOUS
<1> QED
  BY <1>1 DEF Word, BlockWord

LEMMA EndsWithBlockStep ==
  ASSUME RInv, [Next]_vars
  PROVE  EndsWithBlock'
<1> USE DEF RInv
<1>1. ASSUME NEW u \in Threads, pc[u] = "print", UNCHANGED list, out' = out, i'[u] = i[u],
             command'[u] = command[u], event'[u] = event[u]
      PROVE  PrintedSoFar(u)'
  <2>1. \A k : BlockWord(u, k)' = BlockWord(u, k)
    BY <1>1 DEF BlockWord, list
  <2>2. Words(u)' = Words(u)
    BY <1>1 DEF Words, list
  <2>3. PrintedSoFar(u)
    BY <1>1 DEF EndsWithBlock
  <2> QED
    BY <1>1, <2>1, <2>2, <2>3 DEF PrintedSoFar
<1>2. CASE UNCHANGED vars
  BY <1>1, <1>2 DEF vars, locals, EndsWithBlock
<1>3. ASSUME NEW t \in Threads, Acts(t), NEW u \in Threads, pc'[u] = "print" PROVE PrintedSoFar(u)'
  <2>1. CASE u # t
    <3>1. pc[u] = "print" /\ i'[u] = i[u] /\ command'[u] = command[u] /\ event'[u] = event[u]
      BY <1>3, <2>1, OthersStay DEF IInv, Typed
    <3>2. UNCHANGED list
      BY <1>3, <3>1, PrinterReads, ReadersStill
    <3>3. ~ Write(t)
      BY <2>1, <3>1, PrinterReads DEF Write, Goto
    <3>4. out' = out
      <4>1. CASE (\E c \in Commands : Call(t, c)) \/ Locking(t)
        BY <4>1 DEF Call, Locking, LockList, LockToReserve, LockToShow, LockOut
      <4>2. CASE Create(t) \/ Find(t) \/ TakeSeat(t) \/ Refuse(t) \/ Reserved(t)
        BY <4>2 DEF Create, Find, TakeSeat, Refuse, Reserved
      <4>3. CASE Printed(t) \/ WriteFails(t) \/ Unlock(t) \/ UnlockOut(t) \/ Return(t)
        BY <4>3 DEF Printed, WriteFails, Unlock, UnlockOut, Return
      <4> QED
        BY <1>3, <3>3, <4>1, <4>2, <4>3 DEF Acts, Step
    <3> QED
      BY <1>1, <3>1, <3>2, <3>4
  <2>2. CASE u = t
    <3> USE DEF IInv, Typed, ThreadsOK, Goto, locals
    <3>1. CASE LockOut(t)
      <4>1. i'[t] = 0 /\ out \in Seq(Nat) /\ out' = out /\ UNCHANGED <<list, command, event>>
        BY <3>1 DEF LockOut, AllPlaced, Placed, FileOK
      <4>2. pc[t] = "lock_out"
        BY <3>1 DEF LockOut
      <4>3. command[t].op \in {"SHOW", "LIST"}
        BY <4>2 DEF AllPlaced, Placed
      <4>4. Words(t) \in Nat
        <5>1. CASE command[t].op = "SHOW"
          <6>1. event[t] \in 1 .. Len(events)
            BY <4>2, <5>1, ItsEvent, ListFacts
          <6> QED
            BY <5>1, <6>1, RoomIsNumbers DEF Words
        <5>2. CASE command[t].op # "SHOW"
          BY <5>2, ListFacts DEF Words
        <5> QED
          BY <5>1, <5>2
      <4>5. Words(t)' = Words(t)
        BY <4>1 DEF Words, list
      <4> QED
        BY <2>2, <4>1, <4>4, <4>5 DEF PrintedSoFar
    <3>2. CASE Write(t)
      <4> DEFINE n == i[t]
                 m == Len(out)
      <4>1. /\ pc[t] = "print" /\ n < Words(t) /\ out' = Append(out, Word(t)) /\ i'[t] = n + 1
            /\ UNCHANGED <<list, command, event>>
        BY <3>2 DEF Write
      <4>2. PrintedSoFar(t) /\ n \in Nat /\ m \in Nat
        BY <4>1, PrinterReads DEF EndsWithBlock
      <4>3. \A k : BlockWord(t, k)' = BlockWord(t, k)
        BY <4>1 DEF BlockWord, list
      <4>4. Words(t)' = Words(t)
        BY <4>1 DEF Words, list
      <4>5. out' \in Seq(Nat)
        BY FileStep DEF FileOK
      <4>6. /\ Len(out') = m + 1 /\ out'[m + 1] = Word(t)
            /\ \A j \in 1 .. m : out'[j] = out[j]
        BY <4>1, <4>5 DEF FileOK
      <4>7. Words(t) \in Nat
        <5>1. CASE command[t].op = "SHOW"
          <6>1. event[t] \in 1 .. Len(events)
            BY <4>1, <5>1, PrinterReads
          <6>2. events[event[t]].rows \in Nat /\ events[event[t]].cols \in Nat
            BY <6>1, RoomIsNumbers
          <6> QED
            BY <5>1, <6>2, SMTT(20) DEF Words
        <5>2. CASE command[t].op # "SHOW"
          BY <5>2, ListFacts DEF Words
        <5> QED
          BY <5>1, <5>2
      <4> HIDE DEF n, m
      <4>8. n + 1 <= Words(t) /\ n <= m
        BY <4>1, <4>2, <4>7 DEF PrintedSoFar, n, m
      <4>9. ASSUME NEW k \in 1 .. n + 1 PROVE out'[m + 1 - (n + 1) + k] = BlockWord(t, k)
        <5>1. CASE k = n + 1
          <6>1. m + 1 - (n + 1) + k = m + 1
            BY <4>2, <5>1
          <6> QED
            BY <4>2, <4>6, <5>1, <6>1, WordIsNext DEF n
        <5>2. CASE k # n + 1
          <6>1. k \in 1 .. n /\ m + 1 - (n + 1) + k = m - n + k /\ m - n + k \in 1 .. m
            BY <4>2, <4>8, <5>2
          <6>2. out[m - n + k] = BlockWord(t, k)
            BY <4>2, <6>1 DEF PrintedSoFar, n, m
          <6> QED
            BY <4>6, <6>1, <6>2
        <5> QED
          BY <5>1, <5>2
      <4>10. n + 1 <= m + 1
        BY <4>2, <4>8
      <4>11. PrintedSoFar(t)'
        <5>1. i'[t] = n + 1 /\ Len(out') = m + 1
          BY <4>1, <4>6
        <5>2. i'[t] <= Words(t)' /\ i'[t] <= Len(out')
          BY <4>4, <4>8, <4>10, <5>1
        <5>3. ASSUME NEW k \in 1 .. i'[t]
              PROVE  out'[Len(out') - i'[t] + k] = BlockWord(t, k)'
          <6>1. k \in 1 .. n + 1
            BY <4>2, <5>1
          <6>2. out'[m + 1 - (n + 1) + k] = BlockWord(t, k)
            BY <4>9, <6>1
          <6>3. Len(out') - i'[t] + k = m + 1 - (n + 1) + k
            BY <4>2, <5>1
          <6>4. out'[Len(out') - i'[t] + k] = BlockWord(t, k)
            BY <6>2, <6>3
          <6> QED
            BY <4>3, <6>4
        <5> QED
          BY <5>2, <5>3 DEF PrintedSoFar
      <4> QED
        BY <2>2, <4>11 DEF PrintedSoFar, BlockWord, Words
    <3>3. LockOut(t) \/ Write(t)
      <4>1. CASE (\E c \in Commands : Call(t, c)) \/ LockList(t) \/ LockToReserve(t)
                 \/ LockToShow(t)
        BY <1>3, <2>2, <4>1 DEF Call, LockList, LockToReserve, LockToShow
      <4>2. CASE Create(t) \/ Find(t) \/ TakeSeat(t) \/ Refuse(t) \/ Reserved(t)
        BY <1>3, <2>2, <4>2 DEF Create, Find, TakeSeat, Refuse, Reserved
      <4>3. CASE Printed(t) \/ WriteFails(t) \/ Unlock(t) \/ UnlockOut(t) \/ Return(t)
        BY <1>3, <2>2, <4>3 DEF Printed, WriteFails, Unlock, UnlockOut, Return
      <4> QED
        BY <1>3, <4>1, <4>2, <4>3 DEF Acts, Locking, Step
    <3> QED
      BY <3>1, <3>2, <3>3
  <2> QED
    BY <2>1, <2>2
<1> QED
  BY <1>2, <1>3 DEF Next, Acts, EndsWithBlock

LEMMA StepRInv == RInv /\ [Next]_vars => RInv'
BY StepIInv, OneIdStep, FoundStep, EndsWithBlockStep DEF RInv

LEMMA InitRInv == Init => RInv
BY InitIInv, EmptySeq DEF Init, RInv, OneId, Found, EndsWithBlock

LEMMA RInvCorrect == Spec => []RInv
BY InitRInv, StepRInv, PTL DEF Spec

------------------------------------------------------------------------------
\* The state of the abstract store

StoreEvent(e) == [id |-> events[e].id, rows |-> events[e].rows, cols |-> events[e].cols,
                  count |-> Count(e), seats |-> Taken(e)]

Store == [e \in 1 .. Len(events) |-> StoreEvent(e)]

Output == SubSeq(out, 1, Len(out) - Printing)

AnswerOf(t) == IF pc[t] \in {"unlock", "unlock_out", "return"} THEN res[t] ELSE -1

Answers == [t \in Threads |-> AnswerOf(t)]

LEMMA AnswersStep ==
  ASSUME Typed, NEW t \in Threads, Acts(t)
  PROVE  Answers' = [Answers EXCEPT ![t] = AnswerOf(t)']
<1>1. \A u \in Threads : u # t => AnswerOf(u)' = AnswerOf(u)
  BY OthersStay DEF AnswerOf, Typed
<1> QED
  BY <1>1 DEF Answers, AnswerOf

LEMMA AnswersStay ==
  ASSUME Typed, NEW t \in Threads, Acts(t), AnswerOf(t)' = AnswerOf(t)
  PROVE  Answers' = Answers
<1>1. Answers' = [Answers EXCEPT ![t] = AnswerOf(t)]
  BY AnswersStep
<1> QED
  BY <1>1 DEF Answers

(* The store changes with the list, and where a RESERVE begins or ends.    *)
LEMMA StoreStays ==
  ASSUME IInv, NEW t \in Threads, Acts(t), UNCHANGED list, ~ Reserved(t)
  PROVE  Store' = Store
<1>1. \A e \in 1 .. Len(events) : \A u \in Threads : Taking(e, u)' <=> Taking(e, u)
  <2>1. ASSUME NEW e \in 1 .. Len(events), LockToReserve(t) \/ Refuse(t), event[t] = e PROVE FALSE
    <3>1. reservations[e] \in Nat
      BY ListFacts DEF IInv, Typed
    <3>2. reservations'[e] # reservations[e]
      BY <2>1, <3>1, ListFacts DEF LockToReserve, Refuse, IInv, Typed
    <3> QED
      BY <3>2 DEF list
  <2> QED
    BY <2>1, TakingStays DEF IInv
<1>2. ASSUME NEW e \in 1 .. Len(events), NEW u \in Threads, Taking(e, u) PROVE rid'[u] = rid[u]
  <2>1. CASE u # t
    BY <2>1, OthersStay DEF IInv, Typed
  <2>2. CASE u = t
    <3>1. pc[t] = "take" /\ pc'[t] = "take"
      BY <1>1, <1>2, <2>2 DEF Taking
    <3>2. TakeSeat(t)
      <4>1. CASE \E c \in Commands : Call(t, c)
        BY <3>1, <4>1 DEF Call, Goto
      <4>2. CASE Locking(t)
        BY <3>1, <4>2 DEF Locking, LockList, LockToReserve, LockToShow, LockOut, Goto
      <4>3. CASE Create(t) \/ Find(t) \/ Write(t) \/ Printed(t) \/ WriteFails(t)
        BY <3>1, <4>3 DEF Create, Find, Write, Printed, WriteFails, Goto
      <4>4. CASE Unlock(t) \/ UnlockOut(t) \/ Return(t)
        BY <3>1, <4>4 DEF Unlock, UnlockOut, Return, Goto
      <4>5. CASE Refuse(t)
        BY <3>1, <4>5 DEF Refuse, Goto, IInv, Typed, ThreadsOK
      <4> QED
        BY <4>1, <4>2, <4>3, <4>4, <4>5 DEF Acts, Step
    <3> QED
      BY <2>2, <3>2 DEF TakeSeat
  <2> QED
    BY <2>1, <2>2
<1>3. ASSUME NEW e \in 1 .. Len(events) PROVE StoreEvent(e)' = StoreEvent(e)
  <2>1. Count(e)' = Count(e)
    BY <1>1, CountStays DEF list
  <2>2. Taken(e)' = Taken(e)
    <3>1. \A s : (\E u \in Threads : Taking(e, u)' /\ data'[e][s] = rid'[u])
                  <=> (\E u \in Threads : Taking(e, u) /\ data[e][s] = rid[u])
      BY <1>1, <1>2 DEF list
    <3> QED
      BY <3>1 DEF Taken, list
  <2> QED
    BY <2>1, <2>2 DEF StoreEvent, list
<1> QED
  BY <1>3 DEF Store, list

LEMMA PrintingOf ==
  ASSUME IInv, NEW t \in Threads, pc[t] = "print"
  PROVE  Printing = i[t]
<1>1. \A u \in Threads : pc[u] = "print" => u = t
  BY PrinterReads
<1>2. (CHOOSE u \in Threads : pc[u] = "print") = t
  BY <1>1
<1> QED
  BY <1>2 DEF Printing

LEMMA NobodyPrints ==
  ASSUME \A u \in Threads : pc[u] # "print"
  PROVE  Printing = 0
BY DEF Printing

LEMMA PrintingIsCount ==
  ASSUME IInv
  PROVE  Printing \in Nat
BY PrintingOf, NobodyPrints DEF IInv, Typed, ThreadsOK

(* The output changes only with the block of a printing thread.            *)
LEMMA OutputStays ==
  ASSUME IInv, IInv', NEW t \in Threads, Acts(t), pc[t] # "print"
  PROVE  Output' = Output
<1>1. out' = out
  <2>1. CASE (\E c \in Commands : Call(t, c)) \/ Locking(t)
    BY <2>1 DEF Call, Locking, LockList, LockToReserve, LockToShow, LockOut
  <2>2. CASE Create(t) \/ Find(t) \/ TakeSeat(t) \/ Refuse(t) \/ Reserved(t)
    BY <2>2 DEF Create, Find, TakeSeat, Refuse, Reserved
  <2>3. CASE Unlock(t) \/ UnlockOut(t) \/ Return(t)
    BY <2>3 DEF Unlock, UnlockOut, Return
  <2>4. CASE Write(t) \/ Printed(t) \/ WriteFails(t)
    BY <2>4 DEF Write, Printed, WriteFails, Goto
  <2> QED
    BY <2>1, <2>2, <2>3, <2>4 DEF Acts, Step
<1>2. Printing' = Printing
  <2>1. ASSUME NEW u \in Threads, pc[u] = "print" PROVE Printing' = Printing
    <3>1. u # t /\ pc'[u] = "print" /\ i'[u] = i[u]
      BY <2>1, OthersStay DEF IInv, Typed
    <3>2. Printing' = i'[u]
      <4>1. \A v \in Threads : pc'[v] = "print" => v = u
        BY <3>1, PrinterReads DEF IInv, LocksHeld, InOut
      <4>2. (CHOOSE v \in Threads : pc'[v] = "print") = u
        BY <3>1, <4>1
      <4> QED
        BY <3>1, <4>2 DEF Printing
    <3> QED
      BY <2>1, <3>1, <3>2, PrintingOf
  <2>2. ASSUME \A u \in Threads : pc[u] # "print" PROVE Printing' = Printing
    <3>1. Printing = 0
      BY <2>2, NobodyPrints
    <3>2. ASSUME NEW u \in Threads, pc'[u] = "print" PROVE u = t /\ i'[t] = 0
      <4>1. u = t
        BY <2>2, <3>2, OthersStay DEF IInv, Typed
      <4>2. LockOut(t)
        <5> USE DEF Goto, IInv, Typed, ThreadsOK
        <5>1. CASE (\E c \in Commands : Call(t, c)) \/ LockList(t) \/ LockToReserve(t)
                 \/ LockToShow(t)
          BY <3>2, <4>1, <5>1 DEF Call, LockList, LockToReserve, LockToShow
        <5>2. CASE Create(t) \/ Find(t) \/ TakeSeat(t) \/ Refuse(t) \/ Reserved(t)
          BY <3>2, <4>1, <5>2 DEF Create, Find, TakeSeat, Refuse, Reserved
        <5>3. CASE Unlock(t) \/ UnlockOut(t) \/ Return(t)
          BY <3>2, <4>1, <5>3 DEF Unlock, UnlockOut, Return
        <5>4. CASE Write(t) \/ Printed(t) \/ WriteFails(t)
          BY <5>4 DEF Write, Printed, WriteFails
        <5> QED
          BY <5>1, <5>2, <5>3, <5>4 DEF Acts, Locking, Step
      <4> QED
        BY <4>1, <4>2 DEF LockOut, Goto, locals, IInv, AllPlaced, Placed
    <3>3. Printing' = 0
      <4>1. CASE \E u \in Threads : pc'[u] = "print"
        <5>1. (CHOOSE u \in Threads : pc'[u] = "print") \in Threads
              /\ pc'[CHOOSE u \in Threads : pc'[u] = "print"] = "print"
          BY <4>1
        <5>2. (CHOOSE u \in Threads : pc'[u] = "print") = t
          BY <3>2, <5>1
        <5>3. i'[t] = 0
          BY <3>2, <4>1
        <5> QED
          BY <4>1, <5>2, <5>3 DEF Printing
      <4>2. CASE ~ \E u \in Threads : pc'[u] = "print"
        BY <4>2 DEF Printing
      <4> QED
        BY <4>1, <4>2
    <3> QED
      BY <3>1, <3>3
  <2> QED
    BY <2>1, <2>2
<1> QED
  BY <1>1, <1>2 DEF Output

(* A command finds in the abstract store what get_event finds in the list. *)
LEMMA SamePosition ==
  ASSUME RInv, NEW id
  PROVE  Batch!Position(id) = get_event(id)
<1>1. Len(events) \in Nat
  BY ListFacts DEF RInv, IInv, Typed
<1>2. CASE get_event(id) = 0
  BY <1>1, <1>2, GetEventFinds DEF Batch!Position
<1>3. CASE get_event(id) # 0
  <2> DEFINE e == get_event(id)
  <2>1. e \in 1 .. Len(events) /\ events[e].id = id
    BY <1>1, <1>3, GetEventFinds
  <2>2. \A f \in 1 .. Len(events) : events[f].id = id => f = e
    BY <2>1 DEF RInv, OneId
  <2> HIDE DEF e
  <2> QED
    BY <2>1, <2>2 DEF Batch!Position, e
<1> QED
  BY <1>2, <1>3

LEMMA Stutters ==
  ASSUME Store' = Store, Output' = Output, Answers' = Answers, command' = command
  PROVE  UNCHANGED Batch!vars
BY DEF Batch!vars, Store, StoreEvent, Output, Answers, AnswerOf

------------------------------------------------------------------------------
\* The seats of a RESERVE, seen from the abstract store

FreeSeats(t) ==
  \A j \in 1 .. Len(command[t].seats) :
    /\ SeatExists(t, j)
    /\ Taken(event[t])[Idx(t, j)] = 0
    /\ \A k \in 1 .. j - 1 : SeatOf(t, k) # SeatOf(t, j)

LEMMA TakenOf ==
  ASSUME IInv, NEW t \in Threads, pc[t] = "take"
  PROVE  /\ Taken(event[t]) = [s \in DOMAIN data[event[t]] |->
                                 IF data[event[t]][s] = rid[t] THEN 0 ELSE data[event[t]][s]]
         /\ Count(event[t]) = reservations[event[t]] - 1
<1>1. \A u \in Threads : Taking(event[t], u) <=> u = t
  <2>1. \A u \in Threads : Taking(event[t], u) => u = t
    BY TakingAlone DEF Taking, IInv
  <2>2. Taking(event[t], t)
    BY DEF Taking
  <2> QED
    BY <2>1, <2>2
<1>2. \A s : (\E u \in Threads : Taking(event[t], u) /\ data[event[t]][s] = rid[u])
               <=> data[event[t]][s] = rid[t]
  BY <1>1
<1> QED
  BY <1>1, <1>2 DEF Taken, Count

LEMMA ReservedWereFree ==
  ASSUME IInv, NEW t \in Threads, pc[t] = "take", i[t] = Len(command[t].seats)
  PROVE  FreeSeats(t)
<1>1. ASSUME NEW j \in 1 .. i[t] PROVE Taken(event[t])[Idx(t, j)] = 0
  <2>1. Idx(t, j) \in DOMAIN data[event[t]] /\ data[event[t]][Idx(t, j)] = rid[t]
    BY DEF IInv, SeatsTaken
  <2> QED
    BY <2>1, TakenOf
<1> QED
  BY <1>1 DEF FreeSeats, IInv, SeatsTaken

LEMMA RefusedWasNotFree ==
  ASSUME IInv, NEW t \in Threads, pc[t] = "take", i[t] < Len(command[t].seats), ~ CanTake(t)
  PROVE  ~ FreeSeats(t)
<1> DEFINE n == i[t] + 1
           e == event[t]
           x == Idx(t, n)
<1> SUFFICES ASSUME FreeSeats(t) PROVE FALSE
  OBVIOUS
<1>1. /\ n \in 1 .. Len(command[t].seats) /\ SeatOf(t, n) \in Nat \X Nat
      /\ Seat(t) = SeatOf(t, n) /\ x = seat_index(e, Seat(t))
  BY CanTakeFacts DEF IInv
<1>2. e \in 1 .. Len(events) /\ i[t] \in Nat
  BY TakingAlone DEF IInv
<1>3. /\ SeatExists(t, n) /\ Taken(e)[x] = 0
      /\ \A k \in 1 .. n - 1 : SeatOf(t, k) # SeatOf(t, n)
  BY <1>1 DEF FreeSeats
<1>4. Seat(t)[1] \in 1 .. events[e].rows /\ Seat(t)[2] \in 1 .. events[e].cols
  BY <1>1, <1>3 DEF SeatExists
<1>5. data[e][x] # 0
  BY <1>1, <1>4 DEF CanTake
<1>6. x \in DOMAIN data[e]
  <2>1. Seat(t) \in Nat \X Nat
    BY <1>1
  <2>2. seat_index(e, Seat(t)) \in DOMAIN data[e]
    <3> HIDE DEF e
    <3> QED
      BY <1>2, <1>4, <2>1, ExistingSeatHasIndex DEF IInv
  <2> QED
    BY <1>1, <2>2
<1>7. data[e][x] = rid[t]
  BY <1>3, <1>5, <1>6, TakenOf
<1>8. PICK k \in 1 .. i[t] : x = Idx(t, k)
  BY <1>6, <1>7 DEF IInv, SeatsTaken
<1>9. SeatExists(t, k)
  BY DEF IInv, SeatsTaken
<1>10. command[t].seats \in Seq(Nat \X Nat)
  BY TakingAlone, BatchSeatsAssumption DEF IInv
<1>11. SeatOf(t, k) \in Nat \X Nat
  <2>1. Len(command[t].seats) \in Nat
    BY <1>10
  <2>2. k \in 1 .. Len(command[t].seats)
    BY <1>2, <2>1
  <2> QED
    BY <1>10, <2>2 DEF SeatOf
<1> DEFINE cols == events[e].cols
           p == SeatOf(t, k)
           q == SeatOf(t, n)
<1>12. /\ p \in Nat \X Nat /\ q \in Nat \X Nat /\ cols \in Nat
       /\ p[2] \in 1 .. cols /\ q[2] \in 1 .. cols
       /\ (p[1] - 1) * cols + p[2] - 1 = (q[1] - 1) * cols + q[2] - 1
  <2>1. cols \in Nat
    BY <1>2, RoomIsNumbers DEF IInv, Typed
  <2>2. p[2] \in 1 .. cols /\ q[2] \in 1 .. cols
    BY <1>3, <1>9 DEF SeatExists
  <2>3. (p[1] - 1) * cols + p[2] - 1 = (q[1] - 1) * cols + q[2] - 1
    BY <1>8 DEF Idx, seat_index
  <2> QED
    BY <1>1, <1>11, <2>1, <2>2, <2>3
<1> HIDE DEF p, q, cols
<1>13. p[1] \in Nat /\ p[2] \in Nat /\ q[1] \in Nat /\ q[2] \in Nat
       /\ p = <<p[1], p[2]>> /\ q = <<q[1], q[2]>>
  BY <1>12
<1>14. p[1] = q[1] /\ p[2] = q[2]
  <2> DEFINE a == p[1]
             b == p[2]
             c == q[1]
             d == q[2]
  <2>1. /\ a \in Nat /\ c \in Nat /\ b \in 1 .. cols /\ d \in 1 .. cols /\ cols \in Nat
        /\ (a - 1) * cols + b - 1 = (c - 1) * cols + d - 1
    BY <1>12, <1>13
  <2> HIDE DEF a, b, c, d
  <2>2. a = c /\ b = d
    BY <2>1, SeatIndexInjective
  <2> QED
    BY <2>2 DEF a, b, c, d
<1>15. p = q
  BY <1>13, <1>14
<1>16. k \in 1 .. n - 1
  BY <1>2
<1> QED
  BY <1>3, <1>15, <1>16 DEF p, q

(* What the abstract RESERVE asks of its seats.                            *)
LEMMA FreeInStore ==
  ASSUME RInv, NEW t \in Threads, pc[t] = "take"
  PROVE  LET e == event[t]
             seats == command[t].seats
         IN
         /\ e \in DOMAIN Store /\ DOMAIN seats = 1 .. Len(seats)
         /\ \A j \in DOMAIN seats : Batch!Index(Store[e], seats[j]) = Idx(t, j)
         /\ FreeSeats(t) <=>
              \A j \in DOMAIN seats :
                /\ seats[j][1] \in 1 .. Store[e].rows
                /\ seats[j][2] \in 1 .. Store[e].cols
                /\ Store[e].seats[Batch!Index(Store[e], seats[j])] = 0
                /\ \A k \in 1 .. j - 1 : seats[k] # seats[j]
<1> DEFINE e == event[t]
           seats == command[t].seats
<1>1. e \in 1 .. Len(events) /\ seats \in SeatLists
  BY TakingAlone DEF RInv, IInv
<1>2. DOMAIN seats = 1 .. Len(seats)
  BY <1>1, BatchSeatsAssumption
<1>3. /\ e \in DOMAIN Store /\ Store[e].rows = events[e].rows /\ Store[e].cols = events[e].cols
      /\ Store[e].seats = Taken(e)
  BY <1>1 DEF Store, StoreEvent
<1>4. \A j \in DOMAIN seats : Batch!Index(Store[e], seats[j]) = Idx(t, j)
  BY <1>3 DEF Batch!Index, Idx, seat_index, SeatOf
<1>5. FreeSeats(t) <=>
              \A j \in DOMAIN seats :
                /\ seats[j][1] \in 1 .. Store[e].rows
                /\ seats[j][2] \in 1 .. Store[e].cols
                /\ Store[e].seats[Batch!Index(Store[e], seats[j])] = 0
                /\ \A k \in 1 .. j - 1 : seats[k] # seats[j]
  BY <1>2, <1>3, <1>4 DEF FreeSeats, SeatExists, SeatOf
<1> QED
  BY <1>2, <1>3, <1>4, <1>5

------------------------------------------------------------------------------
\* The steps that the abstract store takes

LEMMA AppendIs ==
  ASSUME NEW S, NEW s \in Seq(S), NEW v
  PROVE  Append(s, v) = [e \in 1 .. Len(s) + 1 |-> IF e = Len(s) + 1 THEN v ELSE s[e]]
<1>1. s \in Seq(S \cup {v}) /\ v \in S \cup {v} /\ Len(s) \in Nat
  OBVIOUS
<1>2. /\ Append(s, v) \in Seq(S \cup {v}) /\ Len(Append(s, v)) = Len(s) + 1
      /\ \A e \in 1 .. Len(s) : Append(s, v)[e] = s[e]
      /\ Append(s, v)[Len(s) + 1] = v
  BY <1>1, AppendOne
<1>3. ASSUME NEW e \in 1 .. Len(s) + 1
      PROVE  Append(s, v)[e] = IF e = Len(s) + 1 THEN v ELSE s[e]
  <2>1. CASE e = Len(s) + 1
    BY <1>2, <2>1
  <2>2. CASE e # Len(s) + 1
    <3>1. e \in 1 .. Len(s)
      BY <1>1, <2>2
    <3> QED
      BY <1>2, <2>2, <3>1
  <2> QED
    BY <2>1, <2>2
<1>4. Append(s, v) \in [1 .. Len(s) + 1 -> S \cup {v}]
  <2> DEFINE x == Append(s, v)
  <2>1. x \in Seq(S \cup {v}) /\ Len(x) = Len(s) + 1
    BY <1>2
  <2> HIDE DEF x
  <2>2. x \in [1 .. Len(x) -> S \cup {v}]
    BY <2>1
  <2> QED
    BY <2>1, <2>2 DEF x
<1> QED
  BY <1>3, <1>4

LEMMA CallRefines ==
  ASSUME RInv, RInv', NEW t \in Threads, NEW c \in Commands, Call(t, c)
  PROVE  Batch!Call(t, c)
<1>1. Acts(t) /\ pc[t] = "idle" /\ pc'[t] = "lock_list"
  BY DEF Acts, Call, Goto, RInv, IInv, Typed, ThreadsOK
<1>2. command[t] = NoCommand /\ command' = [command EXCEPT ![t] = c]
  BY <1>1 DEF Call, RInv, IInv, AllPlaced, Placed
<1>3. Store' = Store
  <2>1. UNCHANGED list /\ ~ Reserved(t)
    BY <1>1 DEF Call, Reserved, Goto
  <2> QED
    BY <1>1, <2>1, StoreStays DEF RInv
<1>4. Output' = Output
  BY <1>1, OutputStays DEF RInv
<1>5. Answers' = Answers
  BY <1>1, AnswersStay DEF AnswerOf, RInv, IInv
<1> QED
  BY <1>2, <1>3, <1>4, <1>5
     DEF Batch!Call, NoCommand, Batch!NoCommand, Store, StoreEvent, Output, Answers, AnswerOf

LEMMA ReturnRefines ==
  ASSUME RInv, RInv', NEW t \in Threads, Return(t)
  PROVE  Batch!Return(t)
<1>1. Acts(t) /\ pc[t] = "return" /\ pc'[t] = "idle"
  BY DEF Acts, Step, Return, Goto, RInv, IInv, Typed, ThreadsOK
<1>2. command' = [command EXCEPT ![t] = NoCommand]
  BY DEF Return
<1>3. Store' = Store
  <2>1. UNCHANGED list /\ ~ Reserved(t)
    BY <1>1 DEF Return, Reserved, Goto
  <2> QED
    BY <1>1, <2>1, StoreStays DEF RInv
<1>4. Output' = Output
  BY <1>1, OutputStays DEF RInv
<1>5. Answers' = [Answers EXCEPT ![t] = -1]
  <2>1. AnswerOf(t)' = -1
    BY <1>1 DEF AnswerOf
  <2> QED
    BY <1>1, <2>1, AnswersStep DEF RInv, IInv
<1>6. Answers[t] # -1
  <2>1. res[t] \in {0, 1}
    BY DEF RInv, IInv, Typed, ThreadsOK
  <2> QED
    BY <1>1, <2>1 DEF Answers, AnswerOf
<1> QED
  BY <1>2, <1>3, <1>4, <1>5, <1>6
     DEF Batch!Return, NoCommand, Batch!NoCommand, Store, StoreEvent, Output, Answers, AnswerOf

LEMMA CreateRefines ==
  ASSUME RInv, RInv', NEW t \in Threads, Create(t)
  PROVE  Batch!Create(t)
<1>1. Acts(t) /\ pc[t] = "create" /\ pc'[t] = "return"
  BY DEF Acts, Step, Create, Goto, RInv, IInv, Typed, ThreadsOK
<1>2. command[t] \in Commands /\ command[t].op = "CREATE" /\ res[t] = 0 /\ command' = command
  BY <1>1 DEF Create, RInv, IInv, AllPlaced, Placed, Begun
<1>3. Output' = Output
  BY <1>1, OutputStays DEF RInv
<1>4. Answers' = [Answers EXCEPT ![t] = res'[t]]
  <2>1. AnswerOf(t)' = res'[t]
    BY <1>1 DEF AnswerOf
  <2> QED
    BY <1>1, <2>1, AnswersStep DEF RInv, IInv
<1>5. Batch!Pending(t, "CREATE")
  BY <1>1, <1>2 DEF Batch!Pending
<1>6. CASE UNCHANGED <<list, eventReaders, eventWriter>> /\ res' = [res EXCEPT ![t] = 1]
  <2>1. Store' = Store
    BY <1>1, <1>6, StoreStays DEF RInv, Reserved, Goto
  <2>2. Answers' = [Answers EXCEPT ![t] = 1]
    BY <1>4, <1>6 DEF RInv, IInv, Typed, ThreadsOK
  <2> QED
    BY <1>2, <1>3, <1>5, <2>1, <2>2
       DEF Batch!Create, Batch!Decide, Store, StoreEvent, Output, Answers, AnswerOf
<1>7. CASE ~ (UNCHANGED <<list, eventReaders, eventWriter>> /\ res' = [res EXCEPT ![t] = 1])
  <2> DEFINE rows == command[t].dim[1]
             cols == command[t].dim[2]
             new == [id |-> command[t].id, rows |-> rows, cols |-> cols]
             room == [s \in 0 .. rows * cols - 1 |-> 0]
             added == [id |-> command[t].id, rows |-> rows, cols |-> cols, count |-> 0,
                        seats |-> room]
  <2>1. /\ get_event(command[t].id) = 0 /\ res' = res
        /\ events' = Append(events, new) /\ reservations' = Append(reservations, 0)
        /\ data' = Append(data, room)
    BY <1>7 DEF Create
  <2>2. /\ events \in Seq(EventRecords) /\ reservations \in Seq(Nat) /\ data \in Seq(Rooms)
        /\ Len(reservations) = Len(events) /\ Len(data) = Len(events) /\ Len(events) \in Nat
    BY DEF RInv, IInv, Typed, ListOK
  <2>3. new \in EventRecords /\ room \in Rooms
    <3>1. command[t].dim \in Dims /\ command[t].id \in EventIds
      BY <1>2, CommandFields
    <3> QED
      BY <3>1, BatchDimsAssumption DEF EventRecords, Rooms
  <2> HIDE DEF new, room
  <2>a. PICK n \in Nat : n = Len(events) + 1
    BY <2>2
  <2>4. Len(events') = n /\ events'[n] = new /\ \A e \in 1 .. Len(events) : events'[e] = events[e]
    BY <2>1, <2>2, <2>3, <2>a, AppendOne
  <2>5. reservations'[n] = 0 /\ \A e \in 1 .. Len(events) : reservations'[e] = reservations[e]
    <3>1. /\ reservations' = Append(reservations, 0) /\ reservations \in Seq(Nat)
          /\ n = Len(reservations) + 1
      BY <2>1, <2>2, <2>a
    <3> QED
      BY <2>2, <3>1
  <2>6. data'[n] = room /\ \A e \in 1 .. Len(events) : data'[e] = data[e]
    BY <2>1, <2>2, <2>3, <2>a, AppendOne
  <2>7. \A u \in Threads : \A e : ~ Taking(e, u)
    <3>1. InList(t) /\ Writes(t)
      BY <1>1, <1>2 DEF InList, Writes
    <3>2. \A u \in Threads : pc[u] = "take" => InList(u)
      BY DEF InList
    <3>3. \A u \in Threads : pc[u] # "take"
      BY <1>1, <3>1, <3>2, WriterAlone DEF RInv
    <3> QED
      BY <3>3 DEF Taking
  <2>8. \A u \in Threads : \A e : ~ Taking(e, u)'
    <3>1. \A u \in Threads : pc'[u] # "take"
      BY <1>1, <2>7, OthersStay DEF Taking, RInv, IInv, Typed
    <3> QED
      BY <3>1 DEF Taking
  <2>9. ASSUME NEW e \in 1 .. Len(events) PROVE StoreEvent(e)' = StoreEvent(e)
    <3>1. Count(e)' = Count(e)
      BY <2>5, <2>7, <2>8 DEF Count
    <3>2. Taken(e)' = Taken(e)
      BY <2>6, <2>7, <2>8 DEF Taken
    <3> QED
      BY <2>4, <3>1, <3>2 DEF StoreEvent
  <2>10. StoreEvent(n)' = added
    <3>1. Count(n)' = 0
      BY <2>5, <2>8 DEF Count
    <3>2. Taken(n)' = room
      BY <2>6, <2>8 DEF Taken, room
    <3> QED
      BY <2>4, <3>1, <3>2 DEF StoreEvent, new
  <2>11. Store' = Append(Store, added)
    <3> HIDE DEF added
    <3>1. Store \in Seq({StoreEvent(e) : e \in 1 .. Len(events)}) /\ Len(Store) = Len(events)
      BY <2>2 DEF Store
    <3>2. Append(Store, added) = [e \in 1 .. n |-> IF e = n THEN added ELSE Store[e]]
      BY <2>a, <3>1, AppendIs
    <3>3. Store' = [e \in 1 .. n |-> StoreEvent(e)']
      BY <2>4 DEF Store
    <3>4. \A e \in 1 .. n : StoreEvent(e)' = IF e = n THEN added ELSE Store[e]
      <4>1. ASSUME NEW e \in 1 .. n, e # n PROVE StoreEvent(e)' = Store[e]
        <5>1. e \in 1 .. Len(events)
          BY <2>2, <2>a, <4>1
        <5> QED
          BY <2>9, <5>1 DEF Store
      <4> QED
        BY <2>10, <4>1
    <3> QED
      BY <3>2, <3>3, <3>4
  <2> QED
    BY <1>2, <1>3, <1>4, <1>5, <2>1, <2>11, SamePosition
       DEF Batch!Create, Batch!Decide, Store, StoreEvent, Output, Answers, AnswerOf, room
<1> QED
  BY <1>6, <1>7

------------------------------------------------------------------------------
\* The steps that the abstract store does not see

LEMMA QuietStep ==
  ASSUME RInv, RInv', NEW t \in Threads, Acts(t), UNCHANGED list, ~ Reserved(t),
         pc[t] # "print", AnswerOf(t)' = AnswerOf(t), command' = command
  PROVE  UNCHANGED Batch!vars
<1>1. Store' = Store
  BY StoreStays DEF RInv
<1>2. Output' = Output
  BY OutputStays DEF RInv
<1>3. Answers' = Answers
  BY AnswersStay DEF RInv, IInv
<1> QED
  BY <1>1, <1>2, <1>3, Stutters

LEMMA LocksRefine ==
  ASSUME RInv, RInv', NEW t \in Threads,
         LockList(t) \/ LockToShow(t) \/ LockOut(t) \/ Unlock(t) \/ UnlockOut(t)
  PROVE  UNCHANGED Batch!vars
<1>1. Acts(t)
  BY DEF Acts, Locking, Step
<1>2. UNCHANGED list /\ command' = command /\ res' = res
  <2>1. CASE LockList(t) \/ LockToShow(t) \/ LockOut(t)
    BY <2>1 DEF LockList, LockToShow, LockOut, locals, list
  <2>2. CASE Unlock(t) \/ UnlockOut(t)
    BY <2>2 DEF Unlock, UnlockOut, locals, list
  <2> QED
    BY <2>1, <2>2
<1>3. pc[t] # "print" /\ pc[t] # "take" /\ AnswerOf(t)' = AnswerOf(t)
  <2>1. pc \in [Threads -> Labels]
    BY DEF RInv, IInv, Typed, ThreadsOK
  <2>2. CASE LockList(t)
    BY <1>2, <2>1, <2>2 DEF LockList, Goto, AnswerOf
  <2>3. CASE LockToShow(t) \/ LockOut(t)
    BY <1>2, <2>1, <2>3 DEF LockToShow, LockOut, Goto, AnswerOf
  <2>4. CASE Unlock(t) \/ UnlockOut(t)
    BY <1>2, <2>1, <2>4 DEF Unlock, UnlockOut, Goto, AnswerOf
  <2> QED
    BY <2>2, <2>3, <2>4
<1> QED
  BY <1>1, <1>2, <1>3, QuietStep DEF Reserved, Goto

LEMMA PrefixOfNumbers ==
  ASSUME NEW s \in Seq(Nat), NEW n \in Int, n <= Len(s)
  PROVE  /\ SubSeq(s, 1, n) \in Seq(Nat)
         /\ n \in Nat => Len(SubSeq(s, 1, n)) = n
         /\ \A k \in 1 .. n : SubSeq(s, 1, n)[k] = s[k]
<1>1. Len(s) \in Nat
  OBVIOUS
<1>2. \A k \in 1 .. n : s[k] \in Nat
  BY <1>1
<1>3. CASE n < 1
  <2>1. SubSeq(s, 1, n) = <<>>
    BY <1>3, SubSeqEmpty
  <2>2. <<>> \in Seq(Nat) /\ Len(<<>>) = 0
    OBVIOUS
  <2> QED
    BY <1>3, <2>1, <2>2
<1>4. CASE n >= 1
  BY <1>1, <1>2, <1>4
<1> QED
  BY <1>3, <1>4

LEMMA OutputIsNumbers ==
  ASSUME RInv
  PROVE  Output \in Seq(Nat) /\ Printing \in 0 .. Len(out) /\ Len(out) \in Nat
<1>1. out \in Seq(Nat) /\ Len(out) \in Nat
  BY DEF RInv, IInv, Typed, FileOK
<1>2. Printing \in Nat
  BY PrintingIsCount DEF RInv
<1>3. Printing <= Len(out)
  <2>1. ASSUME NEW t \in Threads, pc[t] = "print" PROVE Printing <= Len(out)
    BY <2>1, PrintingOf DEF RInv, EndsWithBlock, PrintedSoFar
  <2>2. CASE \A t \in Threads : pc[t] # "print"
    BY <1>1, <2>2, NobodyPrints
  <2> QED
    BY <2>1, <2>2
<1>4. Len(out) - Printing \in Int /\ Len(out) - Printing <= Len(out)
  BY <1>1, <1>2
<1> QED
  BY <1>1, <1>2, <1>3, <1>4, PrefixOfNumbers DEF Output

LEMMA FindRefines ==
  ASSUME RInv, RInv', NEW t \in Threads, Find(t)
  PROVE  Batch!Reserve(t) \/ Batch!Show(t) \/ UNCHANGED Batch!vars
<1> DEFINE e == get_event(command[t].id)
<1>1. /\ Acts(t) /\ pc[t] = "find" /\ pc'[t] = IF e = 0 THEN "return" ELSE "lock_event"
  BY DEF Acts, Step, Find, Goto, RInv, IInv, Typed, ThreadsOK
<1>2. UNCHANGED list /\ command' = command
  BY DEF Find, list
<1>3. ~ Reserved(t)
  BY <1>1 DEF Reserved, Goto
<1>4. Store' = Store
  BY <1>1, <1>2, <1>3, StoreStays DEF RInv
<1>5. Output' = Output
  BY <1>1, OutputStays DEF RInv
<1>6. command[t].op \in {"RESERVE", "SHOW"}
  BY <1>1 DEF RInv, IInv, AllPlaced, Placed
<1>7. CASE e # 0
  BY <1>1, <1>2, <1>3, <1>7, QuietStep DEF AnswerOf
<1>8. CASE e = 0
  <2>1. res'[t] = 1
    BY <1>8 DEF Find, RInv, IInv, Typed, ThreadsOK
  <2>2. Answers' = [Answers EXCEPT ![t] = 1]
    <3>1. AnswerOf(t)' = 1
      BY <1>1, <1>8, <2>1 DEF AnswerOf
    <3> QED
      BY <1>1, <3>1, AnswersStep DEF RInv, IInv
  <2>3. Batch!Position(command[t].id) = 0
    BY <1>8, SamePosition
  <2>4. Answers[t] = -1
    BY <1>1 DEF Answers, AnswerOf
  <2>5. CASE command[t].op = "RESERVE"
    BY <1>2, <1>4, <1>5, <2>2, <2>3, <2>4, <2>5
       DEF Batch!Reserve, Batch!Pending, Batch!Decide, Store, StoreEvent, Output, Answers, AnswerOf
  <2>6. CASE command[t].op = "SHOW"
    <3>1. Output' = Output \o SubSeq(<<>>, 1, 0) /\ 0 \in 0 .. Len(<<>>)
      <4>2. SubSeq(<<>>, 1, 0) = <<>>
        OBVIOUS
      <4>3. Output \in Seq(Nat)
        BY OutputIsNumbers
      <4>4. Output \o <<>> = Output
        BY <4>3
      <4>5. Output \o SubSeq(<<>>, 1, 0) = Output
        BY <4>2, <4>4
      <4>6. Len(<<>>) = 0
        OBVIOUS
      <4>7. 0 \in 0 .. Len(<<>>)
        BY <4>6
      <4> HIDE DEF e
      <4> QED
        BY <1>5, <4>5, <4>7
    <3>2. Batch!PrintBlock(t, <<>>)
      BY <1>2, <1>4, <2>2, <3>1
         DEF Batch!PrintBlock, Batch!Decide, Store, StoreEvent, Output, Answers, AnswerOf
    <3>3. Batch!Pending(t, "SHOW")
      BY <2>4, <2>6 DEF Batch!Pending, Answers, AnswerOf
    <3>4. Answers'[t] = 1
      BY <2>2 DEF Answers
    <3> QED
      BY <2>3, <3>2, <3>3, <3>4 DEF Batch!Show, Answers, AnswerOf
  <2> QED
    BY <1>6, <2>5, <2>6
<1> QED
  BY <1>7, <1>8

------------------------------------------------------------------------------
\* The seats of a RESERVE are taken at its end, all of them, or not at all

(* While a thread reserves, the store is the list without its seats.       *)
StoreWithout(t) ==
  \A e \in 1 .. Len(events) :
    /\ Count(e) = IF e = event[t] THEN reservations[e] - 1 ELSE reservations[e]
    /\ Taken(e) = [s \in DOMAIN data[e] |->
                     IF e = event[t] /\ data[e][s] = rid[t] THEN 0 ELSE data[e][s]]

StoreIsList ==
  \A e \in 1 .. Len(events) :
    Count(e) = reservations[e] /\ Taken(e) = [s \in DOMAIN data[e] |-> data[e][s]]

LEMMA WithoutOne ==
  ASSUME NEW t \in Threads, pc[t] = "take", \A u \in Threads : u # t => pc[u] # "take"
  PROVE  StoreWithout(t)
<1> SUFFICES ASSUME NEW e \in 1 .. Len(events)
             PROVE  /\ Count(e) = IF e = event[t] THEN reservations[e] - 1 ELSE reservations[e]
                    /\ Taken(e) = [s \in DOMAIN data[e] |->
                         IF e = event[t] /\ data[e][s] = rid[t] THEN 0 ELSE data[e][s]]
  BY DEF StoreWithout
<1>1. \A u \in Threads : Taking(e, u) <=> u = t /\ e = event[t]
  BY DEF Taking
<1>2. \A s : (\E u \in Threads : Taking(e, u) /\ data[e][s] = rid[u])
               <=> e = event[t] /\ data[e][s] = rid[t]
  BY <1>1
<1>3. (\E u \in Threads : Taking(e, u)) <=> e = event[t]
  BY <1>1
<1> QED
  BY <1>2, <1>3 DEF Taken, Count

LEMMA WithoutOneLater ==
  ASSUME NEW t \in Threads, pc'[t] = "take", \A u \in Threads : u # t => pc'[u] # "take"
  PROVE  StoreWithout(t)'
<1> SUFFICES ASSUME NEW e \in 1 .. Len(events')
             PROVE  /\ Count(e)' = IF e = event'[t] THEN reservations'[e] - 1 ELSE reservations'[e]
                    /\ Taken(e)' = [s \in DOMAIN data'[e] |->
                         IF e = event'[t] /\ data'[e][s] = rid'[t] THEN 0 ELSE data'[e][s]]
  BY DEF StoreWithout
<1>1. \A u \in Threads : Taking(e, u)' <=> u = t /\ e = event'[t]
  BY DEF Taking
<1>2. \A s : (\E u \in Threads : Taking(e, u)' /\ data'[e][s] = rid'[u])
               <=> e = event'[t] /\ data'[e][s] = rid'[t]
  BY <1>1
<1>3. (\E u \in Threads : Taking(e, u)') <=> e = event'[t]
  BY <1>1
<1> QED
  BY <1>2, <1>3 DEF Taken, Count

LEMMA WithoutAny ==
  ASSUME \A u \in Threads : pc[u] # "take"
  PROVE  StoreIsList
BY DEF StoreIsList, Taken, Count, Taking

LEMMA WithoutAnyLater ==
  ASSUME \A u \in Threads : pc'[u] # "take"
  PROVE  StoreIsList'
BY DEF StoreIsList, Taken, Count, Taking

(* Nobody else reserves beside a thread that does.                         *)
LEMMA ReservesAlone ==
  ASSUME IInv, NEW t \in Threads, Acts(t), pc[t] \in {"lock_event", "take"}, Writes(t),
         NEW u \in Threads, u # t
  PROVE  pc[u] # "take" /\ pc'[u] # "take"
<1>1. pc[u] # "take"
  BY WriterAlone DEF InList
<1> QED
  BY <1>1, OthersStay DEF IInv, Typed

LEMMA TakesAsWriter ==
  ASSUME IInv, NEW t \in Threads, pc[t] = "take"
  PROVE  Writes(t)
BY TakingAlone DEF IInv, Writes

LEMMA LockToReserveRefines ==
  ASSUME RInv, RInv', NEW t \in Threads, LockToReserve(t)
  PROVE  UNCHANGED Batch!vars
<1> DEFINE e == event[t]
<1>1. /\ Acts(t) /\ pc[t] = "lock_event" /\ pc'[t] = "take" /\ Writes(t)
  BY DEF Acts, Locking, LockToReserve, Goto, RInv, IInv, Typed, ThreadsOK
<1>2. /\ events' = events /\ data' = data /\ event' = event /\ command' = command /\ res' = res
      /\ rid'[t] = reservations[e] + 1
      /\ reservations' = [reservations EXCEPT ![e] = reservations[e] + 1]
  BY DEF LockToReserve, RInv, IInv, Typed, ThreadsOK
<1>3. e \in 1 .. Len(events) /\ reservations[e] \in Nat
  BY <1>1, ItsEvent, ListFacts DEF RInv, IInv, Typed, AllPlaced, Placed, Writes
<1>4. StoreIsList
  BY <1>1, ReservesAlone, WithoutAny DEF RInv
<1>5. StoreWithout(t)'
  BY <1>1, ReservesAlone, WithoutOneLater DEF RInv
<1>6. ASSUME NEW f \in 1 .. Len(events) PROVE StoreEvent(f)' = StoreEvent(f)
  <2>1. reservations \in [1 .. Len(events) -> Nat] /\ data[f] \in [SeatsOf(f) -> Nat]
    BY ListFacts, RoomIsNumbers DEF RInv, IInv, Typed
  <2>2. /\ Count(f) = reservations[f] /\ Taken(f) = [s \in DOMAIN data[f] |-> data[f][s]]
    BY <1>4 DEF StoreIsList
  <2>3. /\ Count(f)' = IF f = e THEN reservations'[f] - 1 ELSE reservations'[f]
        /\ Taken(f)' = [s \in DOMAIN data[f] |->
                          IF f = e /\ data[f][s] = rid'[t] THEN 0 ELSE data[f][s]]
    BY <1>2, <1>5 DEF StoreWithout
  <2>4. Count(f)' = Count(f)
    BY <1>2, <1>3, <2>1, <2>2, <2>3
  <2>5. \A s \in DOMAIN data[f] : ~ (f = e /\ data[f][s] = rid'[t])
    <3>1. \A s \in DOMAIN data[f] : data[f][s] <= reservations[f] /\ data[f][s] \in Nat
      BY <2>1 DEF RInv, IInv, NumbersGiven
    <3> QED
      BY <1>2, <1>3, <3>1
  <2>6. Taken(f)' = Taken(f)
    BY <2>2, <2>3, <2>5
  <2> QED
    BY <1>2, <2>4, <2>6 DEF StoreEvent
<1>7. Store' = Store
  BY <1>2, <1>6 DEF Store
<1>8. Output' = Output
  BY <1>1, OutputStays DEF RInv
<1>9. Answers' = Answers
  BY <1>1, AnswersStay DEF RInv, IInv, AnswerOf
<1> QED
  BY <1>2, <1>7, <1>8, <1>9, Stutters

LEMMA TakeSeatRefines ==
  ASSUME RInv, RInv', NEW t \in Threads, TakeSeat(t)
  PROVE  UNCHANGED Batch!vars
<1> DEFINE e == event[t]
           x == seat_index(e, Seat(t))
<1>1. /\ Acts(t) /\ pc[t] = "take" /\ pc'[t] = "take"
  BY DEF Acts, Step, TakeSeat, Goto, RInv, IInv, Typed, ThreadsOK
<1>2. /\ events' = events /\ reservations' = reservations /\ event' = event
      /\ command' = command /\ res' = res /\ rid' = rid /\ CanTake(t)
      /\ data' = [data EXCEPT ![e][x] = rid[t]]
  BY DEF TakeSeat
<1>3. Writes(t)
  BY <1>1, TakesAsWriter DEF RInv
<1>4. StoreWithout(t)
  BY <1>1, <1>3, ReservesAlone, WithoutOne DEF RInv
<1>5. StoreWithout(t)'
  BY <1>1, <1>3, ReservesAlone, WithoutOneLater DEF RInv
<1>6. data[e][x] = 0 /\ data \in [1 .. Len(events) -> Rooms]
  BY <1>2, ListFacts DEF CanTake, RInv, IInv, Typed
<1>7. ASSUME NEW f \in 1 .. Len(events) PROVE StoreEvent(f)' = StoreEvent(f)
  <2>1. Count(f)' = Count(f)
    BY <1>2, <1>4, <1>5 DEF StoreWithout
  <2>2. Taken(f)' = Taken(f)
    <3>1. /\ Taken(f) = [s \in DOMAIN data[f] |->
                           IF f = e /\ data[f][s] = rid[t] THEN 0 ELSE data[f][s]]
          /\ Taken(f)' = [s \in DOMAIN data'[f] |->
                           IF f = e /\ data'[f][s] = rid[t] THEN 0 ELSE data'[f][s]]
      BY <1>2, <1>4, <1>5 DEF StoreWithout
    <3> HIDE DEF e, x
    <3>2. CASE f # e
      BY <1>2, <1>6, <3>1, <3>2
    <3>3. CASE f = e
      <4>1. data'[e] = [data[e] EXCEPT ![x] = rid[t]]
        BY <1>2, <1>6, <3>3
      <4>2. DOMAIN data'[e] = DOMAIN data[e]
        BY <4>1
      <4>3. \A s \in DOMAIN data[e] : data'[e][s] = IF s = x THEN rid[t] ELSE data[e][s]
        BY <4>1
      <4> QED
        BY <1>6, <3>1, <3>3, <4>2, <4>3
    <3> QED
      BY <3>2, <3>3
  <2> QED
    BY <1>2, <2>1, <2>2 DEF StoreEvent
<1>8. Store' = Store
  BY <1>2, <1>7 DEF Store
<1>9. Output' = Output
  BY <1>1, OutputStays DEF RInv
<1>10. Answers' = Answers
  BY <1>1, <1>2, AnswersStay DEF RInv, IInv, AnswerOf
<1> QED
  BY <1>2, <1>8, <1>9, <1>10, Stutters

(* What a RESERVE in its loop knows of the abstract store.                 *)
LEMMA ReserveFacts ==
  ASSUME RInv, NEW t \in Threads, pc[t] = "take"
  PROVE  /\ event[t] \in 1 .. Len(events) /\ Batch!Position(command[t].id) = event[t]
         /\ Writes(t) /\ StoreWithout(t) /\ Answers[t] = -1 /\ command[t].op = "RESERVE"
         /\ res[t] = 0 /\ i[t] \in Nat
         /\ reservations[event[t]] \in Nat /\ rid[t] = reservations[event[t]]
<1>1. /\ event[t] \in 1 .. Len(events) /\ command[t].op = "RESERVE" /\ i[t] \in Nat
      /\ reservations[event[t]] \in Nat
  BY TakingAlone DEF RInv, IInv
<1>2. Batch!Position(command[t].id) = event[t]
  <2>1. events[event[t]].id = command[t].id
    BY <1>1 DEF RInv, Found
  <2>2. Len(events) \in Nat
    BY ListFacts DEF RInv, IInv, Typed
  <2>3. get_event(command[t].id) # 0
    BY <1>1, <2>1, <2>2, GetEventFinds
  <2>4. /\ get_event(command[t].id) \in 1 .. Len(events)
        /\ events[get_event(command[t].id)].id = command[t].id
    BY <2>2, <2>3, GetEventFinds
  <2> QED
    BY <1>1, <2>1, <2>4, SamePosition DEF RInv, OneId
<1>3. Writes(t)
  BY <1>1 DEF Writes
<1>4. StoreWithout(t)
  <2>1. \A u \in Threads : u # t => pc[u] # "take"
    BY <1>3, WriterAlone DEF RInv, InList
  <2> QED
    BY <2>1, WithoutOne
<1>5. Answers[t] = -1 /\ res[t] = 0
  BY DEF Answers, AnswerOf, RInv, IInv, AllPlaced, Placed
<1>6. rid[t] = reservations[event[t]]
  BY DEF RInv, IInv, NumberTaken
<1> QED
  BY <1>1, <1>2, <1>3, <1>4, <1>5, <1>6

LEMMA RefuseRefines ==
  ASSUME RInv, RInv', NEW t \in Threads, Refuse(t)
  PROVE  Batch!Reserve(t)
<1> DEFINE e == event[t]
           seats == command[t].seats
           taken == {seat_index(e, seats[j]) : j \in 1 .. i[t]}
<1>1. /\ Acts(t) /\ pc[t] = "take" /\ pc'[t] = "unlock" /\ i[t] < Len(seats) /\ ~ CanTake(t)
  BY DEF Acts, Step, Refuse, Goto, RInv, IInv, Typed, ThreadsOK
<1>2. /\ events' = events /\ event' = event /\ command' = command /\ res' = [res EXCEPT ![t] = 1]
      /\ reservations' = [reservations EXCEPT ![e] = reservations[e] - 1]
      /\ data' = [data EXCEPT ![e] =
                    [s \in DOMAIN data[e] |-> IF s \in taken THEN 0 ELSE data[e][s]]]
  BY DEF Refuse
<1>3. /\ e \in 1 .. Len(events) /\ Batch!Position(command[t].id) = e
      /\ Writes(t) /\ StoreWithout(t) /\ Answers[t] = -1 /\ command[t].op = "RESERVE"
  BY <1>1, ReserveFacts
<1>4. StoreIsList'
  <2>1. \A u \in Threads : u # t => pc'[u] # "take"
    BY <1>1, <1>3, ReservesAlone DEF RInv
  <2> QED
    BY <1>1, <2>1, WithoutAnyLater
<1>5. \A s \in DOMAIN data[e] : s \in taken <=> data[e][s] = rid[t]
  BY <1>1, ZenonT(30) DEF RInv, IInv, SeatsTaken, Idx, SeatOf
<1> HIDE DEF e, seats, taken
<1>6. ASSUME NEW f \in 1 .. Len(events) PROVE StoreEvent(f)' = StoreEvent(f)
  <2>1. reservations \in [1 .. Len(events) -> Nat] /\ data \in [1 .. Len(events) -> Rooms]
    BY ListFacts DEF RInv, IInv, Typed
  <2>2. Count(f)' = reservations'[f] /\ Taken(f)' = [s \in DOMAIN data'[f] |-> data'[f][s]]
    BY <1>2, <1>4 DEF StoreIsList
  <2>3. /\ Count(f) = IF f = e THEN reservations[f] - 1 ELSE reservations[f]
        /\ Taken(f) = [s \in DOMAIN data[f] |->
                         IF f = e /\ data[f][s] = rid[t] THEN 0 ELSE data[f][s]]
    BY <1>3 DEF StoreWithout, e
  <2>4. Count(f)' = Count(f)
    BY <1>2, <2>1, <2>2, <2>3
  <2>5. Taken(f)' = Taken(f)
    <3>1. CASE f # e
      <4>1. data'[f] = data[f]
        BY <1>2, <2>1, <3>1
      <4> QED
        BY <2>2, <2>3, <3>1, <4>1
    <3>2. CASE f = e
      <4>1. data'[f] = [s \in DOMAIN data[f] |-> IF s \in taken THEN 0 ELSE data[f][s]]
        BY <1>2, <2>1, <3>2
      <4>2. DOMAIN data'[f] = DOMAIN data[f]
        BY <4>1
      <4>3. \A s \in DOMAIN data[f] : data'[f][s] = IF data[f][s] = rid[t] THEN 0 ELSE data[f][s]
        BY <1>5, <3>2, <4>1
      <4> QED
        BY <2>2, <2>3, <3>2, <4>2, <4>3
    <3> QED
      BY <3>1, <3>2
  <2> QED
    BY <1>2, <2>4, <2>5 DEF StoreEvent
<1>7. Store' = Store
  BY <1>2, <1>6 DEF Store
<1>8. Output' = Output
  BY <1>1, OutputStays DEF RInv
<1>9. Answers' = [Answers EXCEPT ![t] = 1]
  <2>1. AnswerOf(t)' = 1
    BY <1>1, <1>2 DEF AnswerOf, RInv, IInv, Typed, ThreadsOK
  <2> QED
    BY <1>1, <2>1, AnswersStep DEF RInv, IInv
<1>10. ~ FreeSeats(t)
  BY <1>1, RefusedWasNotFree DEF RInv, seats
<1>11. FreeSeats(t) <=>
         \A j \in DOMAIN seats :
           /\ seats[j][1] \in 1 .. Store[e].rows
           /\ seats[j][2] \in 1 .. Store[e].cols
           /\ Store[e].seats[Batch!Index(Store[e], seats[j])] = 0
           /\ \A k \in 1 .. j - 1 : seats[k] # seats[j]
  BY <1>1, FreeInStore DEF e, seats
<1>12. UNCHANGED Store /\ UNCHANGED Output
  BY <1>7, <1>8
<1> QED
  BY <1>2, <1>3, <1>7, <1>8, <1>9, <1>10, <1>11
     DEF Batch!Reserve, Batch!Pending, Batch!Decide, Store, StoreEvent, Output, Answers, AnswerOf,
         e, seats

(* What the abstract RESERVE finds and makes of the event at position x.   *)
AllFree(t, x) ==
  \A j \in DOMAIN command[t].seats :
    /\ command[t].seats[j][1] \in 1 .. Store[x].rows
    /\ command[t].seats[j][2] \in 1 .. Store[x].cols
    /\ Store[x].seats[Batch!Index(Store[x], command[t].seats[j])] = 0
    /\ \A k \in 1 .. j - 1 : command[t].seats[k] # command[t].seats[j]

StoreReserved(t, x) ==
  [Store EXCEPT
     ![x].count = @ + 1,
     ![x].seats = [s \in DOMAIN @ |->
        IF \E j \in DOMAIN command[t].seats : Batch!Index(Store[x], command[t].seats[j]) = s
        THEN Store[x].count + 1 ELSE @[s]]]

LEMMA ReservedRefines ==
  ASSUME RInv, RInv', NEW t \in Threads, Reserved(t)
  PROVE  Batch!Reserve(t)
<1>a. PICK e \in 1 .. Len(events) : e = event[t]
  BY ReserveFacts DEF Reserved, Goto
<1> DEFINE seats == command[t].seats
           new == StoreReserved(t, e)
<1>1. /\ Acts(t) /\ pc[t] = "take" /\ pc'[t] = "unlock" /\ i[t] = Len(seats)
  BY DEF Acts, Step, Reserved, Goto, RInv, IInv, Typed, ThreadsOK
<1>2. /\ events' = events /\ event' = event /\ command' = command /\ res' = res
      /\ reservations' = reservations /\ data' = data
  BY DEF Reserved, list, locals
<1>3. /\ e \in 1 .. Len(events) /\ Batch!Position(command[t].id) = e
      /\ Writes(t) /\ StoreWithout(t) /\ Answers[t] = -1 /\ command[t].op = "RESERVE"
      /\ res[t] = 0 /\ reservations[e] \in Nat /\ rid[t] = reservations[e]
  BY <1>a, <1>1, ReserveFacts
<1>4. StoreIsList'
  <2>1. \A u \in Threads : u # t => pc'[u] # "take"
    BY <1>1, <1>3, ReservesAlone DEF RInv
  <2> QED
    BY <1>1, <2>1, WithoutAnyLater
<1>5. /\ e \in DOMAIN Store /\ DOMAIN seats = 1 .. Len(seats)
      /\ \A j \in DOMAIN seats : Batch!Index(Store[e], seats[j]) = Idx(t, j)
      /\ FreeSeats(t) <=>
         \A j \in DOMAIN seats :
           /\ seats[j][1] \in 1 .. Store[e].rows
           /\ seats[j][2] \in 1 .. Store[e].cols
           /\ Store[e].seats[Batch!Index(Store[e], seats[j])] = 0
           /\ \A k \in 1 .. j - 1 : seats[k] # seats[j]
  BY <1>a, <1>1, FreeInStore DEF seats
<1>6. \A s \in DOMAIN data[e] :
        data[e][s] = rid[t] <=> \E j \in DOMAIN seats : Batch!Index(Store[e], seats[j]) = s
  <2>1. \A s \in DOMAIN data[e] : data[e][s] = rid[t] <=> \E j \in 1 .. i[t] : s = Idx(t, j)
    BY <1>a, <1>1 DEF RInv, IInv, SeatsTaken
  <2> HIDE DEF seats
  <2> QED
    BY <1>1, <1>5, <2>1
<1> HIDE DEF seats, new
<1>7. ASSUME NEW f \in 1 .. Len(events)
      PROVE  /\ Count(f)' = IF f = e THEN Count(f) + 1 ELSE Count(f)
             /\ Taken(f)' = [s \in DOMAIN Taken(f) |->
                               IF f = e /\ data[f][s] = rid[t] THEN rid[t] ELSE Taken(f)[s]]
  <2>1. reservations \in [1 .. Len(events) -> Nat] /\ data \in [1 .. Len(events) -> Rooms]
    BY ListFacts DEF RInv, IInv, Typed
  <2>2. Count(f)' = reservations[f] /\ Taken(f)' = [s \in DOMAIN data[f] |-> data[f][s]]
    BY <1>2, <1>4 DEF StoreIsList
  <2>3. /\ Count(f) = IF f = e THEN reservations[f] - 1 ELSE reservations[f]
        /\ Taken(f) = [s \in DOMAIN data[f] |->
                         IF f = e /\ data[f][s] = rid[t] THEN 0 ELSE data[f][s]]
    BY <1>a, <1>3 DEF StoreWithout
  <2>4. Count(f)' = IF f = e THEN Count(f) + 1 ELSE Count(f)
    BY <2>1, <2>2, <2>3
  <2>5. /\ DOMAIN Taken(f) = DOMAIN data[f]
        /\ \A s \in DOMAIN data[f] :
             data[f][s] = IF f = e /\ data[f][s] = rid[t] THEN rid[t] ELSE Taken(f)[s]
    BY <2>3
  <2>6. Taken(f)' = [s \in DOMAIN Taken(f) |->
                       IF f = e /\ data[f][s] = rid[t] THEN rid[t] ELSE Taken(f)[s]]
    BY <2>2, <2>5
  <2> QED
    BY <2>4, <2>6
<1>8. Store' = new
  <2>1. /\ DOMAIN new = DOMAIN Store
        /\ DOMAIN Store = 1 .. Len(events) /\ DOMAIN Store' = 1 .. Len(events)
    BY <1>2 DEF Store, new, StoreReserved
  <2>2. ASSUME NEW f \in 1 .. Len(events), f # e PROVE Store'[f] = new[f]
    <3>1. Store'[f] = StoreEvent(f)' /\ new[f] = StoreEvent(f)
      BY <1>2, <2>2 DEF Store, new, StoreReserved
    <3>2. Count(f)' = Count(f) /\ Taken(f)' = [s \in DOMAIN Taken(f) |-> Taken(f)[s]]
      BY <1>7, <2>2
    <3>3. Taken(f) = [s \in DOMAIN Taken(f) |-> Taken(f)[s]]
      BY DEF Taken
    <3> QED
      BY <1>2, <3>1, <3>2, <3>3 DEF StoreEvent
  <2>3. Store'[e] = new[e]
    <3> DEFINE given == [s \in DOMAIN Taken(e) |->
                           IF \E j \in DOMAIN seats : Batch!Index(Store[e], seats[j]) = s
                           THEN Count(e) + 1 ELSE Taken(e)[s]]
    <3>1. Store[e] = StoreEvent(e) /\ Store[e].count = Count(e) /\ Store[e].seats = Taken(e)
      BY <1>3 DEF Store, StoreEvent
    <3>2. new[e] = [id |-> events[e].id, rows |-> events[e].rows, cols |-> events[e].cols,
                    count |-> Count(e) + 1, seats |-> given]
      <4>1. e \in DOMAIN Store
        BY <1>5
      <4>2. Store[e] = [id |-> events[e].id, rows |-> events[e].rows, cols |-> events[e].cols,
                        count |-> Count(e), seats |-> Taken(e)]
        BY <3>1 DEF StoreEvent
      <4>3. new[e] = [Store[e] EXCEPT !.count = Count(e) + 1, !.seats = given]
        <5> DEFINE room == Store[e].seats
                   taken == [s \in DOMAIN room |->
                     IF \E j \in DOMAIN command[t].seats :
                          Batch!Index(Store[e], command[t].seats[j]) = s
                     THEN Store[e].count + 1 ELSE room[s]]
        <5>1. given = taken
          <6>1. room = Taken(e) /\ Store[e].count = Count(e)
            BY <3>1
          <6> QED
            BY <6>1 DEF seats
        <5>2. [Store EXCEPT ![e].count = @ + 1][e] = [Store[e] EXCEPT !.count = Count(e) + 1]
          BY <4>1, <4>2
        <5>3. [Store EXCEPT ![e].count = @ + 1][e].seats = room
          BY <4>2, <5>2
        <5> HIDE DEF given
        <5>4. new[e] = [[Store EXCEPT ![e].count = @ + 1][e] EXCEPT !.seats = taken]
          BY <4>1, <5>3 DEF new, StoreReserved
        <5> HIDE DEF taken
        <5> QED
          BY <5>1, <5>2, <5>4
      <4> HIDE DEF given, new
      <4>4. PICK mid : mid = [Store[e] EXCEPT !.count = Count(e) + 1]
        OBVIOUS
      <4>5. mid = [id |-> events[e].id, rows |-> events[e].rows, cols |-> events[e].cols,
                   count |-> Count(e) + 1, seats |-> Taken(e)]
        BY <4>2, <4>4
      <4>6. new[e] = [mid EXCEPT !.seats = given]
        BY <4>3, <4>4
      <4>7. [mid EXCEPT !.seats = given]
              = [id |-> events[e].id, rows |-> events[e].rows, cols |-> events[e].cols,
                 count |-> Count(e) + 1, seats |-> given]
        BY <4>5
      <4> QED
        BY <4>6, <4>7, Zenon
    <3>3. Taken(e)' = given
      <4>1. Count(e) + 1 = rid[t] /\ DOMAIN Taken(e) = DOMAIN data[e]
        BY <1>a, <1>3 DEF StoreWithout
      <4>2. Taken(e)' = [s \in DOMAIN Taken(e) |->
                           IF data[e][s] = rid[t] THEN rid[t] ELSE Taken(e)[s]]
        BY <1>3, <1>7
      <4> QED
        BY <1>6, <4>1, <4>2
    <3>4. Store'[e] = [id |-> events[e].id, rows |-> events[e].rows, cols |-> events[e].cols,
                       count |-> Count(e)', seats |-> Taken(e)']
      <4>1. ASSUME NEW f \in 1 .. Len(events)
            PROVE  Store'[f] = [id |-> events[f].id,
                                rows |-> events[f].rows, cols |-> events[f].cols,
                                count |-> Count(f)', seats |-> Taken(f)']
        BY <1>2 DEF Store, StoreEvent
      <4> QED
        BY <1>3, <4>1
    <3>5. Count(e)' = Count(e) + 1
      BY <1>3, <1>7
    <3> HIDE DEF given
    <3> QED
      BY <3>2, <3>3, <3>4, <3>5
  <2> QED
    <3>1. \A f \in 1 .. Len(events) : Store'[f] = new[f]
      BY <2>2, <2>3
    <3>2. Store' = [f \in DOMAIN Store' |-> Store'[f]] /\ new = [f \in DOMAIN new |-> new[f]]
      BY DEF Store, new, StoreReserved
    <3> QED
      BY <2>1, <3>1, <3>2
<1>9. Output' = Output
  BY <1>1, OutputStays DEF RInv
<1>10. Answers' = [Answers EXCEPT ![t] = 0]
  <2>1. AnswerOf(t)' = 0
    BY <1>1, <1>2, <1>3 DEF AnswerOf
  <2> QED
    BY <1>1, <2>1, AnswersStep DEF RInv, IInv
<1>11. FreeSeats(t)
  BY <1>1, ReservedWereFree DEF RInv, seats
<1>12. e # 0 /\ AllFree(t, e)
  BY <1>3, <1>5, <1>11, SMTT(20) DEF AllFree, seats
<1> DEFINE x == Batch!Position(command[t].id)
<1>13. x # 0 /\ AllFree(t, x) /\ Store' = StoreReserved(t, x)
  BY <1>3, <1>8, <1>12 DEF new
<1>14. UNCHANGED <<Output, command>>
  BY <1>2, <1>9
<1> QED
  BY <1>3, <1>10, <1>13, <1>14
     DEF Batch!Reserve, Batch!Pending, Batch!Decide, AllFree, StoreReserved, Store, StoreEvent,
         Output, Answers, AnswerOf

------------------------------------------------------------------------------
\* What a SHOW and a LIST print comes out whole or cut short

LEMMA NumbersEqual ==
  ASSUME NEW a \in Seq(Nat), NEW b \in Seq(Nat), Len(a) = Len(b),
         \A k \in 1 .. Len(a) : a[k] = b[k]
  PROVE  a = b
<1>1. a = [k \in 1 .. Len(a) |-> a[k]] /\ b = [k \in 1 .. Len(b) |-> b[k]]
  OBVIOUS
<1> QED
  BY <1>1

LEMMA NumbersConcat ==
  ASSUME NEW a \in Seq(Nat), NEW b \in Seq(Nat), NEW m, NEW n, m = Len(a), n = Len(b)
  PROVE  /\ a \o b \in Seq(Nat) /\ Len(a \o b) = m + n
         /\ \A k \in 1 .. m + n : (a \o b)[k] = IF k <= m THEN a[k] ELSE b[k - m]
OBVIOUS

LEMMA PrinterAlone ==
  ASSUME IInv, NEW t \in Threads, Acts(t), pc[t] = "print"
  PROVE  \A u \in Threads : u # t => pc[u] # "print" /\ pc'[u] # "print" /\ pc[u] # "take"
<1>1. ASSUME NEW u \in Threads, u # t PROVE pc[u] # "print"
  BY <1>1, PrinterReads
<1>2. ASSUME NEW u \in Threads, pc[u] = "take" PROVE FALSE
  <2>1. InList(u) /\ Writes(u) /\ InList(t) /\ ~ Writes(t)
    BY <1>2, TakesAsWriter, PrinterReads DEF InList
  <2> QED
    BY <2>1, WriterAlone
<1> QED
  BY <1>1, <1>2, OthersStay DEF IInv, Typed

LEMMA WriteRefines ==
  ASSUME RInv, RInv', NEW t \in Threads, Write(t)
  PROVE  UNCHANGED Batch!vars
<1>1. /\ Acts(t) /\ pc[t] = "print" /\ pc'[t] = "print"
  BY DEF Acts, Step, Write, Goto, RInv, IInv, Typed, ThreadsOK
<1>2. /\ UNCHANGED list /\ command' = command /\ out' = Append(out, Word(t)) /\ i'[t] = i[t] + 1
  BY DEF Write, RInv, IInv, Typed, ThreadsOK
<1>3. Store' = Store
  BY <1>1, <1>2, StoreStays DEF Reserved, Goto, RInv
<1>4. Answers' = Answers
  BY <1>1, AnswersStay DEF AnswerOf, RInv, IInv
<1>5. Printing = i[t] /\ Printing' = i'[t]
  <2>1. Printing = i[t]
    BY <1>1, PrintingOf DEF RInv
  <2>2. \A u \in Threads : pc'[u] = "print" <=> u = t
    BY <1>1, PrinterAlone DEF RInv
  <2>3. (CHOOSE u \in Threads : pc'[u] = "print") = t
    BY <2>2
  <2> QED
    BY <2>1, <2>2, <2>3 DEF Printing
<1>6. Output' = Output
  <2>1. /\ i[t] \in Nat /\ Len(out) \in Nat /\ out \in Seq(Nat) /\ out' \in Seq(Nat)
    BY <1>1, PrinterReads DEF RInv, IInv, Typed, FileOK
  <2>2. i[t] <= Len(out)
    BY <1>1 DEF RInv, EndsWithBlock, PrintedSoFar
  <2>3. PICK m \in Nat : m = Len(out)
    BY <2>1
  <2>4. Len(out') = m + 1 /\ \A k \in 1 .. m : out'[k] = out[k]
    BY <1>2, <2>1, <2>3
  <2>5. PICK n \in 0 .. m : n = m - i[t]
    BY <2>1, <2>2, <2>3
  <2>6. Len(out) - Printing = n /\ Len(out') - Printing' = n
    BY <1>2, <1>5, <2>1, <2>3, <2>4, <2>5
  <2>7. /\ SubSeq(out, 1, n) \in Seq(Nat) /\ Len(SubSeq(out, 1, n)) = n
        /\ \A k \in 1 .. n : SubSeq(out, 1, n)[k] = out[k]
    BY <2>1, <2>3, <2>5, PrefixOfNumbers
  <2>8. /\ SubSeq(out', 1, n) \in Seq(Nat) /\ Len(SubSeq(out', 1, n)) = n
        /\ \A k \in 1 .. n : SubSeq(out', 1, n)[k] = out'[k]
    BY <2>1, <2>4, <2>5, PrefixOfNumbers, SMTT(20)
  <2>9. SubSeq(out', 1, n) = SubSeq(out, 1, n)
    BY <2>4, <2>7, <2>8, NumbersEqual
  <2> QED
    BY <2>6, <2>9 DEF Output
<1> QED
  BY <1>2, <1>3, <1>4, <1>6, Stutters

(* The output is what was there before, followed by what t has written.    *)
LEMMA OutputAndBlock ==
  ASSUME RInv, NEW t \in Threads, pc[t] = "print", NEW block \in Seq(Nat), Len(block) = Words(t),
         \A k \in 1 .. Len(block) : block[k] = BlockWord(t, k)
  PROVE  out = Output \o SubSeq(block, 1, i[t]) /\ i[t] \in 0 .. Len(block)
<1> DEFINE part == SubSeq(block, 1, i[t])
<1>1. /\ i[t] \in Nat /\ Len(out) \in Nat /\ out \in Seq(Nat) /\ Len(block) \in Nat
  BY PrinterReads DEF RInv, IInv, Typed, FileOK
<1>2. PrintedSoFar(t)
  BY DEF RInv, EndsWithBlock
<1>3. i[t] <= Len(block) /\ i[t] <= Len(out)
  BY <1>2 DEF PrintedSoFar
<1>4. PICK n \in Nat : n = i[t]
  BY <1>1
<1>5. PICK m \in Nat : m = Len(out) - n
  BY <1>1, <1>3, <1>4
<1>6. m <= Len(out) /\ n <= Len(block) /\ Len(out) = m + n
  BY <1>1, <1>3, <1>4, <1>5
<1>7. /\ part \in Seq(Nat) /\ Len(part) = n
      /\ \A k \in 1 .. n : part[k] = block[k]
  BY <1>4, <1>6, PrefixOfNumbers
<1>8. Output = SubSeq(out, 1, m)
  BY <1>4, <1>5, PrintingOf DEF RInv, Output
<1>9. /\ Output \in Seq(Nat) /\ Len(Output) = m
      /\ \A k \in 1 .. m : Output[k] = out[k]
  BY <1>1, <1>6, <1>8, PrefixOfNumbers
<1> HIDE DEF part
<1>10. /\ Output \o part \in Seq(Nat) /\ Len(Output \o part) = m + n
       /\ \A k \in 1 .. m + n : (Output \o part)[k] = IF k <= m THEN Output[k] ELSE part[k - m]
  <2>1. PICK a \in Seq(Nat), b \in Seq(Nat) : a = Output /\ b = part /\ m = Len(a) /\ n = Len(b)
    BY <1>7, <1>9
  <2>2. /\ a \o b \in Seq(Nat) /\ Len(a \o b) = m + n
        /\ \A k \in 1 .. m + n : (a \o b)[k] = IF k <= m THEN a[k] ELSE b[k - m]
    BY <2>1, NumbersConcat
  <2> QED
    BY <2>1, <2>2
<1>11. ASSUME NEW k \in 1 .. m + n PROVE (Output \o part)[k] = out[k]
  <2>1. CASE k <= m
    BY <1>9, <1>10, <2>1
  <2>2. CASE ~ (k <= m)
    <3>1. PICK j \in 1 .. n : k = m + j
      <4>1. k \in Nat /\ k > m /\ k <= m + n
        BY <2>2
      <4>2. k - m \in 1 .. n /\ k = m + (k - m)
        BY <4>1
      <4> QED
        BY <4>2
    <3>2. out[Len(out) - i[t] + j] = BlockWord(t, j)
      BY <1>2, <1>4 DEF PrintedSoFar
    <3>3. Len(out) - i[t] + j = k /\ k - m = j
      <4>1. Len(out) - i[t] = m
        BY <1>1, <1>4, <1>5
      <4>2. j \in Nat /\ k = m + j
        BY <3>1
      <4>3. Len(out) - i[t] + j = m + j
        BY <4>1
      <4> QED
        BY <4>2, <4>3
    <3>4. j \in 1 .. Len(block)
      BY <1>1, <1>6
    <3>5. part[j] = BlockWord(t, j)
      BY <1>7, <3>4
    <3> QED
      BY <1>10, <2>2, <3>2, <3>3, <3>5
  <2> QED
    BY <2>1, <2>2
<1>12. out = Output \o part
  BY <1>1, <1>6, <1>10, <1>11, NumbersEqual
<1> QED
  BY <1>1, <1>3, <1>12 DEF part

(* The end of a printing command is where the store prints its block.      *)
LEMMA PrintedOut ==
  ASSUME RInv, RInv', NEW t \in Threads, Printed(t) \/ WriteFails(t),
         NEW block \in Seq(Nat), Len(block) = Words(t),
         \A k \in 1 .. Len(block) : block[k] = BlockWord(t, k)
  PROVE  Batch!PrintBlock(t, block)
<1>1. /\ Acts(t) /\ pc[t] = "print" /\ pc'[t] = "unlock" /\ (Printed(t) => i[t] = Words(t))
  BY DEF Acts, Step, Printed, WriteFails, Goto, RInv, IInv, Typed, ThreadsOK
<1>2. /\ UNCHANGED list /\ command' = command /\ out' = out
      /\ (Printed(t) => res' = res) /\ (WriteFails(t) => res' = [res EXCEPT ![t] = 1])
  BY DEF Printed, WriteFails, locals
<1>3. Store' = Store
  BY <1>1, <1>2, StoreStays DEF Reserved, Goto, RInv
<1>4. Answers' = [Answers EXCEPT ![t] = res'[t]]
  <2>1. AnswerOf(t)' = res'[t]
    BY <1>1 DEF AnswerOf
  <2> QED
    BY <1>1, <2>1, AnswersStep DEF RInv, IInv
<1>5. Output' = Output \o SubSeq(block, 1, i[t]) /\ i[t] \in 0 .. Len(block)
  <2>1. \A u \in Threads : pc'[u] # "print"
    BY <1>1, PrinterAlone DEF RInv
  <2>2. Printing' = 0
    BY <2>1 DEF Printing
  <2>3. out \in Seq(Nat) /\ Len(out) \in Nat /\ Len(out) - 0 = Len(out)
    BY DEF RInv, IInv, Typed, FileOK
  <2>4. SubSeq(out, 1, Len(out)) = out
    <3>1. /\ SubSeq(out, 1, Len(out)) \in Seq(Nat) /\ Len(SubSeq(out, 1, Len(out))) = Len(out)
          /\ \A k \in 1 .. Len(out) : SubSeq(out, 1, Len(out))[k] = out[k]
      BY <2>3, PrefixOfNumbers
    <3> QED
      BY <2>3, <3>1, NumbersEqual
  <2>5. Output' = out
    BY <1>2, <2>2, <2>3, <2>4 DEF Output
  <2> QED
    BY <1>1, <2>5, OutputAndBlock
<1>6. CASE WriteFails(t)
  <2>1. res'[t] = 1
    BY <1>2, <1>6 DEF RInv, IInv, Typed, ThreadsOK
  <2>2. Answers' = [Answers EXCEPT ![t] = 1]
    BY <1>4, <2>1
  <2> QED
    BY <1>2, <1>3, <1>5, <2>2
       DEF Batch!PrintBlock, Batch!Decide, Store, StoreEvent, Output, Answers, AnswerOf
<1>7. CASE Printed(t)
  <2>1. res'[t] = 0
    BY <1>1, <1>2, <1>7 DEF RInv, IInv, AllPlaced, Placed
  <2>2. Answers' = [Answers EXCEPT ![t] = 0]
    BY <1>4, <2>1
  <2>3. SubSeq(block, 1, i[t]) = block
    <3>1. i[t] = Len(block) /\ Len(block) \in Nat
      BY <1>1, <1>7
    <3>2. /\ SubSeq(block, 1, Len(block)) \in Seq(Nat)
          /\ Len(SubSeq(block, 1, Len(block))) = Len(block)
          /\ \A k \in 1 .. Len(block) : SubSeq(block, 1, Len(block))[k] = block[k]
      BY <3>1, PrefixOfNumbers
    <3>3. SubSeq(block, 1, Len(block)) = block
      BY <3>1, <3>2, NumbersEqual
    <3> QED
      BY <3>1, <3>3
  <2>4. Output' = Output \o block
    BY <1>5, <2>3
  <2> QED
    BY <1>2, <1>3, <2>2, <2>4
       DEF Batch!PrintBlock, Batch!Decide, Store, StoreEvent, Output, Answers, AnswerOf
<1> QED
  BY <1>6, <1>7

(* The block of a SHOW, as the abstract store has it.                      *)
RoomOf(x) == [s \in 1 .. Store[x].rows * Store[x].cols |-> Store[x].seats[s - 1]]

LEMMA PrintRefines ==
  ASSUME RInv, RInv', NEW t \in Threads, Printed(t) \/ WriteFails(t)
  PROVE  Batch!Show(t) \/ Batch!List(t)
<1>1. /\ Acts(t) /\ pc[t] = "print"
  BY DEF Acts, Step, Printed, WriteFails, Goto
<1>2. Answers[t] = -1 /\ command[t].op \in {"SHOW", "LIST"}
  BY <1>1, PrinterReads DEF Answers, AnswerOf, RInv
<1>3. StoreIsList
  BY <1>1, PrinterAlone, WithoutAny DEF RInv
<1>4. Len(events) \in Nat
  BY ListFacts DEF RInv, IInv, Typed
<1>5. CASE command[t].op = "LIST"
  <2> DEFINE block == [e \in DOMAIN Store |-> Store[e].id]
  <2>1. block = [e \in 1 .. Len(events) |-> events[e].id]
    BY DEF Store, StoreEvent
  <2>2. \A e \in 1 .. Len(events) : events[e].id \in Nat
    BY ListFacts, BatchIdsAssumption DEF RInv, IInv, Typed, EventRecords
  <2>3. block \in Seq(Nat) /\ Len(block) = Len(events)
    BY <1>4, <2>1, <2>2
  <2>4. /\ Len(block) = Words(t)
        /\ \A k \in 1 .. Len(block) : block[k] = BlockWord(t, k)
    BY <1>5, <2>1, <2>3 DEF Words, BlockWord
  <2>5. Batch!PrintBlock(t, block)
    <3> HIDE DEF block
    <3> QED
      BY <2>3, <2>4, PrintedOut
  <2>6. Batch!List(t)
    BY <1>2, <1>5, <2>5 DEF Batch!List, Batch!Pending, Store, StoreEvent, Answers, AnswerOf
  <2> QED
    BY <2>6
<1>6. CASE command[t].op = "SHOW"
  <2>1. PICK e \in 1 .. Len(events) : e = event[t]
    BY <1>1, <1>6, PrinterReads DEF RInv
  <2>2. Batch!Position(command[t].id) = e
    <3>1. events[e].id = command[t].id
      BY <1>1, <1>6, <2>1 DEF RInv, Found
    <3>2. get_event(command[t].id) # 0
      BY <1>4, <3>1, GetEventFinds
    <3>3. /\ get_event(command[t].id) \in 1 .. Len(events)
          /\ events[get_event(command[t].id)].id = command[t].id
      BY <1>4, <3>2, GetEventFinds
    <3> QED
      BY <3>1, <3>3, SamePosition DEF RInv, OneId
  <2> DEFINE block == RoomOf(e)
             n == events[e].rows * events[e].cols
  <2>3. /\ data[e] \in [SeatsOf(e) -> Nat] /\ events[e].rows \in Nat /\ events[e].cols \in Nat
    BY RoomIsNumbers DEF RInv, IInv, Typed
  <2>4. n \in Nat /\ data[e] \in [0 .. n - 1 -> Nat]
    BY <2>3 DEF SeatsOf
  <2>5. block = [s \in 1 .. n |-> data[e][s - 1]]
    <3>1. /\ Store[e].rows = events[e].rows /\ Store[e].cols = events[e].cols
          /\ Store[e].seats = Taken(e)
      BY DEF Store, StoreEvent
    <3>2. Taken(e) = [s \in DOMAIN data[e] |-> data[e][s]]
      BY <1>3 DEF StoreIsList
    <3>3. \A s \in 1 .. n : Taken(e)[s - 1] = data[e][s - 1]
      BY <2>4, <3>2
    <3> QED
      BY <3>1, <3>3 DEF RoomOf
  <2> HIDE DEF n
  <2>6. block \in Seq(Nat) /\ Len(block) = n
    <3>1. \A s \in 1 .. n : data[e][s - 1] \in Nat
      BY <2>4
    <3> HIDE DEF block
    <3> QED
      BY <2>4, <2>5, <3>1
  <2>7. /\ Len(block) = Words(t)
        /\ \A k \in 1 .. Len(block) : block[k] = BlockWord(t, k)
    <3> HIDE DEF block
    <3> QED
      BY <1>6, <2>1, <2>5, <2>6 DEF Words, BlockWord, n
  <2>8. Batch!PrintBlock(t, block)
    <3> HIDE DEF block
    <3> QED
      BY <2>6, <2>7, PrintedOut
  <2> DEFINE x == Batch!Position(command[t].id)
  <2>9. x # 0 /\ Batch!PrintBlock(t, IF x = 0 THEN <<>> ELSE RoomOf(x))
    BY <2>2, <2>8
  <2>10. Batch!Show(t)
    BY <1>2, <1>6, <2>9 DEF Batch!Show, Batch!Pending, RoomOf, Store, StoreEvent, Answers, AnswerOf
  <2> QED
    BY <2>10
<1> QED
  BY <1>2, <1>5, <1>6

------------------------------------------------------------------------------
(* Every step is one of the abstract store, or one that it does not see.   *)
LEMMA StepRefines ==
  ASSUME RInv, RInv', [Next]_vars
  PROVE  [Batch!Next]_(Batch!vars)
<1>1. CASE UNCHANGED vars
  <2>1. UNCHANGED <<list, out, pc, command, event, i, rid, res>>
    BY <1>1 DEF vars, locals
  <2>2. Store' = Store
    <3>1. \A e : Count(e)' = Count(e) /\ Taken(e)' = Taken(e)
      BY <2>1 DEF list, Count, Taken, Taking
    <3> QED
      BY <2>1, <3>1 DEF Store, StoreEvent, list
  <2>3. Output' = Output
    BY <2>1 DEF Output, Printing
  <2>4. Answers' = Answers
    BY <2>1 DEF Answers, AnswerOf
  <2> QED
    BY <2>1, <2>2, <2>3, <2>4, Stutters
<1>2. ASSUME NEW t \in Threads, Acts(t) PROVE Batch!Next \/ UNCHANGED Batch!vars
  <2>1. CASE \E c \in Commands : Call(t, c)
    BY <2>1, CallRefines DEF Batch!Next
  <2>2. CASE Locking(t)
    BY <2>2, LocksRefine, LockToReserveRefines DEF Locking
  <2>3. CASE Create(t) \/ Find(t) \/ TakeSeat(t)
    BY <2>3, CreateRefines, FindRefines, TakeSeatRefines DEF Batch!Next
  <2>4. CASE Refuse(t) \/ Reserved(t) \/ Write(t)
    BY <2>4, RefuseRefines, ReservedRefines, WriteRefines DEF Batch!Next
  <2>5. CASE Printed(t) \/ WriteFails(t)
    BY <2>5, PrintRefines DEF Batch!Next
  <2>6. CASE Unlock(t) \/ UnlockOut(t) \/ Return(t)
    BY <2>6, LocksRefine, ReturnRefines DEF Batch!Next
  <2> QED
    BY <1>2, <2>1, <2>2, <2>3, <2>4, <2>5, <2>6 DEF Acts, Step
<1> QED
  BY <1>1, <1>2 DEF Next, Acts

LEMMA InitRefines == Init => Batch!Init
<1> SUFFICES ASSUME Init PROVE Batch!Init
  OBVIOUS
<1>1. Len(events) = 0 /\ out = <<>> /\ Len(out) = 0
  BY DEF Init
<1>2. Printing = 0
  BY DEF Printing, Init
<1>3. Output = <<>>
  BY <1>1, <1>2, SubSeqEmpty DEF Output
<1>4. Store = <<>>
  BY <1>1 DEF Store
<1>5. Answers = [t \in Threads |-> -1]
  BY DEF Init, Answers, AnswerOf
<1> QED
  BY <1>3, <1>4, <1>5
     DEF Init, Batch!Init, NoCommand, Batch!NoCommand, Store, StoreEvent, Output, Answers, AnswerOf

(* However the threads overlap, the commands behave as if each ran alone   *)
(* at one moment, for any number of threads, events and commands: a        *)
(* RESERVE when it ends, a SHOW or a LIST when it has printed its block    *)
(* (ems_reserve, ems_show and ems_list_events of src/p1/operations.c).     *)
THEOREM BatchStoreImplemented == Spec => ImplementsBatchStore
<1>1. RInv /\ RInv' /\ [Next]_vars => [Batch!Next]_(Batch!vars)
  BY StepRefines
<1> QED
  BY <1>1, InitRefines, RInvCorrect, PTL DEF Spec, ImplementsBatchStore, Batch!Spec
=============================================================================
