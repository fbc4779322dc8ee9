---------------------------- MODULE PcQueue_proofs ----------------------------
(***************************************************************************)
(* PcQueue, for any number of producers, consumers, elements and places:   *)
(* its types and locks, and that it implements BoundedFifo.                *)
(***************************************************************************)
EXTENDS PcQueue, Sequences, FiniteSetTheorems, TLAPS

Ready(t) == IF t \in Producers THEN size < Capacity ELSE size > 0

(* The loop test still holds for the thread that passed it.                *)
Tested == \A t \in Threads : pc[t] \in {"move", "count"} => Ready(t)

IInv == TypeOK /\ LocksHeld /\ Tested

LEMMA SidesFacts ==
  ASSUME NEW t \in Threads
  PROVE  /\ Side(t) \in Sides /\ Other(t) \in Sides /\ Side(t) # Other(t)
         /\ None \notin Threads
         /\ \A s \in Sides : s = Side(t) \/ s = Other(t)
BY NoneAssumption DEF Side, Other, Sides, Threads

LEMMA InitIInv == Init => IInv
<1> SUFFICES ASSUME Init PROVE IInv
  OBVIOUS
<1>1. None \notin Threads /\ Capacity \in Nat \ {0}
  BY NoneAssumption, CapacityAssumption DEF Threads
<1>2. TypeOK
  BY <1>1 DEF Init, TypeOK
<1>3. LocksHeld
  BY <1>1 DEF Init, LocksHeld, HoldsSize, HoldsCond
<1>4. Tested
  BY DEF Init, Tested
<1>5. QED
  BY <1>2, <1>3, <1>4 DEF IInv

LEMMA TypeStep ==
  ASSUME IInv, NEW t \in Threads, Step(t)
  PROVE  TypeOK'
<1>0. TypeOK /\ Tested /\ Side(t) \in Sides /\ Other(t) \in Sides /\ Capacity \in Nat \ {0}
  BY SidesFacts, CapacityAssumption DEF IInv
<1>1. CASE \E e \in Elems : CallEnqueue(t, e)
  BY <1>0, <1>1 DEF CallEnqueue, TypeOK, Goto, ring
<1>2. CASE CallDequeue(t)
  BY <1>0, <1>2 DEF CallDequeue, TypeOK, Goto, ring
<1>3. CASE WakeUnasked(t)
  BY <1>0, <1>3 DEF WakeUnasked, TypeOK, ring
<1>4. CASE Test(t)
  BY <1>0, <1>4 DEF Test, TypeOK, Goto, ring
<1>5. CASE Wait(t)
  BY <1>0, <1>5 DEF Wait, TypeOK, Goto, Release, ring
<1>6. CASE Store(t)
  <2>1. (tail + 1) % Capacity \in 0 .. Capacity - 1
    BY <1>0 DEF TypeOK
  <2>2. QED
    BY <1>0, <1>6, <2>1 DEF Store, TypeOK, Goto
<1>7. CASE Take(t)
  <2>1. (head + 1) % Capacity \in 0 .. Capacity - 1
    BY <1>0 DEF TypeOK
  <2>2. QED
    BY <1>0, <1>7, <2>1 DEF Take, TypeOK, Goto
<1>8. CASE Count(t)
  <2>1. size' \in 0 .. Capacity
    BY <1>0, <1>8 DEF Count, TypeOK, Goto, Tested, Ready
  <2>2. QED
    BY <1>0, <1>8, <2>1 DEF Count, TypeOK, Goto, ring
<1>9. CASE UnlockCond(t)
  BY <1>0, <1>9 DEF UnlockCond, TypeOK, Goto, Release, ring
<1>10. CASE Signal(t)
  BY <1>0, <1>10 DEF Signal, TypeOK, Goto, Release, ring
<1>11. CASE LockCond(t)
  BY <1>0, <1>11 DEF LockCond, TypeOK, Goto, Acquire, ring
<1>12. CASE LockSize(t)
  BY <1>0, <1>12 DEF LockSize, TypeOK, Goto, ring
<1>13. CASE Relock(t)
  BY <1>0, <1>13 DEF Relock, TypeOK, Goto, Acquire, ring
<1>14. CASE LockOther(t)
  BY <1>0, <1>14 DEF LockOther, TypeOK, Goto, Acquire, ring
<1>15. QED
  BY <1>1, <1>2, <1>3, <1>4, <1>5, <1>6, <1>7, <1>8, <1>9, <1>10, <1>11, <1>12, <1>13, <1>14
     DEF Step, Calling, Run, Locking

(* A thread that is not inside a locked section leaves the others'.        *)
LEMMA LocksStep ==
  ASSUME IInv, NEW t \in Threads, Step(t)
  PROVE  LocksHeld'
<1>0. TypeOK /\ LocksHeld
  BY DEF IInv
<1> USE SidesFacts DEF LocksHeld, HoldsSize, HoldsCond, TypeOK, Goto
<1>1. CASE \E e \in Elems : CallEnqueue(t, e)
  BY <1>0, <1>1 DEF CallEnqueue
<1>2. CASE CallDequeue(t)
  BY <1>0, <1>2 DEF CallDequeue
<1>3. CASE WakeUnasked(t)
  BY <1>0, <1>3 DEF WakeUnasked
<1>4. CASE Test(t)
  BY <1>0, <1>4 DEF Test
<1>5. CASE Wait(t)
  BY <1>0, <1>5 DEF Wait, Release
<1>6. CASE Store(t)
  BY <1>0, <1>6 DEF Store
<1>7. CASE Take(t)
  BY <1>0, <1>7 DEF Take
<1>8. CASE Count(t)
  BY <1>0, <1>8 DEF Count
<1>9. CASE UnlockCond(t)
  BY <1>0, <1>9 DEF UnlockCond, Release
<1>10. CASE Signal(t)
  BY <1>0, <1>10 DEF Signal, Release
<1>11. CASE LockCond(t)
  BY <1>0, <1>11 DEF LockCond, Acquire
<1>12. CASE LockSize(t)
  BY <1>0, <1>12 DEF LockSize
<1>13. CASE Relock(t)
  BY <1>0, <1>13 DEF Relock, Acquire
<1>14. CASE LockOther(t)
  BY <1>0, <1>14 DEF LockOther, Acquire
<1>15. QED
  BY <1>1, <1>2, <1>3, <1>4, <1>5, <1>6, <1>7, <1>8, <1>9, <1>10, <1>11, <1>12, <1>13, <1>14
     DEF Step, Calling, Run, Locking

(* Only the holder of the size lock changes the size, and it is the only   *)
(* thread between its test and its count.                                  *)
LEMMA TestedStep ==
  ASSUME IInv, NEW t \in Threads, Step(t)
  PROVE  Tested'
<1>0. TypeOK /\ LocksHeld /\ Tested /\ Capacity \in Nat \ {0}
  BY CapacityAssumption DEF IInv
<1> USE DEF Tested, TypeOK, Goto, Ready
<1>1. CASE \E e \in Elems : CallEnqueue(t, e)
  BY <1>0, <1>1 DEF CallEnqueue
<1>2. CASE CallDequeue(t)
  BY <1>0, <1>2 DEF CallDequeue
<1>3. CASE WakeUnasked(t)
  BY <1>0, <1>3 DEF WakeUnasked
<1>4. CASE Test(t)
  BY <1>0, <1>4 DEF Test, Stops
<1>5. CASE Wait(t)
  BY <1>0, <1>5 DEF Wait
<1>6. CASE Store(t)
  BY <1>0, <1>6 DEF Store
<1>7. CASE Take(t)
  BY <1>0, <1>7 DEF Take
<1>8. CASE Count(t)
  <2>1. \A u \in Threads : pc'[u] \notin {"move", "count"}
    <3>1. sizeLock = t
      BY <1>0, <1>8 DEF Count, LocksHeld, HoldsSize
    <3>2. \A u \in Threads : u # t => pc[u] \notin {"move", "count"}
      BY <1>0, <3>1 DEF LocksHeld, HoldsSize
    <3>3. QED
      BY <1>0, <1>8, <3>2 DEF Count
  <2>2. QED
    BY <2>1
<1>9. CASE UnlockCond(t)
  BY <1>0, <1>9 DEF UnlockCond
<1>10. CASE Signal(t)
  BY <1>0, <1>10 DEF Signal
<1>11. CASE LockCond(t)
  BY <1>0, <1>11 DEF LockCond
<1>12. CASE LockSize(t)
  BY <1>0, <1>12 DEF LockSize
<1>13. CASE Relock(t)
  BY <1>0, <1>13 DEF Relock
<1>14. CASE LockOther(t)
  BY <1>0, <1>14 DEF LockOther
<1>15. QED
  BY <1>1, <1>2, <1>3, <1>4, <1>5, <1>6, <1>7, <1>8, <1>9, <1>10, <1>11, <1>12, <1>13, <1>14
     DEF Step, Calling, Run, Locking

LEMMA NextIInv == IInv /\ [Next]_vars => IInv'
<1> SUFFICES ASSUME IInv, [Next]_vars PROVE IInv'
  OBVIOUS
<1>1. CASE UNCHANGED vars
  BY <1>1 DEF IInv, TypeOK, LocksHeld, Tested, HoldsSize, HoldsCond, Ready, vars
<1>2. CASE Next
  BY <1>2, TypeStep, LocksStep, TestedStep DEF Next, IInv
<1>3. QED
  BY <1>1, <1>2

THEOREM Invariance == Spec => []IInv
<1>1. QED
  BY InitIInv, NextIInv, PTL DEF Spec

(* The size of the queue stays within its capacity and every variable has  *)
(* its type, with any number of threads and places (pcq_enqueue and        *)
(* pcq_dequeue of producer-consumer.c).                                    *)
THEOREM TypeCorrect == Spec => []TypeOK
<1>1. IInv => TypeOK
  BY DEF IInv
<1>2. QED
  BY <1>1, Invariance, PTL

(* At most one thread is past each lock, and a call ends with every lock   *)
(* it took released (the lock calls of producer-consumer.c).               *)
THEOREM LocksCorrect == Spec => []LocksHeld
<1>1. IInv => LocksHeld
  BY DEF IInv
<1>2. QED
  BY <1>1, Invariance, PTL

------------------------------------------------------------------------------
(* The two moving threads exclude each other, so Length is what it says.   *)
LengthOK ==
  /\ Length \in 0 .. Capacity
  /\ \A t \in Producers : pc[t] = "count" => Length = size + 1
  /\ \A t \in Consumers : pc[t] = "count" => Length = size - 1
  /\ (\A t \in Threads : pc[t] # "count") => Length = size

LEMMA LengthFacts == IInv => LengthOK
<1> SUFFICES ASSUME IInv PROVE LengthOK
  OBVIOUS
<1>1. TypeOK /\ LocksHeld /\ Tested /\ Capacity \in Nat \ {0}
  BY CapacityAssumption DEF IInv
<1>2. \A t, u \in Threads : pc[t] = "count" /\ pc[u] = "count" => t = u
  BY <1>1 DEF LocksHeld, HoldsSize
<1>3. \A t \in Producers : pc[t] = "count" => Length = size + 1 /\ size < Capacity
  <2> SUFFICES ASSUME NEW t \in Producers, pc[t] = "count"
               PROVE  Length = size + 1 /\ size < Capacity
    OBVIOUS
  <2>1. \A c \in Consumers : pc[c] # "count"
    BY <1>2, SidesAssumption DEF Threads
  <2>2. QED
    BY <1>1, <2>1 DEF Length, Tested, Ready, Threads
<1>4. \A t \in Consumers : pc[t] = "count" => Length = size - 1 /\ size > 0
  <2> SUFFICES ASSUME NEW t \in Consumers, pc[t] = "count"
               PROVE  Length = size - 1 /\ size > 0
    OBVIOUS
  <2>1. t \in Threads /\ t \notin Producers
    BY SidesAssumption DEF Threads
  <2>2. \A p \in Producers : pc[p] # "count"
    BY <1>2, <2>1 DEF Threads
  <2>3. QED
    BY <1>1, <2>1, <2>2 DEF Length, Tested, Ready
<1>5. (\A t \in Threads : pc[t] # "count") => Length = size
  BY DEF Length, Threads
<1>6. Length \in 0 .. Capacity
  BY <1>1, <1>3, <1>4, <1>5 DEF TypeOK, Threads
<1>7. QED
  BY <1>3, <1>4, <1>5, <1>6 DEF LengthOK

(* The cells between head and tail are the contents.                       *)
RingInv == IInv /\ tail = (head + Length) % Capacity

ContentsOK ==
  /\ Contents \in Seq(Elems \cup {None})
  /\ Len(Contents) = Length
  /\ \A k \in 1 .. Length : Contents[k] = buffer[(head + k - 1) % Capacity]

LEMMA ContentsFacts == IInv => ContentsOK
<1> SUFFICES ASSUME IInv PROVE ContentsOK
  OBVIOUS
<1>1. Length \in Nat /\ head \in Nat /\ Capacity \in Nat \ {0}
      /\ buffer \in [0 .. Capacity - 1 -> Elems \cup {None}]
  BY LengthFacts, CapacityAssumption DEF LengthOK, IInv, TypeOK
<1>2. \A k \in 1 .. Length : (head + k - 1) % Capacity \in 0 .. Capacity - 1
  BY <1>1
<1>3. \A k \in 1 .. Length : buffer[(head + k - 1) % Capacity] \in Elems \cup {None}
  BY <1>1, <1>2
<1>4. QED
  BY <1>1, <1>3 DEF Contents, ContentsOK

LEMMA ContentsFactsNext == IInv' => ContentsOK'
<1>1. QED
  BY ContentsFacts, PTL

(* A step at which nobody enters or leaves "count" keeps the length.       *)
LEMMA LengthKept ==
  ASSUME IInv, NEW t \in Threads, NEW to,
         pc' = [pc EXCEPT ![t] = to], pc[t] # "count", to # "count", UNCHANGED size
  PROVE  Length' = Length
<1>1. \A u \in Threads : pc'[u] = "count" <=> pc[u] = "count"
  BY DEF IInv, TypeOK
<1>2. QED
  BY <1>1 DEF Length, Threads

(* One step round the ring and some more.                                  *)
LEMMA Round ==
  ASSUME NEW C \in Nat \ {0}, NEW h \in 0 .. C - 1, NEW n \in 0 .. C
  PROVE  /\ (h + n) % C = IF h + n < C THEN h + n ELSE h + n - C
         /\ (((h + n) % C) + 1) % C = (h + (n + 1)) % C
         /\ (((h + 1) % C) + n) % C = (h + (n + 1)) % C
<1>1. ASSUME NEW x \in 0 .. C - 1 PROVE x % C = x
  OBVIOUS
<1>2. ASSUME NEW x \in C .. 2 * C - 1 PROVE x % C = x - C
  OBVIOUS
<1>3. ASSUME NEW x \in 0 .. 2 * C - 1 PROVE x % C = IF x < C THEN x ELSE x - C
  BY <1>1, <1>2
<1>4. (h + n) % C = IF h + n < C THEN h + n ELSE h + n - C
  BY <1>3
<1>5. (2 * C) % C = 0
  OBVIOUS
<1>6. (h + (n + 1)) % C = IF h + n + 1 < C THEN h + n + 1
                          ELSE IF h + n + 1 = 2 * C THEN 0 ELSE h + n + 1 - C
  BY <1>3, <1>5
<1>7. (((h + n) % C) + 1) % C = (h + (n + 1)) % C
  BY <1>3, <1>4, <1>6
<1>8. (h + 1) % C = IF h + 1 < C THEN h + 1 ELSE 0
  BY <1>3
<1>9. (((h + 1) % C) + n) % C = (h + (n + 1)) % C
  BY <1>3, <1>6, <1>8
<1>10. QED
  BY <1>4, <1>7, <1>9

------------------------------------------------------------------------------
(* LengthFacts of the next state.                                          *)
LEMMA LengthFactsNext == IInv' => LengthOK'
<1>1. QED
  BY LengthFacts, PTL

(* While one thread is about to move an element, nobody counts.            *)
LEMMA SizeHolder ==
  ASSUME IInv, NEW t \in Threads, pc[t] = "move"
  PROVE  Length = size /\ sizeLock = t
<1>1. sizeLock = t /\ \A u \in Threads : pc[u] # "count"
  BY DEF IInv, LocksHeld, HoldsSize
<1>2. QED
  BY <1>1, LengthFacts DEF LengthOK

(* The other steps leave the contents alone.                               *)
LEMMA QuietStep ==
  ASSUME IInv, IInv', NEW t \in Threads, Step(t), ~ Store(t), ~ Take(t)
  PROVE  UNCHANGED <<head, tail, buffer>> /\ Length' = Length
<1>0. UNCHANGED <<head, tail, buffer>>
  BY DEF Step, Calling, Run, Locking, CallEnqueue, CallDequeue, WakeUnasked, Test, Wait,
         Count, UnlockCond, Signal, LockCond, LockSize, Relock, LockOther, ring
<1>1. CASE Count(t)
  <2>1. pc[t] = "count" /\ sizeLock = t
    BY <1>1 DEF Count, Goto, IInv, LocksHeld, HoldsSize
  <2>2. \A u \in Threads : pc'[u] # "count"
    BY <1>1, <2>1 DEF Count, Goto, IInv, TypeOK, LocksHeld, HoldsSize
  <2>3. Length' = size'
    BY <2>2, LengthFactsNext DEF LengthOK
  <2>4. Length = IF t \in Producers THEN size + 1 ELSE size - 1
    BY <2>1, LengthFacts DEF Threads, LengthOK
  <2>5. QED
    BY <1>0, <1>1, <2>3, <2>4 DEF Count
<1>2. CASE WakeUnasked(t)
  BY <1>0, <1>2 DEF WakeUnasked, Length
<1>3. CASE ~ Count(t) /\ ~ WakeUnasked(t)
  <2>1. \E to : pc' = [pc EXCEPT ![t] = to] /\ pc[t] # "count" /\ to # "count" /\ UNCHANGED size
    BY <1>3 DEF Step, Calling, Run, Locking, CallEnqueue, CallDequeue, Test, Wait,
           UnlockCond, Signal, LockCond, LockSize, Relock, LockOther, Goto
  <2>2. QED
    BY <1>0, <2>1, LengthKept
<1>4. QED
  BY <1>1, <1>2, <1>3

LEMMA RingStep ==
  ASSUME RingInv, NEW t \in Threads, Step(t), IInv'
  PROVE  RingInv'
<1>1. IInv /\ tail = (head + Length) % Capacity
  BY DEF RingInv
<1>2. Length \in 0 .. Capacity /\ head \in 0 .. Capacity - 1 /\ Capacity \in Nat \ {0}
      /\ size \in Nat
  BY <1>1, LengthFacts, CapacityAssumption DEF LengthOK, IInv, TypeOK
<1>3. CASE Store(t)
  <2>1. Length = size
    BY <1>1, <1>3, SizeHolder DEF Store, Goto
  <2>2. Length' = size + 1
    <3>1. pc'[t] = "count" /\ size' = size /\ t \in Producers
      BY <1>1, <1>3 DEF Store, Goto, IInv, TypeOK
    <3>2. QED
      BY <3>1, LengthFactsNext DEF LengthOK
  <2>3. (head + (Length + 1)) % Capacity = (((head + Length) % Capacity) + 1) % Capacity
    BY <1>2, Round
  <2>4. QED
    BY <1>1, <1>3, <2>1, <2>2, <2>3 DEF RingInv, Store
<1>4. CASE Take(t)
  <2>1. Length = size
    BY <1>1, <1>4, SizeHolder DEF Take, Goto
  <2>2. Length' = size - 1
    <3>1. pc'[t] = "count" /\ size' = size /\ t \in Consumers
      BY <1>1, <1>4 DEF Take, Goto, IInv, TypeOK
    <3>2. QED
      BY <3>1, LengthFactsNext DEF LengthOK
  <2>3. Length - 1 \in 0 .. Capacity
    BY <1>1, <1>2, <1>4, <2>1, SidesAssumption DEF Take, Goto, IInv, Tested, Ready, Threads
  <2>4. (((head + 1) % Capacity) + (Length - 1)) % Capacity = (head + (Length - 1 + 1)) % Capacity
    BY <1>2, <2>3, Round
  <2>5. QED
    BY <1>1, <1>2, <1>4, <2>1, <2>2, <2>4 DEF RingInv, Take
<1>5. CASE ~ Store(t) /\ ~ Take(t)
  <2>1. UNCHANGED <<head, tail>> /\ Length' = Length
    BY <1>1, <1>5, QuietStep
  <2>2. QED
    BY <1>1, <2>1 DEF RingInv
<1>6. QED
  BY <1>3, <1>4, <1>5

LEMMA InitRing == Init => RingInv
<1> SUFFICES ASSUME Init PROVE RingInv
  OBVIOUS
<1>1. Length = 0 /\ Capacity \in Nat \ {0}
  BY InitIInv, LengthFacts, CapacityAssumption DEF Init, LengthOK
<1>2. tail = (head + Length) % Capacity
  BY <1>1 DEF Init
<1>3. QED
  BY <1>2, InitIInv DEF RingInv

LEMMA NextRing == RingInv /\ [Next]_vars => RingInv'
<1> SUFFICES ASSUME RingInv, [Next]_vars PROVE RingInv'
  OBVIOUS
<1>1. IInv'
  BY NextIInv DEF RingInv
<1>2. CASE UNCHANGED vars
  BY <1>1, <1>2 DEF RingInv, Length, vars
<1>3. CASE Next
  BY <1>1, <1>3, RingStep DEF Next
<1>4. QED
  BY <1>2, <1>3

------------------------------------------------------------------------------
(* The steps of the calls as steps of the abstract queue.                  *)
LEMMA PhaseStep ==
  ASSUME IInv, NEW t \in Threads, NEW to, pc' = [pc EXCEPT ![t] = to]
  PROVE  Phases' = [Phases EXCEPT ![t] = Phase(to)]
BY DEF IInv, TypeOK, Phases

LEMMA StartRefines ==
  ASSUME IInv, IInv', NEW t \in Threads, Calling(t), Contents' = Contents
  PROVE  Fifo!Next
<1>1. CASE \E e \in Elems : CallEnqueue(t, e)
  <2>1. PICK e \in Elems : CallEnqueue(t, e)
    BY <1>1
  <2>2. Phases' = [Phases EXCEPT ![t] = "called"] /\ Phases[t] = "idle"
    <3>1. Phase("lock_cond") = "called" /\ Phase("idle") = "idle"
      BY DEF Phase
    <3>2. pc[t] = "idle" /\ pc' = [pc EXCEPT ![t] = "lock_cond"]
      BY <2>1 DEF CallEnqueue, Goto
    <3>3. QED
      BY <3>1, <3>2, PhaseStep DEF Phases
  <2>3. Fifo!StartPut(t, e) /\ t \in Producers
    BY <2>1, <2>2 DEF CallEnqueue, Fifo!StartPut, Fifo!Advance
  <2>4. QED
    BY <2>3 DEF Fifo!Next
<1>2. CASE CallDequeue(t)
  <2>1. Phases' = [Phases EXCEPT ![t] = "called"] /\ Phases[t] = "idle"
    <3>1. Phase("lock_cond") = "called" /\ Phase("idle") = "idle"
      BY DEF Phase
    <3>2. pc[t] = "idle" /\ pc' = [pc EXCEPT ![t] = "lock_cond"]
      BY <1>2 DEF CallDequeue, Goto
    <3>3. QED
      BY <3>1, <3>2, PhaseStep DEF Phases
  <2>2. Fifo!StartTake(t) /\ t \in Consumers
    BY <1>2, <2>1 DEF CallDequeue, Fifo!StartTake, Fifo!Advance
  <2>3. QED
    BY <2>2 DEF Fifo!Next
<1>3. QED
  BY <1>1, <1>2 DEF Calling

LEMMA StoreRefines ==
  ASSUME RingInv, RingInv', NEW t \in Threads, Store(t)
  PROVE  Fifo!Next
<1>1. IInv /\ IInv' /\ Capacity \in Nat \ {0} /\ t \in Producers
  BY CapacityAssumption DEF RingInv, Store
<1>2. Length = size /\ size < Capacity /\ Length \in 0 .. Capacity /\ head \in 0 .. Capacity - 1
  BY <1>1, SizeHolder, LengthFacts DEF Store, Goto, IInv, Tested, Ready, LengthOK, TypeOK
<1>3. Length' = Length + 1
  <2>1. pc'[t] = "count" /\ size' = size
    BY <1>1 DEF Store, Goto, IInv, TypeOK
  <2>2. QED
    BY <1>1, <1>2, <2>1, LengthFactsNext DEF LengthOK
<1>4. \A k \in 1 .. Length : Contents'[k] = Contents[k]
  <2> SUFFICES ASSUME NEW k \in 1 .. Length PROVE Contents'[k] = Contents[k]
    OBVIOUS
  <2>1. (head + (k - 1)) % Capacity # (head + Length) % Capacity
    <3>1. k - 1 \in 0 .. Capacity
      BY <1>1, <1>2
    <3>2. QED
      BY <1>1, <1>2, <3>1, Round
  <2>2. (head + k - 1) % Capacity \in 0 .. Capacity - 1 /\ head + k - 1 = head + (k - 1)
    BY <1>1, <1>2
  <2>3. buffer'[(head + k - 1) % Capacity] = buffer[(head + k - 1) % Capacity]
    BY <2>1, <2>2 DEF Store, RingInv, IInv, TypeOK
  <2>4. Contents[k] = buffer[(head + k - 1) % Capacity]
    BY <1>1, ContentsFacts DEF ContentsOK
  <2>5. Contents'[k] = buffer'[(head + k - 1) % Capacity]
    BY <1>2, <1>3 DEF Contents, Store
  <2>6. QED
    BY <2>3, <2>4, <2>5
<1>5. Contents'[Length + 1] = elem[t]
  <2>1. head + (Length + 1) - 1 = head + Length
    BY <1>2
  <2>2. Contents'[Length + 1] = buffer'[(head + Length) % Capacity]
    BY <1>2, <1>3, <2>1 DEF Contents, Store
  <2>3. QED
    BY <2>2 DEF Store, RingInv, IInv, TypeOK
<1>6. Contents' = Append(Contents, elem[t])
  <2>1. /\ Contents \in Seq(Elems \cup {None}) /\ Len(Contents) = Length
        /\ Contents' \in Seq(Elems \cup {None}) /\ Len(Contents') = Length + 1
    BY <1>1, <1>3, ContentsFacts, ContentsFactsNext DEF ContentsOK
  <2>2. QED
    BY <1>2, <1>4, <1>5, <2>1
<1>7. Phases' = [Phases EXCEPT ![t] = "done"] /\ Phases[t] = "called"
  BY <1>1, PhaseStep DEF Store, Goto, Phases, Phase
<1>8. Fifo!Put(t)
  BY <1>1, <1>2, <1>6, <1>7, ContentsFacts DEF Fifo!Put, Fifo!Advance, Store, ContentsOK
<1>9. QED
  BY <1>1, <1>8 DEF Fifo!Next

LEMMA TakeRefines ==
  ASSUME RingInv, RingInv', NEW t \in Threads, Take(t)
  PROVE  Fifo!Next
<1>1. IInv /\ IInv' /\ Capacity \in Nat \ {0} /\ t \in Consumers
  BY CapacityAssumption DEF RingInv, Take
<1>2. Length = size /\ size > 0 /\ Length \in 0 .. Capacity /\ head \in 0 .. Capacity - 1
  BY <1>1, SizeHolder, LengthFacts, SidesAssumption
     DEF Take, Goto, IInv, Tested, Ready, LengthOK, TypeOK
<1>3. Length' = Length - 1
  <2>1. pc'[t] = "count" /\ size' = size
    BY <1>1 DEF Take, Goto, IInv, TypeOK
  <2>2. QED
    BY <1>1, <1>2, <2>1, LengthFactsNext DEF LengthOK
<1>4. \A k \in 1 .. Length - 1 : Contents'[k] = Contents[k + 1]
  <2> SUFFICES ASSUME NEW k \in 1 .. Length - 1 PROVE Contents'[k] = Contents[k + 1]
    OBVIOUS
  <2>1. (((head + 1) % Capacity) + (k - 1)) % Capacity = (head + (k - 1 + 1)) % Capacity
    <3>1. k - 1 \in 0 .. Capacity
      BY <1>1, <1>2
    <3>2. QED
      BY <1>1, <1>2, <3>1, Round
  <2>2. Contents[k + 1] = buffer[(head + (k + 1) - 1) % Capacity]
    <3>1. k + 1 \in 1 .. Length
      BY <1>1, <1>2
    <3>2. QED
      BY <1>1, <3>1, ContentsFacts DEF ContentsOK
  <2>3. Contents'[k] = buffer[(((head + 1) % Capacity) + k - 1) % Capacity]
    BY <1>2, <1>3 DEF Contents, Take
  <2>4. /\ head + (k - 1 + 1) = head + (k + 1) - 1
        /\ ((head + 1) % Capacity) + (k - 1) = ((head + 1) % Capacity) + k - 1
    BY <1>1, <1>2
  <2>5. QED
    BY <2>1, <2>2, <2>3, <2>4
<1>5. /\ Contents \in Seq(Elems \cup {None}) /\ Len(Contents) = Length
      /\ Contents' \in Seq(Elems \cup {None}) /\ Len(Contents') = Length - 1
  BY <1>1, <1>3, ContentsFacts, ContentsFactsNext DEF ContentsOK
<1>6. Contents' = Tail(Contents) /\ Contents # <<>>
  BY <1>2, <1>4, <1>5
<1>7. Head(Contents) = buffer[head]
  <2>1. Contents[1] = buffer[(head + 1 - 1) % Capacity]
    BY <1>1, <1>2, ContentsFacts DEF ContentsOK
  <2>2. (head + 1 - 1) % Capacity = head
    BY <1>1, <1>2
  <2>3. QED
    BY <1>5, <1>6, <2>1, <2>2
<1>8. Phases' = [Phases EXCEPT ![t] = "done"] /\ Phases[t] = "called"
  BY <1>1, PhaseStep DEF Take, Goto, Phases, Phase
<1>9. Fifo!Take(t)
  BY <1>6, <1>7, <1>8 DEF Fifo!Take, Fifo!Advance, Take
<1>10. QED
  BY <1>1, <1>9 DEF Fifo!Next

LEMMA EndRefines ==
  ASSUME IInv, NEW t \in Threads, Signal(t), Contents' = Contents
  PROVE  Fifo!Next
<1>1. Phases' = [Phases EXCEPT ![t] = "idle"] /\ Phases[t] = "done"
  BY PhaseStep DEF Signal, Goto, Phases, Phase
<1>2. Fifo!End(t)
  BY <1>1 DEF Fifo!End, Fifo!Advance, Signal
<1>3. QED
  BY <1>2 DEF Fifo!Next, Fifo!Threads, Threads

(* Whatever else a thread does, the abstract queue does not see.           *)
LEMMA InsideStutters ==
  ASSUME IInv, NEW t \in Threads, Step(t), Contents' = Contents,
         ~ Calling(t), ~ Store(t), ~ Take(t), ~ Signal(t)
  PROVE  UNCHANGED <<Contents, Phases, elem>>
<1>1. UNCHANGED elem
  BY DEF Step, Run, Locking, WakeUnasked, Test, Wait, Count, UnlockCond, LockCond, LockSize,
         Relock, LockOther
<1>2. Phases' = Phases
  <2>1. CASE UNCHANGED pc
    BY <2>1 DEF Phases
  <2>2. CASE ~ UNCHANGED pc
    <3>1. \E to : pc' = [pc EXCEPT ![t] = to] /\ Phase(to) = Phase(pc[t])
      BY <2>2 DEF Step, Run, Locking, WakeUnasked, Test, Wait, Count, UnlockCond, LockCond,
             LockSize, Relock, LockOther, Goto, Phase
    <3>2. PICK to : pc' = [pc EXCEPT ![t] = to] /\ Phase(to) = Phase(pc[t])
      BY <3>1
    <3>3. Phases' = [Phases EXCEPT ![t] = Phase(pc[t])]
      BY <3>2, PhaseStep
    <3>4. QED
      BY <3>3 DEF Phases
  <2>3. QED
    BY <2>1, <2>2
<1>3. QED
  BY <1>1, <1>2

LEMMA StepRefines == RingInv /\ RingInv' /\ [Next]_vars => [Fifo!Next]_Fifo!vars
<1> SUFFICES ASSUME RingInv, RingInv', [Next]_vars PROVE [Fifo!Next]_Fifo!vars
  OBVIOUS
<1>0. IInv /\ IInv'
  BY DEF RingInv
<1>1. CASE UNCHANGED vars
  BY <1>1 DEF vars, Fifo!vars, Contents, Length, Phases
<1>2. CASE Next
  <2>1. PICK t \in Threads : Step(t)
    BY <1>2 DEF Next
  <2>2. CASE Store(t)
    BY <2>2, StoreRefines
  <2>3. CASE Take(t)
    BY <2>3, TakeRefines
  <2>4. CASE ~ Store(t) /\ ~ Take(t)
    <3>1. Contents' = Contents
      BY <1>0, <2>1, <2>4, QuietStep DEF Contents
    <3>2. QED
      BY <1>0, <2>1, <2>4, <3>1, StartRefines, EndRefines, InsideStutters DEF Fifo!vars
  <2>5. QED
    BY <2>2, <2>3, <2>4
<1>3. QED
  BY <1>1, <1>2

LEMMA InitRefines == Init => Fifo!Init
<1> SUFFICES ASSUME Init PROVE Fifo!Init
  OBVIOUS
<1>1. Length = 0
  BY InitIInv, LengthFacts DEF Init, LengthOK
<1>2. Contents = <<>>
  BY <1>1 DEF Contents
<1>3. Phases = [t \in Threads |-> "idle"]
  BY DEF Init, Phases, Phase
<1>4. QED
  BY <1>2, <1>3 DEF Fifo!Init, Fifo!Threads, Init, Threads

(* The circular buffer with its four locks and two conditions behaves as   *)
(* one atomic bounded first-in first-out queue, with any number of         *)
(* producers, consumers, elements and places (pcq_enqueue, pcq_dequeue).   *)
THEOREM FifoImplemented == Spec => ImplementsFifo
<1>1. Spec => []RingInv
  BY InitRing, NextRing, PTL DEF Spec
<1>2. Spec => Fifo!Init /\ [][Fifo!Next]_Fifo!vars
  BY <1>1, InitRefines, StepRefines, PTL DEF Spec
<1>3. QED
  BY <1>2 DEF ImplementsFifo, Fifo!Spec

------------------------------------------------------------------------------
(* Who is about to sleep counts as asleep: it holds its side's lock from   *)
(* its test to its wait, and nobody can signal in between.                 *)
Sleepy(s) == \/ waiters[s] # {}
             \/ \E t \in Threads : Side(t) = s /\ pc[t] = "wait"

WakeInv == \A s \in Sides : Sleepy(s) => Available(s) <= Cardinality(Pledged(s))

LEMMA PledgedFinite ==
  ASSUME NEW S, S \subseteq Threads
  PROVE  IsFiniteSet(S) /\ Cardinality(S) \in Nat
<1>1. IsFiniteSet(Threads)
  BY ThreadsAssumption, FS_Union DEF Threads
<1>2. QED
  BY <1>1, FS_Subset, FS_CardinalityType

(* A step that takes back no pledge, offers nothing and puts nobody to     *)
(* sleep keeps the promise to one side.                                    *)
LEMMA KeptPledges ==
  ASSUME IInv, NEW s \in Sides, Sleepy(s) => Available(s) <= Cardinality(Pledged(s)),
         UNCHANGED size, Sleepy(s)' => Sleepy(s), Pledged(s) \subseteq Pledged(s)'
  PROVE  Sleepy(s)' => Available(s)' <= Cardinality(Pledged(s)')
<1>1. Pledged(s)' \subseteq Threads
  BY DEF Pledged
<1>2. Cardinality(Pledged(s)) <= Cardinality(Pledged(s)')
  BY <1>1, PledgedFinite, FS_Subset
<1>3. Available(s)' = Available(s) /\ Available(s) \in Nat
  BY CapacityAssumption DEF Available, IInv, TypeOK
<1>4. /\ Cardinality(Pledged(s)) \in Nat /\ Cardinality(Pledged(s)') \in Nat
  BY PledgedFinite DEF Pledged
<1>5. QED
  BY <1>2, <1>3, <1>4

LEMMA CountKeepsPledges ==
  ASSUME IInv, WakeInv, NEW t \in Threads, Count(t), NEW s \in Sides
  PROVE  Sleepy(s)' => Available(s)' <= Cardinality(Pledged(s)')
<1>1. /\ pc[t] = "count" /\ pc'[t] = "unlock_cond" /\ UNCHANGED waiters
      /\ size' = IF t \in Producers THEN size + 1 ELSE size - 1
      /\ (\A u \in Threads : u # t => pc'[u] = pc[u]) /\ size \in 0 .. Capacity /\ Capacity \in Nat
  BY CapacityAssumption DEF Count, Goto, IInv, TypeOK
<1>2. t \notin waiters[s] /\ (Sleepy(s)' => Sleepy(s))
  BY <1>1 DEF Sleepy, IInv, LocksHeld
<1>3. Pledged(s) \subseteq Threads /\ Cardinality(Pledged(s)) \in Nat /\ IsFiniteSet(Pledged(s))
  BY PledgedFinite DEF Pledged
<1>4. CASE Side(t) = s
  <2>1. t \in Pledged(s) /\ Pledged(s)' = Pledged(s) \ {t}
    BY <1>1, <1>2, <1>4 DEF Pledged, Pledges
  <2>2. Cardinality(Pledged(s)') = Cardinality(Pledged(s)) - 1
    BY <1>3, <2>1, FS_RemoveElement
  <2>3. Available(s)' = Available(s) - 1
    BY <1>1, <1>4 DEF Available, Side
  <2>4. QED
    BY <1>1, <1>2, <1>3, <2>2, <2>3 DEF WakeInv, Available
<1>5. CASE Side(t) # s
  <2>1. t \notin Pledged(s) /\ Pledged(s)' = Pledged(s) \cup {t}
    BY <1>1, <1>5 DEF Pledged, Pledges
  <2>2. Cardinality(Pledged(s)') = Cardinality(Pledged(s)) + 1
    BY <1>3, <2>1, FS_AddElement
  <2>3. Available(s)' = Available(s) + 1
    BY <1>1, <1>5 DEF Available, Side, Sides
  <2>4. QED
    BY <1>1, <1>2, <1>3, <2>2, <2>3 DEF WakeInv, Available
<1>6. QED
  BY <1>4, <1>5

(* The signal hands the caller's pledge over to the thread it wakes; if it *)
(* wakes none, the lock it holds shows that none is about to sleep.        *)
LEMMA SignalKeepsPledges ==
  ASSUME IInv, WakeInv, NEW t \in Threads, Signal(t), NEW s \in Sides
  PROVE  Sleepy(s)' => Available(s)' <= Cardinality(Pledged(s)')
<1>1. /\ pc[t] = "signal" /\ pc'[t] = "idle" /\ UNCHANGED size
      /\ (\A u \in Threads : u # t => pc'[u] = pc[u]) /\ waiters \in [Sides -> SUBSET Threads]
      /\ Side(t) \in Sides /\ Other(t) \in Sides /\ Side(t) # Other(t)
  BY SidesFacts DEF Signal, Goto, IInv, TypeOK
<1>2. CASE s = Side(t)
  <2>1. UNCHANGED waiters[s]
    BY <1>1, <1>2 DEF Signal
  <2>2. (Sleepy(s)' => Sleepy(s)) /\ Pledged(s) \subseteq Pledged(s)'
    BY <1>1, <1>2, <2>1 DEF Sleepy, Pledged, Pledges
  <2>3. QED
    BY <1>1, <2>2, KeptPledges DEF WakeInv
<1>3. CASE s # Side(t) /\ waiters[s] = {}
  <2>1. s = Other(t)
    BY <1>3, SidesFacts
  <2>2. \A u \in Threads : ~ (Side(u) = s /\ pc[u] = "wait")
    BY <1>1, <2>1 DEF IInv, LocksHeld, HoldsCond
  <2>3. ~ Sleepy(s)'
    BY <1>1, <1>3, <2>1, <2>2 DEF Sleepy, Signal
  <2>4. QED
    BY <2>3
<1>4. CASE s # Side(t) /\ waiters[s] # {}
  <2>1. s = Other(t)
    BY <1>4, SidesFacts
  <2>2. PICK w \in waiters[s] : waiters' = [waiters EXCEPT ![s] = @ \ {w}]
    BY <1>4, <2>1 DEF Signal
  <2>3. w \in Threads /\ Side(w) = s /\ pc[w] = "waiting"
    BY <1>1, <2>2 DEF IInv, LocksHeld
  <2>4. w # t /\ t \in Pledged(s) /\ w \notin Pledged(s)
    BY <1>1, <1>4, <2>2, <2>3 DEF Pledged, Pledges
  <2>5. Pledged(s)' = (Pledged(s) \ {t}) \cup {w}
    BY <1>1, <1>4, <2>2, <2>3, <2>4 DEF Pledged, Pledges
  <2>6. Cardinality(Pledged(s)') = Cardinality(Pledged(s))
    <3>1. IsFiniteSet(Pledged(s)) /\ Cardinality(Pledged(s)) \in Nat
      BY PledgedFinite DEF Pledged
    <3>2. /\ IsFiniteSet(Pledged(s) \ {t})
          /\ Cardinality(Pledged(s) \ {t}) = Cardinality(Pledged(s)) - 1
      BY <2>4, <3>1, FS_RemoveElement
    <3>3. Cardinality((Pledged(s) \ {t}) \cup {w}) = Cardinality(Pledged(s) \ {t}) + 1
      BY <2>4, <3>2, FS_AddElement
    <3>4. QED
      BY <2>5, <3>1, <3>2, <3>3
  <2>7. QED
    BY <1>1, <1>4, <2>6 DEF WakeInv, Sleepy, Available
<1>5. QED
  BY <1>2, <1>3, <1>4

LEMMA NextWake == IInv /\ IInv' /\ WakeInv /\ [Next]_vars => WakeInv'
<1> SUFFICES ASSUME IInv, IInv', WakeInv, [Next]_vars, NEW s \in Sides
             PROVE  Sleepy(s)' => Available(s)' <= Cardinality(Pledged(s)')
  BY DEF WakeInv
<1>0. Sleepy(s) => Available(s) <= Cardinality(Pledged(s))
  BY DEF WakeInv
<1>1. CASE UNCHANGED vars
  BY <1>0, <1>1 DEF vars, Sleepy, Available, Pledged, Pledges
<1>2. CASE Next
  <2>1. PICK t \in Threads : Step(t)
    BY <1>2 DEF Next
  <2>2. CASE Count(t)
    BY <2>2, CountKeepsPledges
  <2>3. CASE Signal(t)
    BY <2>3, SignalKeepsPledges
  <2>4. CASE Test(t) /\ Stops(t) /\ Side(t) = s
    <3>1. Available(s)' = 0
      BY <2>4, CapacityAssumption DEF Test, Stops, Available, Side
    <3>2. Cardinality(Pledged(s)') \in Nat
      BY PledgedFinite DEF Pledged
    <3>3. QED
      BY <3>1, <3>2
  <2>5. CASE ~ Count(t) /\ ~ Signal(t) /\ ~ (Test(t) /\ Stops(t) /\ Side(t) = s)
    <3>1. UNCHANGED size
      BY <2>1, <2>5 DEF Step, Calling, Run, Locking, CallEnqueue, CallDequeue, WakeUnasked,
             Test, Wait, Store, Take, UnlockCond, LockCond, LockSize, Relock, LockOther
    <3>2. Sleepy(s)' => Sleepy(s)
      BY <2>1, <2>5 DEF Step, Calling, Run, Locking, CallEnqueue, CallDequeue, WakeUnasked,
             Test, Wait, Store, Take, UnlockCond, LockCond, LockSize, Relock, LockOther, Goto,
             Sleepy, IInv, TypeOK
    <3>3. Pledged(s) \subseteq Pledged(s)'
      BY <2>1, <2>5 DEF Step, Calling, Run, Locking, CallEnqueue, CallDequeue, WakeUnasked,
             Test, Wait, Store, Take, UnlockCond, LockCond, LockSize, Relock, LockOther, Goto,
             Pledged, Pledges, IInv, TypeOK, LocksHeld
    <3>4. QED
      BY <1>0, <3>1, <3>2, <3>3, KeptPledges
  <2>6. QED
    BY <2>2, <2>3, <2>4, <2>5
<1>3. QED
  BY <1>1, <1>2

LEMMA InitWake == Init => WakeInv
BY DEF Init, WakeInv, Sleepy

(* No signal is lost: with any number of workers and places, a worker that *)
(* sleeps while connections wait is outnumbered by the threads that will   *)
(* take them or are about to wake it (cond_wait under the condition's      *)
(* lock, cond_signal under the same lock, in producer-consumer.c).         *)
THEOREM WakeupsAreKept == Spec => []NoLostWakeup
<1>1. WakeInv => NoLostWakeup
  BY DEF WakeInv, NoLostWakeup, Sleepy
<1>2. Spec => []WakeInv
  BY InitWake, NextWake, Invariance, PTL DEF Spec
<1>3. QED
  BY <1>1, <1>2, PTL
===============================================================================
