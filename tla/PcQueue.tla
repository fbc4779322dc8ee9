------------------------------- MODULE PcQueue -------------------------------
(***************************************************************************)
(* The queue between the host thread, which accepts connections, and the   *)
(* worker threads, which serve them (src/p2/server/producer-consumer.c):   *)
(* a circular buffer, its size under a lock, and for each side a condition *)
(* variable with a lock of its own.  The two sides run the same protocol:  *)
(* pass the own condition's lock, wait under it while the queue is full    *)
(* (push) or empty (pop), move one element, release, then signal the other *)
(* side under its lock.  One action is what a thread does between two lock *)
(* operations.  pcq_head_lock and pcq_tail_lock are only ever taken under  *)
(* pcq_current_size_lock, so nobody waits for them: Store and Take contain *)
(* them.                                                                   *)
(***************************************************************************)
EXTENDS Integers, FiniteSets

CONSTANTS
  Producers,    \* the threads that enqueue: the server has one, the host
  Consumers,    \* the threads that dequeue: the workers
  Elems,        \* what is queued: the clients of accepted connections
  Capacity,     \* pcq_capacity
  None          \* no element, and the holder of a lock that is free

ASSUME SidesAssumption == Producers \cap Consumers = {}
ASSUME ThreadsAssumption == IsFiniteSet(Producers) /\ IsFiniteSet(Consumers)
ASSUME CapacityAssumption == Capacity \in Nat \ {0}
ASSUME NoneAssumption == None \notin Producers \cup Consumers \cup Elems

Threads == Producers \cup Consumers

Sides == {"push", "pop"}

Side(t) == IF t \in Producers THEN "push" ELSE "pop"

Other(t) == IF t \in Producers THEN "pop" ELSE "push"

VARIABLES
  size,         \* pcq_current_size
  head,         \* pcq_head
  tail,         \* pcq_tail
  buffer,       \* pcq_buffer, whose cells malloc leaves undefined
  sizeLock,     \* the holder of pcq_current_size_lock
  condLock,     \* the holders of pcq_pusher_condvar_lock, pcq_popper_condvar_lock
  waiters,      \* the threads inside cond_wait, by side
  pc,           \* what each thread does next
  elem          \* the element a thread brings or has received

vars == <<size, head, tail, buffer, sizeLock, condLock, waiters, pc, elem>>

ring == <<head, tail, buffer>>

------------------------------------------------------------------------------
Init ==
  /\ size = 0
  /\ head = 0
  /\ tail = 0
  /\ buffer = [k \in 0 .. Capacity - 1 |-> None]
  /\ sizeLock = None
  /\ condLock = [s \in Sides |-> None]
  /\ waiters = [s \in Sides |-> {}]
  /\ pc = [t \in Threads |-> "idle"]
  /\ elem = [t \in Threads |-> None]

Goto(t, from, to) == pc[t] = from /\ pc' = [pc EXCEPT ![t] = to]

Acquire(s, t) == condLock[s] = None /\ condLock' = [condLock EXCEPT ![s] = t]

Release(s) == condLock' = [condLock EXCEPT ![s] = None]

(* pcq_enqueue(queue, e) and pcq_dequeue(queue) are called.                *)
CallEnqueue(t, e) ==
  /\ t \in Producers
  /\ Goto(t, "idle", "lock_cond")
  /\ elem' = [elem EXCEPT ![t] = e]
  /\ UNCHANGED <<size, ring, sizeLock, condLock, waiters>>

CallDequeue(t) ==
  /\ t \in Consumers
  /\ Goto(t, "idle", "lock_cond")
  /\ UNCHANGED <<size, ring, sizeLock, condLock, waiters, elem>>

LockCond(t) ==
  /\ Goto(t, "lock_cond", "lock_size")
  /\ Acquire(Side(t), t)
  /\ UNCHANGED <<size, ring, sizeLock, waiters, elem>>

LockSize(t) ==
  /\ Goto(t, "lock_size", "test")
  /\ sizeLock = None
  /\ sizeLock' = t
  /\ UNCHANGED <<size, ring, condLock, waiters, elem>>

(* A full queue stops a producer, an empty one a consumer.                 *)
Stops(t) == size = IF t \in Producers THEN Capacity ELSE 0

(* Mutant of Test: the size stays locked during the wait.                  *)
TestKeepsSize(t) ==
  /\ Goto(t, "test", IF Stops(t) THEN "wait" ELSE "move")
  /\ UNCHANGED <<size, ring, sizeLock, condLock, waiters, elem>>

(* The loop test: a stopped thread releases the size before it waits.      *)
Test(t) ==
  /\ IF Stops(t)
     THEN Goto(t, "test", "wait") /\ sizeLock' = None
     ELSE Goto(t, "test", "move") /\ UNCHANGED sizeLock
  /\ UNCHANGED <<size, ring, condLock, waiters, elem>>

(* cond_wait releases the condition's lock and waits, in one step; ...     *)
Wait(t) ==
  /\ Goto(t, "wait", "waiting")
  /\ Release(Side(t))
  /\ waiters' = [waiters EXCEPT ![Side(t)] = @ \cup {t}]
  /\ UNCHANGED <<size, ring, sizeLock, elem>>

(* ... it may return without a signal, as POSIX lets it; ...               *)
WakeUnasked(t) ==
  /\ pc[t] = "waiting" /\ t \in waiters[Side(t)]
  /\ waiters' = [waiters EXCEPT ![Side(t)] = @ \ {t}]
  /\ UNCHANGED <<size, ring, sizeLock, condLock, pc, elem>>

(* Mutant of Relock: if instead of while, woken threads do not test again. *)
RelockNoRetest(t) ==
  /\ t \notin waiters[Side(t)]
  /\ Goto(t, "waiting", "move")
  /\ Acquire(Side(t), t)
  /\ sizeLock = None /\ sizeLock' = t
  /\ UNCHANGED <<size, ring, waiters, elem>>

(* ... and once awake it locks again before it returns.                    *)
Relock(t) ==
  /\ t \notin waiters[Side(t)]
  /\ Goto(t, "waiting", "lock_size")
  /\ Acquire(Side(t), t)
  /\ UNCHANGED <<size, ring, sizeLock, waiters, elem>>

Store(t) ==
  /\ t \in Producers
  /\ Goto(t, "move", "count")
  /\ buffer' = [buffer EXCEPT ![tail] = elem[t]]
  /\ tail' = (tail + 1) % Capacity
  /\ UNCHANGED <<size, head, sizeLock, condLock, waiters, elem>>

Take(t) ==
  /\ t \in Consumers
  /\ Goto(t, "move", "count")
  /\ elem' = [elem EXCEPT ![t] = buffer[head]]
  /\ head' = (head + 1) % Capacity
  /\ UNCHANGED <<size, tail, buffer, sizeLock, condLock, waiters>>

(* The size is adjusted and its lock released.                             *)
Count(t) ==
  /\ Goto(t, "count", "unlock_cond")
  /\ size' = IF t \in Producers THEN size + 1 ELSE size - 1
  /\ sizeLock' = None
  /\ UNCHANGED <<ring, condLock, waiters, elem>>

(* Mutant of UnlockCond: only the first element of an empty queue, or the  *)
(* first place of a full one, is signalled.                                *)
UnlockCondSignalsFirst(t) ==
  /\ Goto(t, "unlock_cond",
          IF size = (IF t \in Producers THEN 1 ELSE Capacity - 1) THEN "lock_other" ELSE "idle")
  /\ Release(Side(t))
  /\ UNCHANGED <<size, ring, sizeLock, waiters, elem>>

UnlockCond(t) ==
  /\ Goto(t, "unlock_cond", "lock_other")
  /\ Release(Side(t))
  /\ UNCHANGED <<size, ring, sizeLock, waiters, elem>>

LockOther(t) ==
  /\ Goto(t, "lock_other", "signal")
  /\ Acquire(Other(t), t)
  /\ UNCHANGED <<size, ring, sizeLock, waiters, elem>>

(* Mutant of Signal: the call signals the condition of its own side.       *)
SignalOwnSide(t) ==
  /\ Goto(t, "signal", "idle")
  /\ \/ waiters[Side(t)] = {} /\ UNCHANGED waiters
     \/ \E w \in waiters[Side(t)] :
          waiters' = [waiters EXCEPT ![Side(t)] = @ \ {w}]
  /\ Release(Other(t))
  /\ elem' = [elem EXCEPT ![t] = None]
  /\ UNCHANGED <<size, ring, sizeLock>>

(* cond_signal wakes one thread of the other side, if any waits; the call  *)
(* unlocks and returns.                                                    *)
Signal(t) ==
  /\ Goto(t, "signal", "idle")
  /\ \/ waiters[Other(t)] = {} /\ UNCHANGED waiters
     \/ \E w \in waiters[Other(t)] :
          waiters' = [waiters EXCEPT ![Other(t)] = @ \ {w}]
  /\ Release(Other(t))
  /\ elem' = [elem EXCEPT ![t] = None]
  /\ UNCHANGED <<size, ring, sizeLock>>

(* The steps a thread inside a call makes as soon as it is scheduled, ...  *)
Run(t) == \/ Test(t) \/ Wait(t) \/ Store(t) \/ Take(t) \/ Count(t)
          \/ UnlockCond(t) \/ Signal(t)

(* ... and those for which it needs a lock.                                *)
Locking(t) == LockCond(t) \/ LockSize(t) \/ Relock(t) \/ LockOther(t)

Calling(t) == (\E e \in Elems : CallEnqueue(t, e)) \/ CallDequeue(t)

Step(t) == Calling(t) \/ WakeUnasked(t) \/ Run(t) \/ Locking(t)

Next == \E t \in Threads : Step(t)

Spec == Init /\ [][Next]_vars

(* Running threads run, and a thread that can get a lock again and again   *)
(* gets it.  Nobody has to call, and nobody has to wake unasked.           *)
Fairness == \A t \in Threads : WF_vars(Run(t)) /\ SF_vars(Locking(t))

FairSpec == Spec /\ Fairness

------------------------------------------------------------------------------
(* Every variable holds a value of its type: in particular the size never  *)
(* leaves 0 .. Capacity and a lock is held by a thread or by nobody.       *)
TypeOK ==
  /\ size \in 0 .. Capacity
  /\ head \in 0 .. Capacity - 1
  /\ tail \in 0 .. Capacity - 1
  /\ buffer \in [0 .. Capacity - 1 -> Elems \cup {None}]
  /\ sizeLock \in Threads \cup {None}
  /\ condLock \in [Sides -> Threads \cup {None}]
  /\ waiters \in [Sides -> SUBSET Threads]
  /\ pc \in [Threads -> {"idle", "lock_cond", "lock_size", "test", "wait", "waiting",
                         "move", "count", "unlock_cond", "lock_other", "signal"}]
  /\ elem \in [Threads -> Elems \cup {None}]

HoldsSize(t) == pc[t] \in {"test", "move", "count"}

HoldsCond(s, t) ==
  \/ s = Side(t)  /\ pc[t] \in {"lock_size", "test", "wait", "move", "count", "unlock_cond"}
  \/ s = Other(t) /\ pc[t] = "signal"

(* A thread holds exactly the locks its place in the code implies, so that *)
(* no two threads are past the same lock, and only threads inside          *)
(* cond_wait are asleep on a condition, the one of their own side.         *)
LocksHeld ==
  \A t \in Threads :
    /\ HoldsSize(t) <=> sizeLock = t
    /\ \A s \in Sides : /\ HoldsCond(s, t) <=> condLock[s] = t
                        /\ t \in waiters[s] => s = Side(t) /\ pc[t] = "waiting"

(* The elements the queue holds: one that is stored or taken but not yet   *)
(* counted is in or out already.                                           *)
Length ==
  CASE \E t \in Producers : pc[t] = "count" -> size + 1
    [] \E t \in Consumers : pc[t] = "count" -> size - 1
    [] OTHER -> size

Contents == [k \in 1 .. Length |-> buffer[(head + k - 1) % Capacity]]

Phase(at) ==
  CASE at = "idle" -> "idle"
    [] at \in {"count", "unlock_cond", "lock_other", "signal"} -> "done"
    [] OTHER -> "called"

Phases == [t \in Threads |-> Phase(pc[t])]

(* However the calls overlap, the circular buffer behaves as one atomic    *)
(* first-in first-out queue of bounded length: no element is lost,         *)
(* duplicated, overtaken, or read from a cell nobody wrote.                *)
Fifo == INSTANCE BoundedFifo WITH queue <- Contents, phase <- Phases

ImplementsFifo == Fifo!Spec

(* No wakeup is lost: when threads of a side sleep, every place or element *)
(* they could have is spoken for, by a thread of their side that is awake  *)
(* and has yet to test or move, or by a call of the other side that has    *)
(* yet to signal.  It is what keeps a client from waiting in the queue     *)
(* beside an idle worker.                                                  *)
Pledges(s, t) ==
  IF Side(t) = s
  THEN t \notin waiters[s] /\ pc[t] \in {"lock_size", "test", "waiting", "move", "count"}
  ELSE pc[t] \in {"unlock_cond", "lock_other", "signal"}

Pledged(s) == {t \in Threads : Pledges(s, t)}

Available(s) == IF s = "push" THEN Capacity - size ELSE size

NoLostWakeup ==
  \A s \in Sides : waiters[s] # {} => Available(s) <= Cardinality(Pledged(s))

(* While the queue has room, or elements, and threads of that side are in  *)
(* their call, one of them is eventually served.                           *)
WaitingIsServed ==
  \A s \in Sides :
    (/\ Available(s) > 0
     /\ \E t \in Threads : Side(t) = s /\ Phases[t] = "called")
      ~> \E t \in Threads : Side(t) = s /\ pc[t] = "count"
===============================================================================
