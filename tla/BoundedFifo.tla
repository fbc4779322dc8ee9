----------------------------- MODULE BoundedFifo -----------------------------
(***************************************************************************)
(* What a bounded queue shared by threads promises: calls that overlap in  *)
(* any way behave as if each put or took its element at one instant        *)
(* between its start and its end, first in, first out, and no call that    *)
(* adds passes the capacity.  PcQueue implements this module               *)
(* (src/p2/server/producer-consumer.h).                                    *)
(***************************************************************************)
EXTENDS Naturals, Sequences

CONSTANTS
  Producers,    \* the threads that enqueue
  Consumers,    \* the threads that dequeue
  Elems,        \* the elements
  Capacity,     \* how many the queue holds
  None          \* no element

VARIABLES
  queue,        \* the elements, oldest first
  phase,        \* "idle", "called" or "done": how far the call of t is
  elem          \* the element t brings or has received

vars == <<queue, phase, elem>>

Threads == Producers \cup Consumers

Init == /\ queue = <<>>
        /\ phase = [t \in Threads |-> "idle"]
        /\ elem = [t \in Threads |-> None]

Advance(t, from, to) == phase[t] = from /\ phase' = [phase EXCEPT ![t] = to]

StartPut(p, e) == /\ Advance(p, "idle", "called")
                  /\ elem' = [elem EXCEPT ![p] = e]
                  /\ UNCHANGED queue

StartTake(c) == Advance(c, "idle", "called") /\ UNCHANGED <<queue, elem>>

Put(p) == /\ Advance(p, "called", "done")
          /\ Len(queue) < Capacity
          /\ queue' = Append(queue, elem[p])
          /\ UNCHANGED elem

Take(c) == /\ Advance(c, "called", "done")
           /\ queue # <<>>
           /\ queue' = Tail(queue)
           /\ elem' = [elem EXCEPT ![c] = Head(queue)]

End(t) == /\ Advance(t, "done", "idle")
          /\ elem' = [elem EXCEPT ![t] = None]
          /\ UNCHANGED queue

Next == \/ \E p \in Producers : (\E e \in Elems : StartPut(p, e)) \/ Put(p)
        \/ \E c \in Consumers : StartTake(c) \/ Take(c)
        \/ \E t \in Threads : End(t)

Spec == Init /\ [][Next]_vars
===============================================================================
