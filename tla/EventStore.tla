------------------------------ MODULE EventStore ------------------------------
(***************************************************************************)
(* What the EMS server promises its sessions, with no lock in sight: a     *)
(* growing list of events on which CREATE, RESERVE and LIST are atomic,    *)
(* and a SHOW that is not: it reports every seat reserved before it was    *)
(* called, and of the reservations made since any part or nothing.         *)
(* EmsOperations implements this module (src/p2/server/operations.c).      *)
(***************************************************************************)
EXTENDS Integers, Sequences

CONSTANTS
  Workers,      \* the sessions that call the operations
  Requests      \* what a session may ask for

VARIABLES
  store,        \* the events in creation order
  call,         \* call[w] is the request worker w is executing
  floor,        \* floor[w] is the seats of every event when w called SHOW
  answer        \* answer[w] is the answer to call[w], NoAnswer until decided

vars == <<store, call, floor, answer>>

NoRequest == [op |-> "NONE"]

NoAnswer == [res |-> -1, view |-> <<>>]

(* The position of the event with that id, 0 when there is none.           *)
Position(id) ==
  IF \E e \in DOMAIN store : store[e].id = id
  THEN CHOOSE e \in DOMAIN store : store[e].id = id
  ELSE 0

Index(event, seat) == (seat[1] - 1) * event.cols + seat[2] - 1

Pending(w, op) == answer[w] = NoAnswer /\ call[w].op = op

Decide(w, res, view) ==
  answer' = [answer EXCEPT ![w] = [res |-> res, view |-> view]]

Init == /\ store = <<>>
        /\ call = [w \in Workers |-> NoRequest]
        /\ floor = [w \in Workers |-> <<>>]
        /\ answer = [w \in Workers |-> NoAnswer]

Invoke(w, r) ==
  /\ call[w] = NoRequest
  /\ call' = [call EXCEPT ![w] = r]
  /\ floor' = [floor EXCEPT ![w] =
                 IF r.op = "SHOW" THEN [e \in DOMAIN store |-> store[e].seats] ELSE <<>>]
  /\ UNCHANGED <<store, answer>>

(* A new event gets a free id and an empty room; memory may run out.       *)
Create(w) ==
  /\ Pending(w, "CREATE")
  /\ \/ /\ Position(call[w].id) = 0
        /\ store' = Append(store,
             [id |-> call[w].id, rows |-> call[w].dim[1], cols |-> call[w].dim[2], count |-> 0,
              seats |-> [i \in 0 .. call[w].dim[1] * call[w].dim[2] - 1 |-> 0]])
        /\ Decide(w, 0, <<>>)
     \/ UNCHANGED store /\ Decide(w, 1, <<>>)
  /\ UNCHANGED <<call, floor>>

(* All the seats are taken under the next reservation number, or none is.  *)
Reserve(w) ==
  LET e      == Position(call[w].id)
      wanted == {call[w].seats[j] : j \in DOMAIN call[w].seats}
      free   == /\ e # 0
                /\ \A s \in wanted : /\ s[1] \in 1 .. store[e].rows
                                     /\ s[2] \in 1 .. store[e].cols
                                     /\ store[e].seats[Index(store[e], s)] = 0
  IN  /\ Pending(w, "RESERVE")
      /\ IF free
         THEN /\ store' = [store EXCEPT
                   ![e].count = @ + 1,
                   ![e].seats = [i \in DOMAIN @ |->
                      IF \E s \in wanted : Index(store[e], s) = i THEN store[e].count + 1 ELSE @[i]]]
              /\ Decide(w, 0, <<>>)
         ELSE UNCHANGED store /\ Decide(w, 1, <<>>)
      /\ UNCHANGED <<call, floor>>

(* What w's SHOW may report of a seat: what it holds, or what it held then. *)
Seen(w, e, i) ==
  {store[e].seats[i], IF e \in DOMAIN floor[w] THEN floor[w][e][i] ELSE 0}

Show(w) ==
  LET e == Position(call[w].id)
  IN  /\ Pending(w, "SHOW")
      /\ IF e = 0
         THEN Decide(w, 1, <<>>)
         ELSE \E view \in [1 .. store[e].rows * store[e].cols -> 0 .. store[e].count] :
                /\ \A i \in DOMAIN view : view[i] \in Seen(w, e, i - 1)
                /\ Decide(w, 0, view)
      /\ UNCHANGED <<store, call, floor>>

List(w) ==
  /\ Pending(w, "LIST")
  /\ Decide(w, 0, [e \in DOMAIN store |-> store[e].id])
  /\ UNCHANGED <<store, call, floor>>

Reply(w) ==
  /\ answer[w] # NoAnswer
  /\ call' = [call EXCEPT ![w] = NoRequest]
  /\ floor' = [floor EXCEPT ![w] = <<>>]
  /\ answer' = [answer EXCEPT ![w] = NoAnswer]
  /\ UNCHANGED store

Next == \E w \in Workers :
          \/ \E r \in Requests : Invoke(w, r)
          \/ Create(w) \/ Reserve(w) \/ Show(w) \/ List(w) \/ Reply(w)

Spec == Init /\ [][Next]_vars
===============================================================================
