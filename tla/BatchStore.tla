------------------------------ MODULE BatchStore ------------------------------
(***************************************************************************)
(* What the batch program promises the commands of a .jobs file: each of   *)
(* them happens at one moment, a SHOW and a LIST print at that moment all  *)
(* they print, and a write to the output that fails cuts short what that   *)
(* command prints and nothing else.  BatchOperations implements this       *)
(* module (src/p1/operations.c).                                           *)
(***************************************************************************)
EXTENDS Integers, Sequences

CONSTANTS
  Threads,      \* the threads that execute the commands
  Commands      \* the commands of a file

VARIABLES
  store,        \* the events in creation order
  out,          \* what the output file holds: seats and ids
  command,      \* the command of each thread
  answer        \* its result, 0 or 1, and -1 before it is decided

vars == <<store, out, command, answer>>

NoCommand == [op |-> "NONE"]

Position(id) ==
  IF \E e \in DOMAIN store : store[e].id = id
  THEN CHOOSE e \in DOMAIN store : store[e].id = id
  ELSE 0

Index(event, seat) == (seat[1] - 1) * event.cols + seat[2] - 1

Pending(t, op) == answer[t] = -1 /\ command[t].op = op

Decide(t, res) == answer' = [answer EXCEPT ![t] = res]

Init == /\ store = <<>>
        /\ out = <<>>
        /\ command = [t \in Threads |-> NoCommand]
        /\ answer = [t \in Threads |-> -1]

Call(t, c) ==
  /\ command[t] = NoCommand
  /\ command' = [command EXCEPT ![t] = c]
  /\ UNCHANGED <<store, out, answer>>

Return(t) ==
  /\ answer[t] # -1
  /\ command' = [command EXCEPT ![t] = NoCommand]
  /\ answer' = [answer EXCEPT ![t] = -1]
  /\ UNCHANGED <<store, out>>

(* An id that is new gets an empty room, unless memory runs out.           *)
Create(t) ==
  LET c == command[t] IN
  /\ Pending(t, "CREATE")
  /\ \/ /\ Position(c.id) = 0
        /\ store' = Append(store, [id |-> c.id, rows |-> c.dim[1], cols |-> c.dim[2], count |-> 0,
                                   seats |-> [s \in 0 .. c.dim[1] * c.dim[2] - 1 |-> 0]])
        /\ Decide(t, 0)
     \/ UNCHANGED store /\ Decide(t, 1)
  /\ UNCHANGED <<out, command>>

(* The seats, which are different ones, are all free and taken, or none is. *)
Reserve(t) ==
  LET seats == command[t].seats
      e == Position(command[t].id)
      free == \A j \in DOMAIN seats :
                /\ seats[j][1] \in 1 .. store[e].rows
                /\ seats[j][2] \in 1 .. store[e].cols
                /\ store[e].seats[Index(store[e], seats[j])] = 0
                /\ \A k \in 1 .. j - 1 : seats[k] # seats[j]
  IN
  /\ Pending(t, "RESERVE")
  /\ IF e # 0 /\ free
     THEN /\ store' = [store EXCEPT
               ![e].count = @ + 1,
               ![e].seats = [s \in DOMAIN @ |->
                  IF \E j \in DOMAIN seats : Index(store[e], seats[j]) = s
                  THEN store[e].count + 1 ELSE @[s]]]
          /\ Decide(t, 0)
     ELSE UNCHANGED store /\ Decide(t, 1)
  /\ UNCHANGED <<out, command>>

(* A block is printed in one piece, whole or, if a write fails, in part.   *)
PrintBlock(t, block) ==
  /\ \/ out' = out \o block /\ Decide(t, 0)
     \/ \E k \in 0 .. Len(block) : out' = out \o SubSeq(block, 1, k) /\ Decide(t, 1)
  /\ UNCHANGED <<store, command>>

Show(t) ==
  LET e == Position(command[t].id) IN
  /\ Pending(t, "SHOW")
  /\ PrintBlock(t, IF e = 0 THEN <<>>
              ELSE [s \in 1 .. store[e].rows * store[e].cols |-> store[e].seats[s - 1]])
  /\ e = 0 => answer'[t] = 1

List(t) ==
  /\ Pending(t, "LIST")
  /\ PrintBlock(t, [e \in DOMAIN store |-> store[e].id])

Next == \E t \in Threads :
          \/ \E c \in Commands : Call(t, c)
          \/ Create(t) \/ Reserve(t) \/ Show(t) \/ List(t) \/ Return(t)

Spec == Init /\ [][Next]_vars
===============================================================================
