----------------------------- MODULE JobPool_proofs -----------------------------
(***************************************************************************)
(* Proofs about JobPool, for any directory and any second argument.        *)
(***************************************************************************)
EXTENDS JobPool, FiniteSetTheorems, TLAPS

(* What the parent's place says of the file it holds, of the files it has  *)
(* not come to, and of how many children it may have.                      *)
Ahead == \A f \in Files : child[f] = "none" => f \in entries \cup filename

Behind == /\ \A f \in filename : child[f] = "none" /\ f \notin entries
          /\ \A f \in Files : f \in entries => child[f] = "none"

Drained == pc \in {"drain", "done"} => entries = {}

Counted == active_processes = Cardinality(Children) + Cardinality(filename)

Finished == pc = "done" => active_processes = 0

Limited == max_proc >= 0 =>
  /\ active_processes <= max_proc + 1
  /\ pc = "readdir" => active_processes <= max_proc

Inv == TypeOK /\ Ahead /\ Behind /\ Drained /\ Counted /\ Finished /\ Limited

(* The children are finitely many, and the sets that one step adds a child *)
(* to, or takes one from, differ by one.                                   *)
LEMMA ChildrenFinite == IsFiniteSet(Children) /\ Cardinality(Children) \in Nat
<1>1. IsFiniteSet(Files)
  BY FilesAssumption
<1>2. Children \subseteq Files
  BY DEF Children
<1> QED
  BY <1>1, <1>2, FS_Subset, FS_CardinalityType

LEMMA OneFile == ASSUME NEW f PROVE Cardinality({f}) = 1 /\ Cardinality({}) = 0
BY FS_Singleton, FS_EmptySet

LEMMA InitInv == Init => Inv
<1> SUFFICES ASSUME Init PROVE Inv
  OBVIOUS
<1> USE MaxProcsAssumption DEF Init
<1>1. Children = {} /\ filename = {}
  BY DEF Children
<1>2. Counted
  BY <1>1, FS_EmptySet DEF Counted
<1>3. TypeOK
  BY FilesAssumption DEF TypeOK
<1> QED
  BY <1>2, <1>3 DEF Inv, Ahead, Behind, Drained, Finished, Limited, TypeOK

LEMMA ReadDirInv == Inv /\ ReadDir => Inv'
<1> SUFFICES ASSUME Inv, ReadDir PROVE Inv'
  OBVIOUS
<1> USE MaxProcsAssumption DEF Inv
<1>0. filename = {} /\ child' = child /\ max_proc' = max_proc /\ endless' = endless
  BY DEF ReadDir, TypeOK, arguments
<1>1. PICK e \in entries :
        /\ entries' = entries \ {e}
        /\ IF e \in Files
           THEN /\ filename' = {e}
                /\ active_processes' = active_processes + 1
                /\ pc' = "fork"
           ELSE UNCHANGED <<filename, active_processes, pc>>
  BY DEF ReadDir
<1>2. Children' = Children
  BY <1>0 DEF Children
<1>3. CASE e \in Files
  <2>0. Cardinality(filename) = 0 /\ Cardinality(filename') = 1
    BY <1>0, <1>1, <1>3, OneFile, Zenon
  <2>1. Counted'
    BY <1>1, <1>2, <1>3, <2>0, ChildrenFinite DEF Counted
  <2>2. TypeOK'
    BY <1>0, <1>1, <1>3 DEF TypeOK
  <2>3. (Ahead /\ Behind)'
    BY <1>0, <1>1, <1>3 DEF Ahead, Behind, TypeOK
  <2>4. (Drained /\ Finished /\ Limited)'
    BY <1>0, <1>1, <1>3 DEF Drained, Finished, Limited, TypeOK, ReadDir
  <2> QED
    BY <2>1, <2>2, <2>3, <2>4
<1>4. CASE e \notin Files
  <2>1. Counted'
    BY <1>1, <1>2, <1>4 DEF Counted
  <2>2. TypeOK'
    BY <1>0, <1>1, <1>4 DEF TypeOK
  <2>3. (Ahead /\ Behind)'
    BY <1>0, <1>1, <1>4 DEF Ahead, Behind, TypeOK
  <2>4. (Drained /\ Finished /\ Limited)'
    BY <1>0, <1>1, <1>4 DEF Drained, Finished, Limited, TypeOK, ReadDir
  <2> QED
    BY <2>1, <2>2, <2>3, <2>4
<1> QED
  BY <1>3, <1>4

LEMMA ForkInv == Inv /\ Fork => Inv'
<1> SUFFICES ASSUME Inv, Fork PROVE Inv'
  OBVIOUS
<1> USE MaxProcsAssumption DEF Inv
<1>1. PICK f \in Files : filename = {f}
  BY DEF Fork, TypeOK
<1>2. child' = [child EXCEPT ![f] = "running"] /\ child[f] = "none" /\ filename' = {}
  BY <1>1 DEF Fork, TypeOK, Behind
<1>3. Children' = Children \cup {f} /\ f \notin Children
  BY <1>1, <1>2 DEF Children, TypeOK
<1>4. Cardinality(Children') = Cardinality(Children) + 1
  BY <1>3, ChildrenFinite, FS_AddElement
<1>0. Cardinality(filename) = 1 /\ Cardinality(filename') = 0
  BY <1>1, <1>2, OneFile, Zenon
<1>5. Counted'
  BY <1>0, <1>4, ChildrenFinite DEF Counted, Fork
<1>6. TypeOK'
  BY <1>1, <1>2 DEF TypeOK, Fork, arguments
<1>7. (Ahead /\ Behind)'
  BY <1>1, <1>2 DEF Ahead, Behind, TypeOK, Fork
<1>8. (Drained /\ Finished /\ Limited)'
  BY DEF Drained, Finished, Limited, Fork, arguments
<1> QED
  BY <1>5, <1>6, <1>7, <1>8

LEMMA WaitInv == Inv /\ Wait => Inv'
<1> SUFFICES ASSUME Inv, Wait PROVE Inv'
  OBVIOUS
<1> USE MaxProcsAssumption DEF Inv
<1>1. PICK f \in Files : child[f] = "exited" /\ child' = [child EXCEPT ![f] = "reaped"]
  BY DEF Wait
<1>2. Children' = Children \ {f} /\ f \in Children
  BY <1>1 DEF Children, TypeOK
<1>3. Cardinality(Children') = Cardinality(Children) - 1
  BY <1>2, ChildrenFinite, FS_RemoveElement
<1>0. filename = {} /\ filename' = {} /\ pc \notin {"fork", "failed", "readdir", "done"}
  BY DEF Wait, Waits, TypeOK
<1>4. Counted' /\ active_processes' \in Nat
  BY <1>0, <1>2, <1>3, OneFile, ChildrenFinite, FS_EmptySet DEF Counted, Wait, TypeOK
<1>5. TypeOK'
  BY <1>0, <1>1, <1>4 DEF TypeOK, Wait, arguments
<1>6. (Ahead /\ Behind)'
  BY <1>0, <1>1 DEF Ahead, Behind, TypeOK, Wait
<1>7. (Drained /\ Finished /\ Limited)'
  BY <1>0 DEF Drained, Finished, Limited, Wait, TypeOK, arguments
<1> QED
  BY <1>4, <1>5, <1>6, <1>7

LEMMA ExitInv == ASSUME NEW f \in Files PROVE Inv /\ Exit(f) => Inv'
<1> SUFFICES ASSUME Inv, Exit(f) PROVE Inv'
  OBVIOUS
<1> USE MaxProcsAssumption DEF Inv
<1>1. Children' = Children
  BY DEF Children, Exit, TypeOK
<1>2. Counted'
  BY <1>1 DEF Counted, Exit
<1>3. TypeOK'
  BY DEF TypeOK, Exit, arguments
<1>4. (Ahead /\ Behind)'
  BY DEF Ahead, Behind, TypeOK, Exit
<1>5. (Drained /\ Finished /\ Limited)'
  BY DEF Drained, Finished, Limited, Exit, arguments
<1> QED
  BY <1>2, <1>3, <1>4, <1>5

(* The steps that change nothing but the parent's place.                   *)
LEMMA PlaceInv == Inv /\ (ForkFails \/ Continue \/ Finish) => Inv'
<1> SUFFICES ASSUME Inv, ForkFails \/ Continue \/ Finish PROVE Inv'
  OBVIOUS
<1> USE MaxProcsAssumption DEF Inv
<1>1. UNCHANGED <<arguments, entries, filename, active_processes, child>>
  BY DEF ForkFails, Continue, Finish
<1>2. Children' = Children
  BY <1>1 DEF Children
<1>3. Counted' /\ Ahead' /\ Behind'
  BY <1>1, <1>2 DEF Counted, Ahead, Behind
<1>4. CASE ForkFails
  BY <1>1, <1>3, <1>4 DEF ForkFails, TypeOK, Drained, Finished, Limited, arguments
<1>5. CASE Continue
  BY <1>1, <1>3, <1>5 DEF Continue, Waits, TypeOK, Drained, Finished, Limited, arguments
<1>6. CASE Finish
  BY <1>1, <1>3, <1>6 DEF Finish, Waits, TypeOK, Drained, Finished, Limited, arguments
<1> QED
  BY <1>4, <1>5, <1>6

THEOREM InvCorrect == Spec => []Inv
<1>1. Inv /\ [Next]_vars => Inv'
  <2> SUFFICES ASSUME Inv, [Next]_vars PROVE Inv'
    OBVIOUS
  <2>1. CASE Parent
    BY <2>1, ReadDirInv, ForkInv, WaitInv, PlaceInv DEF Parent
  <2>2. ASSUME NEW f \in Files, Exit(f) PROVE Inv'
    BY <2>2, ExitInv
  <2>3. CASE UNCHANGED vars
    BY <2>3 DEF vars, arguments, Inv, TypeOK, Ahead, Behind, Drained, Counted, Finished,
                Limited, Children
  <2> QED
    BY <2>1, <2>2, <2>3 DEF Next
<1> QED
  BY <1>1, InitInv, PTL DEF Spec

(* Type correctness, for any directory and any second argument.           *)
THEOREM TypeCorrect == Spec => []TypeOK
<1>1. Inv => TypeOK
  BY DEF Inv
<1> QED
  BY <1>1, InvCorrect, PTL

(* However the children end, active_processes is the number of children    *)
(* the parent has not waited for, with the one that it is about to fork;   *)
(* and it ends with success only after a wait for the child of every file. *)
THEOREM CountCorrect == Spec => []PoolCounted
<1>1. Inv => PoolCounted
  <2> SUFFICES ASSUME Inv PROVE PoolCounted
    OBVIOUS
  <2> USE MaxProcsAssumption DEF Inv
  <2>1. ASSUME pc = "done", NEW f \in Files PROVE child[f] = "reaped"
    <3>1. filename = {} /\ entries = {} /\ active_processes = 0
      BY <2>1 DEF TypeOK, Drained, Finished
    <3>2. Cardinality(Children) = 0
      BY <3>1, ChildrenFinite, FS_EmptySet DEF Counted
    <3>3. Children = {}
      BY <3>2, ChildrenFinite, FS_EmptySet
    <3> QED
      BY <3>1, <3>3 DEF Ahead, Children, TypeOK
  <2> QED
    BY <2>1 DEF PoolCounted, Counted
<1> QED
  BY <1>1, InvCorrect, PTL

(* With an argument that is not negative, at most one child more than it   *)
(* says is alive, for any directory.                                       *)
THEOREM BoundCorrect == Spec => []PoolBounded
<1>1. Inv => PoolBounded
  <2> SUFFICES ASSUME Inv, max_proc >= 0 PROVE Cardinality(Children) <= max_proc + 1
    BY DEF PoolBounded
  <2>1. Cardinality(filename) \in Nat
    BY FilesAssumption, FS_Subset, FS_CardinalityType DEF Inv, TypeOK
  <2> QED
    BY <2>1, ChildrenFinite, MaxProcsAssumption DEF Inv, TypeOK, Counted, Limited
<1> QED
  BY <1>1, InvCorrect, PTL
===============================================================================
