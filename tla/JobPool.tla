-------------------------------- MODULE JobPool --------------------------------
(***************************************************************************)
(* The parent of the batch program (src/p1/main.c): it reads a directory,  *)
(* forks a child for every .jobs file, waits for children while it has too *)
(* many, and at the end waits for all of them.  What a child does is in    *)
(* JobThreads; here it runs until it exits, and never does if its file has *)
(* a line on which the parser spins.                                       *)
(***************************************************************************)
EXTENDS Integers, FiniteSets

CONSTANTS
  Files,     \* the .jobs files of the directory
  Others,    \* its other entries
  MaxProcs   \* the values of the second argument

ASSUME FilesAssumption == IsFiniteSet(Files) /\ IsFiniteSet(Others) /\ Files \cap Others = {}
ASSUME MaxProcsAssumption == MaxProcs \subseteq Int

VARIABLES
  max_proc,          \* the second argument
  endless,           \* the files whose child never exits
  entries,           \* the entries readdir has not returned
  filename,          \* the file the parent is about to fork for, if any
  active_processes,
  child,             \* the life of each file's child
  pc                 \* what the parent does next

arguments == <<max_proc, endless>>
vars == <<arguments, entries, filename, active_processes, child, pc>>

Init ==
  /\ max_proc \in MaxProcs
  /\ endless \in SUBSET Files
  /\ entries = Files \cup Others
  /\ filename = {}
  /\ active_processes = 0
  /\ child = [f \in Files |-> "none"]
  /\ pc = "readdir"

(* The children that have not been waited for.                             *)
Children == {f \in Files : child[f] \in {"running", "exited"}}

------------------------------------------------------------------------------
(* An entry that is no .jobs file is skipped.                              *)
ReadDir ==
  /\ pc = "readdir"
  /\ \E e \in entries :
       /\ entries' = entries \ {e}
       /\ IF e \in Files
          THEN /\ filename' = {e}
               /\ active_processes' = active_processes + 1
               /\ pc' = "fork"
          ELSE UNCHANGED <<filename, active_processes, pc>>
  /\ UNCHANGED <<arguments, child>>

\* Mutant: the child is not noted as running before the parent goes on.
ForkNoControl ==
  /\ pc = "fork"
  /\ child' = [f \in Files |-> IF f \in filename THEN "running" ELSE child[f]]
  /\ filename' = {}
  /\ pc' = "readdir"
  /\ UNCHANGED <<arguments, entries, active_processes>>

Fork ==
  /\ pc = "fork"
  /\ child' = [f \in Files |-> IF f \in filename THEN "running" ELSE child[f]]
  /\ filename' = {}
  /\ pc' = "control"
  /\ UNCHANGED <<arguments, entries, active_processes>>

(* The parent exits and leaves the children it has.                        *)
ForkFails ==
  /\ pc = "fork"
  /\ pc' = "failed"
  /\ UNCHANGED <<arguments, entries, filename, active_processes, child>>

\* Mutant: the loop waits at the limit and above it.
WaitsAtLeast == \/ pc = "control" /\ active_processes >= max_proc + 1
                \/ pc = "drain" /\ active_processes > 0

(* The two loops around wait.                                              *)
Waits == \/ pc = "control" /\ active_processes = max_proc + 1
         \/ pc = "drain" /\ active_processes > 0

\* Mutant: a wait that fails, or finds no child that has exited, counts too.
WaitUnchecked ==
  /\ Waits
  /\ \E f \in Children :
       child' = [child EXCEPT ![f] = IF @ = "exited" THEN "reaped" ELSE @]
  /\ active_processes' = active_processes - 1
  /\ UNCHANGED <<arguments, entries, filename, pc>>

(* wait returns for a child that has exited.                               *)
Wait ==
  /\ Waits
  /\ \E f \in Files : child[f] = "exited" /\ child' = [child EXCEPT ![f] = "reaped"]
  /\ active_processes' = active_processes - 1
  /\ UNCHANGED <<arguments, entries, filename, pc>>

(* The loop's head: below the limit, and at the end of the directory.      *)
Continue ==
  /\ ~ Waits
  /\ \/ pc = "control" /\ pc' = "readdir"
     \/ pc = "readdir" /\ entries = {} /\ pc' = "drain"
  /\ UNCHANGED <<arguments, entries, filename, active_processes, child>>

(* ems_terminate and the return: the parent's own list is empty.           *)
Finish ==
  /\ pc = "drain" /\ ~ Waits
  /\ pc' = "done"
  /\ UNCHANGED <<arguments, entries, filename, active_processes, child>>

(* exit of a child, whether or not its parent is still there.              *)
Exit(f) ==
  /\ child[f] = "running" /\ f \notin endless
  /\ child' = [child EXCEPT ![f] = "exited"]
  /\ UNCHANGED <<arguments, entries, filename, active_processes, pc>>

Parent == ReadDir \/ Fork \/ ForkFails \/ Wait \/ Continue \/ Finish

Next == Parent \/ \E f \in Files : Exit(f)

Spec == Init /\ [][Next]_vars

(* The scheduler runs the parent and every child that has steps to take.   *)
FairSpec == Spec /\ WF_vars(Parent) /\ \A f \in Files : WF_vars(Exit(f))

------------------------------------------------------------------------------
(* Every variable has its type; the parent holds a file exactly between    *)
(* readdir and the end of fork.                                            *)
TypeOK ==
  /\ max_proc \in MaxProcs /\ endless \subseteq Files
  /\ entries \subseteq Files \cup Others
  /\ filename \subseteq Files
  /\ IF pc \in {"fork", "failed"} THEN \E f \in Files : filename = {f} ELSE filename = {}
  /\ active_processes \in Nat
  /\ child \in [Files -> {"none", "running", "exited", "reaped"}]
  /\ pc \in {"readdir", "fork", "control", "drain", "failed", "done"}

(* active_processes is the number of children not waited for, with the one *)
(* that is about to be forked: the parent waits only while it has a child  *)
(* (a wait without one fails at once, and both loops would spin), and      *)
(* never counts one child twice.  It ends with success only when every     *)
(* file had its child and every child was waited for.                      *)
PoolCounted ==
  /\ active_processes = Cardinality(Children) + Cardinality(filename)
  /\ pc = "done" => \A f \in Files : child[f] = "reaped"

(* With an argument that is not negative at most one child more than it    *)
(* says is alive: the loop waits at max_proc + 1, not at max_proc.  A      *)
(* negative argument is no limit.                                          *)
PoolBounded == max_proc >= 0 => Cardinality(Children) <= max_proc + 1

Alive(f) == child[f] = "running" /\ f \in endless

(* Every file gets its child, whichever children end first, unless a fork  *)
(* fails or as many endless children as the loop admits are alive; and the *)
(* program ends unless such a child is alive.                              *)
PoolProgresses ==
  /\ \A f \in Files : <>(\/ child[f] # "none"
                         \/ pc = "failed"
                         \/ Cardinality({g \in Files : Alive(g)}) = max_proc + 1)
  /\ <>(pc \in {"done", "failed"} \/ \E f \in Files : Alive(f))
===============================================================================
