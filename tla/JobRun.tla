-------------------------------- MODULE JobRun --------------------------------
(***************************************************************************)
(* What the batch program promises a .jobs file: up to the first line that *)
(* does not parse its commands begin once each and in the order of the     *)
(* file, one at a time in each thread, and it is over when all have ended. *)
(* A line that does not parse costs nothing before it; behind it anything  *)
(* may begin.  JobThreads implements this module (src/p1/filehandler.c).   *)
(***************************************************************************)
EXTENDS Integers, Sequences

CONSTANTS
  Jobs,           \* the files, with the number of threads that run each
  Unset,          \* in a WAIT without a number
  IntMax          \* the largest int

VARIABLES
  job,            \* the file
  pos,            \* how many of its lines have been read
  running,        \* the commands that have begun and not ended, with their threads
  over            \* the program is done with the file

vars == <<job, pos, running, over>>

Malformed == {"CREATE?", "SHOW?", "WAIT?"}

IsCommand(n) == job.lines[n].op = "RUN"

(* Line n does not parse, or stands behind one that does not.              *)
Spoilt(n) == \E m \in 1 .. n : job.lines[m].op \in Malformed

(* The number of a WAIT is not set, or negative as an int.                 *)
IsWild(n) == /\ job.lines[n].op = "WAIT"
             /\ job.lines[n].thread_id = Unset \/ job.lines[n].thread_id > IntMax

Idle(t) == \A command \in running : command[1] # t

Init == job \in Jobs /\ pos = 0 /\ running = {} /\ over = FALSE

Begin(t) ==
  /\ ~ over /\ Idle(t)
  /\ pos < Len(job.lines)
  /\ IsCommand(pos + 1)
  /\ pos' = pos + 1
  /\ running' = running \cup {<<t, pos + 1>>}
  /\ UNCHANGED <<job, over>>

(* What a thread makes of spoilt lines.                                    *)
BeginSpoilt(t) ==
  /\ ~ over /\ Idle(t)
  /\ Spoilt(pos)
  /\ pos' \in pos .. Len(job.lines)
  /\ \E n \in {m \in 1 .. pos : Spoilt(m)} : running' = running \cup {<<t, n>>}
  /\ UNCHANGED <<job, over>>

Pass ==
  /\ ~ over
  /\ pos' \in pos + 1 .. Len(job.lines)
  /\ \A n \in pos + 1 .. pos' : ~ IsCommand(n) \/ Spoilt(n)
  /\ UNCHANGED <<job, running, over>>

Finish(command) ==
  /\ running' = running \ {command}
  /\ UNCHANGED <<job, pos, over>>

End ==
  /\ ~ over
  /\ pos = Len(job.lines)
  /\ running = {}
  /\ over' = TRUE
  /\ UNCHANGED <<job, pos, running>>

(* A wild WAIT may end the program, and so may a spoilt line.              *)
Crash ==
  /\ ~ over
  /\ Spoilt(pos) \/ \E n \in 1 .. pos : IsWild(n)
  /\ over' = TRUE
  /\ running' = {}
  /\ UNCHANGED <<job, pos>>

Next ==
  \/ \E t \in 1 .. job.threads : Begin(t) \/ BeginSpoilt(t)
  \/ \E command \in running : Finish(command)
  \/ Pass \/ End \/ Crash

Spec == Init /\ [][Next]_vars
===============================================================================
