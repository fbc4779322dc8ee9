------------------------------ MODULE JobThreads ------------------------------
(***************************************************************************)
(* The threads of the batch program that share one .jobs file              *)
(* (src/p1/filehandler.c).  The host creates them, joins them and, if they *)
(* stopped for a BARRIER, creates them anew; each reads a line under       *)
(* file_mutex and executes it, until a line does not parse: its thread     *)
(* then parses on without the mutex, and unlocks it with every line.  The  *)
(* commands themselves are in BatchOperations.                             *)
(*                                                                         *)
(* What a thread does between a lock and the end of get_next, and from     *)
(* there to the unlock, is one step each.  A thread whose hold another has *)
(* released can be interrupted inside such a step, but only its reads of   *)
(* the file, which the variable mixed stands for, and its updates of WAIT  *)
(* and the wait times, which nothing else depends on, can then interfere.  *)
(*                                                                         *)
(* A line is a record with its op: "RUN" is a CREATE, RESERVE, SHOW or     *)
(* LIST, "SKIP" a comment, a HELP or no command at all, "EMPTY" an empty   *)
(* line; a malformed CREATE or RESERVE is a "CREATE?", a malformed SHOW a  *)
(* "SHOW?", and a malformed WAIT and a WAIT 0 are a "WAIT?".  Lines are    *)
(* those get_next makes: a word that is cut short takes the next line with *)
(* it, and the two are one "SKIP".  A pthread_create that fails is not     *)
(* modelled.                                                               *)
(***************************************************************************)
EXTENDS Integers, Sequences, FiniteSets

CONSTANTS
  Jobs,         \* the files, with the number of threads that run each
  MaxThreads,   \* bound: the most threads that run a file
  IntMax,       \* the largest int
  WaitNumbers,  \* bound: the unsigned ints that stand in a WAIT, and for an unset one
  Unset,        \* a local that is read before it is written
  Garbage,      \* bound: the counts an unset local can hold
  NoThread      \* the holder of a mutex that nobody holds

UINT_MAX == 2 * IntMax + 1

Malformed == {"CREATE?", "SHOW?", "WAIT?"}

Lines == [op : {"RUN", "SKIP", "EMPTY", "BARRIER"} \cup Malformed]
           \cup [op : {"WAIT"}, thread_id : WaitNumbers \cup {Unset}]

HasMalformed(j) == \E n \in 1 .. Len(j.lines) : j.lines[n].op \in Malformed

ASSUME MaxThreadsAssumption == MaxThreads \in Nat \ {0}
ASSUME IntMaxAssumption == IntMax \in Nat /\ MaxThreads <= IntMax
ASSUME WaitNumbersAssumption == WaitNumbers \subseteq 0 .. UINT_MAX
ASSUME JobsAssumption ==
  \A j \in Jobs : j.threads \in 0 .. MaxThreads /\ j.lines \in Seq(Lines)
ASSUME GarbageAssumption == Garbage \subseteq Int /\ Unset \notin Int
ASSUME JobNoThreadAssumption == NoThread \notin Nat

Threads == 1 .. MaxThreads

Host == 0

VARIABLES
  job,          \* the file and its max_threads
  pos,          \* how many of its lines have been read, whole or in part
  mixed,        \* two threads have read bytes of one line
  BARRIER,      \* a thread has read a BARRIER
  WAIT,         \* a thread has read a WAIT
  waiting,      \* the numbers whose wait_time is not 0
  thread_id,    \* the number for the thread that starts next
  mutex,        \* the holder of file_mutex
  stolen,       \* history: a thread has released the hold of another
  \* process_job_file
  hpc, i, exit,
  \* the locals of each thread, which is its index in threads
  pc,
  id,           \* its thread_id
  line,         \* the line it read last
  need,         \* threads_that_need_wait
  target,       \* thread_id_wait
  result,       \* what it returned: 1 at the end of the file
  first         \* history: the line it read first

file   == <<pos, mixed>>
shared == <<BARRIER, WAIT, waiting, thread_id>>
lock   == <<mutex, stolen>>
host   == <<hpc, i, exit>>
locals == <<id, line, need, target, result, first>>
vars   == <<job, file, shared, lock, host, pc, locals>>

------------------------------------------------------------------------------
Init ==
  /\ job \in Jobs
  /\ pos = 0 /\ mixed = FALSE
  /\ BARRIER = FALSE /\ WAIT = FALSE
  /\ waiting \in SUBSET (1 .. job.threads)   \* malloc leaves it unset
  /\ thread_id = 0
  /\ mutex = NoThread /\ stolen = FALSE
  /\ hpc = "create" /\ i = 0 /\ exit = FALSE
  /\ pc = [t \in Threads |-> "none"]
  /\ id = [t \in Threads |-> 0]
  /\ line = [t \in Threads |-> 0]
  /\ need = [t \in Threads |-> Unset]
  /\ target = [t \in Threads |-> Unset]
  /\ result = [t \in Threads |-> 0]
  /\ first = [t \in Threads |-> 0]

Goto(t, from, to) == pc[t] = from /\ pc' = [pc EXCEPT ![t] = to]

Set(f, t, value) == f' = [f EXCEPT ![t] = value]

------------------------------------------------------------------------------
\* file_mutex

TakeMutex(t) == mutex = NoThread /\ mutex' = t /\ UNCHANGED stolen

(* An unlock frees the mutex, whoever has it.                              *)
Unlock(t) == mutex' = NoThread /\ stolen' = (stolen \/ mutex \notin {t, NoThread})

------------------------------------------------------------------------------
\* process_job_file

LockToCreate ==
  /\ hpc = "create" /\ i < job.threads
  /\ TakeMutex(Host)
  /\ hpc' = "number"
  /\ UNCHANGED <<job, file, shared, i, exit, pc, locals>>

CreateThread ==
  /\ hpc = "number"
  /\ thread_id' = i + 1
  /\ Unlock(Host)
  /\ Goto(i + 1, "none", "start")
  /\ i' = i + 1
  /\ hpc' = "create"
  /\ UNCHANGED <<job, file, BARRIER, WAIT, waiting, exit, locals>>

EndCreate ==
  /\ hpc = "create" /\ i = job.threads
  /\ i' = 0
  /\ hpc' = "join"
  /\ UNCHANGED <<job, file, shared, lock, exit, pc, locals>>

JoinThread ==
  /\ hpc = "join" /\ i < job.threads
  /\ Goto(i + 1, "exited", "none")
  /\ exit' = (exit \/ result[i + 1] = 1)
  /\ Set(result, i + 1, 0)
  /\ i' = i + 1
  /\ UNCHANGED <<job, file, shared, lock, hpc, id, line, need, target, first>>

(* If the mutex was unlocked too often mutex_destroy ends the process, at  *)
(* the place where it ends anyway.                                         *)
Close ==
  /\ hpc = "join" /\ i = job.threads
  /\ exit
  /\ hpc' = "over"
  /\ UNCHANGED <<job, file, shared, lock, i, exit, pc, locals>>

CreateAgain ==
  /\ hpc = "join" /\ i = job.threads
  /\ ~ exit
  /\ BARRIER' = FALSE
  /\ i' = 0
  /\ hpc' = "create"
  /\ UNCHANGED <<job, file, WAIT, waiting, thread_id, lock, exit, pc, locals>>

HostStep == LockToCreate \/ CreateThread \/ EndCreate \/ JoinThread \/ Close \/ CreateAgain

------------------------------------------------------------------------------
\* execute_file_commands

Lock(t) ==
  /\ TakeMutex(t)
  /\ Goto(t, "start", "begin") \/ Goto(t, "more", "count") \/ Goto(t, "wait", "set")
  /\ UNCHANGED <<job, file, shared, host, locals>>

Op(t) == job.lines[line[t]].op

(* Another thread is reading a line, or can read the one that comes next.  *)
Beside(t) ==
  \E u \in Threads \ {t} : pc[u] = "parse" \/ (pc[u] = "reparse" /\ pos < Len(job.lines))

(* Two threads that read beside each other can get bytes of one line; from *)
(* there on the lines may be split in any way.                             *)
Mix(t) == mixed' \in {mixed, mixed \/ Beside(t)}

\* Mutant: the end of the file is read as one more line.
GetNextPastEnd(t, from) ==
  /\ Goto(t, from, "parse")
  /\ pos' = pos + 1
  /\ Set(line, t, pos + 1)
  /\ UNCHANGED <<mixed, result, first>>

(* The lines a get_next of t can end in.  Every command, however it is     *)
(* read, takes the end of a line with it, or the end of the file: what a   *)
(* thread reads next is behind its last line.                              *)
Lands(t) ==
  IF ~ mixed' THEN {pos + 1} \cap 1 .. Len(job.lines)
  ELSE {n \in pos .. Len(job.lines) : n > line[t] /\ (n = pos => Beside(t))}

(* get_next: the next line, or the end of the file.                        *)
GetNext(t, from) ==
  /\ Mix(t)
  /\ \/ /\ Goto(t, from, "parse")
        /\ pos' \in Lands(t)
        /\ Set(line, t, pos')
        /\ Set(first, t, IF first[t] = 0 THEN pos' ELSE first[t])
        /\ UNCHANGED result
     \/ /\ Goto(t, from, "leave")
        /\ mixed' \/ pos = Len(job.lines)
        /\ pos' = Len(job.lines)
        /\ Set(result, t, 1)
        /\ UNCHANGED <<line, first>>

Begin(t) ==
  /\ GetNext(t, "begin")
  /\ Set(id, t, thread_id)
  /\ UNCHANGED <<job, shared, lock, host, need, target>>

Reads(t) == IF mixed THEN Lines ELSE {job.lines[line[t]]}

(* The mutex is released once the line is parsed.                          *)
Parsed(t, ops, to) ==
  /\ Goto(t, "parse", to)
  /\ \E l \in Reads(t) : l.op \in ops
  /\ Unlock(t)

ParseCommand(t) ==
  /\ Parsed(t, {"RUN"}, "run")
  /\ UNCHANGED <<job, file, shared, host, locals>>

Skip(t) ==
  /\ Parsed(t, {"SKIP", "EMPTY"}, "more")
  /\ UNCHANGED <<job, file, shared, host, locals>>

(* The thread ends at a BARRIER, and the locals of its frame with it.      *)
Exit(t) ==
  /\ Set(id, t, 0) /\ Set(line, t, 0) /\ Set(first, t, 0)
  /\ Set(need, t, Unset) /\ Set(target, t, Unset)

\* Mutant: pthread_exit before the unlock.
BarrierKeepsMutex(t) ==
  /\ Goto(t, "parse", "exited")
  /\ \E l \in Reads(t) : l.op = "BARRIER"
  /\ BARRIER' = TRUE
  /\ Exit(t)
  /\ UNCHANGED <<job, file, WAIT, waiting, thread_id, lock, host, result>>

\* Mutant: a BARRIER ends a thread as the end of the file does.
BarrierEndsFile(t) ==
  /\ Parsed(t, {"BARRIER"}, "exited")
  /\ BARRIER' = TRUE
  /\ Exit(t)
  /\ Set(result, t, 1)
  /\ UNCHANGED <<job, file, WAIT, waiting, thread_id, host>>

Barrier(t) ==
  /\ Parsed(t, {"BARRIER"}, "exited")
  /\ BARRIER' = TRUE
  /\ Exit(t)
  /\ UNCHANGED <<job, file, WAIT, waiting, thread_id, host, result>>

(* parse_wait sets the number only if the line has one.                    *)
ParseWait(t) ==
  /\ Parsed(t, {"WAIT"}, "wait")
  /\ \E l \in {r \in Reads(t) : r.op = "WAIT"} :
       Set(target, t, IF l.thread_id = Unset THEN target[t] ELSE l.thread_id)
  /\ UNCHANGED <<job, file, shared, host, id, line, need, result, first>>

(* The line that does not parse takes the next one with it if it ends      *)
(* where an argument should start.                                         *)
Malform(t) ==
  /\ Parsed(t, Malformed, "reparse")
  /\ pos' \in {pos, pos + 1} \cap (0 .. Len(job.lines))
  /\ UNCHANGED <<job, mixed, shared, host, locals>>

(* What a thread that parses without the mutex has read is taken for the   *)
(* arguments of its old command: the number of a WAIT may be among them.   *)
Accept(t, command, numbers) ==
  IF command = "WAIT?"
  THEN Goto(t, "reparse", "wait") /\ \E n \in numbers : Set(target, t, n)
  ELSE Goto(t, "reparse", "run") /\ UNCHANGED target

(* The loop goes on with the same command, without the mutex, and takes    *)
(* what comes next for its arguments.  A line that begins with a letter is *)
(* none; one without a command may be arguments, or a part of them and     *)
(* then costs the next line too.  Of an empty line a SHOW makes event 0; a *)
(* CREATE and a RESERVE throw away the line after it as well.              *)
Reparse(t) ==
  LET next    == job.lines[pos + 1].op
      command == Op(t)
      takes(k) == pos' = IF pos + k > Len(job.lines) THEN Len(job.lines) ELSE pos + k
  IN  /\ pc[t] = "reparse"
      /\ pos < Len(job.lines)
      /\ ~ mixed
      /\ Unlock(t)
      /\ \/ /\ next = "SKIP" \/ (next = "EMPTY" /\ command = "SHOW?")
            /\ takes(1)
            /\ Accept(t, command, WaitNumbers \cup {target[t]})
         \/ /\ ~ (next = "EMPTY" /\ command \in {"SHOW?", "CREATE?"})
            /\ takes(1)
            /\ UNCHANGED <<pc, target>>
         \/ /\ next = "SKIP" \/ (next = "EMPTY" /\ command = "CREATE?")
            /\ takes(2)
            /\ UNCHANGED <<pc, target>>
      /\ UNCHANGED <<job, mixed, shared, host, id, line, need, result, first>>

(* At the end of the file the digits are what the buffer happens to hold:  *)
(* a SHOW or a WAIT may take them for its argument, a CREATE and a RESERVE *)
(* never have enough.                                                      *)
ReparseAtEof(t) ==
  /\ pc[t] = "reparse"
  /\ pos = Len(job.lines)
  /\ ~ mixed
  /\ Unlock(t)
  /\ \/ UNCHANGED <<pc, target>>
     \/ Op(t) # "CREATE?" /\ Accept(t, Op(t), {target[t]})
  /\ UNCHANGED <<job, file, shared, host, id, line, need, result, first>>

(* Beside another thread it can read any part of the lines, and so can     *)
(* everybody from there on.                                                *)
ReparseMixed(t) ==
  /\ pc[t] = "reparse"
  /\ Mix(t) /\ mixed'
  /\ pos' \in pos .. Len(job.lines)
  /\ Unlock(t)
  /\ \/ UNCHANGED <<pc, target>>
     \/ \E command \in Malformed : Accept(t, command, WaitNumbers \cup {target[t]})
  /\ UNCHANGED <<job, shared, host, id, line, need, result, first>>

(* The command has been executed.                                          *)
Run(t) ==
  /\ Goto(t, "run", "more")
  /\ UNCHANGED <<job, file, shared, lock, host, locals>>

------------------------------------------------------------------------------
\* WAIT

ToInt(n) == IF n <= IntMax THEN n ELSE n - UINT_MAX - 1

(* A number that was never set may be any.                                 *)
Numbers(t) == IF target[t] = Unset THEN WaitNumbers ELSE {target[t]}

(* A WAIT for all threads, with number 0, or for one.                      *)
SetWait(t) ==
  /\ Goto(t, "set", "more")
  /\ Unlock(t)
  /\ WAIT' = TRUE
  /\ \E n \in Numbers(t) :
       /\ Set(target, t, n)
       /\ \/ /\ n = 0
             /\ waiting' = 1 .. job.threads
             /\ Set(need, t, job.threads)
          \/ /\ n # 0 /\ ToInt(n) < job.threads
             /\ waiting' = waiting \cup ({n} \cap 1 .. job.threads)
             /\ Set(need, t, 1)
          \/ /\ ToInt(n) >= job.threads
             /\ UNCHANGED <<waiting, need>>
  /\ UNCHANGED <<job, file, BARRIER, thread_id, host, id, line, result, first>>

(* A number above IntMax is negative as an int, and passes the test: what  *)
(* is then written lies outside wait_time, if the process survives it.     *)
Crash(t) ==
  /\ pc[t] = "set"
  /\ \E n \in Numbers(t) : ToInt(n) < 0
  /\ hpc' = "crashed"
  /\ pc' = [u \in Threads |-> "none"]
  /\ mutex' = NoThread
  /\ UNCHANGED <<job, file, shared, stolen, i, exit, locals>>

(* Before its next line a thread sleeps, if it is asked to, and counts     *)
(* itself off: in the local of the thread that read the WAIT the count is  *)
(* set, in the others it is not.                                           *)
CountOff(t) ==
  IF ~ WAIT THEN UNCHANGED <<WAIT, waiting, need>>
  ELSE \E n \in IF need[t] = Unset THEN Garbage ELSE {need[t]} :
         /\ Set(need, t, IF id[t] \in waiting THEN n - 1 ELSE n)
         /\ waiting' = waiting \ {id[t]}
         /\ WAIT' = (need'[t] # 0)

------------------------------------------------------------------------------
\* Mutant: no look at BARRIER.
MoreIgnoresBarrier(t) ==
  /\ CountOff(t)
  /\ GetNext(t, "count")
  /\ UNCHANGED <<job, BARRIER, thread_id, lock, host, id, target>>

More(t) ==
  /\ CountOff(t)
  /\ \/ /\ BARRIER
        /\ Goto(t, "count", "leave")
        /\ UNCHANGED <<file, line, result, first>>
     \/ /\ ~ BARRIER
        /\ GetNext(t, "count")
  /\ UNCHANGED <<job, BARRIER, thread_id, lock, host, id, target>>

\* Mutant: no unlock after the loop.
LeaveKeepsMutex(t) ==
  /\ Goto(t, "leave", "exited")
  /\ Exit(t)
  /\ UNCHANGED <<job, file, shared, lock, host, result>>

Leave(t) ==
  /\ Goto(t, "leave", "exited")
  /\ Unlock(t)
  /\ Exit(t)
  /\ UNCHANGED <<job, file, shared, host, result>>

Step(t) ==
  \/ Lock(t) \/ Begin(t) \/ ParseCommand(t) \/ Skip(t) \/ Barrier(t) \/ ParseWait(t)
  \/ Malform(t) \/ Reparse(t) \/ ReparseAtEof(t) \/ ReparseMixed(t) \/ Run(t)
  \/ SetWait(t) \/ Crash(t) \/ More(t) \/ Leave(t)

Next == HostStep \/ \E t \in Threads : Step(t)

Spec == Init /\ [][Next]_vars

(* The host and every thread run; the mutex is taken by whoever waits once *)
(* nobody else wants it.                                                   *)
Fairness == WF_vars(HostStep) /\ \A t \in Threads : WF_vars(Step(t))

FairSpec == Spec /\ Fairness

------------------------------------------------------------------------------
Labels == {"none", "start", "begin", "parse", "reparse", "run", "wait", "set", "more", "count",
           "leave", "exited"}

(* Every variable has its type: a thread's number is one of wait_time's,   *)
(* whatever create_threads wrote into thread_id before the thread read it. *)
TypeOK ==
  /\ job \in Jobs
  /\ pos \in 0 .. Len(job.lines) /\ mixed \in BOOLEAN
  /\ BARRIER \in BOOLEAN /\ WAIT \in BOOLEAN /\ exit \in BOOLEAN
  /\ waiting \subseteq 1 .. job.threads
  /\ thread_id \in 0 .. job.threads
  /\ mutex \in Threads \cup {Host, NoThread} /\ stolen \in BOOLEAN
  /\ hpc \in {"create", "number", "join", "over", "crashed"}
  /\ i \in 0 .. job.threads
  /\ pc \in [Threads -> Labels]
  /\ id \in [Threads -> 0 .. job.threads]
  /\ \A t \in Threads : pc[t] \notin {"none", "start", "begin", "exited"} => id[t] # 0
  /\ line \in [Threads -> 0 .. pos] /\ first \in [Threads -> 0 .. pos]
  /\ need \in [Threads -> Int \cup {Unset}]
  /\ target \in [Threads -> WaitNumbers \cup {Unset}]
  /\ result \in [Threads -> {0, 1}]

(* Between a lock of file_mutex and its unlock.                            *)
Inside(t) == IF t = Host THEN hpc = "number"
                         ELSE pc[t] \in {"begin", "count", "set", "parse", "leave"}

(* Line n does not parse, or stands behind one that does not.              *)
Spoilt(n) == \E m \in 1 .. n : job.lines[m].op \in Malformed

(* file_mutex is held by the one thread that is between a lock and an      *)
(* unlock, on every way out of the switch of execute_file_commands and in  *)
(* create_threads, unless a thread has released the hold of another; and   *)
(* that only happens behind a line that does not parse.                    *)
MutexHeld ==
  /\ \A t \in Threads \cup {Host} : /\ mutex = t => Inside(t)
                                    /\ Inside(t) /\ ~ stolen => mutex = t
  /\ stolen => Spoilt(pos)

(* A BARRIER that stands before any malformed line separates line t read   *)
(* from the one u read.                                                    *)
Between(t, u) ==
  \E b \in line[t] + 1 .. line[u] - 1 : job.lines[b].op = "BARRIER" /\ ~ Spoilt(b)

(* No command behind a BARRIER is executed beside one before it, except    *)
(* one that is the first of its thread: a thread stops at the first line   *)
(* it would read after BARRIER is set, but reads one before it looks.      *)
BarrierStops ==
  \A t, u \in Threads :
    pc[t] = "run" /\ pc[u] = "run" /\ Between(t, u) => line[u] = first[u]

(* What BARRIER means to the expected outputs of the tests: what stands    *)
(* behind one is not executed beside what stands before it.                *)
BarrierHolds ==
  \A t, u \in Threads : pc[t] = "run" /\ pc[u] = "run" => ~ Between(t, u)

Read == INSTANCE JobRun WITH
  running <- {<<t, line[t]>> : t \in {u \in Threads :
                \/ pc[u] = "run"
                \/ pc[u] = "parse" /\ Op(u) = "RUN" /\ ~ Spoilt(line[u])}},
  over <- hpc \in {"over", "crashed"}

(* Whatever thread reads them, the commands of a file begin once each and  *)
(* in order, one at a time in each thread, and process_job_file returns    *)
(* when all have ended: no BARRIER, no WAIT and no end of a thread loses a *)
(* line.  A line that does not parse disturbs only what stands behind it,  *)
(* though its thread parses on without the mutex beside the others.        *)
ImplementsJobRun == Read!Spec

(* A file without malformed lines is done in the end, however many         *)
(* barriers and waits it has and however many threads, but not with none:  *)
(* nobody then reads the file, and the host creates and joins for ever.    *)
(* (A WAIT without a number or with one above IntMax may crash it.)        *)
JobEnds ==
  ~ HasMalformed(job) /\ job.threads > 0 => <>(hpc \in {"over", "crashed"})
===============================================================================
