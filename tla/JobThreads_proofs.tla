-------------------------- MODULE JobThreads_proofs --------------------------
(***************************************************************************)
(* Theorems about JobThreads, for any files, malformed ones among them,    *)
(* and any number of threads up to any bound: type correctness, that       *)
(* file_mutex is held by the thread inside until a malformed line lets     *)
(* another release it, that a thread passes a barrier by its first line    *)
(* only, and that JobThreads implements JobRun.                            *)
(***************************************************************************)
EXTENDS JobThreads, TLAPS

(* The invariant.  The threads there are follow from the host's place, and *)
(* one that starts finds a number and has read nothing ...                 *)
Placed ==
  /\ \A t \in Threads : t > job.threads => pc[t] = "none"
  /\ hpc \in {"create", "number"} => \A t \in Threads : t > i => pc[t] = "none"
  /\ hpc = "number" => i < job.threads
  /\ hpc = "join" => \A t \in Threads : t <= i => pc[t] = "none"
  /\ hpc \in {"over", "crashed"} => \A t \in Threads : pc[t] = "none"
  /\ \A t \in Threads :
       /\ pc[t] \in {"start", "begin"} => thread_id # 0
       /\ pc[t] \in {"none", "start", "begin", "exited"} /\ hpc # "crashed" => first[t] = 0

(* ... and up to the first malformed line, whoever parses has the line     *)
(* read last: only behind it do threads read beside each other.            *)
Reading ==
  /\ mixed => Spoilt(pos)
  /\ \A t \in Threads :
       /\ pc[t] = "parse" => line[t] # 0 /\ (line[t] = pos \/ Spoilt(line[t]))
       /\ pc[t] = "reparse" => line[t] # 0 /\ Spoilt(line[t])

IInv == TypeOK /\ MutexHeld /\ Placed /\ Reading

LEMMA JobFacts ==
  ASSUME job \in Jobs
  PROVE  /\ job.threads \in Nat /\ job.threads <= MaxThreads
         /\ Len(job.lines) \in Nat
         /\ \A n \in 1 .. Len(job.lines) : job.lines[n] \in Lines
BY JobsAssumption, MaxThreadsAssumption

(* What stands behind a spoilt line is spoilt.                             *)
LEMMA SpoiltBehind ==
  ASSUME NEW m \in Nat, NEW n \in Nat, m <= n, Spoilt(m)
  PROVE  Spoilt(n)
BY DEF Spoilt

------------------------------------------------------------------------------
(* The variables of the host and of the file keep their types ...          *)
SharedTypeOK ==
  /\ job \in Jobs
  /\ pos \in 0 .. Len(job.lines) /\ mixed \in BOOLEAN
  /\ BARRIER \in BOOLEAN /\ WAIT \in BOOLEAN /\ exit \in BOOLEAN
  /\ waiting \subseteq 1 .. job.threads
  /\ thread_id \in 0 .. job.threads
  /\ mutex \in Threads \cup {Host, NoThread} /\ stolen \in BOOLEAN
  /\ hpc \in {"create", "number", "join", "over", "crashed"}
  /\ i \in 0 .. job.threads

LocalTypeOK ==
  /\ pc \in [Threads -> Labels]
  /\ id \in [Threads -> 0 .. job.threads]
  /\ line \in [Threads -> 0 .. pos] /\ first \in [Threads -> 0 .. pos]
  /\ need \in [Threads -> Int \cup {Unset}]
  /\ target \in [Threads -> WaitNumbers \cup {Unset}]
  /\ result \in [Threads -> {0, 1}]

HasNumber == \A t \in Threads : pc[t] \notin {"none", "start", "begin", "exited"} => id[t] # 0

LEMMA TypeParts == TypeOK <=> SharedTypeOK /\ LocalTypeOK /\ HasNumber
BY DEF TypeOK, SharedTypeOK, LocalTypeOK, HasNumber

LEMMA IntTypes ==
  ASSUME IInv
  PROVE  /\ job \in Jobs /\ pos \in Nat /\ pos <= Len(job.lines) /\ Len(job.lines) \in Nat
         /\ i \in Nat /\ job.threads \in Nat /\ job.threads <= MaxThreads /\ i <= job.threads
         /\ thread_id \in Nat
         /\ \A t \in Threads : line[t] \in Nat /\ line[t] <= pos /\ first[t] \in Nat
<1>1. SharedTypeOK /\ LocalTypeOK
  BY TypeParts DEF IInv
<1>2. job.threads \in Nat /\ job.threads <= MaxThreads /\ Len(job.lines) \in Nat
  BY <1>1, JobFacts DEF SharedTypeOK
<1>3. pos \in 0 .. Len(job.lines) /\ i \in 0 .. job.threads /\ thread_id \in 0 .. job.threads
  BY <1>1 DEF SharedTypeOK
<1>4. \A t \in Threads : line[t] \in 0 .. pos /\ first[t] \in 0 .. pos
  BY <1>1 DEF LocalTypeOK
<1>5. QED
  BY <1>1, <1>2, <1>3, <1>4, MaxThreadsAssumption DEF SharedTypeOK

LEMMA InitIInv == Init => IInv
<1> SUFFICES ASSUME Init PROVE IInv
  OBVIOUS
<1>1. job.threads \in Nat /\ Len(job.lines) \in Nat
  BY JobFacts DEF Init
<1>2. 0 \in 0 .. job.threads /\ 0 \in 0 .. Len(job.lines)
  BY <1>1
<1>3. /\ pos = 0 /\ i = 0 /\ thread_id = 0 /\ hpc = "create" /\ mutex = NoThread
      /\ mixed = FALSE /\ stolen = FALSE /\ BARRIER = FALSE /\ WAIT = FALSE /\ exit = FALSE
      /\ job \in Jobs /\ waiting \subseteq 1 .. job.threads
  BY DEF Init
<1>4. /\ pc \in [Threads -> Labels]
      /\ line \in [Threads -> {0}] /\ first \in [Threads -> {0}] /\ id \in [Threads -> {0}]
      /\ need \in [Threads -> {Unset}] /\ target \in [Threads -> {Unset}]
      /\ result \in [Threads -> {0}]
      /\ \A t \in Threads : pc[t] = "none" /\ first[t] = 0
  BY DEF Init, Labels
<1>5. SharedTypeOK
  BY <1>2, <1>3 DEF SharedTypeOK
<1>6. LocalTypeOK /\ HasNumber
  <2>1. /\ id \in [Threads -> 0 .. job.threads]
        /\ line \in [Threads -> 0 .. pos] /\ first \in [Threads -> 0 .. pos]
    BY <1>2, <1>3, <1>4
  <2>2. /\ need \in [Threads -> Int \cup {Unset}]
        /\ target \in [Threads -> WaitNumbers \cup {Unset}]
        /\ result \in [Threads -> {0, 1}]
    BY <1>4
  <2>3. QED
    BY <2>1, <2>2, <1>4 DEF LocalTypeOK, HasNumber
<1>7. MutexHeld
  <2>1. NoThread \notin Threads \cup {Host}
    BY JobNoThreadAssumption, MaxThreadsAssumption DEF Threads, Host
  <2>2. \A t \in Threads \cup {Host} : ~ Inside(t)
    BY <1>3, <1>4 DEF Inside
  <2>3. QED
    BY <2>1, <2>2, <1>3 DEF MutexHeld
<1>8. Placed /\ Reading
  BY <1>3, <1>4 DEF Placed, Reading
<1>9. QED
  BY <1>5, <1>6, <1>7, <1>8, TypeParts DEF IInv

(* A get_next ends behind what has been read, in a line or in the file's   *)
(* end, and what it reads is the next line unless the reading is mixed.    *)
LEMMA NextRead ==
  ASSUME IInv, NEW t \in Threads, NEW from \in Labels, GetNext(t, from)
  PROVE  /\ pc[t] = from /\ pos' \in pos .. Len(job.lines) /\ mixed' \in BOOLEAN
         /\ \/ /\ pc' = [pc EXCEPT ![t] = "parse"]
               /\ pos' # 0 /\ line' = [line EXCEPT ![t] = pos']
               /\ first' = [first EXCEPT ![t] = IF first[t] = 0 THEN pos' ELSE first[t]]
               /\ UNCHANGED result
               /\ ~ mixed' => pos' = pos + 1
            \/ /\ pc' = [pc EXCEPT ![t] = "leave"]
               /\ pos' = Len(job.lines) /\ UNCHANGED <<line, first>>
               /\ result' = [result EXCEPT ![t] = 1]
               /\ ~ mixed' => pos' = pos
<1>1. mixed' \in BOOLEAN
  BY TypeParts DEF GetNext, Mix, Beside, IInv, SharedTypeOK
<1>2. ASSUME NEW n \in Lands(t)
      PROVE  n \in pos .. Len(job.lines) /\ n # 0 /\ (~ mixed' => n = pos + 1)
  <2>1. CASE ~ mixed'
    BY <1>2, <2>1, IntTypes DEF Lands
  <2>2. CASE mixed'
    BY <1>2, <2>2, IntTypes DEF Lands
  <2>3. QED
    BY <2>1, <2>2
<1>3. CASE /\ Goto(t, from, "parse")
           /\ pos' \in Lands(t)
           /\ Set(line, t, pos')
           /\ Set(first, t, IF first[t] = 0 THEN pos' ELSE first[t])
           /\ UNCHANGED result
  BY <1>1, <1>2, <1>3 DEF Goto, Set
<1>4. CASE /\ Goto(t, from, "leave")
           /\ mixed' \/ pos = Len(job.lines)
           /\ pos' = Len(job.lines)
           /\ Set(result, t, 1)
           /\ UNCHANGED <<line, first>>
  BY <1>1, <1>4, IntTypes DEF Goto, Set
<1>5. QED
  BY <1>3, <1>4 DEF GetNext

(* A thread that parses without the mutex tries again, or takes what it    *)
(* read for the arguments of a command or for the number of a WAIT.        *)
LEMMA ParsesOn ==
  ASSUME IInv, NEW t \in Threads, Reparse(t) \/ ReparseAtEof(t) \/ ReparseMixed(t)
  PROVE  /\ pc[t] = "reparse" /\ pos' \in pos .. Len(job.lines) /\ Unlock(t)
         /\ UNCHANGED <<job, shared, host, id, line, need, result, first>>
         /\ \/ pc' = pc /\ target' = target
            \/ pc' = [pc EXCEPT ![t] = "run"] /\ target' = target
            \/ /\ pc' = [pc EXCEPT ![t] = "wait"]
               /\ \E n \in WaitNumbers \cup {target[t]} : target' = [target EXCEPT ![t] = n]
<1> DEFINE All == WaitNumbers \cup {target[t]}
           Taken == \/ pc' = [pc EXCEPT ![t] = "run"] /\ target' = target
                    \/ /\ pc' = [pc EXCEPT ![t] = "wait"]
                       /\ \E n \in All : target' = [target EXCEPT ![t] = n]
<1>2. CASE Reparse(t)
  <2>1. /\ pc[t] = "reparse" /\ pos' \in pos .. Len(job.lines) /\ Unlock(t)
        /\ UNCHANGED <<job, shared, host, id, line, need, result, first>>
    BY <1>2, IntTypes DEF Reparse
  <2>2. \/ pc' = pc /\ target' = target
        \/ Accept(t, Op(t), All)
    BY <1>2 DEF Reparse
  <2>3. Accept(t, Op(t), All) => Taken
    BY DEF Accept, Goto, Set
  <2>4. QED
    BY <2>1, <2>2, <2>3
<1>3. CASE ReparseAtEof(t)
  <2>1. /\ pc[t] = "reparse" /\ pos' \in pos .. Len(job.lines) /\ Unlock(t)
        /\ UNCHANGED <<job, shared, host, id, line, need, result, first>>
    BY <1>3, IntTypes DEF ReparseAtEof, file
  <2>2. \/ pc' = pc /\ target' = target
        \/ Accept(t, Op(t), {target[t]})
    BY <1>3 DEF ReparseAtEof
  <2>3. Accept(t, Op(t), {target[t]}) => Taken
    BY DEF Accept, Goto, Set
  <2>4. QED
    BY <2>1, <2>2, <2>3
<1>4. CASE ReparseMixed(t)
  <2>1. /\ pc[t] = "reparse" /\ pos' \in pos .. Len(job.lines) /\ Unlock(t)
        /\ UNCHANGED <<job, shared, host, id, line, need, result, first>>
    BY <1>4, IntTypes DEF ReparseMixed
  <2>2. \/ pc' = pc /\ target' = target
        \/ \E command \in Malformed : Accept(t, command, All)
    BY <1>4 DEF ReparseMixed
  <2>3. (\E command \in Malformed : Accept(t, command, All)) => Taken
    BY DEF Accept, Goto, Set
  <2>4. QED
    BY <2>1, <2>2, <2>3
<1>5. QED
  BY <1>2, <1>3, <1>4

LEMMA SharedTypeStep ==
  ASSUME IInv, [Next]_vars
  PROVE  SharedTypeOK'
<1> USE DEF file, shared, lock, host, locals
<1>a. SharedTypeOK
  BY TypeParts DEF IInv
<1>b. /\ job.threads \in Nat /\ job.threads <= MaxThreads /\ Len(job.lines) \in Nat
      /\ pos \in Nat /\ i \in Nat
  BY IntTypes
<1>1. CASE LockToCreate
  BY <1>1, <1>a DEF SharedTypeOK, LockToCreate, TakeMutex
<1>2. CASE CreateThread
  <2>1. i < job.threads
    BY <1>2 DEF CreateThread, IInv, Placed
  <2>2. i + 1 \in 0 .. job.threads
    BY <2>1, <1>b
  <2>3. QED
    BY <1>2, <2>2, <1>a DEF SharedTypeOK, CreateThread, Unlock
<1>3. CASE EndCreate \/ Close \/ CreateAgain
  <2>1. 0 \in 0 .. job.threads
    BY <1>b
  <2>2. CASE EndCreate
    BY <2>1, <2>2, <1>a DEF SharedTypeOK, EndCreate
  <2>3. CASE Close
    BY <2>3, <1>a DEF SharedTypeOK, Close
  <2>4. CASE CreateAgain
    BY <2>1, <2>4, <1>a DEF SharedTypeOK, CreateAgain
  <2>5. QED
    BY <1>3, <2>2, <2>3, <2>4
<1>4. CASE JoinThread
  BY <1>4, <1>a, <1>b DEF SharedTypeOK, JoinThread
<1>5. ASSUME NEW t \in Threads, Lock(t) PROVE SharedTypeOK'
  BY <1>5, <1>a DEF SharedTypeOK, Lock, TakeMutex
<1>6. ASSUME NEW t \in Threads, Begin(t) PROVE SharedTypeOK'
  <2>1. pos' \in pos .. Len(job.lines) /\ mixed' \in BOOLEAN
    BY <1>6, NextRead DEF Begin, Labels
  <2>2. pos' \in 0 .. Len(job.lines)
    BY <2>1, <1>b
  <2>3. QED
    BY <1>6, <2>1, <2>2, <1>a DEF SharedTypeOK, Begin
<1>7. ASSUME NEW t \in Threads, ParseCommand(t) \/ Skip(t) \/ Barrier(t) \/ ParseWait(t)
      PROVE  SharedTypeOK'
  BY <1>7, <1>a DEF SharedTypeOK, ParseCommand, Skip, Barrier, ParseWait, Parsed, Unlock
<1>8. ASSUME NEW t \in Threads, Malform(t) PROVE SharedTypeOK'
  <2>1. pos' \in 0 .. Len(job.lines)
    BY <1>8, <1>b DEF Malform
  <2>2. QED
    BY <1>8, <2>1, <1>a DEF SharedTypeOK, Malform, Parsed, Unlock
<1>9. ASSUME NEW t \in Threads, Reparse(t) \/ ReparseAtEof(t) \/ ReparseMixed(t)
      PROVE  SharedTypeOK'
  <2>1. /\ pos' \in pos .. Len(job.lines) /\ Unlock(t)
        /\ UNCHANGED <<job, shared, host>>
    BY <1>9, ParsesOn
  <2>2. pos' \in 0 .. Len(job.lines)
    BY <2>1, <1>b
  <2>3. mixed' \in BOOLEAN
    BY <1>9, <1>a DEF SharedTypeOK, Reparse, ReparseAtEof, ReparseMixed
  <2>4. QED
    BY <2>1, <2>2, <2>3, <1>a DEF SharedTypeOK, Unlock
<1>10. ASSUME NEW t \in Threads, Run(t) \/ Leave(t) PROVE SharedTypeOK'
  BY <1>10, <1>a DEF SharedTypeOK, Run, Leave, Unlock
<1>11. ASSUME NEW t \in Threads, SetWait(t) PROVE SharedTypeOK'
  <2>1. PICK n : \/ waiting' = 1 .. job.threads
                 \/ waiting' = waiting \cup ({n} \cap 1 .. job.threads)
                 \/ waiting' = waiting
    BY <1>11 DEF SetWait
  <2>2. waiting \subseteq 1 .. job.threads
    BY <1>a DEF SharedTypeOK
  <2>3. waiting' \subseteq 1 .. job.threads
    BY <2>1, <2>2
  <2>4. QED
    BY <1>11, <2>3, <1>a DEF SharedTypeOK, SetWait, Unlock
<1>12. ASSUME NEW t \in Threads, Crash(t) PROVE SharedTypeOK'
  BY <1>12, <1>a DEF SharedTypeOK, Crash
<1>13. ASSUME NEW t \in Threads, More(t) PROVE SharedTypeOK'
  <2>1. waiting' \subseteq 1 .. job.threads /\ WAIT' \in BOOLEAN
    BY <1>13, <1>a DEF SharedTypeOK, More, CountOff
  <2>2. pos' \in 0 .. Len(job.lines) /\ mixed' \in BOOLEAN
    <3>1. CASE UNCHANGED file
      BY <3>1, <1>a DEF SharedTypeOK
    <3>2. CASE GetNext(t, "count")
      <4>1. pos' \in pos .. Len(job.lines) /\ mixed' \in BOOLEAN
        BY <3>2, NextRead DEF Labels
      <4>2. QED
        BY <4>1, <1>b
    <3>3. QED
      BY <1>13, <3>1, <3>2 DEF More
  <2>3. QED
    BY <1>13, <2>1, <2>2, <1>a DEF SharedTypeOK, More
<1>14. CASE UNCHANGED vars
  BY <1>14, <1>a DEF SharedTypeOK, vars
<1>15. QED
  BY <1>1, <1>2, <1>3, <1>4, <1>5, <1>6, <1>7, <1>8, <1>9, <1>10, <1>11, <1>12, <1>13, <1>14
  DEF Next, HostStep, Step

(* ... the locals of the threads theirs ...                                *)
LEMMA LocalTypeStep ==
  ASSUME IInv, [Next]_vars
  PROVE  LocalTypeOK'
<1> USE DEF file, shared, lock, host, locals
<1>a. SharedTypeOK /\ LocalTypeOK
  BY TypeParts DEF IInv
<1>b. /\ job.threads \in Nat /\ job.threads <= MaxThreads /\ Len(job.lines) \in Nat
      /\ pos \in Nat /\ i \in Nat
  BY IntTypes
<1>l. \A n \in 1 .. Len(job.lines) : job.lines[n] \in Lines
  BY <1>a, JobFacts DEF SharedTypeOK
<1>1. CASE LockToCreate \/ EndCreate \/ Close \/ CreateAgain
  BY <1>1, <1>a DEF LocalTypeOK, LockToCreate, EndCreate, Close, CreateAgain
<1>2. CASE CreateThread \/ JoinThread
  <2>1. /\ pc' \in [Threads -> Labels] /\ result' \in [Threads -> {0, 1}]
        /\ UNCHANGED <<job, pos, id, line, need, target, first>>
    BY <1>2, <1>a DEF LocalTypeOK, CreateThread, JoinThread, Goto, Set, Labels
  <2>2. QED
    BY <2>1, <1>a DEF LocalTypeOK
<1>3. ASSUME NEW t \in Threads, NEW from \in Labels, GetNext(t, from)
      PROVE  /\ pc' \in [Threads -> Labels] /\ result' \in [Threads -> {0, 1}]
             /\ line' \in [Threads -> 0 .. pos'] /\ first' \in [Threads -> 0 .. pos']
  <2>1. pos' \in pos .. Len(job.lines)
    BY <1>3, NextRead
  <2>2. 0 .. pos \subseteq 0 .. pos' /\ pos' \in 0 .. pos'
    BY <2>1, <1>b
  <2>3. /\ pc' = [pc EXCEPT ![t] = "parse"] \/ pc' = [pc EXCEPT ![t] = "leave"]
        /\ line' = [line EXCEPT ![t] = pos'] \/ line' = line
        /\ \/ first' = [first EXCEPT ![t] = IF first[t] = 0 THEN pos' ELSE first[t]]
           \/ first' = first
        /\ result' = result \/ result' = [result EXCEPT ![t] = 1]
    BY <1>3, NextRead
  <2>4. pc' \in [Threads -> Labels] /\ result' \in [Threads -> {0, 1}]
    BY <2>3, <1>a DEF LocalTypeOK, Labels
  <2>5. line' \in [Threads -> 0 .. pos'] /\ first' \in [Threads -> 0 .. pos']
    BY <2>2, <2>3, <1>a DEF LocalTypeOK
  <2>6. QED
    BY <2>4, <2>5
<1>4. ASSUME NEW t \in Threads, Lock(t) \/ ParseCommand(t) \/ Skip(t) \/ Run(t)
      PROVE  LocalTypeOK'
  <2>1. pc' \in [Threads -> Labels] /\ UNCHANGED <<job, pos, locals>>
    BY <1>4, <1>a DEF LocalTypeOK, Lock, ParseCommand, Skip, Run, Parsed, Goto, Labels
  <2>2. QED
    BY <2>1, <1>a DEF LocalTypeOK
<1>5. ASSUME NEW t \in Threads, Begin(t) PROVE LocalTypeOK'
  <2>1. id' \in [Threads -> 0 .. job.threads] /\ UNCHANGED <<job, need, target>>
    BY <1>5, <1>a DEF Begin, Set, SharedTypeOK, LocalTypeOK
  <2>2. GetNext(t, "begin") /\ "begin" \in Labels
    BY <1>5 DEF Begin, Labels
  <2>3. QED
    BY <2>1, <2>2, <1>3, <1>a DEF LocalTypeOK
<1>6. ASSUME NEW t \in Threads, Barrier(t) \/ Leave(t) PROVE LocalTypeOK'
  <2>1. /\ id' = [id EXCEPT ![t] = 0] /\ line' = [line EXCEPT ![t] = 0]
        /\ first' = [first EXCEPT ![t] = 0] /\ need' = [need EXCEPT ![t] = Unset]
        /\ target' = [target EXCEPT ![t] = Unset] /\ pc' = [pc EXCEPT ![t] = "exited"]
        /\ UNCHANGED <<job, pos, result>>
    BY <1>6 DEF Barrier, Leave, Parsed, Goto, Exit, Set
  <2>2. 0 \in 0 .. pos /\ 0 \in 0 .. job.threads
    BY <1>b
  <2>3. QED
    BY <2>1, <2>2, <1>a DEF LocalTypeOK, Labels
<1>7. ASSUME NEW t \in Threads, ParseWait(t) PROVE LocalTypeOK'
  <2>1. line[t] \in 1 .. Len(job.lines)
    BY <1>7, IntTypes DEF ParseWait, Parsed, Goto, IInv, Reading
  <2>2. Reads(t) \subseteq Lines
    BY <2>1, <1>l DEF Reads
  <2>3. PICK l \in Lines :
          l.op = "WAIT" /\ Set(target, t, IF l.thread_id = Unset THEN target[t] ELSE l.thread_id)
    BY <1>7, <2>2 DEF ParseWait
  <2>4. l.thread_id \in WaitNumbers \cup {Unset}
    BY <2>3 DEF Lines, Malformed
  <2>5. target' \in [Threads -> WaitNumbers \cup {Unset}]
    BY <2>3, <2>4, <1>a DEF LocalTypeOK, Set
  <2>6. pc' \in [Threads -> Labels] /\ UNCHANGED <<job, pos, id, line, need, result, first>>
    BY <1>7, <1>a DEF LocalTypeOK, ParseWait, Parsed, Goto, Labels
  <2>7. QED
    BY <2>5, <2>6, <1>a DEF LocalTypeOK
<1>8. ASSUME NEW t \in Threads, Malform(t) PROVE LocalTypeOK'
  <2>1. 0 .. pos \subseteq 0 .. pos'
    BY <1>8, <1>b DEF Malform
  <2>2. pc' \in [Threads -> Labels] /\ UNCHANGED <<job, locals>>
    BY <1>8, <1>a DEF LocalTypeOK, Malform, Parsed, Goto, Labels
  <2>3. QED
    BY <2>1, <2>2, <1>a DEF LocalTypeOK
<1>r. ASSUME NEW t \in Threads, Reparse(t) \/ ReparseAtEof(t) \/ ReparseMixed(t)
      PROVE  LocalTypeOK'
  <2>1. 0 .. pos \subseteq 0 .. pos'
    BY <1>r, <1>b, ParsesOn
  <2>2. pc' \in [Threads -> Labels] /\ target' \in [Threads -> WaitNumbers \cup {Unset}]
    <3>1. \/ pc' = pc /\ target' = target
          \/ pc' = [pc EXCEPT ![t] = "run"] /\ target' = target
          \/ /\ pc' = [pc EXCEPT ![t] = "wait"]
             /\ \E n \in WaitNumbers \cup {target[t]} : target' = [target EXCEPT ![t] = n]
      BY <1>r, ParsesOn
    <3>2. WaitNumbers \cup {target[t]} \subseteq WaitNumbers \cup {Unset}
      BY <1>a DEF LocalTypeOK
    <3>3. QED
      BY <3>1, <3>2, <1>a DEF LocalTypeOK, Labels
  <2>3. UNCHANGED <<job, id, line, need, result, first>>
    BY <1>r, ParsesOn
  <2>4. QED
    BY <2>1, <2>2, <2>3, <1>a DEF LocalTypeOK
<1>9. ASSUME NEW t \in Threads, SetWait(t) PROVE LocalTypeOK'
  <2>1. PICK n \in Numbers(t) :
          /\ target' = [target EXCEPT ![t] = n]
          /\ \/ need' = [need EXCEPT ![t] = job.threads]
             \/ need' = [need EXCEPT ![t] = 1]
             \/ need' = need
    BY <1>9 DEF SetWait, Set
  <2>2. n \in WaitNumbers \cup {Unset}
    BY <2>1, <1>a DEF LocalTypeOK, Numbers
  <2>3. job.threads \in Int \cup {Unset} /\ 1 \in Int \cup {Unset}
    BY <1>b
  <2>4. target' \in [Threads -> WaitNumbers \cup {Unset}]
    BY <2>1, <2>2, <1>a DEF LocalTypeOK
  <2>5. need' \in [Threads -> Int \cup {Unset}]
    BY <2>1, <2>3, <1>a DEF LocalTypeOK
  <2>6. pc' \in [Threads -> Labels] /\ UNCHANGED <<job, pos, id, line, result, first>>
    BY <1>9, <1>a DEF LocalTypeOK, SetWait, Goto, Labels
  <2>7. QED
    BY <2>4, <2>5, <2>6, <1>a DEF LocalTypeOK
<1>10. ASSUME NEW t \in Threads, Crash(t) PROVE LocalTypeOK'
  BY <1>10, <1>a DEF LocalTypeOK, Crash, Labels
<1>11. ASSUME NEW t \in Threads, More(t) PROVE LocalTypeOK'
  <2>1. need' \in [Threads -> Int \cup {Unset}]
    <3>1. CASE ~ WAIT
      BY <1>11, <3>1, <1>a DEF LocalTypeOK, More, CountOff
    <3>2. CASE WAIT
      <4>1. PICK n \in IF need[t] = Unset THEN Garbage ELSE {need[t]} :
              need' = [need EXCEPT ![t] = IF id[t] \in waiting THEN n - 1 ELSE n]
        BY <1>11, <3>2 DEF More, CountOff, Set
      <4>2. n \in Int
        BY <4>1, <1>a, GarbageAssumption DEF LocalTypeOK
      <4>3. n - 1 \in Int \cup {Unset} /\ n \in Int \cup {Unset}
        BY <4>2
      <4>4. QED
        BY <4>1, <4>3, <1>a DEF LocalTypeOK
    <3>3. QED
      BY <3>1, <3>2
  <2>2. UNCHANGED <<job, id, target>>
    BY <1>11 DEF More
  <2>3. CASE Goto(t, "count", "leave") /\ UNCHANGED <<file, line, result, first>>
    BY <2>1, <2>2, <2>3, <1>a DEF Goto, LocalTypeOK, Labels
  <2>4. CASE GetNext(t, "count")
    <3>1. "count" \in Labels
      BY DEF Labels
    <3>2. QED
      BY <2>1, <2>2, <2>4, <3>1, <1>3, <1>a DEF LocalTypeOK
  <2>5. QED
    BY <1>11, <2>3, <2>4 DEF More
<1>12. CASE UNCHANGED vars
  BY <1>12, <1>a DEF LocalTypeOK, vars
<1>13. QED
  BY <1>1, <1>2, <1>4, <1>5, <1>6, <1>7, <1>8, <1>r, <1>9, <1>10, <1>11, <1>12
  DEF Next, HostStep, Step

(* What every step of a thread that does not crash has in common.          *)
LEMMA OwnStep ==
  ASSUME IInv, NEW t \in Threads, Step(t), ~ Crash(t)
  PROVE  /\ UNCHANGED <<job, thread_id, hpc, i, exit>>
         /\ pc[t] \notin {"none", "exited"} /\ pc'[t] \notin {"none", "start"}
         /\ pc' = [pc EXCEPT ![t] = pc'[t]] /\ id' = [id EXCEPT ![t] = id'[t]]
         /\ line' = [line EXCEPT ![t] = line'[t]] /\ first' = [first EXCEPT ![t] = first'[t]]
         /\ target' = [target EXCEPT ![t] = target'[t]]
         /\ pos' \in pos .. Len(job.lines)
<1> USE DEF file, shared, lock, host, locals, Goto, Set
<1>a. LocalTypeOK /\ pos \in pos .. Len(job.lines)
  BY TypeParts, IntTypes DEF IInv
<1>1. CASE Lock(t) \/ Run(t) \/ SetWait(t)
  BY <1>1, <1>a DEF Lock, Run, SetWait, LocalTypeOK
<1>2. ASSUME NEW from \in {"begin", "count"}, GetNext(t, from)
      PROVE  /\ pc[t] = from /\ pc'[t] \in {"parse", "leave"}
             /\ pc' = [pc EXCEPT ![t] = pc'[t]]
             /\ line' = [line EXCEPT ![t] = line'[t]] /\ first' = [first EXCEPT ![t] = first'[t]]
             /\ pos' \in pos .. Len(job.lines)
  <2>1. from \in Labels
    BY DEF Labels
  <2>2. QED
    BY <1>2, <2>1, <1>a, NextRead DEF LocalTypeOK
<1>3. CASE Begin(t)
  BY <1>2, <1>3, <1>a DEF Begin, LocalTypeOK
<1>4. CASE More(t)
  <2>1. UNCHANGED <<job, thread_id, hpc, i, exit, id, target>>
    BY <1>4 DEF More
  <2>2. CASE GetNext(t, "count")
    BY <1>2, <2>1, <2>2, <1>a DEF LocalTypeOK
  <2>3. CASE Goto(t, "count", "leave") /\ UNCHANGED <<file, line, result, first>>
    BY <2>1, <2>3, <1>a DEF LocalTypeOK
  <2>4. QED
    BY <1>4, <2>2, <2>3 DEF More
<1>5. CASE ParseCommand(t) \/ Skip(t) \/ ParseWait(t)
  BY <1>5, <1>a DEF ParseCommand, Skip, ParseWait, Parsed, LocalTypeOK
<1>6. CASE Barrier(t) \/ Leave(t)
  BY <1>6, <1>a DEF Barrier, Leave, Parsed, Exit, LocalTypeOK
<1>7. CASE Malform(t)
  <2>1. pos' \in pos .. Len(job.lines)
    BY <1>7, IntTypes DEF Malform
  <2>2. QED
    BY <1>7, <2>1, <1>a DEF Malform, Parsed, LocalTypeOK
<1>8. CASE Reparse(t) \/ ReparseAtEof(t) \/ ReparseMixed(t)
  BY <1>8, <1>a, ParsesOn DEF LocalTypeOK
<1>9. QED
  BY <1>1, <1>3, <1>4, <1>5, <1>6, <1>7, <1>8 DEF Step

(* Reading only goes on, and what is spoilt stays it.                      *)
LEMMA ReadsOn ==
  ASSUME IInv, [Next]_vars
  PROVE  /\ job' = job /\ pos' \in pos .. Len(job.lines)
         /\ Spoilt(pos) => Spoilt(pos)'
         /\ \A n : Spoilt(n)' <=> Spoilt(n)
<1>1. job' = job /\ pos' \in pos .. Len(job.lines)
  <2>1. CASE HostStep \/ UNCHANGED vars
    BY <2>1, IntTypes
    DEF HostStep, LockToCreate, CreateThread, EndCreate, JoinThread, Close, CreateAgain, vars, file
  <2>2. ASSUME NEW t \in Threads, Step(t) PROVE job' = job /\ pos' \in pos .. Len(job.lines)
    <3>1. CASE Crash(t)
      BY <3>1, IntTypes DEF Crash, file
    <3>2. QED
      BY <2>2, <3>1, OwnStep
  <2>3. QED
    BY <2>1, <2>2 DEF Next
<1>2. \A n : Spoilt(n)' <=> Spoilt(n)
  BY <1>1 DEF Spoilt
<1>3. pos \in Nat /\ pos' \in Nat /\ pos <= pos'
  BY <1>1, IntTypes
<1>4. Spoilt(pos) => Spoilt(pos)'
  BY <1>1, <1>3 DEF Spoilt
<1>5. QED
  BY <1>1, <1>2, <1>4

(* ... and a thread that is running has a number.                          *)
LEMMA NumberStep ==
  ASSUME IInv, [Next]_vars
  PROVE  HasNumber'
<1> USE DEF file, shared, lock, host, locals
<1>a. LocalTypeOK /\ HasNumber
  BY TypeParts DEF IInv
<1>1. ASSUME NEW t \in Threads, Step(t), ~ Crash(t) PROVE HasNumber'
  <2>1. pc'[t] \notin {"none", "start", "begin", "exited"} => id'[t] # 0
    <3>1. CASE Begin(t)
      <4>1. pc[t] = "begin" /\ id' = [id EXCEPT ![t] = thread_id]
        BY <3>1, NextRead DEF Begin, Set, Labels
      <4>2. QED
        BY <4>1, <1>a DEF IInv, Placed, LocalTypeOK
    <3>2. CASE Barrier(t) \/ Leave(t)
      BY <3>2, <1>a DEF Barrier, Leave, Parsed, Goto, LocalTypeOK
    <3>3. CASE Lock(t)
      BY <3>3, <1>a DEF Lock, Goto, HasNumber, LocalTypeOK
    <3>4. CASE ~ (Begin(t) \/ Barrier(t) \/ Leave(t) \/ Lock(t))
      <4>1. id' = id
        BY <1>1, <3>4
        DEF Step, ParseCommand, Skip, ParseWait, Malform, Reparse, ReparseAtEof, ReparseMixed, Run,
            SetWait, More
      <4>2. pc[t] \in {"parse", "reparse", "run", "set", "count"}
        BY <1>1, <3>4
        DEF Step, ParseCommand, Skip, ParseWait, Malform, Reparse, ReparseAtEof, ReparseMixed, Run,
            SetWait, More, Parsed, Goto, GetNext
      <4>3. QED
        BY <4>1, <4>2, <1>a DEF HasNumber
    <3>5. QED
      BY <3>1, <3>2, <3>3, <3>4
  <2>2. \A u \in Threads : u # t => pc'[u] = pc[u] /\ id'[u] = id[u]
    BY <1>1, <1>a, OwnStep DEF LocalTypeOK
  <2>3. QED
    BY <2>1, <2>2, <1>a DEF HasNumber
<1>2. ASSUME NEW t \in Threads, Crash(t) PROVE HasNumber'
  BY <1>2 DEF Crash, HasNumber
<1>3. CASE HostStep
  BY <1>3, <1>a
  DEF HostStep, LockToCreate, CreateThread, EndCreate, JoinThread, Close, CreateAgain, Goto, Set,
      HasNumber, LocalTypeOK
<1>4. CASE UNCHANGED vars
  BY <1>4, <1>a DEF vars, HasNumber
<1>5. QED
  BY <1>1, <1>2, <1>3, <1>4 DEF Next

(* What a step of one thread leaves to the others.                         *)
LEMMA OthersKeep ==
  ASSUME IInv, NEW t \in Threads, Step(t), ~ Crash(t), NEW u \in Threads, u # t
  PROVE  pc'[u] = pc[u] /\ line'[u] = line[u] /\ first'[u] = first[u] /\ target'[u] = target[u]
BY OwnStep, TypeParts DEF IInv, LocalTypeOK

(* A thread inside has the mutex unless somebody's hold was released, so   *)
(* up to the first malformed line a thread inside is alone there.          *)
LEMMA AloneInside ==
  ASSUME IInv, ~ Spoilt(pos), NEW t \in Threads, Inside(t)
  PROVE  /\ mutex = t /\ ~ stolen /\ ~ mixed /\ ~ Inside(Host)
         /\ \A u \in Threads : u # t => ~ Inside(u)
         /\ \A u \in Threads : pc[u] # "reparse"
<1>1. ~ stolen /\ ~ mixed
  BY DEF IInv, MutexHeld, Reading
<1>2. mutex = t /\ (\A u \in Threads \cup {Host} : Inside(u) => mutex = u)
  BY <1>1 DEF IInv, MutexHeld
<1>3. t # Host
  BY MaxThreadsAssumption DEF Threads, Host
<1>4. ASSUME NEW u \in Threads, pc[u] = "reparse" PROVE FALSE
  BY <1>4, IntTypes, SpoiltBehind DEF IInv, Reading
<1>5. QED
  BY <1>1, <1>2, <1>3, <1>4

(* file_mutex names its holder.                                            *)
LEMMA MutexStep ==
  ASSUME IInv, [Next]_vars
  PROVE  MutexHeld'
<1> USE DEF file, shared, lock, host, locals
<1>a. /\ LocalTypeOK /\ MutexHeld
      /\ NoThread \notin Threads \cup {Host} /\ Host \notin Threads
      /\ stolen \in BOOLEAN
  BY TypeParts, JobNoThreadAssumption, MaxThreadsAssumption
  DEF IInv, Threads, Host, SharedTypeOK
<1>b. stolen => Spoilt(pos)'
  BY <1>a, ReadsOn DEF MutexHeld
<1>c. ASSUME NEW t \in Threads, pc' = [pc EXCEPT ![t] = pc'[t]], hpc' = hpc
      PROVE  \A u \in Threads \cup {Host} : u # t => (Inside(u)' <=> Inside(u))
  BY <1>c, <1>a DEF Inside, LocalTypeOK
<1>d. ASSUME NEW t \in Threads, Inside(t), ~ Inside(t)', Unlock(t),
             pc' = [pc EXCEPT ![t] = pc'[t]], hpc' = hpc
      PROVE  MutexHeld'
  BY <1>a, <1>b, <1>c, <1>d DEF MutexHeld, Unlock
<1>1. ASSUME NEW t \in Threads, Lock(t) PROVE MutexHeld'
  <2>1. /\ mutex = NoThread /\ mutex' = t /\ stolen' = stolen /\ hpc' = hpc
        /\ pc'[t] \in {"begin", "count", "set"} /\ pc' = [pc EXCEPT ![t] = pc'[t]]
    BY <1>1, <1>a DEF Lock, TakeMutex, Goto, LocalTypeOK
  <2>2. Inside(t)'
    BY <2>1, <1>a DEF Inside
  <2>3. QED
    BY <2>1, <2>2, <1>a, <1>b, <1>c DEF MutexHeld
<1>2. ASSUME NEW t \in Threads, Begin(t) \/ More(t) PROVE MutexHeld'
  <2>1. UNCHANGED <<mutex, stolen, hpc>> /\ pc[t] \in {"begin", "count"}
    BY <1>2 DEF Begin, More, GetNext, Goto
  <2>2. pc' = [pc EXCEPT ![t] = pc'[t]] /\ pc'[t] \in {"parse", "leave"}
    BY <1>2, <1>a DEF Begin, More, GetNext, Goto, LocalTypeOK
  <2>3. Inside(t)' /\ Inside(t)
    BY <2>1, <2>2, <1>a DEF Inside
  <2>4. QED
    BY <2>1, <2>2, <2>3, <1>a, <1>b, <1>c DEF MutexHeld
<1>3. ASSUME NEW t \in Threads,
             \/ ParseCommand(t) \/ Skip(t) \/ Barrier(t) \/ ParseWait(t) \/ Malform(t)
             \/ SetWait(t) \/ Leave(t)
      PROVE  MutexHeld'
  <2>1. /\ pc[t] \in {"parse", "set", "leave"} /\ Unlock(t) /\ hpc' = hpc
        /\ pc'[t] \in {"run", "more", "exited", "wait", "reparse"}
        /\ pc' = [pc EXCEPT ![t] = pc'[t]]
    BY <1>3, <1>a
    DEF ParseCommand, Skip, Barrier, ParseWait, Malform, SetWait, Leave, Parsed, Goto, LocalTypeOK
  <2>2. Inside(t) /\ ~ Inside(t)'
    BY <2>1, <1>a DEF Inside
  <2>3. QED
    BY <2>1, <2>2, <1>d
<1>4. ASSUME NEW t \in Threads, Reparse(t) \/ ReparseAtEof(t) \/ ReparseMixed(t)
      PROVE  MutexHeld'
  <2>1. /\ pc[t] = "reparse" /\ Unlock(t) /\ hpc' = hpc
        /\ pc'[t] \in {"reparse", "run", "wait"} /\ pc' = [pc EXCEPT ![t] = pc'[t]]
    BY <1>4, <1>a, ParsesOn DEF LocalTypeOK
  <2>2. ~ Inside(t) /\ ~ Inside(t)'
    BY <2>1, <1>a DEF Inside
  <2>3. Spoilt(pos)'
    BY <2>1, IntTypes, SpoiltBehind, ReadsOn DEF IInv, Reading
  <2>4. QED
    BY <2>1, <2>2, <2>3, <1>a, <1>c DEF MutexHeld, Unlock
<1>5. ASSUME NEW t \in Threads, Run(t) PROVE MutexHeld'
  <2>1. /\ pc[t] = "run" /\ pc'[t] = "more" /\ pc' = [pc EXCEPT ![t] = pc'[t]]
        /\ UNCHANGED <<mutex, stolen, hpc>>
    BY <1>5, <1>a DEF Run, Goto, LocalTypeOK
  <2>2. ~ Inside(t) /\ ~ Inside(t)'
    BY <2>1, <1>a DEF Inside
  <2>3. QED
    BY <2>1, <2>2, <1>a, <1>b, <1>c DEF MutexHeld
<1>6. ASSUME NEW t \in Threads, Crash(t) PROVE MutexHeld'
  BY <1>6, <1>a, <1>b DEF Crash, MutexHeld, Inside
<1>7. CASE LockToCreate
  <2>1. /\ hpc = "create" /\ hpc' = "number" /\ UNCHANGED <<stolen, pc>>
        /\ mutex = NoThread /\ mutex' = Host
    BY <1>7 DEF LockToCreate, TakeMutex
  <2>2. Inside(Host)' /\ ~ Inside(Host) /\ \A u \in Threads : Inside(u)' <=> Inside(u)
    BY <2>1, <1>a DEF Inside
  <2>3. QED
    BY <2>1, <2>2, <1>a, <1>b DEF MutexHeld
<1>8. CASE CreateThread
  <2>1. /\ hpc = "number" /\ hpc' = "create" /\ Unlock(Host)
        /\ i + 1 \in Threads => pc[i + 1] = "none" /\ pc' = [pc EXCEPT ![i + 1] = "start"]
    BY <1>8 DEF CreateThread, Goto
  <2>2. i + 1 \in Threads
    BY <2>1, IntTypes, MaxThreadsAssumption DEF IInv, Placed, Threads
  <2>3. Inside(Host) /\ ~ Inside(Host)' /\ \A u \in Threads : Inside(u)' <=> Inside(u)
    BY <2>1, <2>2, <1>a DEF Inside, LocalTypeOK
  <2>4. QED
    BY <2>1, <2>3, <1>a, <1>b DEF MutexHeld, Unlock
<1>9. CASE EndCreate \/ JoinThread \/ Close \/ CreateAgain
  <2>1. /\ hpc \in {"create", "join"} /\ hpc' \in {"create", "join", "over"}
        /\ UNCHANGED <<mutex, stolen>>
        /\ pc' = pc \/ (pc[i + 1] = "exited" /\ pc' = [pc EXCEPT ![i + 1] = "none"])
    BY <1>9 DEF EndCreate, JoinThread, Close, CreateAgain, Goto
  <2>2. ~ Inside(Host) /\ ~ Inside(Host)' /\ \A u \in Threads : Inside(u)' <=> Inside(u)
    BY <2>1, <1>a DEF Inside, LocalTypeOK
  <2>3. QED
    BY <2>1, <2>2, <1>a, <1>b DEF MutexHeld
<1>10. CASE UNCHANGED vars
  BY <1>10, <1>a, <1>b DEF vars, MutexHeld, Inside
<1>11. QED
  BY <1>1, <1>2, <1>3, <1>4, <1>5, <1>6, <1>7, <1>8, <1>9, <1>10 DEF Next, HostStep, Step

(* The threads there are follow from the host's place.                     *)
LEMMA PlacedStep ==
  ASSUME IInv, [Next]_vars
  PROVE  Placed'
<1> USE DEF file, shared, lock, host, locals
<1>a. LocalTypeOK /\ Placed
  BY TypeParts DEF IInv
<1>b. /\ i \in Nat /\ job.threads \in Nat /\ job.threads <= MaxThreads /\ i <= job.threads
      /\ Threads \subseteq Nat \ {0}
      /\ \A n \in Nat : n < job.threads => n + 1 \in Threads
  BY IntTypes, MaxThreadsAssumption DEF Threads
<1>1. ASSUME NEW t \in Threads, Step(t), ~ Crash(t) PROVE Placed'
  <2>1. /\ UNCHANGED <<job, hpc, i, thread_id>>
        /\ pc[t] \notin {"none", "exited"} /\ pc'[t] \notin {"none", "start"}
        /\ \A u \in Threads : u # t => pc'[u] = pc[u] /\ first'[u] = first[u]
    BY <1>1, OwnStep, OthersKeep
  <2>2. /\ pc'[t] = "begin" => pc[t] = "start" /\ first' = first
        /\ pc'[t] = "exited" => first'[t] = 0
    <3>1. CASE Lock(t)
      BY <3>1, <1>a DEF Lock, Goto, LocalTypeOK
    <3>2. CASE Barrier(t) \/ Leave(t)
      BY <3>2, <1>a DEF Barrier, Leave, Parsed, Goto, Exit, Set, LocalTypeOK
    <3>3. CASE Begin(t) \/ More(t)
      BY <3>3, <1>a DEF Begin, More, GetNext, Goto, LocalTypeOK
    <3>4. CASE ParseCommand(t) \/ Skip(t) \/ ParseWait(t) \/ Malform(t) \/ Run(t) \/ SetWait(t)
      BY <3>4, <1>a
      DEF ParseCommand, Skip, ParseWait, Malform, Run, SetWait, Parsed, Goto, LocalTypeOK
    <3>5. CASE Reparse(t) \/ ReparseAtEof(t) \/ ReparseMixed(t)
      BY <3>5, <1>a, ParsesOn DEF LocalTypeOK
    <3>6. QED
      BY <1>1, <3>1, <3>2, <3>3, <3>4, <3>5 DEF Step
  <2>3. hpc \notin {"over", "crashed"}
    BY <2>1, <1>a DEF Placed
  <2>4. /\ \A u \in Threads : u > job.threads => pc'[u] = "none"
        /\ hpc \in {"create", "number"} => \A u \in Threads : u > i => pc'[u] = "none"
        /\ hpc = "join" => \A u \in Threads : u <= i => pc'[u] = "none"
    BY <2>1, <1>a DEF Placed
  <2>5. ASSUME NEW u \in Threads
        PROVE  /\ pc'[u] \in {"start", "begin"} => thread_id # 0
               /\ pc'[u] \in {"none", "start", "begin", "exited"} => first'[u] = 0
    BY <2>1, <2>2, <2>3, <1>a DEF Placed
  <2>6. QED
    BY <2>1, <2>3, <2>4, <2>5, <1>a DEF Placed
<1>2. ASSUME NEW t \in Threads, Crash(t) PROVE Placed'
  BY <1>2, <1>a DEF Crash, Placed
<1>3. CASE LockToCreate
  BY <1>3, <1>a DEF LockToCreate, Placed
<1>4. CASE CreateThread
  <2>1. /\ pc' = [pc EXCEPT ![i + 1] = "start"] /\ pc[i + 1] = "none"
        /\ thread_id' = i + 1 /\ i' = i + 1 /\ hpc = "number" /\ hpc' = "create"
        /\ UNCHANGED <<job, first>>
    BY <1>4 DEF CreateThread, Goto
  <2>2. i < job.threads /\ i + 1 \in Threads /\ thread_id' # 0
    BY <2>1, <1>a, <1>b DEF Placed
  <2>3. pc'[i + 1] = "start" /\ \A u \in Threads : u # i + 1 => pc'[u] = pc[u]
    BY <2>1, <2>2, <1>a DEF LocalTypeOK
  <2>4. \A u \in Threads : u > job.threads => pc'[u] = "none"
    BY <2>2, <2>3, <1>a, <1>b DEF Placed
  <2>5. \A u \in Threads : u > i' => pc'[u] = "none"
    BY <2>1, <2>3, <1>a, <1>b DEF Placed
  <2>6. \A u \in Threads :
          pc'[u] \in {"none", "start", "begin", "exited"} => first'[u] = 0
    BY <2>1, <2>2, <2>3, <1>a DEF Placed
  <2>7. QED
    BY <2>1, <2>2, <2>4, <2>5, <2>6 DEF Placed
<1>5. CASE EndCreate
  <2>1. hpc = "create" /\ hpc' = "join" /\ i' = 0 /\ UNCHANGED <<job, pc, first, thread_id>>
    BY <1>5 DEF EndCreate
  <2>2. \A u \in Threads : u <= i' => pc'[u] = "none"
    BY <2>1, <1>b
  <2>3. QED
    BY <2>1, <2>2, <1>a DEF Placed
<1>6. CASE JoinThread
  <2>1. /\ pc' = [pc EXCEPT ![i + 1] = "none"] /\ pc[i + 1] = "exited"
        /\ i < job.threads /\ i' = i + 1 /\ hpc = "join" /\ hpc' = "join"
        /\ UNCHANGED <<job, first, thread_id>>
    BY <1>6 DEF JoinThread, Goto
  <2>2. /\ i + 1 \in Threads
        /\ pc'[i + 1] = "none" /\ \A u \in Threads : u # i + 1 => pc'[u] = pc[u]
    BY <2>1, <1>a, <1>b DEF LocalTypeOK
  <2>3. \A u \in Threads : u <= i' => pc'[u] = "none"
    BY <2>1, <2>2, <1>a, <1>b DEF Placed
  <2>4. QED
    BY <2>1, <2>2, <2>3, <1>a DEF Placed
<1>7. CASE Close \/ CreateAgain
  <2>1. /\ hpc = "join" /\ i = job.threads /\ UNCHANGED <<job, pc, first, thread_id>>
        /\ (hpc' = "over" /\ i' = i) \/ (hpc' = "create" /\ i' = 0)
    BY <1>7 DEF Close, CreateAgain
  <2>2. \A u \in Threads : pc[u] = "none"
    <3>1. \A u \in Threads : u <= job.threads \/ u > job.threads
      BY <1>b
    <3>2. QED
      BY <2>1, <3>1, <1>a DEF Placed
  <2>3. QED
    BY <2>1, <2>2, <1>a DEF Placed
<1>8. CASE UNCHANGED vars
  BY <1>8, <1>a DEF vars, Placed
<1>9. QED
  BY <1>1, <1>2, <1>3, <1>4, <1>5, <1>6, <1>7, <1>8 DEF Next, HostStep

(* A thread reads beside another only behind a malformed line.             *)
LEMMA MixesBehind ==
  ASSUME IInv, NEW t \in Threads, Mix(t), Inside(t) \/ pc[t] = "reparse", mixed'
  PROVE  Spoilt(pos)
<1>1. CASE pc[t] = "reparse"
  BY <1>1, IntTypes, SpoiltBehind DEF IInv, Reading
<1>2. CASE Inside(t)
  <2> SUFFICES ASSUME ~ Spoilt(pos) PROVE FALSE
    OBVIOUS
  <2>1. /\ ~ mixed /\ \A u \in Threads : pc[u] # "reparse"
        /\ \A u \in Threads : u # t => ~ Inside(u)
    BY <1>2, AloneInside
  <2>2. \A u \in Threads : pc[u] = "parse" => Inside(u)
    BY MaxThreadsAssumption DEF Inside, Threads, Host
  <2>3. QED
    BY <2>1, <2>2 DEF Mix, Beside
<1>3. QED
  BY <1>1, <1>2

(* What a thread has at parse is its own line, unless that is spoilt.      *)
LEMMA ReadsOwn ==
  ASSUME IInv, NEW t \in Threads, pc[t] = "parse"
  PROVE  /\ line[t] \in 1 .. pos
         /\ ~ Spoilt(line[t]) =>
              line[t] = pos /\ ~ mixed /\ ~ stolen /\ Reads(t) = {job.lines[line[t]]}
<1>1. line[t] # 0 /\ (line[t] = pos \/ Spoilt(line[t]))
  BY DEF IInv, Reading
<1>2. line[t] \in 1 .. pos
  BY <1>1, IntTypes
<1>3. QED
  BY <1>1, <1>2 DEF IInv, Reading, MutexHeld, Reads

LEMMA ReadingStep ==
  ASSUME IInv, [Next]_vars
  PROVE  Reading'
<1> USE DEF file, shared, lock, host, locals
<1>a. LocalTypeOK /\ Reading /\ pos \in Nat
  BY TypeParts, IntTypes DEF IInv
<1>b. /\ job' = job /\ pos' \in pos .. Len(job.lines)
      /\ Spoilt(pos) => Spoilt(pos)'
      /\ \A n : Spoilt(n)' <=> Spoilt(n)
  BY ReadsOn
<1>c. ASSUME \A u \in Threads : pc'[u] \in {"parse", "reparse"} => pc'[u] = pc[u],
             UNCHANGED <<pos, mixed, line>>
      PROVE  Reading'
  BY <1>a, <1>b, <1>c DEF Reading
<1>1. ASSUME NEW t \in Threads, Begin(t) \/ More(t) PROVE Reading'
  <2>1. pc[t] \in {"begin", "count"} /\ Inside(t)
    BY <1>1, MaxThreadsAssumption DEF Begin, More, GetNext, Goto, Inside, Threads, Host
  <2>2. mixed' => Spoilt(pos)'
    <3>1. CASE mixed' = mixed
      BY <3>1, <1>a, <1>b DEF Reading
    <3>2. CASE Mix(t)
      BY <2>1, <3>2, <1>b, MixesBehind
    <3>3. QED
      BY <1>1, <3>1, <3>2 DEF Begin, More, GetNext
  <2>3. ASSUME NEW u \in Threads, u # t
        PROVE  /\ pc'[u] = "parse" => line'[u] # 0 /\ (line'[u] = pos' \/ Spoilt(line'[u]))
               /\ pc'[u] = "reparse" => line'[u] # 0 /\ Spoilt(line'[u])
    <3>1. pc'[u] = pc[u] /\ line'[u] = line[u]
      BY <1>1, <2>1, <2>3, OthersKeep DEF Step, Crash
    <3>2. CASE Spoilt(pos)
      BY <3>1, <3>2, <1>a DEF Reading
    <3>3. CASE ~ Spoilt(pos)
      <4>1. ~ Inside(u) /\ pc[u] # "reparse"
        BY <2>1, <2>3, <3>3, AloneInside
      <4>2. QED
        BY <3>1, <4>1, MaxThreadsAssumption DEF Inside, Threads, Host
    <3>4. QED
      BY <3>2, <3>3
  <2>4. pc'[t] # "reparse" /\ (pc'[t] = "parse" => line'[t] = pos' /\ pos' # 0)
    <3>1. "begin" \in Labels /\ "count" \in Labels
      BY DEF Labels
    <3>2. CASE GetNext(t, "begin") \/ GetNext(t, "count")
      BY <3>1, <3>2, <1>a, NextRead DEF LocalTypeOK
    <3>3. CASE Goto(t, "count", "leave")
      BY <3>3, <1>a DEF Goto, LocalTypeOK
    <3>4. QED
      BY <1>1, <3>2, <3>3 DEF Begin, More
  <2>5. QED
    BY <2>2, <2>3, <2>4, <1>b DEF Reading
<1>2. ASSUME NEW t \in Threads, Malform(t) PROVE Reading'
  <2>1. pc[t] = "parse" /\ pc'[t] = "reparse" /\ UNCHANGED <<mixed, line>>
    BY <1>2, <1>a DEF Malform, Parsed, Goto, LocalTypeOK
  <2>2. line[t] \in 1 .. pos /\ Spoilt(line[t])
    <3>1. line[t] \in 1 .. pos
      BY <2>1, ReadsOwn
    <3>2. CASE ~ Spoilt(line[t])
      <4>1. job.lines[line[t]].op \in Malformed
        BY <1>2, <2>1, <3>2, ReadsOwn DEF Malform, Parsed
      <4>2. QED
        BY <3>1, <3>2, <4>1 DEF Spoilt
    <3>3. QED
      BY <3>1, <3>2
  <2>3. Spoilt(pos)
    BY <2>2, <1>a, SpoiltBehind
  <2>4. ASSUME NEW u \in Threads, u # t
        PROVE  /\ pc'[u] = "parse" => line'[u] # 0 /\ Spoilt(line'[u])
               /\ pc'[u] = "reparse" => line'[u] # 0 /\ Spoilt(line'[u])
    BY <1>2, <2>1, <2>3, <2>4, <1>a, OthersKeep DEF Step, Crash, Reading
  <2>5. QED
    BY <2>1, <2>2, <2>3, <2>4, <1>b DEF Reading
<1>3. ASSUME NEW t \in Threads, Reparse(t) \/ ReparseAtEof(t) \/ ReparseMixed(t) PROVE Reading'
  <2>1. /\ pc[t] = "reparse" /\ line' = line
        /\ pc' \in {pc, [pc EXCEPT ![t] = "run"], [pc EXCEPT ![t] = "wait"]}
    BY <1>3, ParsesOn
  <2>2. Spoilt(pos)
    BY <2>1, <1>a, IntTypes, SpoiltBehind DEF Reading
  <2>3. \A u \in Threads : pc'[u] \in {"parse", "reparse"} => pc'[u] = pc[u]
    BY <2>1, <1>a DEF LocalTypeOK
  <2>4. QED
    BY <2>1, <2>2, <2>3, <1>a, <1>b DEF Reading
<1>4. ASSUME NEW t \in Threads, Lock(t) \/ Run(t) \/ SetWait(t) \/ Crash(t) PROVE Reading'
  BY <1>4, <1>c, <1>a DEF Lock, Run, SetWait, Crash, Goto, LocalTypeOK
<1>5. ASSUME NEW t \in Threads,
             ParseCommand(t) \/ Skip(t) \/ ParseWait(t)
      PROVE  Reading'
  BY <1>5, <1>c, <1>a DEF ParseCommand, Skip, ParseWait, Parsed, Goto, LocalTypeOK
<1>6. ASSUME NEW t \in Threads, Barrier(t) \/ Leave(t) PROVE Reading'
  <2>1. pc' = [pc EXCEPT ![t] = "exited"] /\ UNCHANGED file
    BY <1>6 DEF Barrier, Leave, Parsed, Goto
  <2>2. \A u \in Threads : pc'[u] \in {"parse", "reparse"} =>
                             pc'[u] = pc[u] /\ line'[u] = line[u]
    BY <1>6, <2>1, <1>a DEF Barrier, Leave, Exit, Set, LocalTypeOK
  <2>3. QED
    BY <2>1, <2>2, <1>a, <1>b DEF Reading
<1>7. CASE HostStep
  <2>1. /\ UNCHANGED <<pos, mixed, line>>
        /\ \/ pc' = pc
           \/ pc' = [pc EXCEPT ![i + 1] = "start"]
           \/ pc' = [pc EXCEPT ![i + 1] = "none"]
    BY <1>7
    DEF HostStep, LockToCreate, CreateThread, EndCreate, JoinThread, Close, CreateAgain, Goto
  <2>2. QED
    BY <2>1, <1>c, <1>a DEF LocalTypeOK
<1>8. CASE UNCHANGED vars
  BY <1>8, <1>c DEF vars
<1>9. QED
  BY <1>1, <1>2, <1>3, <1>4, <1>5, <1>6, <1>7, <1>8 DEF Next, Step

LEMMA NextIInv == IInv /\ [Next]_vars => IInv'
<1> SUFFICES ASSUME IInv, [Next]_vars PROVE IInv'
  OBVIOUS
<1>1. TypeOK'
  BY SharedTypeStep, LocalTypeStep, NumberStep DEF TypeOK, SharedTypeOK, LocalTypeOK, HasNumber
<1>2. QED
  BY <1>1, MutexStep, PlacedStep, ReadingStep DEF IInv

(* Type correctness for any files and any number of threads, none          *)
(* included: what create_threads numbers and SetWait writes stays among    *)
(* the threads, unless a WAIT above IntMax crashes the program.            *)
THEOREM TypeCorrect == Spec => []TypeOK
<1>1. IInv => TypeOK
  BY DEF IInv
<1>2. QED
  BY <1>1, InitIInv, NextIInv, PTL DEF Spec

(* file_mutex is held by exactly the thread or host that is between a lock *)
(* and an unlock (execute_file_commands, create_threads), unless a thread  *)
(* has released the hold of another, which only happens behind a line that *)
(* does not parse.                                                         *)
THEOREM MutexCorrect == Spec => []MutexHeld
<1>1. IInv => MutexHeld
  BY DEF IInv
<1>2. QED
  BY <1>1, InitIInv, NextIInv, PTL DEF Spec

------------------------------------------------------------------------------
(* Barriers.  While a command before a barrier is executed and the barrier *)
(* has been read, BARRIER is set, or the thread that read it is about to   *)
(* set it ...                                                              *)
IsBarrier(b) == job.lines[b].op = "BARRIER" /\ ~ Spoilt(b)

Stopping ==
  \A t \in Threads, b \in 1 .. pos :
    pc[t] = "run" /\ line[t] < b /\ IsBarrier(b) =>
      BARRIER \/ \E v \in Threads : pc[v] = "parse" /\ line[v] = b

(* ... so that what is read behind the barrier is the first line of its    *)
(* thread.                                                                 *)
Latecomers ==
  \A t, u \in Threads :
    pc[t] = "run" /\ pc[u] \in {"parse", "reparse", "run"} /\ Between(t, u) => line[u] = first[u]

(* A thread begins a command with the line it read last or a spoilt one.   *)
LEMMA Begins ==
  ASSUME IInv, NEW t \in Threads, Step(t), ~ Crash(t), pc'[t] = "run"
  PROVE  /\ line' = line /\ first' = first /\ pc[t] \in {"parse", "reparse"}
         /\ line[t] \in 1 .. pos
         /\ (line[t] = pos /\ pos' = pos) \/ Spoilt(line[t])
<1> USE DEF file, locals, Goto
<1>a. LocalTypeOK
  BY TypeParts DEF IInv
<1>1. CASE ParseCommand(t)
  <2>1. pc[t] = "parse" /\ UNCHANGED <<pos, line, first>>
    BY <1>1 DEF ParseCommand, Parsed
  <2>2. QED
    BY <2>1, ReadsOwn DEF IInv, Reading
<1>2. CASE Reparse(t) \/ ReparseAtEof(t) \/ ReparseMixed(t)
  <2>1. pc[t] = "reparse" /\ UNCHANGED <<line, first>>
    BY <1>2, ParsesOn
  <2>2. QED
    BY <2>1, IntTypes DEF IInv, Reading
<1>3. CASE Begin(t) \/ More(t)
  BY <1>3, <1>a DEF Begin, More, GetNext, LocalTypeOK
<1>4. CASE Lock(t) \/ Skip(t) \/ Barrier(t) \/ ParseWait(t) \/ Malform(t)
  BY <1>4, <1>a DEF Lock, Skip, Barrier, ParseWait, Malform, Parsed, LocalTypeOK
<1>5. CASE Run(t) \/ SetWait(t) \/ Leave(t)
  BY <1>5, <1>a DEF Run, SetWait, Leave, LocalTypeOK
<1>6. QED
  BY <1>1, <1>2, <1>3, <1>4, <1>5 DEF Step

(* Up to the first malformed line the file is read line by line.           *)
LEMMA ReadsNext ==
  ASSUME IInv, NEW t \in Threads, Step(t), ~ Spoilt(pos), pos' # pos \/ pc'[t] = "parse"
  PROVE  /\ Begin(t) \/ More(t)
         /\ pc'[t] = "parse" /\ pos' = pos + 1 /\ line'[t] = pos + 1
<1> USE DEF file, locals, Goto
<1>a. LocalTypeOK
  BY TypeParts DEF IInv
<1>1. CASE Begin(t) \/ More(t)
  <2>1. PICK from \in {"begin", "count"} : GetNext(t, from)
    BY <1>1, <1>a DEF Begin, More, LocalTypeOK
  <2>2. Inside(t) /\ from \in Labels /\ Mix(t)
    BY <2>1, MaxThreadsAssumption DEF GetNext, Inside, Threads, Host, Labels
  <2>3. ~ mixed'
    BY <2>2, MixesBehind
  <2>4. QED
    BY <1>1, <2>1, <2>2, <2>3, <1>a, NextRead DEF LocalTypeOK
<1>2. CASE Malform(t)
  <2>1. pc[t] = "parse" /\ \E l \in Reads(t) : l.op \in Malformed
    BY <1>2 DEF Malform, Parsed
  <2>2. ~ Spoilt(line[t]) /\ line[t] \in 1 .. pos
    BY <2>1, IntTypes, ReadsOwn, SpoiltBehind
  <2>3. job.lines[line[t]].op \in Malformed
    BY <2>1, <2>2, ReadsOwn
  <2>4. QED
    BY <2>2, <2>3 DEF Spoilt
<1>3. CASE Reparse(t) \/ ReparseAtEof(t) \/ ReparseMixed(t)
  BY <1>3, IntTypes, ParsesOn, SpoiltBehind DEF IInv, Reading
<1>4. CASE Lock(t) \/ ParseCommand(t) \/ Skip(t) \/ Barrier(t) \/ ParseWait(t)
  BY <1>4, <1>a DEF Lock, ParseCommand, Skip, Barrier, ParseWait, Parsed, LocalTypeOK
<1>5. CASE Run(t) \/ SetWait(t) \/ Crash(t) \/ Leave(t)
  BY <1>5, <1>a DEF Run, SetWait, Crash, Leave, LocalTypeOK
<1>6. QED
  BY <1>1, <1>2, <1>3, <1>4, <1>5 DEF Step

(* The host starts over when no thread is left.                            *)
LEMMA HostSpares ==
  ASSUME IInv, HostStep \/ UNCHANGED vars
  PROVE  /\ UNCHANGED <<job, file, line, first, target>>
         /\ \A t \in Threads : pc'[t] = pc[t] \/ {pc[t], pc'[t]} \subseteq {"none", "start", "exited"}
         /\ BARRIER' = BARRIER \/ \A t \in Threads : pc[t] = "none" /\ pc'[t] = "none"
<1> USE DEF shared, lock, host, locals
<1>1. pc \in [Threads -> Labels] /\ Placed
  BY TypeParts DEF IInv, LocalTypeOK
<1>2. CASE CreateThread \/ JoinThread
  BY <1>1, <1>2 DEF CreateThread, JoinThread, Goto
<1>3. CASE LockToCreate \/ EndCreate \/ Close \/ UNCHANGED vars
  BY <1>1, <1>3 DEF LockToCreate, EndCreate, Close, vars
<1>4. CASE CreateAgain
  <2>1. hpc = "join" /\ i = job.threads /\ UNCHANGED <<job, file, pc, line, first, target>>
    BY <1>4 DEF CreateAgain
  <2>2. \A t \in Threads : t <= job.threads \/ t > job.threads
    BY IntTypes, MaxThreadsAssumption DEF Threads
  <2>3. QED
    BY <2>1, <2>2, <1>1 DEF Placed
<1>5. QED
  BY <1>2, <1>3, <1>4 DEF HostStep

LEMMA StoppingStep ==
  ASSUME IInv, Stopping, [Next]_vars
  PROVE  Stopping'
<1>a. LocalTypeOK /\ pos \in Nat /\ \A t \in Threads : line[t] \in Nat
  BY TypeParts, IntTypes DEF IInv
<1>b. /\ job' = job /\ pos' \in pos .. Len(job.lines) /\ pos' \in Nat
      /\ \A n : IsBarrier(n)' <=> IsBarrier(n)
  BY <1>a, ReadsOn, IntTypes DEF IsBarrier
<1> SUFFICES ASSUME NEW t \in Threads, NEW b \in 1 .. pos',
                    pc'[t] = "run", line'[t] < b, IsBarrier(b)
             PROVE  BARRIER' \/ \E v \in Threads : pc'[v] = "parse" /\ line'[v] = b
  BY <1>b DEF Stopping
<1>c. b \in Nat /\ \A n \in Nat : n <= b => ~ Spoilt(n)
  BY <1>b, SpoiltBehind DEF IsBarrier
<1>1. CASE HostStep \/ UNCHANGED vars
  BY <1>1, HostSpares DEF Stopping, file
<1>2. ASSUME NEW w \in Threads, Step(w)
      PROVE  BARRIER' \/ \E v \in Threads : pc'[v] = "parse" /\ line'[v] = b
  <2>c. ~ Crash(w)
    BY DEF Crash
  <2>1. CASE t = w
    <3>1. line'[t] = line[t] /\ ((line[t] = pos /\ pos' = pos) \/ Spoilt(line[t]))
      BY <1>2, <2>c, <2>1, Begins
    <3>2. line[t] <= b
      BY <3>1, <1>a, <1>c
    <3>3. QED
      BY <3>1, <3>2, <1>a, <1>c
  <2>2. CASE t # w
    <3>1. pc[t] = "run" /\ line[t] = line'[t]
      BY <1>2, <2>c, <2>2, OthersKeep
    <3>2. BARRIER => BARRIER'
      BY <1>2
      DEF Step, Lock, Begin, ParseCommand, Skip, Barrier, ParseWait, Malform, Reparse, ReparseAtEof,
          ReparseMixed, Run, SetWait, Crash, More, Leave, shared
    <3>3. CASE b \in 1 .. pos
      <4>1. BARRIER \/ \E v \in Threads : pc[v] = "parse" /\ line[v] = b
        BY <3>1, <3>3 DEF Stopping
      <4>2. ASSUME NEW v \in Threads, pc[v] = "parse", line[v] = b, v # w
            PROVE  pc'[v] = "parse" /\ line'[v] = b
        BY <1>2, <2>c, <4>2, OthersKeep
      <4>3. ASSUME pc[w] = "parse", line[w] = b PROVE BARRIER'
        <5>1. Reads(w) = {job.lines[b]} /\ job.lines[b].op = "BARRIER"
          BY <4>3, <1>c, ReadsOwn DEF IsBarrier
        <5>2. Barrier(w)
          BY <1>2, <2>c, <4>3, <5>1
          DEF Step, Lock, Begin, ParseCommand, Skip, ParseWait, Malform, Malformed, Reparse,
              ReparseAtEof, ReparseMixed, Run, SetWait, More, Leave, Parsed, GetNext, Goto
        <5>3. QED
          BY <5>2 DEF Barrier
      <4>4. QED
        BY <3>2, <4>1, <4>2, <4>3
    <3>4. CASE b \notin 1 .. pos
      <4>1. pos' # pos /\ pos <= b /\ b # 0
        BY <3>4, <1>a, <1>c
      <4>2. ~ Spoilt(pos)
        BY <4>1, <1>a, <1>c
      <4>3. pc'[w] = "parse" /\ line'[w] = pos + 1 /\ pos' = pos + 1
        BY <1>2, <4>1, <4>2, ReadsNext
      <4>4. b = pos + 1
        BY <3>4, <4>3, <1>a, <1>c
      <4>5. QED
        BY <4>3, <4>4
    <3>5. QED
      BY <3>3, <3>4
  <2>3. QED
    BY <2>1, <2>2
<1>3. QED
  BY <1>1, <1>2 DEF Next

LEMMA LatecomersStep ==
  ASSUME IInv, Stopping, Latecomers, [Next]_vars
  PROVE  Latecomers'
<1>a. LocalTypeOK /\ pos \in Nat /\ \A t \in Threads : line[t] \in Nat /\ line[t] <= pos
  BY TypeParts, IntTypes DEF IInv
<1>b. /\ job' = job /\ pos' \in pos .. Len(job.lines) /\ pos' \in Nat
      /\ \A n : IsBarrier(n)' <=> IsBarrier(n)
  BY <1>a, ReadsOn, IntTypes DEF IsBarrier
<1>d. \A v \in Threads : line'[v] \in Nat /\ line'[v] <= pos'
  BY <1>b, LocalTypeStep DEF LocalTypeOK
<1> SUFFICES ASSUME NEW t \in Threads, NEW u \in Threads, pc'[t] = "run",
                    pc'[u] \in {"parse", "reparse", "run"}, Between(t, u)'
             PROVE  line'[u] = first'[u]
  BY DEF Latecomers
<1>1. PICK b \in line'[t] + 1 .. line'[u] - 1 : IsBarrier(b)
  BY <1>b DEF Between, IsBarrier
<1>2. b \in Nat /\ line'[t] < b /\ b < line'[u]
  BY <1>1, <1>d
<1>c. \A n \in Nat : n <= b => ~ Spoilt(n)
  BY <1>1, <1>2, SpoiltBehind DEF IsBarrier
<1>l. ASSUME line[t] = line'[t], b < line[u], pc[t] = "run",
             pc[u] \in {"parse", "reparse", "run"}
      PROVE  line[u] = first[u]
  <2>1. b \in line[t] + 1 .. line[u] - 1
    BY <1>l, <1>2, <1>a
  <2>2. QED
    BY <1>l, <1>1, <2>1 DEF Latecomers, Between, IsBarrier
<1>3. CASE HostStep \/ UNCHANGED vars
  BY <1>2, <1>3, <1>l, HostSpares
<1>4. ASSUME NEW w \in Threads, Step(w) PROVE line'[u] = first'[u]
  <2>c. ~ Crash(w)
    BY DEF Crash
  <2>1. CASE t = w
    <3>1. line'[t] = line[t] /\ ((line[t] = pos /\ pos' = pos) \/ Spoilt(line[t]))
      BY <1>4, <2>c, <2>1, Begins
    <3>2. CASE Spoilt(line[t])
      BY <3>1, <3>2, <1>2, <1>a, <1>c
    <3>3. CASE line[t] = pos /\ pos' = pos
      BY <3>1, <3>3, <1>2, <1>a, <1>d
    <3>4. QED
      BY <3>1, <3>2, <3>3
  <2>2. CASE t # w /\ u # w
    <3>1. /\ pc[t] = "run" /\ line[t] = line'[t]
          /\ pc'[u] = pc[u] /\ line[u] = line'[u] /\ first[u] = first'[u]
      BY <1>4, <2>c, <2>2, OthersKeep
    <3>2. QED
      BY <3>1, <1>2, <1>l
  <2>3. CASE t # w /\ u = w
    <3>1. pc[t] = "run" /\ line[t] = line'[t]
      BY <1>4, <2>c, <2>3, OthersKeep
    <3>2. CASE ~ (Begin(u) \/ More(u))
      <4>1. pc[u] \in {"parse", "reparse"} /\ line'[u] = line[u] /\ first'[u] = first[u]
        <5>1. CASE pc'[u] = "run"
          BY <1>4, <2>c, <2>3, <5>1, Begins
        <5>2. CASE Malform(u)
          BY <5>2 DEF Malform, Parsed, Goto, locals
        <5>3. CASE Reparse(u) \/ ReparseAtEof(u) \/ ReparseMixed(u)
          BY <5>3, ParsesOn
        <5>4. QED
          BY <1>4, <2>c, <2>3, <3>2, <5>1, <5>2, <5>3, <1>a
          DEF Step, Lock, ParseCommand, Skip, Barrier, ParseWait, Run, SetWait, Leave, Parsed, Goto,
              LocalTypeOK
      <4>2. QED
        BY <3>1, <4>1, <1>2, <1>l
    <3>3. CASE Begin(u) \/ More(u)
      <4>1. /\ line'[u] = pos' /\ pc[u] \in {"begin", "count"}
            /\ first'[u] = IF first[u] = 0 THEN pos' ELSE first[u]
        <5>1. pc'[u] # "leave" /\ "begin" \in Labels /\ "count" \in Labels
          BY DEF Labels
        <5>2. PICK from \in {"begin", "count"} : GetNext(u, from)
          BY <3>3, <5>1, <1>a DEF Begin, More, Goto, LocalTypeOK
        <5>3. QED
          BY <5>1, <5>2, <1>a, NextRead DEF LocalTypeOK
      <4>2. CASE Begin(u)
        <5>1. pc[u] = "begin" /\ hpc # "crashed"
          BY <3>1, <4>2 DEF Begin, GetNext, Goto, IInv, Placed
        <5>2. QED
          BY <4>1, <5>1 DEF IInv, Placed
      <4>3. CASE More(u)
        <5>1. ~ BARRIER /\ pc[u] = "count"
          BY <4>3, <1>a DEF More, GetNext, Goto, LocalTypeOK
        <5>2. Inside(u)
          BY <5>1, MaxThreadsAssumption DEF Inside, Threads, Host
        <5>3. CASE b <= pos
          <6>1. b \in 1 .. pos /\ line[t] < b
            BY <3>1, <5>3, <1>2, <1>a
          <6>2. PICK v \in Threads : pc[v] = "parse" /\ line[v] = b
            BY <3>1, <5>1, <6>1, <1>1 DEF Stopping
          <6>3. ~ Spoilt(pos)
            BY <6>2, <1>2, <1>c, ReadsOwn
          <6>4. Inside(v) /\ v # u
            BY <5>1, <6>2, MaxThreadsAssumption DEF Inside, Threads, Host
          <6>5. QED
            BY <5>2, <6>3, <6>4, AloneInside
        <5>4. CASE ~ (b <= pos)
          <6>1. pos <= b /\ ~ Spoilt(pos) /\ pos' # pos
            BY <4>1, <5>4, <1>2, <1>a, <1>c
          <6>2. pos' = pos + 1
            BY <1>4, <2>3, <6>1, ReadsNext
          <6>3. QED
            BY <4>1, <6>2, <5>4, <1>2, <1>a
        <5>5. QED
          BY <5>3, <5>4
      <4>4. QED
        BY <3>3, <4>2, <4>3
    <3>4. QED
      BY <3>2, <3>3
  <2>4. QED
    BY <2>1, <2>2, <2>3
<1>5. QED
  BY <1>3, <1>4 DEF Next

(* No command behind a BARRIER is executed beside one before it, except    *)
(* the first of its thread (execute_file_commands), with any number of     *)
(* threads and any file, as long as no malformed line stands before the    *)
(* BARRIER.                                                                *)
THEOREM BarriersStop == Spec => []BarrierStops
<1>1. Init => Stopping /\ Latecomers
  <2> SUFFICES ASSUME Init PROVE Stopping /\ Latecomers
    OBVIOUS
  <2>1. \A t \in Threads : pc[t] # "run"
    BY DEF Init
  <2>2. QED
    BY <2>1 DEF Stopping, Latecomers
<1>2. IInv /\ Stopping /\ Latecomers /\ [Next]_vars => Stopping' /\ Latecomers'
  BY StoppingStep, LatecomersStep
<1>3. Latecomers => BarrierStops
  BY DEF Latecomers, BarrierStops
<1>4. QED
  BY <1>1, <1>2, <1>3, InitIInv, NextIInv, PTL DEF Spec
------------------------------------------------------------------------------
(* JobThreads implements JobRun.  The end of the file is met at its end    *)
(* only, and who executes a WAIT has read one or a malformed line.         *)
Busy == {u \in Threads : \/ pc[u] = "run"
                         \/ pc[u] = "parse" /\ Op(u) = "RUN" /\ ~ Spoilt(line[u])}

Running == {<<t, line[t]>> : t \in Busy}

ReachedEnd ==
  (exit \/ \E t \in Threads : result[t] = 1) => pos = Len(job.lines)

WaitRead ==
  \A t \in Threads : pc[t] \in {"wait", "set"} =>
    \/ Spoilt(pos)
    \/ \E n \in 1 .. pos : /\ job.lines[n].op = "WAIT"
                           /\ job.lines[n].thread_id \in {Unset, target[t]}

RInv == IInv /\ ReachedEnd /\ WaitRead

LEMMA InitRInv == Init => RInv
<1> SUFFICES ASSUME Init PROVE RInv
  OBVIOUS
<1>1. \A t \in Threads : pc[t] = "none" /\ result[t] = 0
  BY DEF Init
<1>2. QED
  BY <1>1, InitIInv DEF Init, RInv, ReachedEnd, WaitRead

LEMMA ReachedEndStep ==
  ASSUME RInv, [Next]_vars
  PROVE  ReachedEnd'
<1> USE DEF file, shared, lock, host, locals
<1>a. LocalTypeOK /\ IInv
  BY TypeParts DEF RInv, IInv
<1>1. pos = Len(job.lines) => pos' = Len(job'.lines)
  BY <1>a, ReadsOn, IntTypes
<1>2. CASE JoinThread
  <2>1. i + 1 \in Threads
    BY <1>2, <1>a, IntTypes, MaxThreadsAssumption DEF JoinThread, Threads
  <2>2. QED
    BY <1>1, <1>2, <2>1, <1>a DEF JoinThread, Set, RInv, ReachedEnd, LocalTypeOK
<1>3. CASE (HostStep /\ ~ JoinThread) \/ UNCHANGED vars
  BY <1>1, <1>3
  DEF HostStep, LockToCreate, CreateThread, EndCreate, Close, CreateAgain, vars, RInv, ReachedEnd
<1>4. ASSUME NEW t \in Threads, Step(t) PROVE ReachedEnd'
  <2>1. exit' = exit
    BY <1>4, <1>a, OwnStep DEF Crash
  <2>2. result' = result \/ pos' = Len(job'.lines)
    <3>1. CASE Begin(t) \/ More(t)
      BY <3>1 DEF Begin, More, GetNext
    <3>2. CASE ~ (Begin(t) \/ More(t))
      BY <1>4, <3>2
      DEF Step, Lock, ParseCommand, Skip, Barrier, ParseWait, Malform, Reparse, ReparseAtEof,
          ReparseMixed, Run, SetWait, Crash, Leave
    <3>3. QED
      BY <3>1, <3>2
  <2>3. QED
    BY <1>1, <2>1, <2>2 DEF RInv, ReachedEnd
<1>5. QED
  BY <1>2, <1>3, <1>4 DEF Next

LEMMA WaitReadStep ==
  ASSUME RInv, [Next]_vars
  PROVE  WaitRead'
<1> DEFINE Read1(n, k) == job.lines[n].op = "WAIT" /\ job.lines[n].thread_id \in {Unset, k}
<1>a. /\ IInv /\ LocalTypeOK /\ pos \in Nat
      /\ job' = job /\ pos' \in pos .. Len(job.lines)
      /\ Spoilt(pos) => Spoilt(pos)'
  BY TypeParts, IntTypes, ReadsOn DEF RInv, IInv
<1>b. 1 .. pos \subseteq 1 .. pos'
  BY <1>a
<1>c. ASSUME NEW u \in Threads, pc[u] \in {"wait", "set"}, target'[u] = target[u]
      PROVE  Spoilt(pos)' \/ \E n \in 1 .. pos' : Read1(n, target'[u])
  BY <1>a, <1>b, <1>c DEF RInv, WaitRead
<1> SUFFICES ASSUME NEW u \in Threads, pc'[u] \in {"wait", "set"}
             PROVE  Spoilt(pos)' \/ \E n \in 1 .. pos' : Read1(n, target'[u])
  BY <1>a DEF WaitRead
<1> HIDE DEF Read1
<1>1. CASE HostStep \/ UNCHANGED vars
  BY <1>1, <1>a, <1>c, HostSpares
<1>2. ASSUME NEW t \in Threads, Step(t), u # t
      PROVE  Spoilt(pos)' \/ \E n \in 1 .. pos' : Read1(n, target'[u])
  <2>1. ~ Crash(t)
    BY DEF Crash
  <2>2. QED
    BY <1>2, <2>1, <1>a, <1>c, OthersKeep
<1>3. ASSUME Step(u) PROVE Spoilt(pos)' \/ \E n \in 1 .. pos' : Read1(n, target'[u])
  <2>1. CASE Lock(u)
    <3>1. pc[u] = "wait" /\ target' = target
      BY <2>1, <1>a DEF Lock, Goto, locals, LocalTypeOK
    <3>2. QED
      BY <3>1, <1>c
  <2>2. CASE ParseWait(u)
    <3>1. /\ pc[u] = "parse" /\ line[u] \in 1 .. pos
          /\ ~ Spoilt(line[u]) => Reads(u) = {job.lines[line[u]]}
      BY <2>2, <1>a, ReadsOwn DEF ParseWait, Parsed, Goto
    <3>2. CASE Spoilt(line[u])
      BY <3>1, <3>2, <1>a, SpoiltBehind
    <3>3. CASE ~ Spoilt(line[u])
      <4>1. /\ job.lines[line[u]].op = "WAIT"
            /\ target'[u] = IF job.lines[line[u]].thread_id = Unset THEN target[u]
                            ELSE job.lines[line[u]].thread_id
        BY <2>2, <3>1, <3>3, <1>a DEF ParseWait, Set, LocalTypeOK
      <4>2. Read1(line[u], target'[u])
        BY <4>1 DEF Read1
      <4>3. QED
        BY <4>2, <3>1, <1>b
    <3>4. QED
      BY <3>2, <3>3
  <2>3. CASE Reparse(u) \/ ReparseAtEof(u) \/ ReparseMixed(u)
    BY <2>3, <1>a, IntTypes, ParsesOn, SpoiltBehind DEF IInv, Reading
  <2>4. CASE ~ (\/ Lock(u) \/ ParseWait(u)
                \/ Reparse(u) \/ ReparseAtEof(u) \/ ReparseMixed(u))
    BY <1>3, <2>4, <1>a
    DEF Step, Begin, ParseCommand, Skip, Barrier, Malform, Run, SetWait, Crash, More, Leave, GetNext,
        Parsed, Goto, LocalTypeOK
  <2>5. QED
    BY <2>1, <2>2, <2>3, <2>4
<1>4. QED
  BY <1>1, <1>2, <1>3 DEF Next

LEMMA NextRInv == RInv /\ [Next]_vars => RInv'
BY NextIInv, ReachedEndStep, WaitReadStep DEF RInv

(* The host returns when everything has ended.                             *)
LEMMA HostRefines ==
  ASSUME RInv, HostStep \/ UNCHANGED vars
  PROVE  [Read!Next]_(Read!vars)
<1>1. UNCHANGED <<job, pos>> /\ Running' = Running
  <2>1. /\ UNCHANGED <<job, pos, line>>
        /\ \A t \in Threads : pc'[t] \in {"run", "parse"} \/ pc[t] \in {"run", "parse"} => pc'[t] = pc[t]
    BY HostSpares DEF RInv, file
  <2>2. Busy' = Busy
    BY <2>1 DEF Busy, Op, Spoilt
  <2>3. QED
    BY <2>1, <2>2 DEF Running
<1>2. CASE Close
  <2>1. /\ hpc = "join" /\ hpc' = "over" /\ exit /\ i = job.threads
    BY <1>2 DEF Close
  <2>2. \A t \in Threads : pc[t] = "none"
    <3>1. \A t \in Threads : t <= job.threads \/ t > job.threads
      BY IntTypes, MaxThreadsAssumption DEF RInv, Threads
    <3>2. QED
      BY <2>1, <3>1 DEF RInv, IInv, Placed
  <2>3. Running = {}
    BY <2>2 DEF Running, Busy
  <2>4. pos = Len(job.lines)
    BY <2>1 DEF RInv, ReachedEnd
  <2>5. Read!End
    BY <1>1, <2>1, <2>3, <2>4 DEF Read!End, Running, Busy
  <2>6. QED
    BY <2>5 DEF Read!Next
<1>3. CASE ~ Close
  <2>1. hpc' \in {"over", "crashed"} <=> hpc \in {"over", "crashed"}
    BY <1>3 DEF HostStep, LockToCreate, CreateThread, EndCreate, JoinThread, CreateAgain, vars, host
  <2>2. QED
    BY <1>1, <2>1 DEF Read!vars, Running, Busy
<1>4. QED
  BY <1>2, <1>3

(* A thread that crashes the program has read a wild WAIT, or what a       *)
(* malformed line made one of.                                             *)
LEMMA CrashRefines ==
  ASSUME RInv, NEW t \in Threads, Crash(t)
  PROVE  Read!Crash
<1>1. /\ pc[t] = "set" /\ hpc' = "crashed" /\ UNCHANGED <<job, pos>>
      /\ \A u \in Threads : pc'[u] = "none"
  BY DEF Crash, file
<1>2. hpc \notin {"over", "crashed"}
  BY <1>1 DEF RInv, IInv, Placed
<1>3. Running' = {}
  BY <1>1 DEF Running, Busy
<1>4. PICK m \in Numbers(t) : ToInt(m) < 0
  BY DEF Crash
<1>5. target[t] # Unset => target[t] \in 0 .. UINT_MAX /\ target[t] > IntMax
  <2> SUFFICES ASSUME target[t] # Unset PROVE target[t] \in 0 .. UINT_MAX /\ target[t] > IntMax
    OBVIOUS
  <2>1. m = target[t]
    BY <1>4 DEF Numbers
  <2>2. m \in 0 .. UINT_MAX
    BY <2>1, TypeParts, WaitNumbersAssumption DEF RInv, IInv, LocalTypeOK
  <2>3. IntMax \in Nat /\ UINT_MAX \in Nat
    BY IntMaxAssumption DEF UINT_MAX
  <2>4. QED
    BY <1>4, <2>1, <2>2, <2>3 DEF ToInt
<1>6. ASSUME NEW n \in 1 .. pos, job.lines[n].op = "WAIT",
             job.lines[n].thread_id \in {Unset, target[t]}
      PROVE  Read!IsWild(n)
  BY <1>5, <1>6 DEF Read!IsWild
<1>7. Read!Spoilt(pos) \/ \E n \in 1 .. pos : Read!IsWild(n)
  <2>1. Spoilt(pos) => Read!Spoilt(pos)
    BY DEF Spoilt, Read!Spoilt, Malformed, Read!Malformed
  <2>2. QED
    BY <1>1, <1>6, <2>1 DEF RInv, WaitRead
<1>8. QED
  BY <1>1, <1>2, <1>3, <1>7 DEF Read!Crash, Running, Busy

(* What a step of a thread makes of its own command.                       *)
LEMMA BusyStep ==
  ASSUME IInv, NEW t \in Threads, Step(t), ~ Crash(t)
  PROVE  /\ t \notin Busy /\ t \in Busy' =>
              \/ /\ ~ Spoilt(pos) /\ pos' = pos + 1 /\ line'[t] = pos + 1
                 /\ job.lines[pos + 1].op = "RUN"
              \/ Spoilt(pos) /\ line'[t] \in 1 .. pos /\ Spoilt(line'[t])
         /\ t \in Busy => pos' = pos
         /\ t \in Busy /\ t \in Busy' => line'[t] = line[t]
         /\ t \notin Busy /\ t \notin Busy' /\ ~ Spoilt(pos) /\ pos' # pos =>
              pos' = pos + 1 /\ (job.lines[pos + 1].op # "RUN" \/ Spoilt(pos + 1))
<1> USE DEF file, locals
<1>a. /\ LocalTypeOK /\ job' = job /\ pos \in Nat
      /\ \A n : Spoilt(n)' <=> Spoilt(n)
      /\ Spoilt(pos) => Spoilt(pos)'
  BY TypeParts, IntTypes, ReadsOn DEF IInv, Next
<1>1. CASE pc'[t] = "parse"
  <2>1. Begin(t) \/ More(t)
    <3>1. ~ (Reparse(t) \/ ReparseAtEof(t) \/ ReparseMixed(t))
      BY <1>1, <1>a, ParsesOn DEF LocalTypeOK
    <3>2. QED
      BY <1>1, <3>1, <1>a
      DEF Step, Lock, ParseCommand, Skip, Barrier, ParseWait, Malform, Run, SetWait, Leave, Parsed,
          Goto, LocalTypeOK
  <2>2. t \notin Busy
    BY <2>1 DEF Begin, More, GetNext, Goto, Busy
  <2>3. CASE Spoilt(pos)
    <3>1. Spoilt(line[t])'
      BY <1>1, <2>3, <1>a, NextIInv DEF IInv, Reading, Next
    <3>2. t \notin Busy'
      BY <1>1, <3>1 DEF Busy
    <3>3. QED
      BY <2>2, <2>3, <3>2
  <2>4. CASE ~ Spoilt(pos)
    <3>1. pos' = pos + 1 /\ line'[t] = pos + 1
      BY <1>1, <2>4, ReadsNext
    <3>2. t \in Busy' <=> job.lines[pos + 1].op = "RUN" /\ ~ Spoilt(pos + 1)
      BY <1>1, <3>1, <1>a DEF Busy, Op
    <3>3. QED
      BY <2>2, <2>4, <3>1, <3>2
  <2>5. QED
    BY <2>3, <2>4
<1>2. CASE pc'[t] = "run"
  <2>1. /\ line' = line /\ pc[t] \in {"parse", "reparse"} /\ line[t] \in 1 .. pos
        /\ (line[t] = pos /\ pos' = pos) \/ Spoilt(line[t])
    BY <1>2, Begins
  <2>2. t \in Busy'
    BY <1>2 DEF Busy
  <2>3. CASE Spoilt(line[t])
    <3>1. Spoilt(pos) /\ t \notin Busy
      BY <2>1, <2>3, <1>a, SpoiltBehind DEF Busy
    <3>2. QED
      BY <2>1, <2>2, <2>3, <3>1
  <2>4. CASE ~ Spoilt(line[t])
    <3>1. pc[t] = "parse" /\ Reads(t) = {job.lines[line[t]]}
      BY <2>1, <2>4, ReadsOwn DEF IInv, Reading
    <3>2. ParseCommand(t)
      BY <1>2, <3>1, <1>a
      DEF Step, Lock, Begin, Skip, Barrier, ParseWait, Malform, Reparse, ReparseAtEof, ReparseMixed,
          Run, SetWait, More, Leave, GetNext, Parsed, Goto, LocalTypeOK
    <3>3. job.lines[line[t]].op = "RUN"
      BY <3>1, <3>2 DEF ParseCommand, Parsed
    <3>4. t \in Busy
      BY <2>4, <3>1, <3>3 DEF Busy, Op
    <3>5. QED
      BY <2>1, <2>2, <2>4, <3>4
  <2>5. QED
    BY <2>3, <2>4
<1>3. CASE pc'[t] \notin {"parse", "run"}
  <2>1. t \notin Busy'
    BY <1>3 DEF Busy
  <2>2. t \in Busy => pos' = pos
    <3>1. CASE pc[t] = "run"
      BY <3>1
      DEF Step, Lock, Begin, ParseCommand, Skip, Barrier, ParseWait, Malform, Reparse, ReparseAtEof,
          ReparseMixed, Run, SetWait, More, Leave, GetNext, Parsed, Goto
    <3>2. CASE pc[t] = "parse" /\ Op(t) = "RUN" /\ ~ Spoilt(line[t])
      <4>1. Reads(t) = {job.lines[line[t]]}
        BY <3>2, ReadsOwn
      <4>2. ~ Malform(t)
        BY <3>2, <4>1 DEF Malform, Parsed, Malformed, Op
      <4>3. QED
        BY <3>2, <4>2
        DEF Step, Lock, Begin, ParseCommand, Skip, Barrier, ParseWait, Reparse, ReparseAtEof,
            ReparseMixed, Run, SetWait, More, Leave, GetNext, Parsed, Goto
    <3>3. QED
      BY <3>1, <3>2 DEF Busy
  <2>3. ~ Spoilt(pos) => pos' = pos
    BY <1>3, ReadsNext
  <2>4. QED
    BY <2>1, <2>2, <2>3
<1>4. QED
  BY <1>1, <1>2, <1>3

(* A thread begins, ends or passes a command, or does nothing to them.     *)
LEMMA ThreadRefines ==
  ASSUME RInv, NEW t \in Threads, Step(t), ~ Crash(t)
  PROVE  [Read!Next]_(Read!vars)
<1>a. /\ IInv /\ job' = job /\ pos \in Nat /\ pos' \in Nat /\ Len(job.lines) \in Nat
      /\ pos <= pos' /\ pos' <= Len(job.lines)
      /\ \A n : Spoilt(n)' <=> Spoilt(n)
  BY IntTypes, ReadsOn DEF RInv, Next
<1>b. /\ hpc' = hpc /\ hpc \notin {"over", "crashed"} /\ t \in 1 .. job.threads
  <2>1. hpc' = hpc /\ pc[t] # "none"
    BY <1>a, OwnStep
  <2>2. hpc \notin {"over", "crashed"} /\ ~ (t > job.threads)
    BY <2>1, <1>a DEF IInv, Placed
  <2>3. QED
    BY <2>1, <2>2, <1>a, IntTypes, MaxThreadsAssumption DEF Threads
<1>c. \A u \in Threads : u # t => (u \in Busy' <=> u \in Busy) /\ line'[u] = line[u]
  BY <1>a, OthersKeep DEF Busy, Op
<1>d. Busy \subseteq Threads /\ Busy' \subseteq Threads
  BY DEF Busy
<1>e. Running = {<<u, line[u]>> : u \in Busy} /\ Running' = {<<u, line'[u]>> : u \in Busy'}
  BY DEF Running
<1>s. \A n \in Nat : Spoilt(n) => Read!Spoilt(n)
  BY DEF Spoilt, Read!Spoilt, Malformed, Read!Malformed
<1>1. CASE t \notin Busy /\ t \in Busy'
  <2>1. Running' = Running \cup {<<t, line'[t]>>}
    BY <1>1, <1>c, <1>d, <1>e
  <2>2. \A command \in Running : command[1] # t
    BY <1>1, <1>e
  <2>3. CASE /\ ~ Spoilt(pos) /\ pos' = pos + 1 /\ line'[t] = pos + 1
             /\ job.lines[pos + 1].op = "RUN"
    <3>1. pos < Len(job.lines) /\ Running' = Running \cup {<<t, pos + 1>>}
      BY <2>1, <2>3, <1>a
    <3>2. Read!Begin(t)
      BY <2>2, <2>3, <3>1, <1>a, <1>b DEF Read!Begin, Read!Idle, Read!IsCommand, Running, Busy
    <3>3. QED
      BY <3>2, <1>b DEF Read!Next
  <2>4. CASE Spoilt(pos) /\ line'[t] \in 1 .. pos /\ Spoilt(line'[t])
    <3>1. Read!Spoilt(pos) /\ line'[t] \in {m \in 1 .. pos : Read!Spoilt(m)}
      BY <2>4, <1>a, <1>s
    <3>2. \E n \in {m \in 1 .. pos : Read!Spoilt(m)} : Running' = Running \cup {<<t, n>>}
      BY <2>1, <3>1
    <3>3. pos' \in pos .. Len(job.lines)
      BY <1>a
    <3>4. Read!BeginSpoilt(t)
      BY <2>2, <3>1, <3>2, <3>3, <1>a, <1>b DEF Read!BeginSpoilt, Read!Idle, Running, Busy
    <3>5. QED
      BY <3>4, <1>b DEF Read!Next
  <2>5. QED
    BY <1>1, <2>3, <2>4, <1>a, BusyStep
<1>2. CASE t \in Busy /\ t \notin Busy'
  <2>1. <<t, line[t]>> \in Running /\ Running' = Running \ {<<t, line[t]>>}
    BY <1>2, <1>c, <1>d, <1>e
  <2>2. pos' = pos
    BY <1>2, <1>a, BusyStep
  <2>3. \E command \in Running : Read!Finish(command)
    BY <2>1, <2>2, <1>a, <1>b DEF Read!Finish, Running, Busy
  <2>4. QED
    BY <2>3 DEF Read!Next, Running, Busy
<1>3. CASE t \in Busy <=> t \in Busy'
  <2>1. Running' = Running
    <3>1. t \in Busy' => line'[t] = line[t]
      BY <1>3, <1>a, BusyStep
    <3>2. QED
      BY <1>3, <3>1, <1>c, <1>d, <1>e
  <2>2. CASE pos' = pos
    BY <2>1, <2>2, <1>a, <1>b DEF Read!vars, Running, Busy
  <2>3. CASE pos' # pos
    <3>1. t \notin Busy /\ t \notin Busy'
      BY <1>3, <2>3, <1>a, BusyStep
    <3>2. \A n \in pos + 1 .. pos' : job.lines[n].op # "RUN" \/ Spoilt(n)
      <4>1. CASE Spoilt(pos)
        BY <4>1, <1>a, SpoiltBehind
      <4>2. CASE ~ Spoilt(pos)
        <5>1. pos' = pos + 1 /\ (job.lines[pos + 1].op # "RUN" \/ Spoilt(pos + 1))
          BY <2>3, <3>1, <4>2, <1>a, BusyStep
        <5>2. \A n \in pos + 1 .. pos' : n = pos + 1
          BY <5>1, <1>a
        <5>3. QED
          BY <5>1, <5>2
      <4>3. QED
        BY <4>1, <4>2
    <3>3. pos' \in pos + 1 .. Len(job.lines)
      BY <2>3, <1>a
    <3>4. \A n \in pos + 1 .. pos' : ~ Read!IsCommand(n) \/ Read!Spoilt(n)
      BY <3>2, <1>a, <1>s DEF Read!IsCommand
    <3>5. Read!Pass
      BY <2>1, <3>3, <3>4, <1>a, <1>b DEF Read!Pass, Running, Busy
    <3>6. QED
      BY <3>5 DEF Read!Next
  <2>4. QED
    BY <2>2, <2>3
<1>4. QED
  BY <1>1, <1>2, <1>3

(* JobThreads implements JobRun, for any files and any number of threads:  *)
(* whatever thread reads them, the commands of a file begin once each and  *)
(* in order, and process_job_file returns when all have ended.  A line     *)
(* that does not parse costs the lines behind it only, though its thread   *)
(* parses on beside the others; only a wild WAIT crashes the program.      *)
THEOREM JobRunImplemented == Spec => ImplementsJobRun
<1>1. Init => Read!Init
  <2> SUFFICES ASSUME Init PROVE Read!Init
    OBVIOUS
  <2>1. Running = {}
    BY DEF Init, Running, Busy
  <2>2. QED
    BY <2>1 DEF Init, Read!Init, Running, Busy
<1>2. RInv /\ [Next]_vars => [Read!Next]_(Read!vars)
  <2> SUFFICES ASSUME RInv, [Next]_vars PROVE [Read!Next]_(Read!vars)
    OBVIOUS
  <2>1. ASSUME NEW t \in Threads, Crash(t) PROVE Read!Next
    BY <2>1, CrashRefines DEF Read!Next
  <2>2. QED
    BY <2>1, HostRefines, ThreadRefines DEF Next
<1>3. QED
  BY <1>1, <1>2, InitRInv, NextRInv, PTL DEF Spec, ImplementsJobRun, Read!Spec
===============================================================================
