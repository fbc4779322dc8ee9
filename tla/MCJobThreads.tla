---------------------------- MODULE MCJobThreads ----------------------------
(***************************************************************************)
(* Instances of JobThreads for TLC: files with barriers, with waits, and   *)
(* with lines that do not parse, and one without threads.                  *)
(***************************************************************************)
EXTENDS JobThreads

CONSTANTS none, unset

Counts == {0, 1}

(* All threads, one of two, none of two or three, and one negative as an int. *)
NumberSet == {0, 1, 3, 5}

L(op) == [op |-> op]

W(number) == [op |-> "WAIT", thread_id |-> number]

File(threads, lines) == [threads |-> threads, lines |-> lines]

(* The shape of src/p1/student-tests/1.jobs.                               *)
TestFile == {File(3, <<L("RUN"), L("BARRIER"), L("RUN"), L("BARRIER"), L("RUN"), L("RUN")>>)}

Files ==
  {File(3, <<L("RUN"), L("SKIP"), L("BARRIER"), L("RUN"), L("BARRIER"), L("RUN")>>),
   File(2, <<L("BARRIER"), L("SKIP"), L("RUN"), W(0), L("RUN"), L("BARRIER"), L("RUN")>>),
   File(2, <<L("RUN"), W(unset), L("RUN"), W(1), W(3), L("BARRIER"), L("RUN")>>),
   File(3, <<W(1), W(3), L("RUN")>>),
   File(2, <<W(5), L("RUN")>>),
   File(0, <<L("RUN")>>)}
    \cup {File(1, <<L("RUN"), L(op), L("RUN"), L("EMPTY"), L("SKIP"), L("RUN")>>) : op \in Malformed}
    \cup {File(1, <<L("RUN"), L(op), L("RUN"), L("EMPTY")>>) : op \in Malformed}
    \cup {File(2, <<L("RUN"), L(op)>>) : op \in Malformed}
    \cup {File(3, <<L("RUN"), L("CREATE?")>>),
          File(2, <<L("RUN"), L("BARRIER"), L("CREATE?"), L("RUN")>>)}
=============================================================================
